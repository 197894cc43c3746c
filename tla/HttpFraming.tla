------------------------------ MODULE HttpFraming ------------------------------
(***************************************************************************)
(* http_parser.py, as connection.py uses it: bytes arrive in pieces of any *)
(* size, and after each the whole buffer is parsed again, until it holds a *)
(* complete message.                                                       *)
(*                                                                         *)
(* A buffer is a sequence of symbols: CR, LF, a byte of data, and, each    *)
(* taken for one byte, a start line, a header field, a chunk size and a    *)
(* chunk extension, without the line ends around them.  Numbers are read,  *)
(* names compared and values stripped by what these symbols say; a number  *)
(* may have a sign, which int() reads too.                                 *)
(***************************************************************************)
EXTENDS Integers, SequencesExt

CONSTANTS
  Texts,      \* what a symbol may say: a kind of byte or line, or a field's name
  Messages    \* descriptions of what clients and backends send

VARIABLES
  message,   \* what the peer sends: its description
  got        \* length of the buffer

vars == <<message, got>>

Symbol(text, value) == [text |-> text, value |-> value]

Symbols == [text : Texts, value : Int]

(* What may stand for a line: anything but a line end. *)
Tokens == {x \in Symbols : x.text \notin {"CR", "LF"}}

CRLF == <<Symbol("CR", 0), Symbol("LF", 0)>>   \* LINE_DELIM
BlankLine == CRLF \o CRLF                      \* HEADER_DELIM

(* What a header is looked up by; X-Forwarded-For counts its addresses. *)
Lower(name) ==
  CASE name = "Content-Length" -> "content-length"
    [] name = "X-Forwarded-For" -> "x-forwarded-for"
    [] name = "Transfer-Encoding" -> "transfer-encoding"
    [] OTHER -> name

-----------------------------------------------------------------------------
(* The grammar: what the peers mean, in symbols. *)

Each(s, Op(_)) == FlattenSeq([i \in DOMAIN s |-> Op(s[i])])

Line(symbol) == <<symbol>> \o CRLF

HeadOf(m) == Line(m.start) \o Each(m.fields, Line) \o CRLF

(* A chunk with its size line, and a wrong byte for CR if it is malformed. *)
Chunk(c) ==
  <<c.size>> \o c.extension \o CRLF \o c.data
    \o IF c.malformed THEN <<Symbol("data", 0), CRLF[2]>> ELSE CRLF

Whole(m) ==
  IF m.framing = "chunked"
  THEN HeadOf(m) \o Each(m.chunks, Chunk) \o Line(Symbol("size", 0))
         \o Each(m.trailers, Line) \o CRLF
  ELSE HeadOf(m) \o m.body

Malformed(m) ==
  \/ m.start.text = "not a request line"
  \/ \E i \in DOMAIN m.chunks : m.chunks[i].malformed \/ m.chunks[i].size.text # "size"

(* int() takes it, and HTTP has no such size. *)
NegativeSize(m) ==
  \E i \in DOMAIN m.chunks : m.chunks[i].size.text = "size" /\ m.chunks[i].size.value < 0

IsRequest(m) == m.start.text # "status line"

Text(m) == Whole(m) \o m.excess

Has(fields, name) == \E f \in Range(fields) : Lower(f.text) = name

Says(fields, name, value) ==
  \A f \in Range(fields) : Lower(f.text) = name => f.value = value

AtMost(fields, name, value) ==
  \A f \in Range(fields) : Lower(f.text) = name => f.value <= value

(* The size line of a chunk has its size, or no number, or a negative one.  *)
Chunks ==
  {c \in [size : Tokens, data : Seq(Symbols) \ {<< >>},
          extension : Seq({x \in Symbols : x.text = "extension"}), malformed : BOOLEAN] :
     c.size.text = "size" => c.size.value = Len(c.data) \/ c.size.value < 0}

(* A message's fields say how long it is: a body that has no Content-Length *)
(* is chunked, or ends with the connection, or is a request's and empty.  A *)
(* negative Content-Length is as none.                                      *)
IsMessage(m) ==
  /\ m.start \in Tokens
  /\ m.start.text \in {"request line", "not a request line", "status line"}
  /\ m.fields \in Seq(Tokens)
  /\ m.body \in Seq(Symbols)
  /\ m.chunks \in Seq(Chunks)
  /\ m.trailers \in Seq(Tokens)
  /\ m.excess \in Seq(Symbols)
  /\ \/ /\ m.framing = "length" /\ IsRequest(m) /\ m.chunks = << >>
        /\ \/ Says(m.fields, "content-length", Len(m.body)) /\ Has(m.fields, "content-length")
           \/ AtMost(m.fields, "content-length", 0) /\ m.body = << >>
     \/ /\ m.framing = "length" /\ ~IsRequest(m) /\ m.chunks = << >>
        /\ Says(m.fields, "content-length", Len(m.body))
        /\ Has(m.fields, "content-length")
        /\ ~Has(m.fields, "transfer-encoding")
     \/ /\ m.framing = "close" /\ ~IsRequest(m) /\ m.chunks = << >>
        /\ AtMost(m.fields, "content-length", -1)
        /\ ~Has(m.fields, "transfer-encoding")
     \/ /\ m.framing = "chunked" /\ ~IsRequest(m)
        /\ Says(m.fields, "transfer-encoding", 1)
        /\ Has(m.fields, "transfer-encoding")

ASSUME TextAssumption == {"CR", "LF", "data", "size", "X-Forwarded-For"} \subseteq Texts

ASSUME MessageAssumption == \A m \in Messages : IsMessage(m)

Buffer == SubSeq(Text(message), 1, got)

-----------------------------------------------------------------------------
IsAt(pattern, s, i) ==
  /\ i + Len(pattern) <= Len(s) + 1
  /\ SubSeq(s, i, i + Len(pattern) - 1) = pattern

(* find, of a pattern from a place on: its place, or 0. *)
Find(s, pattern, from) ==
  LET places == {i \in from..Len(s) : IsAt(pattern, s, i)}
  IN IF places = {} THEN 0 ELSE Min(places)

HeaderEnd(buf) == Find(buf, BlankLine, 1)

HeaderLength(buf) == HeaderEnd(buf) + Len(BlankLine) - 1

(* The fields of the header section, in order; the start line is not one.  *)
FieldLines(buf) ==
  LET lines[i \in 0..HeaderEnd(buf)] ==
        IF i <= 1 THEN << >>
        ELSE IF buf[i].text \in {"CR", "LF"} THEN lines[i - 1]
        ELSE Append(lines[i - 1], buf[i])
  IN lines[HeaderEnd(buf)]

(* A header line: assignment to a dict's key.  A line without a colon is   *)
(* passed over.                                                            *)
Put(dict, field) ==
  IF field.text = "no colon" THEN dict
  ELSE IF \E i \in DOMAIN dict : dict[i].text = field.text
  THEN [i \in DOMAIN dict |-> IF dict[i].text = field.text THEN field ELSE dict[i]]
  ELSE Append(dict, field)

Dict(fields) ==
  LET dict[i \in 0..Len(fields)] ==
        IF i = 0 THEN << >> ELSE Put(dict[i - 1], fields[i])
  IN dict[Len(fields)]

(* The place of the first field of a name, or 0. *)
First(fields, name) ==
  LET places == {i \in DOMAIN fields : Lower(fields[i].text) = name}
  IN IF places = {} THEN 0 ELSE Min(places)

CONTENT_LENGTH_ABSENT == -2

(* get_content_length, and the search of get_response_content_length. *)
ContentLength(fields, absent) ==
  LET i == First(fields, "content-length")
  IN IF i = 0 THEN absent ELSE fields[i].value

-----------------------------------------------------------------------------
(* Requests. *)

(* try_parse_request, up to req.headers. *)
Headers(buf) == Dict(FieldLines(buf))

(* total_needed, which a negative Content-Length takes below header_length. *)
Needed(buf) == HeaderLength(buf) + ContentLength(Headers(buf), 0)

(* buf[header_length:total_needed], where Python counts a negative end from *)
(* the end of the buffer.                                                  *)
Body(buf) ==
  SubSeq(buf, HeaderLength(buf) + 1, IF Needed(buf) < 0 THEN Len(buf) + Needed(buf) ELSE Needed(buf))

(* Mutant: the body is not waited for. *)
TryParseHeaders(buf) ==
  IF HeaderEnd(buf) = 0 \/ buf[1].text # "request line" THEN 0 ELSE Needed(buf)

(* try_parse_request: the length of the request, or 0. *)
TryParseRequest(buf) ==
  IF HeaderEnd(buf) = 0 \/ buf[1].text # "request line" \/ Len(buf) < Needed(buf)
  THEN 0 ELSE HeaderLength(buf) + Len(Body(buf))

(* inject_forwarded_for *)
InjectForwardedFor(headers) ==
  LET existing == First(headers, "x-forwarded-for")
  IN IF existing = 0 THEN Append(headers, Symbol("X-Forwarded-For", 1))
     ELSE [headers EXCEPT ![existing].value = @ + 1]

(* Mutant: the rest of the buffer is forwarded with the request. *)
SerialiseBuffer(buf) ==
  Line(buf[1]) \o Each(InjectForwardedFor(Headers(buf)), Line) \o CRLF
    \o SubSeq(buf, HeaderLength(buf) + 1, Len(buf))

(* serialise_request, of the request that was parsed. *)
SerialiseRequest(buf) ==
  Line(buf[1]) \o Each(InjectForwardedFor(Headers(buf)), Line) \o CRLF \o Body(buf)

-----------------------------------------------------------------------------
(* Responses. *)

(* The lines are read with the mapping that the header names; a list of    *)
(* codings is chunked if its symbol says so.                               *)
IsChunkedResponse(buf) ==
  LET i == First(FieldLines(buf), "transfer-encoding")
  IN i # 0 /\ FieldLines(buf)[i].value = 1

SizeLine(line) ==
  /\ line # << >> /\ line[1].text = "size"
  /\ Len(line) > 1 => line[2].text = "extension"

(* Mutants: an empty trailer is not thought of; it is all that there is.   *)
EndOfBlankLine(body, pos) ==
  IF Find(body, BlankLine, pos) = 0 THEN 0 ELSE Find(body, BlankLine, pos) + 3

EndOfEmptyTrailer(body, pos) ==
  IF IsAt(CRLF, body, pos) THEN pos + 1
  ELSE IF Find(body, CRLF, pos) # 0 THEN Find(body, CRLF, pos) + 1
  ELSE 0

(* What follows the last chunk: a blank line is sought first, the CRLF of  *)
(* an empty trailer only if there is none.                                 *)
EndOfTrailer(body, pos) ==
  LET blank == Find(body, BlankLine, pos)
  IN IF blank # 0 THEN blank + 3
     ELSE IF IsAt(CRLF, body, pos) THEN pos + 1
     ELSE 0

(* One round of try_consume_chunked_body's loop: the place of the line end *)
(* of the size line at pos, if there is one and it parses, or 0.           *)
SizeLineEnd(body, pos) ==
  LET end == Find(body, CRLF, pos)
  IN IF end = 0 \/ ~SizeLine(SubSeq(body, pos, end - 1)) THEN 0 ELSE end

(* Mutant: the loop waits for the line end behind the data. *)
NextChunkOrSame(body, pos) ==
  LET end == SizeLineEnd(body, pos)
      place == end + 2 + body[pos].value
  IN IF pos = 0 \/ end = 0 \/ body[pos].value = 0 THEN 0
     ELSE IF place < 1 \/ ~IsAt(CRLF, body, place) THEN pos
     ELSE place + 2

(* Where the round that begins at pos leads, or 0 if the loop returns, or  *)
(* has before (pos = 0).  A negative size leads backwards, and below the   *)
(* first byte Python counts from the end; but body[-2:0] is empty.         *)
NextChunk(body, pos) ==
  LET end == SizeLineEnd(body, pos)
      place == end + 2 + body[pos].value
      start == IF place > 0 THEN place ELSE Len(body) + place
  IN IF \/ pos = 0 \/ end = 0 \/ body[pos].value = 0
        \/ place = -1 \/ start < 1 \/ ~IsAt(CRLF, body, start)
     THEN 0 ELSE start + 2

(* Where each round begins, 0 after the loop has returned. *)
Rounds(body) ==
  LET at[i \in 0..(Len(body) + 1)] == IF i = 0 THEN 1 ELSE NextChunk(body, at[i - 1])
  IN at

(* After as many rounds as there are places some place has come again, and *)
(* the loop goes on for ever.                                              *)
Returns(body) == Rounds(body)[Len(body) + 1] = 0

(* What the loop returns in its last round, which begins at pos: that of   *)
(* the last chunk, or one that finds the body unfinished.                  *)
StopAt(body, pos) ==
  IF SizeLineEnd(body, pos) = 0 \/ body[pos].value # 0 THEN 0
  ELSE EndOfTrailer(body, SizeLineEnd(body, pos) + 2)

(* try_consume_chunked_body, when it returns. *)
TryConsumeChunkedBody(body) ==
  LET at == Rounds(body)
  IN IF ~Returns(body) THEN 0
     ELSE StopAt(body, at[CHOOSE i \in 0..Len(body) : at[i] # 0 /\ at[i + 1] = 0])

ResponseBody(buf) == SubSeq(buf, HeaderLength(buf) + 1, Len(buf))

(* handle_backend_readable, once there is data: the length to be relayed,  *)
(* or 0 while the response is not complete.                                *)
TryReadResponse(buf) ==
  LET framed == TryConsumeChunkedBody(ResponseBody(buf))
      length == ContentLength(FieldLines(buf), CONTENT_LENGTH_ABSENT)
  IN IF HeaderEnd(buf) = 0 THEN 0
     ELSE IF IsChunkedResponse(buf)
     THEN IF framed = 0 THEN 0 ELSE HeaderLength(buf) + framed
     ELSE IF length >= 0 /\ Len(ResponseBody(buf)) >= length THEN Len(buf)
     ELSE 0

-----------------------------------------------------------------------------
(* The length of the message found in the buffer, or 0 for None.           *)
Taken == IF IsRequest(message) THEN TryParseRequest(Buffer) ELSE TryReadResponse(Buffer)

(* The last read has not returned, and never will. *)
Hangs ==
  /\ ~IsRequest(message) /\ HeaderEnd(Buffer) # 0 /\ IsChunkedResponse(Buffer)
  /\ ~Returns(ResponseBody(Buffer))

Init == message \in Messages /\ got = 0

(* A read, of all there is or less, if nothing was found before. *)
Read ==
  /\ Taken = 0 /\ ~Hangs
  /\ got' \in (got + 1)..Len(Text(message))
  /\ UNCHANGED message

Next == Read

Spec == Init /\ [][Next]_vars

-----------------------------------------------------------------------------
(* No more is ever taken than there is. *)
TypeOK ==
  /\ got \in 0..Len(Text(message))
  /\ Taken \in 0..got

(* The scan of a chunked body, done anew after every read, comes to an end *)
(* with all the prefixes and all the contents of a body, malformed or not, *)
(* unless a size line in it has a negative number.  Then pos may go back   *)
(* (http_parser.py:231, 256) and the loop run for ever, which neither the  *)
(* docstring (http_parser.py:213-216) nor "malformed - treat as            *)
(* incomplete" (http_parser.py:233) thinks of.                             *)
HangsOnlyOnNegativeSize == Hangs => NegativeSize(message)

(* A message is found with its last byte and not before, wherever the      *)
(* reads cut it, also when its data look like framing; one with a bad      *)
(* start line, a size that does not parse or no line end after a chunk     *)
(* never (try_parse_request, handle_backend_readable,                      *)
(* try_consume_chunked_body).  Of negative sizes it says nothing: they may *)
(* be read past, too.                                                      *)
FoundWhenWhole ==
  ~NegativeSize(message) =>
    (Taken # 0 <=> ~Malformed(message) /\ message.framing # "close"
                     /\ got >= Len(Whole(message)))

(* A negative Content-Length of more than the headers' length. *)
Overdrawn(buf) == Needed(buf) < 0

(* The lengths that may be found. *)
MayBeFound(length) ==
  \/ length \in {0, Len(Whole(message))}
  \/ IsRequest(message) /\ Overdrawn(Buffer)
  \/ ~IsRequest(message) /\ message.framing = "length" /\ length = got
  \/ /\ message.framing = "chunked" /\ message.trailers = << >>
     /\ length > Len(Whole(message))
     /\ IsAt(BlankLine, Buffer, length - 3)

(* What is found is the message, to the byte; except that a response with  *)
(* Content-Length is relayed with what has come after it, that bytes after *)
(* a chunked one without trailers are taken for trailers if they hold a    *)
(* blank line, or begin with a line end (http_parser.py:240), and that a   *)
(* request's negative Content-Length may take what has come after it for   *)
(* the body (http_parser.py:95).                                           *)
FoundToTheByte == ~NegativeSize(message) => MayBeFound(Taken)

IsAddress(field) == Lower(field.text) = "x-forwarded-for"

(* What a list of lines says of each name at the last. *)
LastOfEach(fields) ==
  {fields[i] : i \in {i \in DOMAIN fields :
     /\ fields[i].text # "no colon"
     /\ \A j \in DOMAIN fields : j > i => fields[j].text # fields[i].text}}

(* The request that is forwarded, read in its turn, is one whole request   *)
(* with the same body and, for each header of the client's, its last       *)
(* value, whatever the client sent behind it; the client's address, in a   *)
(* new header or added to the first that there is, is the only change      *)
(* (serialise_request, inject_forwarded_for).  A Content-Length below minus *)
(* the headers' length is excepted.                                        *)
ForwardedIsTheRequest ==
  Taken # 0 /\ IsRequest(message) /\ ~Overdrawn(Buffer) =>
    LET forwarded == SerialiseRequest(Buffer)
        sent == Headers(Buffer)
        read == Headers(forwarded)
    IN /\ TryParseRequest(forwarded) = Len(forwarded)
       /\ Body(forwarded) = message.body
       /\ Range(sent) = LastOfEach(message.fields)
       /\ \E i \in DOMAIN read :
            /\ IsAddress(read[i])
            /\ \/ read = Append(sent, read[i]) /\ read[i].value = 1
                  /\ \A f \in Range(sent) : ~IsAddress(f)
               \/ read = [sent EXCEPT ![i].value = @ + 1]
=============================================================================

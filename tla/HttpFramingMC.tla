---------------------------- MODULE HttpFramingMC ----------------------------
EXTENDS HttpFraming

SomeTexts ==
  {"CR", "LF", "data", "size", "bad size", "extension", "request line", "not a request line",
   "status line", "no colon", "Host", "X-Forwarded-For", "x-forwarded-for", "Content-Length",
   "content-length", "Transfer-Encoding"}

Data == Symbol("data", 0)
Zero == Symbol("size", 0)   \* a byte that reads as the size of the last chunk
Field(name, value) == Symbol(name, value)

Up(S, n) == UNION {[1..k -> S] : k \in 0..n}

Message(start, fields, framing, chunks, trailers, body, excess) ==
  [start |-> start, fields |-> fields, framing |-> framing, chunks |-> chunks,
   trailers |-> trailers, body |-> body, excess |-> excess]

Start == {Symbol("request line", 0), Symbol("not a request line", 0)}

Others == {Field("no colon", 0), Field("Host", 1), Field("Host", 2),
           Field("X-Forwarded-For", 1), Field("x-forwarded-for", 2)}

Lengths(n) == {Field("Content-Length", n), Field("content-length", n)}

(* What int() reads and HTTP does not know: minus 1, and minus a few headers. *)
Negative == {Field("Content-Length", -1), Field("content-length", -15)}

(* Bodies and what follows them: data, a blank line, another request. *)
Bodies == Up({Data, CRLF[1], CRLF[2]}, 2) \cup {BlankLine}

Another == <<Symbol("request line", 0)>> \o BlankLine

SomeRequests ==
  {Message(s, f \o <<l>> \o g, "length", << >>, << >>, b, x) :
     s \in Start, f \in Up(Others, 1), g \in Up(Others, 1), l \in Lengths(0),
     b \in {<< >>}, x \in {<< >>, Another}}
  \cup
  {Message(Symbol("request line", 0), f \o <<l>> \o g, "length", << >>, << >>, b, x) :
     f \in Up(Others, 1), g \in Up(Others, 1), l \in Lengths(2),
     b \in {c \in Bodies : Len(c) = 2}, x \in {<< >>, Another}}
  \cup
  {Message(Symbol("request line", 0), f, "length", << >>, << >>, << >>, x) :
     f \in Up(Others, 3), x \in {<< >>, Another}}
  \cup
  {Message(Symbol("request line", 0), f \o <<l>>, "length", << >>, << >>, << >>, x) :
     f \in Up(Others, 1), l \in Negative, x \in {<< >>, Another, Another \o Another \o Another}}

ChunkOf(size, data, extension, malformed) ==
  [size |-> size, data |-> data, extension |-> extension, malformed |-> malformed]

Extensions == {<< >>, <<Symbol("extension", 0)>>}

SomeChunks ==
  {ChunkOf(Symbol("size", Len(d)), d, e, b) :
     d \in (Bodies \ {<< >>}) \cup {<<Zero>> \o BlankLine}, e \in Extensions, b \in BOOLEAN}

FewChunks == {c \in SomeChunks : Len(c.data) \in {1, 5}}

(* Sizes that do not parse, and negative ones: of some the scan reads past, *)
(* some lead back to where it was, and below the first byte.               *)
OddSizes == {Symbol("bad size", 1)} \cup {Symbol("size", -n) : n \in 1..16}

OddChunks == {ChunkOf(s, <<Data>>, e, FALSE) : s \in OddSizes, e \in Extensions}

Excess == {<< >>, <<Data>>, CRLF, BlankLine, <<Data>> \o BlankLine, <<Zero>> \o BlankLine}

Status == Symbol("status line", 0)

Chunked == Field("Transfer-Encoding", 1)

SomeResponses ==
  {Message(Status, <<Chunked>>, "chunked", c, t, << >>, x) :
     c \in Up(SomeChunks, 1) \cup Up(FewChunks, 2),
     t \in {<< >>, <<Field("Host", 1)>>}, x \in Excess}
  \cup
  {Message(Status, <<Chunked>>, "chunked", Append(c, o), << >>, << >>, x) :
     c \in {<< >>} \cup {<<d>> : d \in FewChunks}, o \in OddChunks, x \in {<< >>, BlankLine}}
  \cup
  {Message(Status, f, "chunked", << >>, << >>, << >>, << >>) :
     f \in {<<Field("Content-Length", 3), Chunked>>, <<Chunked, Field("content-length", 0)>>}}
  \cup
  {Message(Status, <<Field("Host", 1), l>>, "length", << >>, << >>, b, x) :
     b \in {c \in Bodies : Len(c) = 2}, l \in Lengths(2), x \in {<< >>, <<Data>>}}
  \cup
  {Message(Status, <<Field("Host", 1)>>, "close", << >>, << >>, b, << >>) : b \in Bodies}
  \cup
  {Message(Status, <<l>>, "close", << >>, << >>, b, << >>) : l \in Negative, b \in Bodies}

SomeMessages == SomeRequests \cup SomeResponses
==============================================================================

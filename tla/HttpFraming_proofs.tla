-------------------------- MODULE HttpFraming_proofs --------------------------
(***************************************************************************)
(* Theorems about HttpFraming for messages with any number of fields,      *)
(* chunks and trailers and bodies of any length, cut by reads of any size. *)
(*                                                                         *)
(* The state is so small that the invariant is: the buffer is a prefix of  *)
(* the message.  The rest is about the parser: what each function finds in *)
(* a prefix.  b goes on with t from a place (Follows) as far as b reaches, *)
(* so that one lemma for each part of the grammar covers the buffers that  *)
(* end before, in and behind it.                                           *)
(*                                                                         *)
(* What the parser computes step by step is a recursive function here; it  *)
(* is shown to exist and to have the values it should by induction over    *)
(* the set of the places where it has: a set of naturals has a least       *)
(* element.                                                                *)
(***************************************************************************)
EXTENDS HttpFraming, SequenceTheorems, WellFoundedInduction, TLAPS

-----------------------------------------------------------------------------
(* Least elements, induction over a set of naturals, and recursion.        *)
CR == Symbol("CR", 0)
LF == Symbol("LF", 0)

(* A set of naturals has a least element: there is nothing below it for ever.*)
LEMMA LeastOf ==
  ASSUME NEW S \in SUBSET Nat, S # {}
  PROVE  \E n \in S : \A m \in S : n <= m
<1> DEFINE R == {ss \in Nat \X Nat : ss[1] < ss[2]}
<1>1. R = OpToRel(<, Nat) BY DEF OpToRel
<1>2. IsWellFoundedOn(R, Nat) BY <1>1, NatLessThanWellFounded
<1>3. \E x \in S : \A y \in S : ~(<<y,x>> \in R)
  <2> HIDE DEF R
  <2> QED BY <1>2, WFMin
<1>4. ASSUME NEW x \in S, NEW y \in S, ~(<<y, x>> \in R) PROVE x <= y
  <2>1. x \in Nat /\ y \in Nat OBVIOUS
  <2>2. ~(y < x) BY <2>1, <1>4
  <2>. QED BY <2>1, <2>2
<1>. QED 
  <2> HIDE DEF R
  <2> QED BY <1>3, <1>4

(* Min, of the community modules, is that element.                         *)
LEMMA MinIs ==
  ASSUME NEW S \in SUBSET Nat, S # {}
  PROVE  Min(S) \in S /\ \A m \in S : Min(S) <= m
BY LeastOf DEF Min

(* Otherwise there would be a least natural that is not in the set.        *)
LEMMA Induction ==
  ASSUME NEW S \in SUBSET Nat, 0 \in S, \A n \in S : n+1 \in S
  PROVE S = Nat
<1> SUFFICES ASSUME Nat \ S # {} PROVE FALSE OBVIOUS
<1>1. PICK n \in Nat \ S : \A m \in Nat \ S : n <= m 
  <2> DEFINE T == Nat \ S
  <2>1. T \in SUBSET Nat /\ T # {} OBVIOUS
  <2> HIDE DEF T
  <2>2. PICK n \in T : \A m \in T : n <= m BY <2>1, LeastOf
  <2> QED BY <2>2 DEF T
<1>2. n - 1 \in S /\ n - 1 \in Nat BY <1>1
<1>3. (n - 1) + 1 \in S BY <1>2
<1> QED BY <1>3, <1>1

(* A piece of n elements.                                                  *)
LEMMA SubSeqAt ==
  ASSUME NEW D, NEW s \in Seq(D), NEW i \in Nat \ {0}, NEW n \in Nat, i + n <= Len(s) + 1
  PROVE  /\ SubSeq(s, i, i + n - 1) \in Seq(D) /\ Len(SubSeq(s, i, i + n - 1)) = n
         /\ \A k \in 1..n : SubSeq(s, i, i + n - 1)[k] = s[i + k - 1]
<1>1. /\ i + n - 1 \in Int
      /\ i + n - 1 <= Len(s) /\ 1 <= i
  OBVIOUS
<1>2. \A k \in i..(i+n-1) : s[k] \in D
  OBVIOUS
<1>3. SubSeq(s, i, i + n - 1) = [k \in 1..n |-> s[i + k - 1]]
   OBVIOUS
<1>4. \A k \in 1..n : s[i+k-1] \in D
  OBVIOUS
<1> QED BY <1>3, <1>4

Joined(D, c, s, t, m, n) ==
  /\ c \in Seq(D) /\ Len(c) = m + n
  /\ \A i \in 1..m : c[i] = s[i]
  /\ \A i \in 1..n : c[m + i] = t[i]

(* Concatenation, element by element.                                      *)
LEMMA ConcatIs ==
  ASSUME NEW D, NEW s \in Seq(D), NEW t \in Seq(D)
  PROVE  Joined(D, s \o t, s, t, Len(s), Len(t))
BY DEF Joined

(* The delimiters, written out.                                            *)
LEMMA LineEnds ==
  /\ CRLF = <<CR, LF>> /\ BlankLine = <<CR, LF, CR, LF>>
  /\ CR \in Symbols /\ LF \in Symbols /\ CR # LF
  /\ CR.text = "CR" /\ LF.text = "LF"
<1>1. CRLF = <<CR, LF>>
  BY DEF CRLF, CR, LF
<1>2. CR \in Symbols /\ LF \in Symbols
  <2>1. "CR" \in Texts /\ "LF" \in Texts BY TextAssumption
  <2>2. 0 \in Int OBVIOUS
  <2> QED BY <2>1, <2>2 DEF CR, LF, Symbol, Symbols
<1>3. BlankLine = <<CR, LF, CR, LF>>
  <2> DEFINE C == <<CR, LF>>
             B == <<CR, LF, CR, LF>>
  <2>1. C \in Seq(Symbols) /\ Len(C) = 2 /\ C[1] = CR /\ C[2] = LF BY <1>2
  <2>2. B \in Seq(Symbols) /\ Len(B) = 4 /\ B[1] = CR /\ B[2] = LF /\ B[3] = CR /\ B[4] = LF BY <1>2
  <2>3. C \o C \in Seq(Symbols) /\ Len(C \o C) = 4 BY <2>1
  <2>4. (C \o C)[1] = CR /\ (C \o C)[2] = LF /\ (C \o C)[3] = CR /\ (C \o C)[4] = LF
    <3> HIDE DEF C
    <3>1. Joined(Symbols, C \o C, C, C, 2, 2) BY <2>1, ConcatIs
    <3>2. 2 + 1 = 3 /\ 2 + 2 = 4 /\ 1 \in 1..2 /\ 2 \in 1..2 OBVIOUS
    <3> QED BY <2>1, <3>1, <3>2 DEF Joined
  <2>5. 1..4 = {1, 2, 3, 4} OBVIOUS
  <2>6. C \o C = B
    <3> HIDE DEF C, B
    <3>1. \A i \in 1..4 : (C \o C)[i] = B[i] BY <2>2, <2>4, <2>5
    <3> QED BY <2>2, <2>3, <3>1, SeqEqual
  <2> QED BY <1>1, <2>6 DEF BlankLine
<1>4. CR.text = "CR" /\ LF.text = "LF"
  BY DEF CR, LF, Symbol
<1> QED BY <1>1, <1>2, <1>3, <1>4

(* startswith, of the end of a line and of a header section.               *)
LEMMA IsAtCRLF ==
  ASSUME NEW s \in Seq(Symbols), NEW i \in Nat \ {0}
  PROVE IsAt(CRLF, s, i) <=> i + 1 <= Len(s) /\ s[i] = CR /\ s[i+1] = LF
<1>1. CASE i + 2 <= Len(s) + 1
  <2> DEFINE T == SubSeq(s, i, i + 2 - 1)
  <2>1. T \in Seq(Symbols) /\ Len(T) = 2 /\ \A k \in 1..2 : T[k] = s[i+k-1]
    BY <1>1, SubSeqAt
  <2>2. CRLF = <<CR, LF>> /\ CR \in Symbols /\ LF \in Symbols
    BY LineEnds
  <2>3. CRLF \in Seq(Symbols) /\ Len(CRLF) = 2 /\ CRLF[1] = CR /\ CRLF[2] = LF
    BY <2>2
  <2>4. T[1] = s[i] /\ T[2] = s[i+1]
    <3>1. i + 1 - 1 = i /\ i + 2 - 1 = i + 1
      OBVIOUS
    <3>2. T[1] = s[i + 1 - 1] /\ T[2] = s[i + 2 - 1]
      <4> HIDE DEF T
      <4> QED BY <2>1
    <3> QED BY <3>1, <3>2
  <2>5. T = CRLF <=> T[1] = CR /\ T[2] = LF
    <3> HIDE DEF T
    <3>1. T = CRLF <=> \A k \in 1..2 : T[k] = CRLF[k]
      BY <2>1, <2>3, SeqEqual
    <3>2. 1..2 = {1, 2} OBVIOUS
    <3> QED BY <3>1, <3>2, <2>3
  <2>6. IsAt(CRLF, s, i) <=> T = CRLF
    BY <1>1, <2>3 DEF IsAt
  <2> QED BY <2>4, <2>5, <2>6, <1>1
<1>2. CASE ~(i + 2 <= Len(s) + 1)
  <2>1. Len(CRLF) = 2 BY DEF CRLF
  <2> QED BY <1>2, <2>1 DEF IsAt
<1> QED BY <1>1, <1>2

(* The same for an empty line.                                             *)
LEMMA IsAtBlankLine ==
  ASSUME NEW s \in Seq(Symbols), NEW i \in Nat \ {0}
  PROVE IsAt(BlankLine, s, i) <=>
          /\ i + 3 <= Len(s) /\ s[i] = CR /\ s[i + 1] = LF
          /\ s[i + 2] = CR /\ s[i + 3] = LF
<1>1. CASE i + 4 <= Len(s) + 1
  <2> DEFINE T == SubSeq(s, i, i + 4 - 1)
  <2>1. T \in Seq(Symbols) /\ Len(T) = 4 /\ \A k \in 1..4 : T[k] = s[i+k-1]
    BY <1>1, SubSeqAt
  <2>2. BlankLine = <<CR, LF, CR, LF>> /\ CR \in Symbols /\ LF \in Symbols
    BY LineEnds
  <2>3. /\ BlankLine \in Seq(Symbols) /\ Len(BlankLine) = 4 
        /\ BlankLine[1] = CR /\ BlankLine[2] = LF /\ BlankLine[3] = CR /\ BlankLine[4] = LF
    BY <2>2
  <2>4. T[1] = s[i] /\ T[2] = s[i+1] /\ T[3] = s[i+2] /\ T[4] = s[i+3]
    <3>1. i + 1 - 1 = i /\ i + 2 - 1 = i + 1 /\ i + 3 - 1 = i + 2 /\ i + 4 - 1 = i + 3
      OBVIOUS
    <3>2. T[1] = s[i + 1 - 1] /\ T[2] = s[i + 2 - 1] /\ T[3] = s[i + 3 - 1] /\ T[4] = s[i + 4 - 1]
      <4> HIDE DEF T
      <4> QED BY <2>1
    <3> QED BY <3>1, <3>2
  <2>5. T = BlankLine <=> T[1] = CR /\ T[2] = LF /\ T[3] = CR /\ T[4] = LF
    <3> HIDE DEF T
    <3>1. T = BlankLine <=> \A k \in 1..4 : T[k] = BlankLine[k]
      BY <2>1, <2>3, SeqEqual
    <3>2. 1..4 = {1, 2, 3, 4} OBVIOUS
    <3> QED BY <3>1, <3>2, <2>3
  <2>6. IsAt(BlankLine, s, i) <=> T = BlankLine
    BY <1>1, <2>3 DEF IsAt
  <2>7. i + 3 <= Len(s) BY <1>1
  <2> QED
    <3> HIDE DEF T
    <3> QED BY <2>4, <2>5, <2>6, <2>7
<1>2. CASE ~(i + 4 <= Len(s) + 1)
  <2>1. Len(BlankLine) = 4 BY LineEnds
  <2> QED BY <1>2, <2>1 DEF IsAt
<1> QED BY <1>1, <1>2

(* Recursion. *)
Iterates(f, T, n, base, step) ==
  /\ f \in [0..n -> T]
  /\ f[0] = base
  /\ \A i \in 1..n : f[i] = step[i][f[i - 1]]

(* A function may be defined by what each value is made into.              *)
LEMMA RecursionExists ==
  ASSUME NEW T, NEW base \in T, NEW n \in Nat, NEW step \in [1..n -> [T -> T]]
  PROVE \E f : Iterates(f, T, n, base, step)
<1> DEFINE Upto(k, f) == f[0] = base /\ \A i \in 1..k : f[i] = step[i][f[i-1]]
           S == {k \in Nat : k <= n => \E f \in [0..k -> T] : Upto(k, f)}
<1>1. 0 \in S
  <2> DEFINE g == [i \in 0..0 |-> base]
  <2>1. g \in [0..0 -> T] OBVIOUS
  <2>2. g[0] = base /\ 0 \in Nat OBVIOUS
  <2>3. 1..0 = {} OBVIOUS
  <2> HIDE DEF g
  <2> QED BY <2>1, <2>2, <2>3
<1>2. ASSUME NEW k \in S PROVE k + 1 \in S
  <2> SUFFICES k + 1 <= n => \E f \in [0..(k+1) -> T] : Upto(k+1, f)
    <3> k \in Nat /\ k + 1 \in Nat OBVIOUS
    <3> HIDE DEF Upto
    <3> QED OBVIOUS
  <2> SUFFICES ASSUME k + 1 <= n PROVE \E f \in [0..(k+1) -> T] : Upto(k+1, f)
    OBVIOUS
  <2>1. k \in Nat /\ k + 1 \in 1..n OBVIOUS
  <2>2. PICK f \in [0..k -> T] : Upto(k, f) BY <2>1
  <2> DEFINE g == [i \in 0..(k+1) |-> IF i = k + 1 THEN step[k+1][f[k]] ELSE f[i]]
  <2>3. f[k] \in T /\ step[k+1] \in [T -> T] BY <2>1, <2>2
  <2>4. step[k+1][f[k]] \in T BY <2>3
  <2>5. g \in [0..(k+1) -> T] BY <2>1, <2>2, <2>4
  <2>6. g[0] = base BY <2>1, <2>2
  <2>7. ASSUME NEW i \in 1..(k+1) PROVE g[i] = step[i][g[i-1]]
    <3>1. CASE i = k + 1
      <4>1. g[i] = step[k+1][f[k]] /\ i - 1 = k /\ k \in 0..(k+1) /\ k # k + 1 BY <3>1, <2>1
      <4>2. g[i - 1] = f[k] BY <4>1
      <4> QED BY <4>1, <4>2, <3>1
    <3>2. CASE i # k + 1
      <4>1. i \in 1..k /\ i - 1 \in 0..k BY <3>2, <2>1
      <4>2. f[i] = step[i][f[i-1]] BY <4>1, <2>2
      <4>3. g[i] = f[i] /\ g[i-1] = f[i-1] BY <4>1, <3>2, <2>1
      <4> QED BY <4>2, <4>3
    <3> QED BY <3>1, <3>2
  <2> HIDE DEF g
  <2> QED BY <2>5, <2>6, <2>7
<1>3. S = Nat
  <2>1. S \in SUBSET Nat OBVIOUS
  <2> HIDE DEF S
  <2> QED BY <1>1, <1>2, <2>1, Induction
<1>4. n \in S BY <1>3
<1>5. \E f \in [0..n -> T] : Upto(n, f) BY <1>4
<1> QED BY <1>5 DEF Iterates

(* Induction over a set of naturals up to n.                               *)
LEMMA InductionTo ==
  ASSUME NEW n \in Nat, NEW S \in SUBSET (0..n), 0 \in S,
         \A k \in 0..(n - 1) : k \in S => k + 1 \in S
  PROVE  S = 0..n
<1> DEFINE R == S \cup {k \in Nat : k > n}
<1>1. R \in SUBSET Nat /\ 0 \in R
  <2>1. \A x \in 0..n : x \in Nat OBVIOUS
  <2> QED BY <2>1
<1>2. ASSUME NEW k \in R PROVE k + 1 \in R
  <2>1. CASE k \in S /\ k < n
    <3>1. k \in 0..(n - 1) BY <2>1
    <3> QED BY <3>1, <2>1
  <2>2. CASE k >= n
    <3>1. k + 1 \in Nat /\ k + 1 > n BY <2>2, <1>1
    <3> QED BY <3>1
  <2> QED BY <2>1, <2>2
<1>3. R = Nat
  <2> HIDE DEF R
  <2> QED BY <1>1, <1>2, Induction
<1>4. ASSUME NEW k \in 0..n PROVE k \in S
  <2>1. k \in R BY <1>3
  <2>2. ~(k > n) OBVIOUS
  <2> QED BY <2>1, <2>2
<1> QED BY <1>4

(* find gives the first place that fits.                                   *)
LEMMA FindAt ==
  ASSUME NEW s \in Seq(Symbols), NEW pattern, NEW from \in Nat \ {0},
         NEW i \in from..Len(s), IsAt(pattern, s, i),
         \A j \in from..(i - 1) : ~IsAt(pattern, s, j)
  PROVE  Find(s, pattern, from) = i
<1> DEFINE places == {j \in from..Len(s) : IsAt(pattern, s, j)}
<1>1. places \in SUBSET Nat /\ i \in places OBVIOUS
<1>2. Min(places) \in places /\ Min(places) <= i
  <2> HIDE DEF places
  <2> QED BY <1>1, MinIs
<1>3. ~(Min(places) < i)
  <2> SUFFICES ASSUME Min(places) < i PROVE FALSE OBVIOUS
  <2>1. Min(places) \in from..(i - 1) BY <1>2
  <2>2. IsAt(pattern, s, Min(places)) BY <1>2
  <2> QED BY <2>1, <2>2
<1>4. Min(places) \in Nat BY <1>1, <1>2
<1>5. Min(places) = i BY <1>2, <1>3, <1>4
<1>6. Find(s, pattern, from) = Min(places) BY <1>1 DEF Find
<1> QED BY <1>5, <1>6

(* Without a place that fits, find gives -1, here 0.                       *)
LEMMA FindNone ==
  ASSUME NEW s \in Seq(Symbols), NEW pattern, NEW from \in Nat \ {0},
         \A j \in from..Len(s) : ~IsAt(pattern, s, j)
  PROVE  Find(s, pattern, from) = 0
BY DEF Find

(* Anything else that it gives is such a place.                            *)
LEMMA FindIs ==
  ASSUME NEW s \in Seq(Symbols), NEW pattern, NEW from \in Nat \ {0}
  PROVE  \/ Find(s, pattern, from) = 0
         \/ /\ Find(s, pattern, from) \in from..Len(s)
            /\ IsAt(pattern, s, Find(s, pattern, from))
<1> DEFINE places == {j \in from..Len(s) : IsAt(pattern, s, j)}
<1>1. CASE places = {} BY <1>1 DEF Find
<1>2. CASE places # {}
  <2>1. places \in SUBSET Nat OBVIOUS
  <2>2. Min(places) \in places
    <3> HIDE DEF places
    <3> QED BY <1>2, <2>1, MinIs
  <2>3. Find(s, pattern, from) = Min(places) BY <1>2 DEF Find
  <2> QED BY <2>2, <2>3
<1> QED BY <1>1, <1>2

Concatenates(f, T, n, base, ss) ==
  /\ f \in [0..n -> T]
  /\ f[0] = base
  /\ \A i \in 1..n : f[i] = f[i - 1] \o ss[i]

(* The prefixes of a concatenation.                                        *)
LEMMA ConcatRecursion ==
  ASSUME NEW T, NEW n \in Nat, NEW base \in T, NEW ss,
         \A i \in 1..n : \A t \in T : t \o ss[i] \in T
  PROVE  \E f : Concatenates(f, T, n, base, ss)
<1> DEFINE step == [i \in 1..n |-> [t \in T |-> t \o ss[i]]]
<1>1. step \in [1..n -> [T -> T]] OBVIOUS
<1>2. PICK f : Iterates(f, T, n, base, step)
  <2> HIDE DEF step
  <2> QED BY <1>1, RecursionExists
<1>3. ASSUME NEW i \in 1..n PROVE f[i] = f[i-1] \o ss[i]
  <2>1. i - 1 \in 0..n OBVIOUS
  <2>2. f[i-1] \in T BY <1>2, <2>1 DEF Iterates
  <2>3. step[i][f[i-1]] = f[i-1] \o ss[i] BY <2>2
  <2> QED BY <1>2, <2>3 DEF Iterates
<1> QED BY <1>2, <1>3 DEF Iterates, Concatenates

(* FlattenSeq, of the community modules, is the last of them.              *)
LEMMA FlattenIs ==
  ASSUME NEW D, NEW ss \in Seq(Seq(D))
  PROVE  \E f : /\ Concatenates(f, Seq(D), Len(ss), << >>, ss)
               /\ FlattenSeq(ss) = f[Len(ss)]
<1> DEFINE n == Len(ss)
           T == Seq(D)
           base == << >>
<1>1. n \in Nat /\ << >> \in Seq(D) OBVIOUS
<1>2. \A i \in 1..n : \A t \in T : t \o ss[i] \in T
  <2>1. ASSUME NEW i \in 1..n, NEW t \in Seq(D) PROVE t \o ss[i] \in Seq(D)
    <3>1. ss[i] \in Seq(D) OBVIOUS
    <3> QED BY <3>1
  <2> QED BY <2>1
<1>0. PICK f : Concatenates(f, T, n, base, ss)
  <2>1. n \in Nat /\ base \in T BY <1>1
  <2> HIDE DEF n, T, base
  <2> QED BY <1>2, <2>1, ConcatRecursion
<1>3. f \in [0..n -> T] /\ f[0] = base BY <1>0 DEF Concatenates
<1>4. \A i \in 1..n : f[i] = f[i-1] \o ss[i] BY <1>0 DEF Concatenates
<1>5. CASE n = 0
  <2>1. ss = << >> BY <1>5
  <2>2. FlattenSeq(ss) = << >> BY <1>5, <2>1 DEF FlattenSeq
  <2> QED BY <1>0, <1>3, <1>5, <2>2
<1>6. CASE n # 0
  <2> DEFINE Flattened(g) == [i \in 1..n |-> IF i = 1 THEN ss[i] ELSE g[i-1] \o ss[i]]
             flatten == CHOOSE g : g = Flattened(g)
             h == [i \in 1..n |-> f[i]]
  <2>1. h = Flattened(h)
    <3>1. ASSUME NEW i \in 1..n PROVE h[i] = IF i = 1 THEN ss[i] ELSE h[i-1] \o ss[i]
      <4>1. CASE i = 1
        <5>1. ss[i] \in Seq(D) OBVIOUS
        <5>2. f[i] = << >> \o ss[i]
          <6>1. i - 1 = 0 BY <4>1
          <6> QED BY <1>3, <1>4, <6>1
        <5>3. << >> \o ss[i] = ss[i] BY <5>1
        <5> QED BY <4>1, <5>2, <5>3
      <4>2. CASE i # 1
        <5>1. i - 1 \in 1..n BY <4>2, <1>1
        <5> QED BY <5>1, <4>2, <1>4
      <4> QED BY <4>1, <4>2
    <3> QED BY <3>1
  <2>2. flatten = Flattened(flatten)
    <3> HIDE DEF Flattened, h
    <3> QED BY <2>1
  <2>3. FlattenSeq(ss) = flatten[n] BY <1>6 DEF FlattenSeq
  <2>4. ASSUME NEW i \in 1..n PROVE flatten[i] = IF i = 1 THEN ss[i] ELSE flatten[i-1] \o ss[i]
    <3>1. flatten[i] = Flattened(flatten)[i]
       <4> HIDE DEF flatten, Flattened
       <4> QED BY <2>2
    <3> HIDE DEF flatten
    <3> QED BY <3>1
  <2> HIDE DEF flatten, Flattened
  <2> DEFINE S == {i \in 0..n : i = 0 \/ flatten[i] = f[i]}
  <2>5. 0 \in S BY <1>1
  <2>6. ASSUME NEW k \in 0..(n-1), k \in S PROVE k + 1 \in S
    <3>1. k + 1 \in 1..n /\ (k + 1) - 1 = k BY <1>1
    <3>2. CASE k = 0
      <4>1. ss[1] \in Seq(D) BY <3>1, <3>2
      <4>2. << >> \o ss[1] = ss[1] BY <4>1
      <4>3. f[1] = << >> \o ss[1]
        <5>1. 1 \in 1..n /\ 1 - 1 = 0 BY <3>1, <3>2
        <5>2. f[1] = f[1 - 1] \o ss[1] BY <1>4, <5>1
        <5> QED BY <1>3, <5>1, <5>2
      <4>4. flatten[1] = ss[1] BY <2>4, <3>1, <3>2
      <4> QED BY <3>1, <3>2, <4>2, <4>3, <4>4
    <3>3. CASE k # 0
      <4>1. k + 1 # 1 BY <3>3
      <4>2. flatten[k+1] = flatten[k] \o ss[k+1] BY <2>4, <3>1, <4>1
      <4>3. f[k+1] = f[k] \o ss[k+1] BY <1>4, <3>1
      <4>4. flatten[k] = f[k] BY <2>6, <3>3
      <4>5. flatten[k+1] = f[k+1] BY <4>2, <4>3, <4>4
      <4> QED BY <3>1, <4>5
    <3> QED BY <3>2, <3>3
  <2>7. S = 0..n
    <3>1. S \in SUBSET (0..n) OBVIOUS
    <3> HIDE DEF S
    <3> QED BY <1>1, <2>5, <2>6, <3>1, InductionTo
  <2>8. n \in S
    <3>1. n \in 0..n BY <1>1
    <3> HIDE DEF S
    <3> QED BY <2>7, <3>1
  <2>9. flatten[n] = f[n] BY <2>8, <1>6
  <2> QED BY <1>0, <2>3, <2>9
<1> QED BY <1>5, <1>6

-----------------------------------------------------------------------------
(* Lines.                                                                  *)
(* A field is not mistaken for a line end.                                 *)
LEMMA TokenIsNoLineEnd ==
  ASSUME NEW x \in Tokens
  PROVE  x \in Symbols /\ x # CR /\ x # LF /\ x.text # "CR" /\ x.text # "LF"
BY LineEnds DEF Tokens

(* A line is its symbol and two for its end.                               *)
LEMMA LineIs ==
  ASSUME NEW x \in Symbols
  PROVE  /\ Line(x) \in Seq(Symbols) /\ Len(Line(x)) = 3
         /\ Line(x)[1] = x /\ Line(x)[2] = CR /\ Line(x)[3] = LF
<1> DEFINE a == <<x>>
           b == <<CR, LF>>
<1>1. a \in Seq(Symbols) /\ Len(a) = 1 /\ a[1] = x OBVIOUS
<1>2. b \in Seq(Symbols) /\ Len(b) = 2 /\ b[1] = CR /\ b[2] = LF BY LineEnds
<1>3. Line(x) = a \o b BY LineEnds DEF Line
<1> HIDE DEF a, b
<1>4. Joined(Symbols, a \o b, a, b, 1, 2) BY <1>1, <1>2, ConcatIs
<1>5. 1 + 1 = 2 /\ 1 + 2 = 3 /\ 1 \in 1..2 /\ 2 \in 1..2 /\ 1 \in 1..1 OBVIOUS
<1> QED BY <1>1, <1>2, <1>3, <1>4, <1>5 DEF Joined

(* The lines of a list of tokens, each of three symbols. *)
Ruled(l, s) ==
  /\ l \in Seq(Symbols) /\ Len(l) = 3 * Len(s)
  /\ \A k \in 1..Len(s) :
       l[3 * k - 2] = s[k] /\ l[3 * k - 1] = CR /\ l[3 * k] = LF

(* By induction over the prefixes of the concatenation.                    *)
LEMMA EachLineIs ==
  ASSUME NEW s \in Seq(Tokens)
  PROVE  Ruled(Each(s, Line), s)
<1> DEFINE n == Len(s)
           ss == [i \in DOMAIN s |-> Line(s[i])]
<1>1. n \in Nat /\ DOMAIN s = 1..n OBVIOUS
<1>2. \A i \in 1..n : s[i] \in Symbols BY TokenIsNoLineEnd
<1>3. ss \in Seq(Seq(Symbols)) /\ Len(ss) = n
  <2>1. \A i \in 1..n : Line(s[i]) \in Seq(Symbols) BY <1>2, LineIs
  <2> HIDE DEF n
  <2> QED BY <1>1, <2>1
<1>4. \A i \in 1..n : ss[i] = Line(s[i]) BY <1>1
<1>5. Each(s, Line) = FlattenSeq(ss) BY DEF Each
<1> HIDE DEF ss, n
<1>6. PICK f : Concatenates(f, Seq(Symbols), n, << >>, ss) /\ FlattenSeq(ss) = f[n]
  BY <1>3, FlattenIs
<1>7. f \in [0..n -> Seq(Symbols)] /\ f[0] = << >> BY <1>6 DEF Concatenates
<1>8. \A i \in 1..n : f[i] = f[i-1] \o Line(s[i]) BY <1>4, <1>6 DEF Concatenates
<1> DEFINE P(j) == /\ Len(f[j]) = 3 * j
                   /\ \A k \in 1..j : /\ f[j][3 * k - 2] = s[k] /\ f[j][3 * k - 1] = CR
                                     /\ f[j][3 * k] = LF
           S == {j \in 0..n : P(j)}
<1>9. 0 \in S BY <1>1, <1>7
<1>10. ASSUME NEW j \in 0..(n - 1), j \in S PROVE j + 1 \in S
  <2>1. j + 1 \in 1..n /\ (j + 1) - 1 = j /\ j \in 0..n /\ j + 1 \in 0..n BY <1>1
  <2>2. f[j + 1] = f[j] \o Line(s[j + 1]) BY <1>8, <2>1
  <2> DEFINE a == f[j]
             b == Line(s[j + 1])
  <2>3. a \in Seq(Symbols) /\ Len(a) = 3 * j BY <1>7, <1>10, <2>1
  <2>4. /\ b \in Seq(Symbols) /\ Len(b) = 3
        /\ b[1] = s[j + 1] /\ b[2] = CR /\ b[3] = LF BY <1>2, <2>1, LineIs
  <2>c. Joined(Symbols, a \o b, a, b, 3 * j, 3)
    <3> HIDE DEF a, b
    <3> QED BY <2>3, <2>4, ConcatIs
  <2>5. Len(f[j + 1]) = 3 * (j + 1)
    <3> HIDE DEF a, b
    <3>1. Len(a \o b) = 3 * j + 3 BY <2>c DEF Joined
    <3>2. 3 * j + 3 = 3 * (j + 1) BY <2>1
    <3> QED BY <2>2, <3>1, <3>2 DEF a, b
  <2>6. ASSUME NEW k \in 1..(j + 1)
        PROVE  /\ f[j + 1][3 * k - 2] = s[k] /\ f[j + 1][3 * k - 1] = CR
               /\ f[j + 1][3 * k] = LF
    <3>1. CASE k = j + 1
      <4>2. (a \o b)[3 * j + 1] = b[1] /\ (a \o b)[3 * j + 2] = b[2] /\ (a \o b)[3 * j + 3] = b[3]
        <5> HIDE DEF a, b
        <5>1. 1 \in 1..3 /\ 2 \in 1..3 /\ 3 \in 1..3 OBVIOUS
        <5> QED BY <2>c, <5>1 DEF Joined
      <4>3. 3 * k - 2 = 3 * j + 1 /\ 3 * k - 1 = 3 * j + 2 /\ 3 * k = 3 * j + 3
        BY <3>1, <2>1
      <4> QED BY <4>2, <4>3, <2>2, <2>4, <3>1
    <3>2. CASE k # j + 1
      <4>1. k \in 1..j BY <3>2, <2>1
      <4>3. 3 * k - 2 \in 1..(3 * j) /\ 3 * k - 1 \in 1..(3 * j) /\ 3 * k \in 1..(3 * j)
        BY <4>1, <2>1
      <4>4. /\ (a \o b)[3 * k - 2] = a[3 * k - 2] /\ (a \o b)[3 * k - 1] = a[3 * k - 1]
            /\ (a \o b)[3 * k] = a[3 * k]
        <5> HIDE DEF a, b
        <5> QED BY <2>c, <4>3 DEF Joined
      <4>5. a[3 * k - 2] = s[k] /\ a[3 * k - 1] = CR /\ a[3 * k] = LF
        BY <4>1, <1>10
      <4> QED BY <4>4, <4>5, <2>2
    <3> QED BY <3>1, <3>2
  <2>7. P(j + 1) BY <2>5, <2>6
  <2> HIDE DEF P
  <2> QED BY <2>1, <2>7
<1>11. S = 0..n
  <2>1. S \in SUBSET (0..n) OBVIOUS
  <2> HIDE DEF S
  <2> QED BY <1>1, <1>9, <1>10, <2>1, InductionTo
<1>12. P(n)
  <2>1. n \in 0..n BY <1>1
  <2> HIDE DEF P
  <2> QED BY <1>11, <2>1
<1>13. f[n] \in Seq(Symbols) BY <1>1, <1>7
<1> QED BY <1>5, <1>6, <1>12, <1>13 DEF Ruled, n

-----------------------------------------------------------------------------
(* Where the header section ends: a blank line is where the lines are over.*)
(* Every symbol is one of the three of its line.                           *)
LEMMA Thirds ==
  ASSUME NEW i \in Nat \ {0}
  PROVE  \E k \in Nat \ {0} : i = 3 * k - 2 \/ i = 3 * k - 1 \/ i = 3 * k
<1>1. (i + 2) \div 3 \in Nat \ {0} OBVIOUS
<1>2. \/ i = 3 * ((i + 2) \div 3) - 2 \/ i = 3 * ((i + 2) \div 3) - 1
      \/ i = 3 * ((i + 2) \div 3)
  OBVIOUS
<1> QED BY <1>1, <1>2

(* b goes on behind the o-th symbol, as far as it goes, with the lines s   *)
(* and an empty one.                                                       *)
GoesOn(b, o, s) ==
  /\ \A k \in 1..Len(s) :
       /\ o + 3 * k - 2 <= Len(b) => b[o + 3 * k - 2] = s[k]
       /\ o + 3 * k - 1 <= Len(b) => b[o + 3 * k - 1] = CR
       /\ o + 3 * k <= Len(b) => b[o + 3 * k] = LF
  /\ o + 3 * Len(s) + 1 <= Len(b) => b[o + 3 * Len(s) + 1] = CR
  /\ o + 3 * Len(s) + 2 <= Len(b) => b[o + 3 * Len(s) + 2] = LF

(* Within the lines there are no two line ends in a row.                   *)
LEMMA NoEarlierBlankLine ==
  ASSUME NEW b \in Seq(Symbols), NEW o \in Nat, NEW s \in Seq(Tokens), GoesOn(b, o, s),
         NEW j \in (o + 1)..(o + 3 * Len(s) - 2)
  PROVE  ~IsAt(BlankLine, b, j)
<1> DEFINE n == Len(s)
<1>0. n \in Nat /\ j \in Nat \ {0} /\ j - o \in Nat \ {0} /\ Len(b) \in Nat OBVIOUS
<1>1. PICK k \in Nat \ {0} :
        j - o = 3 * k - 2 \/ j - o = 3 * k - 1 \/ j - o = 3 * k
  BY <1>0, Thirds
<1>2. k \in 1..n BY <1>0, <1>1
<1> SUFFICES ASSUME IsAt(BlankLine, b, j) PROVE FALSE
  OBVIOUS
<1>3. j + 3 <= Len(b) /\ b[j] = CR /\ b[j + 2] = CR
  BY <1>0, IsAtBlankLine
<1>4. CASE j - o = 3 * k - 2
  <2>1. j = o + 3 * k - 2 /\ o + 3 * k - 2 <= Len(b) BY <1>0, <1>2, <1>3, <1>4
  <2>2. b[j] = s[k] BY <1>2, <2>1 DEF GoesOn
  <2>3. s[k] \in Tokens BY <1>2
  <2> QED BY <1>3, <2>2, <2>3, TokenIsNoLineEnd
<1>5. CASE j - o = 3 * k - 1
  <2>1. /\ k + 1 \in 1..n /\ j + 2 = o + 3 * (k + 1) - 2
        /\ o + 3 * (k + 1) - 2 <= Len(b)
    BY <1>0, <1>2, <1>3, <1>5
  <2>2. b[j + 2] = s[k + 1] BY <2>1 DEF GoesOn
  <2>3. s[k + 1] \in Tokens BY <2>1
  <2> QED BY <1>3, <2>2, <2>3, TokenIsNoLineEnd
<1>6. CASE j - o = 3 * k
  <2>1. j = o + 3 * k /\ o + 3 * k <= Len(b) BY <1>0, <1>2, <1>3, <1>6
  <2>2. b[j] = LF BY <1>2, <2>1 DEF GoesOn
  <2> QED BY <1>3, <2>2, LineEnds
<1> QED BY <1>1, <1>4, <1>5, <1>6

(* find gives the place where the last line ends, once it is all there.    *)
LEMMA BlankLineIsLast ==
  ASSUME NEW b \in Seq(Symbols), NEW o \in Nat, NEW s \in Seq(Tokens), s # << >>,
         GoesOn(b, o, s)
  PROVE  Find(b, BlankLine, o + 1) =
           IF o + 3 * Len(s) + 2 <= Len(b) THEN o + 3 * Len(s) - 1 ELSE 0
<1> DEFINE n == Len(s)
<1>0. n \in Nat \ {0} /\ o + 1 \in Nat \ {0} /\ Len(b) \in Nat OBVIOUS
<1>1. CASE o + 3 * n + 2 <= Len(b)
  <2> DEFINE i == o + 3 * n - 1
  <2>1. /\ i \in (o + 1)..Len(b) /\ i \in Nat \ {0} /\ i + 3 <= Len(b)
        /\ n \in 1..n /\ i = o + 3 * n - 1 /\ i + 1 = o + 3 * n
        /\ i + 2 = o + 3 * n + 1 /\ i + 3 = o + 3 * n + 2
        /\ i - 1 = o + 3 * n - 2
    BY <1>0, <1>1
  <2> HIDE DEF i
  <2>2. b[i] = CR /\ b[i + 1] = LF
    <3>1. o + 3 * n - 1 <= Len(b) /\ o + 3 * n <= Len(b) BY <1>0, <1>1
    <3>2. b[o + 3 * n - 1] = CR /\ b[o + 3 * n] = LF BY <2>1, <3>1 DEF GoesOn
    <3> QED BY <2>1, <3>2
  <2>3. b[i + 2] = CR /\ b[i + 3] = LF
    <3>1. o + 3 * n + 1 <= Len(b) /\ o + 3 * n + 2 <= Len(b) BY <1>0, <1>1
    <3>2. b[o + 3 * n + 1] = CR /\ b[o + 3 * n + 2] = LF BY <3>1 DEF GoesOn
    <3> QED BY <2>1, <3>2
  <2>4. IsAt(BlankLine, b, i) BY <2>1, <2>2, <2>3, IsAtBlankLine
  <2>5. \A j \in (o + 1)..(i - 1) : ~IsAt(BlankLine, b, j)
    BY <2>1, NoEarlierBlankLine
  <2>6. Find(b, BlankLine, o + 1) = i BY <1>0, <2>1, <2>4, <2>5, FindAt
  <2> QED BY <1>1, <2>1, <2>6
<1>2. CASE ~(o + 3 * n + 2 <= Len(b))
  <2>1. ASSUME NEW j \in (o + 1)..Len(b) PROVE ~IsAt(BlankLine, b, j)
    <3>1. CASE j \in (o + 1)..(o + 3 * n - 2) BY <3>1, NoEarlierBlankLine
    <3>2. CASE j \notin (o + 1)..(o + 3 * n - 2)
      <4>1. j \in Nat \ {0} /\ ~(j + 3 <= Len(b)) BY <1>0, <1>2, <3>2
      <4> QED BY <4>1, IsAtBlankLine
    <3> QED BY <3>1, <3>2
  <2>2. Find(b, BlankLine, o + 1) = 0 BY <1>0, <2>1, FindNone
  <2> QED BY <1>2, <2>2
<1> QED BY <1>1, <1>2

(* A prefix and the next element are the next prefix.                      *)
LEMMA PrefixGrows ==
  ASSUME NEW D, NEW s \in Seq(D), NEW k \in 0..(Len(s) - 1)
  PROVE  Append(SubSeq(s, 1, k), s[k + 1]) = SubSeq(s, 1, k + 1)
<1> DEFINE a == SubSeq(s, 1, k)
           c == SubSeq(s, 1, k + 1)
<1>1. k \in Nat /\ k + 1 \in 1..Len(s) /\ Len(s) \in Nat OBVIOUS
<1>2. a \in Seq(D) /\ Len(a) = k /\ \A i \in 1..k : a[i] = s[i]
  BY <1>1
<1>3. c \in Seq(D) /\ Len(c) = k + 1 /\ \A i \in 1..(k + 1) : c[i] = s[i]
  BY <1>1
<1>4. s[k + 1] \in D BY <1>1
<1> HIDE DEF a, c
<1>5. Append(a, s[k + 1]) \in Seq(D) /\ Len(Append(a, s[k + 1])) = k + 1
  BY <1>1, <1>2, <1>4
<1>6. ASSUME NEW i \in 1..(k + 1) PROVE Append(a, s[k + 1])[i] = c[i]
  <2>1. CASE i = k + 1 BY <1>1, <1>2, <1>3, <1>4, <2>1
  <2>2. CASE i # k + 1
    <3>1. i \in 1..k BY <1>1, <2>2
    <3> QED BY <1>1, <1>2, <1>3, <1>4, <3>1
  <2> QED BY <2>1, <2>2
<1>7. Append(a, s[k + 1]) = c BY <1>3, <1>5, <1>6, SeqEqual
<1> QED BY <1>7 DEF a, c

(* The first prefix and the last.                                          *)
LEMMA WholePrefix ==
  ASSUME NEW D, NEW s \in Seq(D)
  PROVE  SubSeq(s, 1, 0) = << >> /\ SubSeq(s, 1, Len(s)) = s
BY SubSeqFull, SubSeqEmpty

(* The lines of a header section: a start line and its fields. *)
LinesOf(start, fields) == <<start>> \o fields

(* The start line, then the fields.                                        *)
LEMMA LinesOfIs ==
  ASSUME NEW start \in Tokens, NEW fields \in Seq(Tokens)
  PROVE  /\ LinesOf(start, fields) \in Seq(Tokens) /\ LinesOf(start, fields) # << >>
         /\ Len(LinesOf(start, fields)) = Len(fields) + 1
         /\ LinesOf(start, fields)[1] = start
         /\ \A k \in 1..Len(fields) : LinesOf(start, fields)[k + 1] = fields[k]
<1>1. <<start>> \in Seq(Tokens) /\ Len(<<start>>) = 1 /\ <<start>>[1] = start OBVIOUS
<1> DEFINE a == <<start>>
<1>2. a \in Seq(Tokens) /\ Len(a) = 1 /\ a[1] = start BY <1>1
<1> HIDE DEF a
<1>c. Joined(Tokens, a \o fields, a, fields, 1, Len(fields)) BY <1>2, ConcatIs
<1>3. /\ a \o fields \in Seq(Tokens) /\ Len(a \o fields) = Len(fields) + 1
  BY <1>c DEF Joined
<1>4. (a \o fields)[1] = start
  <2>1. 1 \in 1..1 OBVIOUS
  <2> QED BY <1>2, <1>c, <2>1 DEF Joined
<1>5. ASSUME NEW k \in 1..Len(fields) PROVE (a \o fields)[k + 1] = fields[k]
  <2>1. k + 1 = 1 + k OBVIOUS
  <2> QED BY <1>c, <2>1 DEF Joined
<1>6. a \o fields # << >> BY <1>3
<1> QED BY <1>3, <1>4, <1>5, <1>6 DEF LinesOf, a

(* The end of the header section is found with its last byte.              *)
LEMMA HeaderEndIs ==
  ASSUME NEW b \in Seq(Symbols), NEW start \in Tokens, NEW fields \in Seq(Tokens),
         GoesOn(b, 0, LinesOf(start, fields))
  PROVE  IF 3 * Len(fields) + 5 <= Len(b)
         THEN /\ HeaderEnd(b) = 3 * Len(fields) + 2
              /\ HeaderLength(b) = 3 * Len(fields) + 5
              /\ b[1] = start
         ELSE HeaderEnd(b) = 0
<1> DEFINE s == LinesOf(start, fields)
           n == Len(fields)
<1>1. n \in Nat /\ Len(b) \in Nat /\ 0 \in Nat /\ 0 + 1 = 1 OBVIOUS
<1>2. s \in Seq(Tokens) /\ s # << >> /\ Len(s) = n + 1 /\ s[1] = start BY LinesOfIs
<1>3. Len(BlankLine) = 4 BY LineEnds
<1> HIDE DEF s
<1>4. HeaderEnd(b) = IF 0 + 3 * (n + 1) + 2 <= Len(b) THEN 0 + 3 * (n + 1) - 1 ELSE 0
  <2>1. GoesOn(b, 0, s) BY DEF s
  <2>2. Find(b, BlankLine, 0 + 1)
          = IF 0 + 3 * Len(s) + 2 <= Len(b) THEN 0 + 3 * Len(s) - 1 ELSE 0
    BY <1>1, <1>2, <2>1, BlankLineIsLast
  <2> QED BY <1>1, <1>2, <2>2 DEF HeaderEnd
<1>5. 0 + 3 * (n + 1) + 2 = 3 * n + 5 /\ 0 + 3 * (n + 1) - 1 = 3 * n + 2 BY <1>1
<1>6. CASE 3 * n + 5 <= Len(b)
  <2>1. HeaderEnd(b) = 3 * n + 2 BY <1>4, <1>5, <1>6
  <2>2. HeaderLength(b) = 3 * n + 5 BY <1>1, <1>3, <2>1 DEF HeaderLength
  <2>3. 1 \in 1..Len(s) /\ 0 + 3 * 1 - 2 = 1 /\ 1 <= Len(b) BY <1>1, <1>2, <1>6
  <2>4. b[0 + 3 * 1 - 2] = s[1] BY <2>3 DEF GoesOn, s
  <2> QED BY <1>2, <1>6, <2>1, <2>2, <2>3, <2>4
<1>7. CASE ~(3 * n + 5 <= Len(b))
  BY <1>4, <1>5, <1>7
<1> QED BY <1>6, <1>7

-----------------------------------------------------------------------------
(* try_parse_request reads the fields that were sent.                      *)
(* The loop over the lines takes each field once, in order.                *)
LEMMA FieldLinesAre ==
  ASSUME NEW b \in Seq(Symbols), NEW start \in Tokens, NEW fields \in Seq(Tokens),
         GoesOn(b, 0, LinesOf(start, fields)), 3 * Len(fields) + 5 <= Len(b)
  PROVE  FieldLines(b) = fields
<1> DEFINE n == Len(fields)
           e == 3 * n + 2
           T == Seq(Symbols)
           base == << >>
           Pass(i, t) == IF i <= 1 THEN << >>
                         ELSE IF b[i].text \in {"CR", "LF"} THEN t ELSE Append(t, b[i])
           step == [i \in 1..e |-> [t \in T |-> Pass(i, t)]]
<1>0. n \in Nat /\ e \in Nat /\ Len(b) \in Nat /\ e + 3 <= Len(b) OBVIOUS
<1>1. HeaderEnd(b) = e BY HeaderEndIs
<1>2. \E g : Iterates(g, T, e, base, step)
  <2>1. ASSUME NEW i \in 1..e, NEW t \in T PROVE Pass(i, t) \in T
    <3>1. b[i] \in Symbols BY <1>0
    <3> QED BY <3>1
  <2>2. step \in [1..e -> [T -> T]]
    <3> HIDE DEF T, Pass, e
    <3> QED BY <2>1
  <2>3. base \in T OBVIOUS
  <2> HIDE DEF step, T, e, base
  <2> QED BY <1>0, <2>2, <2>3, RecursionExists
<1> DEFINE Lines(g) == [i \in 0..e |-> IF i <= 1 THEN << >>
                                      ELSE IF b[i].text \in {"CR", "LF"} THEN g[i - 1]
                                      ELSE Append(g[i - 1], b[i])]
           lines == CHOOSE g : g = Lines(g)
<1>3. lines = Lines(lines)
  <2>1. PICK g : Iterates(g, T, e, base, step) BY <1>2
  <2>2. g = Lines(g)
    <3>1. ASSUME NEW i \in 0..e PROVE g[i] = Lines(g)[i]
      <4>1. CASE i = 0 BY <2>1, <4>1 DEF Iterates
      <4>2. CASE i # 0
        <5>1. i \in 1..e /\ i - 1 \in 0..e BY <4>2, <1>0
        <5>2. g[i - 1] \in T
          <6> HIDE DEF T, step, base, e
          <6> QED BY <2>1, <5>1 DEF Iterates
        <5>3. step[i][g[i - 1]] = Pass(i, g[i - 1])
          <6> HIDE DEF T, Pass, e
          <6> QED BY <5>1, <5>2
        <5>4. g[i] = step[i][g[i - 1]]
          <6> HIDE DEF T, step, base, e
          <6> QED BY <2>1, <5>1 DEF Iterates
        <5> QED BY <5>3, <5>4
      <4> QED BY <4>1, <4>2
    <3>2. DOMAIN g = 0..e /\ g = [i \in 0..e |-> g[i]]
      <4> HIDE DEF T, step, base, e
      <4> QED BY <2>1 DEF Iterates
    <3> QED BY <3>1, <3>2
  <2> HIDE DEF Lines
  <2> QED BY <2>2
<1>4. FieldLines(b) = lines[e] BY <1>1 DEF FieldLines
<1>5. ASSUME NEW i \in 0..e
      PROVE  lines[i] = IF i <= 1 THEN << >>
                        ELSE IF b[i].text \in {"CR", "LF"} THEN lines[i - 1]
                        ELSE Append(lines[i - 1], b[i])
  <2>1. lines[i] = Lines(lines)[i]
    <3> HIDE DEF lines, Lines
    <3> QED BY <1>3
  <2> HIDE DEF lines, e
  <2> QED BY <2>1
<1> HIDE DEF lines
<1>6. ASSUME NEW k \in 0..n
      PROVE  /\ b[3 * k + 2].text = "CR" /\ 3 * k + 2 \in 0..e
             /\ k < n => /\ b[3 * k + 3].text = "LF" /\ 3 * k + 3 \in 0..e
                         /\ b[3 * k + 4] = fields[k + 1] /\ 3 * k + 4 \in 0..e
  <2> DEFINE s == LinesOf(start, fields)
  <2>1. /\ s \in Seq(Tokens) /\ Len(s) = n + 1 /\ GoesOn(b, 0, s)
        /\ \A i \in 1..n : s[i + 1] = fields[i]
    BY LinesOfIs
  <2> HIDE DEF s
  <2>2. 3 * k + 2 \in 0..e BY <1>0
  <2>3. b[3 * k + 2] = CR
    <3>1. k + 1 \in 1..Len(s) /\ 0 + 3 * (k + 1) - 1 = 3 * k + 2 /\ 3 * k + 2 <= Len(b)
      BY <1>0, <2>1
    <3> QED BY <2>1, <3>1 DEF GoesOn
  <2>4. ASSUME k < n PROVE b[3 * k + 3] = LF /\ b[3 * k + 4] = s[k + 2]
    <3>1. /\ k + 1 \in 1..Len(s) /\ 0 + 3 * (k + 1) = 3 * k + 3 /\ 3 * k + 3 <= Len(b)
          /\ k + 2 \in 1..Len(s) /\ 0 + 3 * (k + 2) - 2 = 3 * k + 4 /\ 3 * k + 4 <= Len(b)
      BY <1>0, <2>1, <2>4
    <3> QED BY <2>1, <3>1 DEF GoesOn
  <2>5. ASSUME k < n PROVE s[k + 2] = fields[k + 1] /\ 3 * k + 3 \in 0..e /\ 3 * k + 4 \in 0..e
    <3>1. k + 1 \in 1..n /\ (k + 1) + 1 = k + 2 /\ 3 * k + 3 \in 0..e /\ 3 * k + 4 \in 0..e
      BY <1>0, <2>5
    <3> QED BY <2>1, <3>1
  <2> QED BY <2>2, <2>3, <2>4, <2>5, LineEnds
<1> DEFINE S == {k \in 0..n : lines[3 * k + 2] = SubSeq(fields, 1, k)}
<1>7. 0 \in S
  <2>1. 3 * 0 + 2 = 2 /\ 2 - 1 = 1 /\ 0 \in 0..n /\ 1 \in 0..e /\ 2 \in 0..e /\ ~(2 <= 1) /\ 1 <= 1
    BY <1>0
  <2>2. lines[1] = << >> BY <1>5, <2>1
  <2>3. b[2].text = "CR" BY <1>6, <2>1
  <2>4. lines[2] = lines[1] BY <1>5, <2>1, <2>3
  <2> QED BY <2>1, <2>2, <2>4, WholePrefix
<1>8. ASSUME NEW k \in 0..(n - 1), k \in S PROVE k + 1 \in S
  <2>1. /\ k \in 0..n /\ k < n /\ k + 1 \in 0..n /\ 3 * (k + 1) + 2 = 3 * k + 5
        /\ (3 * k + 3) - 1 = 3 * k + 2 /\ (3 * k + 4) - 1 = 3 * k + 3
        /\ (3 * k + 5) - 1 = 3 * k + 4
        /\ ~(3 * k + 3 <= 1) /\ ~(3 * k + 4 <= 1) /\ ~(3 * k + 5 <= 1)
        /\ k + 1 \in 1..n
    BY <1>0
  <2>2. lines[3 * k + 3] = lines[3 * k + 2]
    <3>1. 3 * k + 3 \in 0..e /\ b[3 * k + 3].text = "LF" BY <1>6, <2>1
    <3> QED BY <1>5, <2>1, <3>1
  <2>3. lines[3 * k + 4] = Append(lines[3 * k + 3], fields[k + 1])
    <3>1. 3 * k + 4 \in 0..e /\ b[3 * k + 4] = fields[k + 1] BY <1>6, <2>1
    <3>2. fields[k + 1] \in Tokens BY <2>1
    <3>3. b[3 * k + 4].text \notin {"CR", "LF"} BY <3>1, <3>2, TokenIsNoLineEnd
    <3> QED BY <1>5, <2>1, <3>1, <3>3
  <2>4. lines[3 * k + 5] = lines[3 * k + 4]
    <3>1. 3 * k + 5 \in 0..e /\ b[3 * k + 5].text = "CR" BY <1>6, <2>1
    <3> QED BY <1>5, <2>1, <3>1
  <2>5. lines[3 * k + 2] = SubSeq(fields, 1, k) BY <1>8
  <2>6. Append(SubSeq(fields, 1, k), fields[k + 1]) = SubSeq(fields, 1, k + 1)
    BY PrefixGrows
  <2>7. lines[3 * (k + 1) + 2] = SubSeq(fields, 1, k + 1)
    BY <2>1, <2>2, <2>3, <2>4, <2>5, <2>6
  <2> QED BY <2>1, <2>7
<1>9. S = 0..n
  <2>1. S \in SUBSET (0..n) OBVIOUS
  <2> HIDE DEF S
  <2> QED BY <1>0, <1>7, <1>8, <2>1, InductionTo
<1>10. lines[e] = SubSeq(fields, 1, n)
  <2>1. n \in 0..n BY <1>0
  <2>2. n \in S
    <3> HIDE DEF S
    <3> QED BY <1>9, <2>1
  <2> QED BY <2>2
<1> QED BY <1>4, <1>10, WholePrefix

-----------------------------------------------------------------------------
(* The dict of headers.                                                    *)
(* Assignment to a key of a dict makes a dict,                             *)
LEMMA PutIsTyped ==
  ASSUME NEW d \in Seq(Tokens), NEW f \in Tokens
  PROVE  Put(d, f) \in Seq(Tokens)
<1>0. CASE f.text = "no colon" BY <1>0 DEF Put
<1>1. CASE f.text # "no colon" /\ \E i \in DOMAIN d : d[i].text = f.text
  <2> DEFINE p == [i \in DOMAIN d |-> IF d[i].text = f.text THEN f ELSE d[i]]
  <2>1. DOMAIN d = 1..Len(d) /\ Len(d) \in Nat OBVIOUS
  <2>2. \A i \in 1..Len(d) : (IF d[i].text = f.text THEN f ELSE d[i]) \in Tokens
    BY <2>1
  <2>3. p \in Seq(Tokens) BY <2>1, <2>2
  <2> QED BY <1>1, <2>3 DEF Put
<1>2. CASE f.text # "no colon" /\ ~\E i \in DOMAIN d : d[i].text = f.text
  <2>1. Put(d, f) = Append(d, f) BY <1>2 DEF Put
  <2>2. Append(d, f) \in Seq(Tokens) OBVIOUS
  <2> QED BY <2>1, <2>2
<1> QED BY <1>0, <1>1, <1>2

(* No two entries have the same name, and all have one. *)
IsDict(d) ==
  /\ \A i, j \in DOMAIN d : d[i].text = d[j].text => i = j
  /\ \A i \in DOMAIN d : d[i].text # "no colon"

HasColon(f) == f.text # "no colon"

(* What a line adds to a dict. *)
Entry(f) == IF HasColon(f) THEN {f} ELSE {}

(* in which no name is twice, and the field is there for its name.         *)
LEMMA PutIs ==
  ASSUME NEW d \in Seq(Tokens), IsDict(d), NEW f \in Tokens
  PROVE  /\ IsDict(Put(d, f))
         /\ Range(Put(d, f)) = {x \in Range(d) : x.text # f.text} \cup Entry(f)
<1>0. DOMAIN d = 1..Len(d) /\ Len(d) \in Nat OBVIOUS
<1>3. CASE f.text = "no colon"
  <2>1. Put(d, f) = d /\ Entry(f) = {} BY <1>3 DEF Put, Entry, HasColon
  <2>2. \A x \in Range(d) : x.text # f.text BY <1>3 DEF IsDict, Range
  <2> QED BY <2>1, <2>2
<1>e. ASSUME f.text # "no colon" PROVE Entry(f) = {f} BY <1>e DEF Entry, HasColon
<1>1. CASE f.text # "no colon" /\ \E i \in DOMAIN d : d[i].text = f.text
  <2> DEFINE p == [i \in DOMAIN d |-> IF d[i].text = f.text THEN f ELSE d[i]]
  <2>1. Put(d, f) = p BY <1>1 DEF Put
  <2>2. DOMAIN p = DOMAIN d /\ \A i \in DOMAIN d : p[i].text = d[i].text
    OBVIOUS
  <2>3. \A i \in DOMAIN d : p[i] = IF d[i].text = f.text THEN f ELSE d[i]
    OBVIOUS
  <2> HIDE DEF p
  <2>4. IsDict(p)
    <3>1. \A i \in DOMAIN p : p[i].text # "no colon" BY <2>2 DEF IsDict
    <3> QED BY <2>2, <3>1 DEF IsDict
  <2>5. Range(p) = {x \in Range(d) : x.text # f.text} \cup {f}
    <3>1. ASSUME NEW x \in Range(p) PROVE x \in {y \in Range(d) : y.text # f.text} \cup {f}
      <4>1. PICK i \in DOMAIN d : x = p[i] BY <2>2 DEF Range
      <4> QED BY <4>1, <2>3 DEF Range
    <3>2. f \in Range(p) BY <1>1, <2>2, <2>3 DEF Range
    <3>3. ASSUME NEW x \in Range(d), x.text # f.text PROVE x \in Range(p)
      <4>1. PICK i \in DOMAIN d : x = d[i] BY DEF Range
      <4>2. p[i] = x BY <3>3, <4>1, <2>3
      <4> QED BY <4>1, <4>2, <2>2 DEF Range
    <3> QED BY <3>1, <3>2, <3>3
  <2> QED BY <1>e, <2>1, <2>4, <2>5, <1>1
<1>2. CASE f.text # "no colon" /\ \A i \in DOMAIN d : d[i].text # f.text
  <2> DEFINE p == Append(d, f)
             n == Len(d)
  <2>1. Put(d, f) = p BY <1>2 DEF Put
  <2>2. DOMAIN p = 1..(n + 1) /\ p[n + 1] = f /\ \A i \in 1..n : p[i] = d[i]
    OBVIOUS
  <2>3. \A i \in 1..(n + 1) : i \in 1..n \/ i = n + 1 BY <1>0
  <2>3a. n + 1 \in 1..(n + 1) /\ \A i \in 1..n : i \in 1..(n + 1) BY <1>0
  <2> HIDE DEF p, n
  <2>4. IsDict(p)
    <3> SUFFICES ASSUME NEW i \in 1..(n + 1), NEW j \in 1..(n + 1), p[i].text = p[j].text
                 PROVE  i = j
      <4>1. \A i \in 1..(n + 1) : p[i].text # "no colon"
        BY <1>0, <1>2, <2>2, <2>3 DEF IsDict, n
      <4> QED BY <2>2, <4>1 DEF IsDict
    <3>1. CASE i \in 1..n /\ j \in 1..n BY <1>0, <2>2, <3>1 DEF IsDict, n
    <3>2. CASE i = n + 1 /\ j \in 1..n BY <1>0, <1>2, <2>2, <3>2 DEF n
    <3>3. CASE i \in 1..n /\ j = n + 1 BY <1>0, <1>2, <2>2, <3>3 DEF n
    <3> QED BY <2>3, <3>1, <3>2, <3>3
  <2>5. Range(p) = {x \in Range(d) : x.text # f.text} \cup {f}
    <3>1. ASSUME NEW x \in Range(p) PROVE x \in {y \in Range(d) : y.text # f.text} \cup {f}
      <4>1. PICK i \in 1..(n + 1) : x = p[i] BY <2>2 DEF Range
      <4>2. CASE i \in 1..n
        <5>1. x = d[i] /\ i \in DOMAIN d BY <4>1, <4>2, <2>2, <1>0 DEF n
        <5> QED BY <5>1, <1>2 DEF Range
      <4>3. CASE i = n + 1 BY <4>1, <4>3, <2>2
      <4> QED BY <2>3, <4>2, <4>3
    <3>2. f \in Range(p) BY <2>2, <2>3a DEF Range
    <3>3. ASSUME NEW x \in Range(d) PROVE x \in Range(p)
      <4>1. PICK i \in DOMAIN d : x = d[i] BY DEF Range
      <4>2. i \in 1..(n + 1) /\ p[i] = x BY <4>1, <2>2, <2>3a, <1>0 DEF n
      <4> QED BY <4>2, <2>2 DEF Range
    <3> QED BY <3>1, <3>2, <3>3
  <2> QED BY <1>e, <2>1, <2>4, <2>5, <1>2
<1> QED BY <1>1, <1>2, <1>3

(* The steps of the loop that fills a dict. *)
Fills(dict, fields) ==
  /\ dict \in [0..Len(fields) -> Seq(Tokens)]
  /\ dict[0] = << >>
  /\ \A i \in 1..Len(fields) : dict[i] = Put(dict[i - 1], fields[i])

(* The dict is what the loop of assignments ends with.                     *)
LEMMA DictFills ==
  ASSUME NEW fields \in Seq(Tokens)
  PROVE  \E dict : Fills(dict, fields) /\ Dict(fields) = dict[Len(fields)]
<1> DEFINE n == Len(fields)
           T == Seq(Tokens)
           base == << >>
           step == [i \in 1..n |-> [t \in T |-> Put(t, fields[i])]]
<1>0. n \in Nat /\ base \in T /\ \A i \in 1..n : fields[i] \in Tokens OBVIOUS
<1>1. \E g : Iterates(g, T, n, base, step)
  <2>1. \A i \in 1..n : \A t \in T : Put(t, fields[i]) \in T BY <1>0, PutIsTyped
  <2>2. step \in [1..n -> [T -> T]]
    <3> HIDE DEF T, n
    <3> QED BY <2>1
  <2> HIDE DEF step, T, n, base
  <2> QED BY <1>0, <2>2, RecursionExists
<1> DEFINE Filled(g) == [i \in 0..n |-> IF i = 0 THEN << >> ELSE Put(g[i - 1], fields[i])]
           dict == CHOOSE g : g = Filled(g)
<1>2. PICK g : Iterates(g, T, n, base, step) BY <1>1
<1>3. g \in [0..n -> T]
  <2> HIDE DEF T, step, base, n
  <2> QED BY <1>2 DEF Iterates
<1>4. ASSUME NEW h, h = Filled(h)
      PROVE  \A i \in 0..n : h[i] = IF i = 0 THEN << >> ELSE Put(h[i - 1], fields[i])
  <2>1. \A i \in 0..n : h[i] = Filled(h)[i]
    <3> HIDE DEF Filled, n
    <3> QED BY <1>4
  <2>2. \A i \in 0..n : Filled(h)[i] = IF i = 0 THEN << >> ELSE Put(h[i - 1], fields[i])
    OBVIOUS
  <2> HIDE DEF Filled
  <2> QED BY <2>1, <2>2
<1>5. g = Filled(g)
  <2>1. ASSUME NEW i \in 0..n PROVE g[i] = IF i = 0 THEN << >> ELSE Put(g[i - 1], fields[i])
    <3>1. CASE i = 0 BY <1>2, <3>1 DEF Iterates
    <3>2. CASE i # 0
      <4>1. i \in 1..n /\ i - 1 \in 0..n BY <3>2, <1>0
      <4>2. g[i - 1] \in T
        <5> HIDE DEF T
        <5> QED BY <1>3, <4>1
      <4>3. g[i] = step[i][g[i - 1]]
        <5> HIDE DEF T, step, base, n
        <5> QED BY <1>2, <4>1 DEF Iterates
      <4>4. step[i][g[i - 1]] = Put(g[i - 1], fields[i])
        <5> HIDE DEF T, n
        <5> QED BY <4>1, <4>2
      <4> QED BY <3>2, <4>3, <4>4
    <3> QED BY <3>1, <3>2
  <2>2. g = [i \in 0..n |-> g[i]]
    <3> HIDE DEF T, n
    <3> QED BY <1>3
  <2> HIDE DEF n
  <2> QED BY <2>1, <2>2
<1>6. dict = Filled(dict)
  <2> HIDE DEF Filled
  <2> QED BY <1>5
<1> HIDE DEF dict
<1>7. \A i \in 0..n : dict[i] = IF i = 0 THEN << >> ELSE Put(dict[i - 1], fields[i])
  BY <1>4, <1>6
<1>8. Dict(fields) = dict[n] BY DEF Dict, dict
<1>9. dict = [i \in 0..n |-> dict[i]]
  <2>1. DOMAIN Filled(dict) = 0..n OBVIOUS
  <2> QED BY <1>6, <2>1
<1> DEFINE S == {k \in 0..n : dict[k] \in T}
<1>10. 0 \in S
  <2>1. 0 \in 0..n BY <1>0
  <2>2. dict[0] = base BY <1>7, <2>1
  <2> HIDE DEF T, base
  <2> QED BY <1>0, <2>1, <2>2
<1>11. ASSUME NEW k \in 0..(n - 1), k \in S PROVE k + 1 \in S
  <2>1. k + 1 \in 0..n /\ k + 1 \in 1..n /\ (k + 1) - 1 = k /\ k + 1 # 0 BY <1>0
  <2>2. dict[k + 1] = Put(dict[k], fields[k + 1]) BY <1>7, <2>1
  <2>3. dict[k] \in Seq(Tokens) /\ fields[k + 1] \in Tokens BY <1>0, <1>11, <2>1
  <2>4. dict[k + 1] \in T BY <2>2, <2>3, PutIsTyped
  <2> HIDE DEF T
  <2> QED BY <2>1, <2>4
<1>12. S = 0..n
  <2>1. S \in SUBSET (0..n) OBVIOUS
  <2> HIDE DEF S
  <2> QED BY <1>0, <1>10, <1>11, <2>1, InductionTo
<1>13. dict \in [0..n -> T]
  <2>1. \A i \in 0..n : dict[i] \in T
    <3> HIDE DEF T
    <3> QED BY <1>12
  <2> HIDE DEF T, n
  <2> QED BY <1>9, <2>1
<1>14. \A i \in 1..n : i \in 0..n /\ i # 0 BY <1>0
<1>15. 0 \in 0..n BY <1>0
<1>16. Fills(dict, fields)
  <2>1. dict[0] = << >> BY <1>7, <1>15
  <2>2. \A i \in 1..n : dict[i] = Put(dict[i - 1], fields[i]) BY <1>7, <1>14
  <2> QED BY <1>13, <2>1, <2>2 DEF Fills
<1> QED BY <1>8, <1>16

(* Of the first k lines, those with a name that no later one of them has. *)
LastUpTo(fields, k) ==
  {fields[i] : i \in {i \in 1..k :
     /\ fields[i].text # "no colon"
     /\ \A j \in 1..k : j > i => fields[j].text # fields[i].text}}

(* A field replaces what an earlier one of its name has said.              *)
LEMMA LastUpToGrows ==
  ASSUME NEW fields \in Seq(Tokens), NEW k \in 0..(Len(fields) - 1)
  PROVE  LastUpTo(fields, k + 1)
           = {x \in LastUpTo(fields, k) : x.text # fields[k + 1].text} \cup Entry(fields[k + 1])
<1> DEFINE Stays(n, i) == /\ i \in 1..n /\ fields[i].text # "no colon"
                          /\ \A j \in 1..n : j > i => fields[j].text # fields[i].text
<1>0. k \in Nat /\ k + 1 \in 1..(k + 1) /\ (\A i \in 1..k : i \in 1..(k + 1) /\ k + 1 > i)
      /\ \A i \in 1..(k + 1) : i # k + 1 => i \in 1..k
  OBVIOUS
<1>1. \A n, x : x \in LastUpTo(fields, n) <=> \E i : Stays(n, i) /\ x = fields[i]
  BY DEF LastUpTo
<1>2. ASSUME fields[k + 1].text # "no colon" PROVE Stays(k + 1, k + 1)
  <2>1. \A j \in 1..(k + 1) : ~(j > k + 1) BY <1>0
  <2> QED BY <1>0, <1>2, <2>1
<1>3. ASSUME NEW i, Stays(k + 1, i), i # k + 1
      PROVE  Stays(k, i) /\ fields[i].text # fields[k + 1].text
  BY <1>0, <1>3
<1>4. ASSUME NEW i, Stays(k, i), fields[i].text # fields[k + 1].text
      PROVE  Stays(k + 1, i)
  <2>1. i \in 1..(k + 1) BY <1>0, <1>4
  <2>2. ASSUME NEW j \in 1..(k + 1), j > i PROVE fields[j].text # fields[i].text
    <3>1. CASE j = k + 1 BY <3>1, <1>4
    <3>2. CASE j # k + 1 BY <3>2, <1>0, <1>4, <2>2
    <3> QED BY <3>1, <3>2
  <2> QED BY <1>4, <2>1, <2>2
<1>n. \A n, i : Stays(n, i) => fields[i].text # "no colon" OBVIOUS
<1> HIDE DEF Stays
<1>5. ASSUME NEW x \in LastUpTo(fields, k + 1)
      PROVE  x \in {y \in LastUpTo(fields, k) : y.text # fields[k + 1].text} \cup Entry(fields[k + 1])
  <2>1. PICK i : Stays(k + 1, i) /\ x = fields[i] BY <1>1
  <2>2. CASE i = k + 1 BY <1>n, <2>1, <2>2 DEF Entry, HasColon
  <2>3. CASE i # k + 1
    <3>1. Stays(k, i) /\ fields[i].text # fields[k + 1].text BY <1>3, <2>1, <2>3
    <3>2. x \in LastUpTo(fields, k) BY <1>1, <2>1, <3>1
    <3> QED BY <2>1, <3>1, <3>2
  <2> QED BY <2>2, <2>3
<1>6. Entry(fields[k + 1]) \subseteq LastUpTo(fields, k + 1)
  <2>1. CASE fields[k + 1].text = "no colon" BY <2>1 DEF Entry, HasColon
  <2>2. CASE fields[k + 1].text # "no colon" BY <1>1, <1>2, <2>2 DEF Entry, HasColon
  <2> QED BY <2>1, <2>2
<1>7. ASSUME NEW x \in LastUpTo(fields, k), x.text # fields[k + 1].text
      PROVE  x \in LastUpTo(fields, k + 1)
  <2>1. PICK i : Stays(k, i) /\ x = fields[i] BY <1>1
  <2>2. Stays(k + 1, i) BY <1>4, <1>7, <2>1
  <2> QED BY <1>1, <2>1, <2>2
<1> QED BY <1>5, <1>6, <1>7

(* What is in a dict: no name twice, and the last value of each. *)
LEMMA DictIs ==
  ASSUME NEW fields \in Seq(Tokens)
  PROVE  /\ Dict(fields) \in Seq(Tokens)
         /\ IsDict(Dict(fields))
         /\ Range(Dict(fields)) = LastOfEach(fields)
<1> DEFINE n == Len(fields)
<1>0. n \in Nat /\ DOMAIN fields = 1..n OBVIOUS
<1>1. PICK dict : Fills(dict, fields) /\ Dict(fields) = dict[n] BY DictFills
<1>2. /\ dict \in [0..n -> Seq(Tokens)] /\ dict[0] = << >>
      /\ \A i \in 1..n : dict[i] = Put(dict[i - 1], fields[i])
  BY <1>1 DEF Fills
<1> DEFINE P(k) == IsDict(dict[k]) /\ Range(dict[k]) = LastUpTo(fields, k)
           S == {k \in 0..n : P(k)}
<1>3. 0 \in S
  <2>1. IsDict(<< >>) /\ Range(<< >>) = {} BY DEF IsDict, Range
  <2>2. LastUpTo(fields, 0) = {} BY DEF LastUpTo
  <2>3. 0 \in 0..n BY <1>0
  <2> QED BY <1>2, <2>1, <2>2, <2>3
<1>4. ASSUME NEW k \in 0..(n - 1), k \in S PROVE k + 1 \in S
  <2>1. k \in 0..n /\ k + 1 \in 1..n /\ k + 1 \in 0..n /\ (k + 1) - 1 = k BY <1>0
  <2>2. dict[k + 1] = Put(dict[k], fields[k + 1]) BY <1>2, <2>1
  <2>3. dict[k] \in Seq(Tokens) /\ fields[k + 1] \in Tokens BY <1>0, <1>2, <2>1
  <2>4. IsDict(dict[k]) /\ Range(dict[k]) = LastUpTo(fields, k) BY <1>4
  <2>5. /\ IsDict(Put(dict[k], fields[k + 1]))
        /\ Range(Put(dict[k], fields[k + 1]))
             = {x \in Range(dict[k]) : x.text # fields[k + 1].text} \cup Entry(fields[k + 1])
    BY <2>3, <2>4, PutIs
  <2>6. LastUpTo(fields, k + 1)
          = {x \in LastUpTo(fields, k) : x.text # fields[k + 1].text} \cup Entry(fields[k + 1])
    BY LastUpToGrows
  <2>7. P(k + 1) BY <2>2, <2>4, <2>5, <2>6
  <2> HIDE DEF P
  <2> QED BY <2>1, <2>7
<1>5. S = 0..n
  <2>1. S \in SUBSET (0..n) OBVIOUS
  <2> HIDE DEF S
  <2> QED BY <1>0, <1>3, <1>4, <2>1, InductionTo
<1>6. P(n)
  <2>1. n \in 0..n BY <1>0
  <2> HIDE DEF P
  <2> QED BY <1>5, <2>1
<1>7. dict[n] \in Seq(Tokens)
  <2>1. n \in 0..n BY <1>0
  <2> QED BY <1>2, <2>1
<1>8. LastUpTo(fields, n) = LastOfEach(fields) BY <1>0 DEF LastUpTo, LastOfEach
<1> QED BY <1>1, <1>6, <1>7, <1>8

(* A dict is read back as it is. *)
LEMMA DictOfDict ==
  ASSUME NEW d \in Seq(Tokens), IsDict(d)
  PROVE  Dict(d) = d
<1> DEFINE n == Len(d)
<1>0. n \in Nat /\ DOMAIN d = 1..n OBVIOUS
<1>1. PICK dict : Fills(dict, d) /\ Dict(d) = dict[n] BY DictFills
<1>2. /\ dict[0] = << >>
      /\ \A i \in 1..n : dict[i] = Put(dict[i - 1], d[i])
  BY <1>1 DEF Fills
<1> DEFINE S == {k \in 0..n : dict[k] = SubSeq(d, 1, k)}
<1>3. 0 \in S
  <2>1. 0 \in 0..n BY <1>0
  <2> QED BY <1>2, <2>1, WholePrefix
<1>4. ASSUME NEW k \in 0..(n - 1), k \in S PROVE k + 1 \in S
  <2>1. k \in Nat /\ k + 1 \in 1..n /\ k + 1 \in 0..n /\ (k + 1) - 1 = k BY <1>0
  <2> DEFINE p == SubSeq(d, 1, k)
  <2>2. dict[k + 1] = Put(p, d[k + 1]) BY <1>2, <1>4, <2>1
  <2>3. DOMAIN p = 1..k /\ \A i \in 1..k : p[i] = d[i] BY <1>0, <2>1
  <2>4. \A i \in 1..k : i \in 1..n /\ i # k + 1 BY <1>0, <2>1
  <2>5. \A i \in DOMAIN p : p[i].text # d[k + 1].text
    BY <1>0, <2>1, <2>3, <2>4 DEF IsDict
  <2>n. d[k + 1].text # "no colon" BY <1>0, <2>1 DEF IsDict
  <2>6. Put(p, d[k + 1]) = Append(p, d[k + 1]) BY <2>n, <2>5 DEF Put
  <2>7. Append(p, d[k + 1]) = SubSeq(d, 1, k + 1) BY PrefixGrows
  <2> QED BY <2>1, <2>2, <2>6, <2>7
<1>5. S = 0..n
  <2>1. S \in SUBSET (0..n) OBVIOUS
  <2> HIDE DEF S
  <2> QED BY <1>0, <1>3, <1>4, <2>1, InductionTo
<1>6. n \in S
  <2>1. n \in 0..n BY <1>0
  <2> HIDE DEF S
  <2> QED BY <1>5, <2>1
<1> QED BY <1>1, <1>6, WholePrefix

(* next(k for k in headers if ...) finds a key of the name if there is one.*)
LEMMA FirstIs ==
  ASSUME NEW fields \in Seq(Tokens), NEW name
  PROVE  IF Has(fields, name)
         THEN /\ First(fields, name) \in DOMAIN fields
              /\ Lower(fields[First(fields, name)].text) = name
              /\ First(fields, name) # 0
         ELSE First(fields, name) = 0
<1> DEFINE places == {i \in DOMAIN fields : Lower(fields[i].text) = name}
<1>0. places \in SUBSET Nat /\ \A i \in DOMAIN fields : i # 0 OBVIOUS
<1>1. Has(fields, name) <=> places # {} BY DEF Has, Range
<1>2. CASE places = {} BY <1>1, <1>2 DEF First
<1>3. CASE places # {}
  <2>1. Min(places) \in places
    <3> HIDE DEF places
    <3> QED BY <1>0, <1>3, MinIs
  <2>2. First(fields, name) = Min(places) BY <1>3 DEF First
  <2>3. First(fields, name) \in places BY <2>1, <2>2
  <2> QED BY <1>0, <1>1, <1>3, <2>3
<1> QED BY <1>2, <1>3

(* A length that is said is the one that is found.                         *)
LEMMA ContentLengthIs ==
  ASSUME NEW fields \in Seq(Tokens), NEW n, NEW absent,
         Says(fields, "content-length", n)
  PROVE  ContentLength(fields, absent) = IF Has(fields, "content-length") THEN n ELSE absent
<1> DEFINE i == First(fields, "content-length")
<1>1. CASE Has(fields, "content-length")
  <2>1. i \in DOMAIN fields /\ Lower(fields[i].text) = "content-length" /\ i # 0
    BY <1>1, FirstIs
  <2>2. fields[i].value = n
    <3>1. fields[i] \in Range(fields) BY <2>1 DEF Range
    <3> QED BY <2>1, <3>1 DEF Says
  <2> QED BY <1>1, <2>1, <2>2 DEF ContentLength
<1>2. CASE ~Has(fields, "content-length")
  <2>1. i = 0 BY <1>2, FirstIs
  <2> QED BY <1>2, <2>1 DEF ContentLength
<1> QED BY <1>1, <1>2

(* One that is bounded, too.                                               *)
LEMMA ContentLengthAtMost ==
  ASSUME NEW fields \in Seq(Tokens), NEW n \in Int, NEW absent \in Int, absent <= n,
         AtMost(fields, "content-length", n)
  PROVE  ContentLength(fields, absent) \in Int /\ ContentLength(fields, absent) <= n
<1> DEFINE i == First(fields, "content-length")
<1>1. CASE Has(fields, "content-length")
  <2>1. i \in DOMAIN fields /\ Lower(fields[i].text) = "content-length" /\ i # 0
    BY <1>1, FirstIs
  <2>2. fields[i] \in Range(fields) /\ fields[i] \in Tokens BY <2>1 DEF Range
  <2>3. fields[i].value \in Int BY <2>2 DEF Tokens, Symbols
  <2>4. fields[i].value <= n BY <2>1, <2>2 DEF AtMost
  <2>5. ContentLength(fields, absent) = fields[i].value BY <2>1 DEF ContentLength
  <2> QED BY <2>3, <2>4, <2>5
<1>2. CASE ~Has(fields, "content-length")
  <2>1. i = 0 BY <1>2, FirstIs
  <2> QED BY <2>1 DEF ContentLength
<1> QED BY <1>1, <1>2

-----------------------------------------------------------------------------
(* inject_forwarded_for.                                                   *)
(* Of the fields of a name, one is the last.                               *)
LEMMA LastOne ==
  ASSUME NEW fields \in Seq(Tokens), NEW i \in DOMAIN fields, HasColon(fields[i])
  PROVE  \E x \in LastOfEach(fields) : x.text = fields[i].text
<1> DEFINE n == Len(fields)
           Same(j) == fields[j].text = fields[i].text
           S == {k \in 0..n : \E j \in 1..n : j + k = n /\ Same(j)}
<1>0. n \in Nat /\ DOMAIN fields = 1..n OBVIOUS
<1>1. S \in SUBSET Nat OBVIOUS
<1>2. S # {}
  <2>1. n - i \in 0..n /\ i \in 1..n /\ i + (n - i) = n BY <1>0
  <2>2. Same(i) OBVIOUS
  <2> HIDE DEF Same
  <2> QED BY <2>1, <2>2
<1>3. PICK k \in S : \A h \in S : k <= h
  <2> HIDE DEF S
  <2> QED BY <1>1, <1>2, LeastOf
<1> HIDE DEF Same
<1>4. PICK j \in 1..n : j + k = n /\ Same(j) BY <1>3
<1>k. k \in Nat BY <1>1, <1>3
<1>5. ASSUME NEW h \in 1..n, h > j, Same(h) PROVE FALSE
  <2> HIDE DEF n
  <2>1. n - h \in 0..n /\ h + (n - h) = n /\ n - h < k /\ n - h \in Nat
    BY <1>0, <1>k, <1>4, <1>5
  <2>2. n - h \in S BY <2>1, <1>5
  <2>3. k <= n - h
    <3> HIDE DEF S
    <3> QED BY <1>3, <2>2
  <2> QED BY <1>k, <2>1, <2>3
<1>6. j \in DOMAIN fields /\ \A h \in DOMAIN fields : h > j => ~Same(h)
  BY <1>0, <1>4, <1>5
<1>7. fields[j].text = fields[i].text BY <1>4 DEF Same
<1>8. \A h \in DOMAIN fields : h > j => fields[h].text # fields[j].text
  BY <1>6, <1>7 DEF Same
<1>9. fields[j] \in LastOfEach(fields)
  <2>1. fields[j].text # "no colon" BY <1>7 DEF HasColon
  <2> QED BY <1>6, <1>8, <2>1 DEF LastOfEach
<1> QED BY <1>7, <1>9

(* A dict has the names that its fields have. *)
LEMMA DictHas ==
  ASSUME NEW fields \in Seq(Tokens), NEW name, name # "no colon"
  PROVE  Has(Dict(fields), name) <=> Has(fields, name)
<1>1. Range(Dict(fields)) = LastOfEach(fields) BY DictIs
<1>2. ASSUME Has(fields, name) PROVE Has(Dict(fields), name)
  <2>1. PICK i \in DOMAIN fields : Lower(fields[i].text) = name BY <1>2 DEF Has, Range
  <2>n. HasColon(fields[i]) BY <2>1 DEF HasColon, Lower
  <2>2. PICK x \in LastOfEach(fields) : x.text = fields[i].text BY <2>n, LastOne
  <2> QED BY <1>1, <2>1, <2>2 DEF Has
<1>3. ASSUME Has(Dict(fields), name) PROVE Has(fields, name)
  <2>1. LastOfEach(fields) \subseteq Range(fields) BY DEF LastOfEach, Range
  <2> QED BY <1>1, <1>3, <2>1 DEF Has
<1> QED BY <1>2, <1>3

(* A dict says nothing that its fields do not say.                         *)
LEMMA DictSays ==
  ASSUME NEW fields \in Seq(Tokens), NEW name, NEW value, Says(fields, name, value)
  PROVE  Says(Dict(fields), name, value)
<1>1. Range(Dict(fields)) = LastOfEach(fields) BY DictIs
<1>2. LastOfEach(fields) \subseteq Range(fields) BY DEF LastOfEach, Range
<1> QED BY <1>1, <1>2 DEF Says

(* Nor anything greater.                                                   *)
LEMMA DictAtMost ==
  ASSUME NEW fields \in Seq(Tokens), NEW name, NEW value, AtMost(fields, name, value)
  PROVE  AtMost(Dict(fields), name, value)
<1>1. Range(Dict(fields)) = LastOfEach(fields) BY DictIs
<1>2. LastOfEach(fields) \subseteq Range(fields) BY DEF LastOfEach, Range
<1> QED BY <1>1, <1>2 DEF AtMost

Addressed(sent, read) ==
  \E i \in DOMAIN read :
    /\ IsAddress(read[i])
    /\ \/ read = Append(sent, read[i]) /\ read[i].value = 1
          /\ \A f \in Range(sent) : ~IsAddress(f)
       \/ read = [sent EXCEPT ![i].value = @ + 1]

(* The two names that are compared here are different.                     *)
LEMMA Lowered ==
  /\ Lower("X-Forwarded-For") = "x-forwarded-for"
  /\ "content-length" # "x-forwarded-for"
BY DEF Lower

(* What inject_forwarded_for makes of a dict. *)
LEMMA InjectForwardedForIs ==
  ASSUME NEW d \in Seq(Tokens), IsDict(d)
  PROVE  LET r == InjectForwardedFor(d)
         IN /\ r \in Seq(Tokens) /\ IsDict(r)
            /\ Has(r, "content-length") <=> Has(d, "content-length")
            /\ \A n : Says(d, "content-length", n) => Says(r, "content-length", n)
            /\ \A n : AtMost(d, "content-length", n) => AtMost(r, "content-length", n)
            /\ Addressed(d, r)
<1> DEFINE r == InjectForwardedFor(d)
           x == Symbol("X-Forwarded-For", 1)
           e == First(d, "x-forwarded-for")
           n == Len(d)
<1>0. n \in Nat /\ DOMAIN d = 1..n /\ \A i \in 1..n : d[i] \in Tokens OBVIOUS
<1>x. /\ x \in Tokens /\ x.text = "X-Forwarded-For" /\ x.value = 1
      /\ Lower(x.text) = "x-forwarded-for"
  <2>1. x.text = "X-Forwarded-For" /\ x.value = 1 BY DEF Symbol
  <2>2. "X-Forwarded-For" \in Texts /\ 1 \in Int BY TextAssumption
  <2>3. x \in Tokens BY <2>1, <2>2 DEF Tokens, Symbols, Symbol
  <2> QED BY <2>1, <2>3, Lowered
<1>1. CASE e = 0
  <2>1. ~Has(d, "x-forwarded-for") BY <1>1, FirstIs
  <2>2. r = Append(d, x) BY <1>1 DEF InjectForwardedFor
  <2> HIDE DEF x
  <2>3. /\ Append(d, x) \in Seq(Tokens) /\ DOMAIN Append(d, x) = 1..(n + 1)
        /\ Append(d, x)[n + 1] = x /\ \A i \in 1..n : Append(d, x)[i] = d[i]
    BY <1>0, <1>x
  <2> HIDE DEF r
  <2>4. /\ r \in Seq(Tokens) /\ DOMAIN r = 1..(n + 1)
        /\ r[n + 1] = x /\ \A i \in 1..n : r[i] = d[i]
    BY <2>2, <2>3
  <2>5. \A i \in 1..n : Lower(d[i].text) # "x-forwarded-for"
    BY <2>1, <1>0 DEF Has, Range
  <2>6. \A i \in 1..(n + 1) : i = n + 1 \/ i \in 1..n BY <1>0
  <2>7. n + 1 \in 1..(n + 1) /\ \A i \in 1..n : i \in 1..(n + 1) BY <1>0
  <2>8. IsDict(r)
    <3> SUFFICES ASSUME NEW i \in 1..(n + 1), NEW j \in 1..(n + 1), r[i].text = r[j].text
                 PROVE  i = j
      <4>1. \A i \in 1..(n + 1) : r[i].text # "no colon"
        BY <1>0, <1>x, <2>4, <2>6 DEF IsDict
      <4> QED BY <2>4, <4>1 DEF IsDict
    <3>1. CASE i \in 1..n /\ j \in 1..n BY <3>1, <1>0, <2>4 DEF IsDict
    <3>2. CASE i = n + 1 /\ j \in 1..n BY <3>2, <2>4, <2>5, <1>x
    <3>3. CASE i \in 1..n /\ j = n + 1 BY <3>3, <2>4, <2>5, <1>x
    <3> QED BY <2>6, <3>1, <3>2, <3>3
  <2>9. Range(r) = Range(d) \cup {x}
    <3> HIDE DEF n
    <3>1. ASSUME NEW y \in Range(r) PROVE y \in Range(d) \cup {x}
      <4>1. PICK i \in 1..(n + 1) : y = r[i] BY <2>4 DEF Range
      <4>2. CASE i = n + 1 BY <4>1, <4>2, <2>4
      <4>3. CASE i \in 1..n BY <4>1, <4>3, <2>4, <1>0 DEF Range
      <4> QED BY <4>2, <4>3, <2>6
    <3>2. x \in Range(r) BY <2>4, <2>7 DEF Range
    <3>3. ASSUME NEW y \in Range(d) PROVE y \in Range(r)
      <4>1. PICK i \in 1..n : y = d[i] BY <1>0 DEF Range
      <4>2. i \in 1..(n + 1) /\ r[i] = y BY <4>1, <2>4, <2>7
      <4> QED BY <4>2, <2>4 DEF Range
    <3> QED BY <3>1, <3>2, <3>3
  <2>10. Has(r, "content-length") <=> Has(d, "content-length")
    BY <2>9, <1>x, Lowered DEF Has
  <2>11. \A v : Says(d, "content-length", v) => Says(r, "content-length", v)
    BY <2>9, <1>x, Lowered DEF Says
  <2>13. \A v : AtMost(d, "content-length", v) => AtMost(r, "content-length", v)
    BY <2>9, <1>x, Lowered DEF AtMost
  <2>12. Addressed(d, r)
    <3>1. \A f \in Range(d) : ~IsAddress(f) BY <2>1 DEF Has, IsAddress
    <3>2. n + 1 \in DOMAIN r /\ IsAddress(r[n + 1]) /\ r = Append(d, r[n + 1])
          /\ r[n + 1].value = 1
      BY <2>2, <2>4, <2>7, <1>x DEF IsAddress
    <3> QED BY <3>1, <3>2 DEF Addressed
  <2> QED BY <2>4, <2>8, <2>10, <2>11, <2>12, <2>13 DEF r
<1>2. CASE e # 0
  <2>1. e \in 1..n /\ Lower(d[e].text) = "x-forwarded-for" BY <1>0, <1>2, FirstIs
  <2>2. r = [d EXCEPT ![e].value = @ + 1] BY <1>2 DEF InjectForwardedFor
  <2> HIDE DEF e
  <2> DEFINE y == [d[e] EXCEPT !.value = @ + 1]
  <2>3. d[e] \in Tokens BY <2>1
  <2>4. y \in Tokens /\ y.text = d[e].text
    <3>1. d[e] \in [text : Texts, value : Int] /\ d[e].text \notin {"CR", "LF"}
      BY <2>3 DEF Tokens, Symbols
    <3> QED BY <3>1 DEF Tokens, Symbols
  <2>5. r = [d EXCEPT ![e] = y] BY <2>2
  <2> HIDE DEF y
  <2>6. /\ r \in Seq(Tokens) /\ DOMAIN r = 1..n
        /\ r[e] = y /\ \A i \in 1..n : i # e => r[i] = d[i]
    <3>1. [d EXCEPT ![e] = y] \in Seq(Tokens) BY <1>0, <2>1, <2>4
    <3> HIDE DEF r
    <3> QED BY <1>0, <2>1, <2>4, <2>5, <3>1
  <2> HIDE DEF r
  <2>7. \A i \in 1..n : r[i].text = d[i].text BY <2>4, <2>6
  <2>8. IsDict(r) BY <1>0, <2>6, <2>7 DEF IsDict
  <2>9. ASSUME NEW i \in 1..n, Lower(d[i].text) = "content-length" PROVE r[i] = d[i]
    BY <2>1, <2>6, <2>9, Lowered
  <2>10. Has(r, "content-length") <=> Has(d, "content-length")
    <3> HIDE DEF n
    <3> QED BY <2>6, <2>7, <1>0 DEF Has, Range
  <2>11. \A v : Says(d, "content-length", v) => Says(r, "content-length", v)
    <3> HIDE DEF n
    <3> QED BY <2>6, <2>7, <2>9, <1>0 DEF Says, Range
  <2>13. \A v : AtMost(d, "content-length", v) => AtMost(r, "content-length", v)
    <3> HIDE DEF n
    <3> QED BY <2>6, <2>7, <2>9, <1>0 DEF AtMost, Range
  <2>12. Addressed(d, r)
    <3>1. IsAddress(r[e]) /\ e \in DOMAIN r BY <2>1, <2>6, <2>7 DEF IsAddress
    <3> QED BY <2>2, <3>1 DEF Addressed
  <2> QED BY <2>6, <2>8, <2>10, <2>11, <2>12, <2>13 DEF r
<1> QED BY <1>1, <1>2

-----------------------------------------------------------------------------
(* Serialised header sections, and what is read of one that arrives.       *)
(* b goes on behind the o-th symbol, as far as it goes, with t. *)
Follows(b, o, t) == \A i \in 1..Len(t) : o + i <= Len(b) => b[o + i] = t[i]

(* What goes on with a concatenation goes on with its parts.               *)
LEMMA FollowsBoth ==
  ASSUME NEW b \in Seq(Symbols), NEW o \in Nat, NEW t \in Seq(Symbols), NEW u \in Seq(Symbols)
  PROVE  /\ t \o u \in Seq(Symbols) /\ Len(t \o u) = Len(t) + Len(u)
         /\ Follows(b, o, t \o u) => Follows(b, o, t) /\ Follows(b, o + Len(t), u)
<1> DEFINE c == t \o u
           m == Len(t)
           n == Len(u)
<1>1. Joined(Symbols, c, t, u, m, n) BY ConcatIs
<1> HIDE DEF c
<1>2. m \in Nat /\ n \in Nat /\ Len(b) \in Nat OBVIOUS
<1>3. c \in Seq(Symbols) /\ Len(c) = m + n BY <1>1 DEF Joined
<1>4. ASSUME Follows(b, o, c) PROVE Follows(b, o, t)
  <2> SUFFICES ASSUME NEW i \in 1..m, o + i <= Len(b) PROVE b[o + i] = t[i]
    BY DEF Follows
  <2> HIDE DEF m, n
  <2>1. i \in 1..Len(c) BY <1>2, <1>3
  <2>2. c[i] = t[i] BY <1>1 DEF Joined
  <2> QED BY <1>4, <2>1, <2>2 DEF Follows
<1>5. ASSUME Follows(b, o, c) PROVE Follows(b, o + m, u)
  <2> SUFFICES ASSUME NEW i \in 1..n, (o + m) + i <= Len(b) PROVE b[(o + m) + i] = u[i]
    BY DEF Follows
  <2> HIDE DEF m, n
  <2>1. m + i \in 1..Len(c) /\ (o + m) + i = o + (m + i) BY <1>2, <1>3
  <2>2. c[m + i] = u[i] BY <1>1 DEF Joined
  <2> QED BY <1>5, <2>1, <2>2 DEF Follows
<1> QED BY <1>3, <1>4, <1>5 DEF c

(* The end of a line is two symbols.                                       *)
LEMMA CRLFIs ==
  CRLF \in Seq(Symbols) /\ Len(CRLF) = 2 /\ CRLF[1] = CR /\ CRLF[2] = LF
<1>1. CRLF = <<CR, LF>> /\ CR \in Symbols /\ LF \in Symbols BY LineEnds
<1>2. <<CR, LF>> \in Seq(Symbols) BY <1>1
<1> QED BY <1>1, <1>2

(* The bytes of lines and an empty line, seen as lines.                    *)
LEMMA LinesGoOn ==
  ASSUME NEW b \in Seq(Symbols), NEW o \in Nat, NEW s \in Seq(Tokens), NEW l, Ruled(l, s),
         Follows(b, o, l \o CRLF)
  PROVE  GoesOn(b, o, s)
<1> DEFINE n == Len(s)
<1>0. n \in Nat /\ Len(b) \in Nat OBVIOUS
<1>1. /\ l \in Seq(Symbols) /\ Len(l) = 3 * n
      /\ \A k \in 1..n : l[3 * k - 2] = s[k] /\ l[3 * k - 1] = CR /\ l[3 * k] = LF
  BY DEF Ruled
<1>2. Follows(b, o, l) /\ Follows(b, o + 3 * n, CRLF)
  <2> HIDE DEF n
  <2> QED BY <1>1, CRLFIs, FollowsBoth
<1> HIDE DEF n
<1>3. ASSUME NEW k \in 1..n
      PROVE  /\ o + 3 * k - 2 <= Len(b) => b[o + 3 * k - 2] = s[k]
             /\ o + 3 * k - 1 <= Len(b) => b[o + 3 * k - 1] = CR
             /\ o + 3 * k <= Len(b) => b[o + 3 * k] = LF
  <2>1. /\ 3 * k - 2 \in 1..Len(l) /\ 3 * k - 1 \in 1..Len(l) /\ 3 * k \in 1..Len(l)
        /\ o + (3 * k - 2) = o + 3 * k - 2 /\ o + (3 * k - 1) = o + 3 * k - 1
    BY <1>0, <1>1
  <2> QED BY <1>1, <1>2, <2>1 DEF Follows
<1>4. /\ o + 3 * n + 1 <= Len(b) => b[o + 3 * n + 1] = CR
      /\ o + 3 * n + 2 <= Len(b) => b[o + 3 * n + 2] = LF
  <2>1. 1 \in 1..Len(CRLF) /\ 2 \in 1..Len(CRLF) BY CRLFIs
  <2> QED BY <1>2, <2>1, CRLFIs DEF Follows
<1> QED BY <1>3, <1>4 DEF GoesOn, n

HeadSection(start, fields) == Line(start) \o Each(fields, Line) \o CRLF

(* The start line is a line like the others.                               *)
LEMMA HeadLines ==
  ASSUME NEW start \in Tokens, NEW fields \in Seq(Tokens)
  PROVE  Ruled(Line(start) \o Each(fields, Line), LinesOf(start, fields))
<1> DEFINE a == Line(start)
           b == Each(fields, Line)
           c == a \o b
           s == LinesOf(start, fields)
           n == Len(fields)
<1>0. n \in Nat OBVIOUS
<1>1. a \in Seq(Symbols) /\ Len(a) = 3 /\ a[1] = start /\ a[2] = CR /\ a[3] = LF
  BY LineIs, TokenIsNoLineEnd
<1>2. /\ b \in Seq(Symbols) /\ Len(b) = 3 * n
      /\ \A k \in 1..n : b[3 * k - 2] = fields[k] /\ b[3 * k - 1] = CR /\ b[3 * k] = LF
  BY EachLineIs DEF Ruled
<1>3. Len(s) = n + 1 /\ s[1] = start /\ \A k \in 1..n : s[k + 1] = fields[k]
  BY LinesOfIs
<1> HIDE DEF a, b, s, n
<1>4. Joined(Symbols, c, a, b, 3, 3 * n) BY <1>1, <1>2, ConcatIs
<1> HIDE DEF c
<1>5. c \in Seq(Symbols) /\ Len(c) = 3 * (n + 1) BY <1>0, <1>4 DEF Joined
<1>6. ASSUME NEW k \in 1..(n + 1)
      PROVE  c[3 * k - 2] = s[k] /\ c[3 * k - 1] = CR /\ c[3 * k] = LF
  <2>1. CASE k = 1
    <3>1. 3 * k - 2 = 1 /\ 3 * k - 1 = 2 /\ 3 * k = 3 /\ 1 \in 1..3 /\ 2 \in 1..3 /\ 3 \in 1..3
      BY <2>1
    <3> QED BY <1>1, <1>3, <1>4, <2>1, <3>1 DEF Joined
  <2>2. CASE k # 1
    <3> DEFINE j == k - 1
    <3>1. /\ j \in 1..n /\ k = j + 1
          /\ 3 * j - 2 \in 1..(3 * n) /\ 3 * j - 1 \in 1..(3 * n) /\ 3 * j \in 1..(3 * n)
          /\ 3 * k - 2 = 3 + (3 * j - 2) /\ 3 * k - 1 = 3 + (3 * j - 1) /\ 3 * k = 3 + 3 * j
      BY <1>0, <2>2
    <3> HIDE DEF j
    <3> QED BY <1>2, <1>3, <1>4, <3>1 DEF Joined
  <2> QED BY <2>1, <2>2
<1> QED BY <1>3, <1>5, <1>6 DEF Ruled, a, b, c, s

(* The length of a header section.                                         *)
LEMMA HeadIs ==
  ASSUME NEW start \in Tokens, NEW fields \in Seq(Tokens)
  PROVE  HeadSection(start, fields) \in Seq(Symbols) /\ Len(HeadSection(start, fields)) = 3 * Len(fields) + 5
<1> DEFINE l == Line(start) \o Each(fields, Line)
           s == LinesOf(start, fields)
           n == Len(fields)
<1>1. n \in Nat OBVIOUS
<1>2. Ruled(l, s) BY HeadLines
<1>3. Len(s) = n + 1 BY LinesOfIs
<1>4. l \in Seq(Symbols) /\ Len(l) = 3 * (n + 1) BY <1>2, <1>3 DEF Ruled
<1> HIDE DEF l, n
<1>5. l \o CRLF \in Seq(Symbols) /\ Len(l \o CRLF) = 3 * (n + 1) + 2
  <2>1. Joined(Symbols, l \o CRLF, l, CRLF, Len(l), Len(CRLF)) BY <1>4, CRLFIs, ConcatIs
  <2> QED BY <1>1, <1>4, <2>1, CRLFIs DEF Joined
<1>6. 3 * (n + 1) + 2 = 3 * n + 5 BY <1>1
<1> QED BY <1>5, <1>6 DEF HeadSection, l, n

(* What is read of a header section. *)
LEMMA HeadRead ==
  ASSUME NEW b \in Seq(Symbols), NEW start \in Tokens, NEW fields \in Seq(Tokens),
         Follows(b, 0, HeadSection(start, fields))
  PROVE  IF Len(HeadSection(start, fields)) <= Len(b)
         THEN /\ HeaderEnd(b) \in Nat \ {0}
              /\ HeaderLength(b) = Len(HeadSection(start, fields))
              /\ b[1] = start
              /\ FieldLines(b) = fields
         ELSE HeaderEnd(b) = 0
<1>1. GoesOn(b, 0, LinesOf(start, fields))
  <2> DEFINE l == Line(start) \o Each(fields, Line)
  <2>1. Ruled(l, LinesOf(start, fields)) /\ LinesOf(start, fields) \in Seq(Tokens)
    BY HeadLines, LinesOfIs
  <2>2. Follows(b, 0, l \o CRLF) BY DEF HeadSection
  <2> HIDE DEF l
  <2> QED BY <2>1, <2>2, LinesGoOn
<1>2. Len(HeadSection(start, fields)) = 3 * Len(fields) + 5 BY HeadIs
<1>3. IF 3 * Len(fields) + 5 <= Len(b)
      THEN /\ HeaderEnd(b) = 3 * Len(fields) + 2
           /\ HeaderLength(b) = 3 * Len(fields) + 5
           /\ b[1] = start
      ELSE HeaderEnd(b) = 0
  BY <1>1, HeaderEndIs
<1>4. 3 * Len(fields) + 2 \in Nat \ {0} OBVIOUS
<1>5. 3 * Len(fields) + 5 <= Len(b) => FieldLines(b) = fields BY <1>1, FieldLinesAre
<1> QED BY <1>2, <1>3, <1>4, <1>5

-----------------------------------------------------------------------------
(* Requests.                                                               *)
IsRequestLine(symbol) == symbol.text = "request line"

(* The fields of a request, and its body. *)
Measured(fields, body) ==
  \/ Says(fields, "content-length", Len(body)) /\ Has(fields, "content-length")
  \/ AtMost(fields, "content-length", 0) /\ body = << >>

(* A dict measures as its fields do.                                       *)
LEMMA DictMeasured ==
  ASSUME NEW fields \in Seq(Tokens), NEW body, Measured(fields, body)
  PROVE  Measured(Dict(fields), body)
BY DictHas, DictSays, DictAtMost DEF Measured

(* get_content_length is the length of the body; or below 0, and of none.  *)
LEMMA MeasuredLength ==
  ASSUME NEW fields \in Seq(Tokens), NEW body \in Seq(Symbols), Measured(fields, body)
  PROVE  \/ ContentLength(fields, 0) = Len(body)
         \/ /\ ContentLength(fields, 0) \in Int /\ ContentLength(fields, 0) < 0
            /\ Len(body) = 0
<1>1. CASE Says(fields, "content-length", Len(body)) /\ Has(fields, "content-length")
  BY <1>1, ContentLengthIs
<1>2. CASE AtMost(fields, "content-length", 0) /\ body = << >>
  <2>1. Len(body) = 0 BY <1>2
  <2>2. ContentLength(fields, 0) \in Int /\ ContentLength(fields, 0) <= 0
    BY <1>2, ContentLengthAtMost
  <2> QED BY <2>1, <2>2
<1> QED BY <1>1, <1>2 DEF Measured

(* The bytes between two places, where the second may be before the first. *)
LEMMA SliceIs ==
  ASSUME NEW b \in Seq(Symbols), NEW m \in 0..Len(b), NEW j \in Int, j <= Len(b)
  PROVE  /\ SubSeq(b, m + 1, j) \in Seq(Symbols)
         /\ Len(SubSeq(b, m + 1, j)) = IF j > m THEN j - m ELSE 0
         /\ \A k \in 1..(j - m) : SubSeq(b, m + 1, j)[k] = b[m + k]
<1>1. CASE j > m
  <2> DEFINE n == j - m
             i == m + 1
  <2>1. /\ n \in Nat /\ i \in Nat \ {0} /\ i + n <= Len(b) + 1 /\ i + n - 1 = j
        /\ \A k \in 1..n : i + k - 1 = m + k
    BY <1>1
  <2> HIDE DEF n, i
  <2>2. /\ SubSeq(b, i, i + n - 1) \in Seq(Symbols) /\ Len(SubSeq(b, i, i + n - 1)) = n
        /\ \A k \in 1..n : SubSeq(b, i, i + n - 1)[k] = b[i + k - 1]
    BY <2>1, SubSeqAt
  <2>3. /\ SubSeq(b, i, j) \in Seq(Symbols) /\ Len(SubSeq(b, i, j)) = n
        /\ \A k \in 1..n : SubSeq(b, i, j)[k] = b[m + k]
    BY <2>1, <2>2
  <2> QED BY <1>1, <2>3 DEF n, i
<1>2. CASE ~(j > m)
  <2>1. SubSeq(b, m + 1, j) = << >> BY <1>2
  <2>2. \A k \in 1..(j - m) : FALSE BY <1>2
  <2> QED BY <1>2, <2>1, <2>2
<1> QED BY <1>1, <1>2

(* try_parse_request finds a request with its last byte, and its body; and *)
(* so it does with a Content-Length below minus the headers' length if     *)
(* nothing follows.                                                        *)
LEMMA RequestRead ==
  ASSUME NEW b \in Seq(Symbols), NEW start \in Tokens, NEW fields \in Seq(Tokens),
         NEW body \in Seq(Symbols), Measured(Dict(fields), body),
         Follows(b, 0, HeadSection(start, fields) \o body)
  PROVE  LET w == Len(HeadSection(start, fields)) + Len(body)
         IN IF IsRequestLine(start) /\ w <= Len(b)
            THEN /\ TryParseRequest(b) \in w..Len(b)
                 /\ Headers(b) = Dict(fields) /\ b[1] = start
                 /\ ~Overdrawn(b) \/ Len(b) = w => TryParseRequest(b) = w /\ Body(b) = body
            ELSE TryParseRequest(b) = 0
<1> DEFINE h == HeadSection(start, fields)
           m == Len(h)
           n == Len(body)
           c == ContentLength(Dict(fields), 0)
           e == Len(b)
           j == IF m + c < 0 THEN e + (m + c) ELSE m + c
           u == SubSeq(b, m + 1, j)
           t == TryParseRequest(b)
<1>1. h \in Seq(Symbols) BY HeadIs
<1>2. m \in Nat /\ n \in Nat /\ e \in Nat /\ c \in Int /\ (c = n \/ (c < 0 /\ n = 0))
  <2>1. m \in Nat /\ n \in Nat /\ e \in Nat BY <1>1
  <2> QED BY <2>1, DictIs, MeasuredLength
<1>3. Follows(b, 0, h) /\ Follows(b, m, body)
  <2>1. 0 \in Nat /\ 0 + m = m BY <1>2
  <2> HIDE DEF h
  <2> QED BY <1>1, <2>1, FollowsBoth DEF h
<1>4. IF m <= e
      THEN /\ HeaderEnd(b) # 0 /\ HeaderLength(b) = m /\ b[1] = start /\ FieldLines(b) = fields
      ELSE HeaderEnd(b) = 0
  BY <1>3, HeadRead
<1> HIDE DEF h, m, n, c, e, t
<1>5. CASE ~(m <= e)
  <2>1. HeaderEnd(b) = 0 /\ ~(m + n <= e) BY <1>2, <1>4, <1>5
  <2>2. t = 0 BY <2>1 DEF TryParseRequest, t
  <2> QED BY <2>1, <2>2 DEF h, m, n, e, t
<1>6. CASE m <= e
  <2>1. Headers(b) = Dict(fields) BY <1>4, <1>6 DEF Headers
  <2>2. Needed(b) = m + c BY <1>4, <1>6, <2>1 DEF Needed, c
  <2>3. Body(b) = u BY <1>4, <1>6, <2>2 DEF Body, e
  <2>4. t = IF ~IsRequestLine(start) \/ e < m + c THEN 0 ELSE m + Len(u)
    BY <1>4, <1>6, <2>2, <2>3 DEF TryParseRequest, IsRequestLine, t, e
  <2>5. Overdrawn(b) <=> m + c < 0 BY <2>2 DEF Overdrawn
  <2>6. CASE IsRequestLine(start) /\ m + n <= e
    <3>1. m \in 0..Len(b) /\ j \in Int /\ j <= Len(b) /\ ~(e < m + c)
      BY <1>2, <1>6, <2>6 DEF e
    <3> HIDE DEF j
    <3>2. /\ u \in Seq(Symbols) /\ Len(u) = IF j > m THEN j - m ELSE 0
          /\ \A k \in 1..(j - m) : u[k] = b[m + k]
      BY <3>1, SliceIs
    <3>3. t = m + Len(u) BY <2>4, <2>6, <3>1
    <3> HIDE DEF u
    <3>4. Len(u) \in 0..(e - m) BY <1>2, <1>6, <3>1, <3>2 DEF e
    <3>5. t \in (m + n)..e
      <4>1. n = 0 \/ Len(u) = n BY <1>2, <3>2 DEF j
      <4> QED BY <1>2, <1>6, <3>3, <3>4, <4>1
    <3>6. ASSUME ~(m + c < 0) \/ e = m + n PROVE Len(u) = n BY <1>2, <3>6, <3>2 DEF j
    <3>7. ASSUME Len(u) = n PROVE u = body
      <4>1. ASSUME NEW k \in 1..n PROVE u[k] = body[k]
        <5>1. k \in 1..(j - m) /\ m + k <= e BY <1>2, <2>6, <3>2, <3>7, <3>1
        <5>2. b[m + k] = body[k] BY <1>3, <5>1 DEF Follows, n, e
        <5> QED BY <3>2, <5>1, <5>2
      <4> QED BY <3>2, <3>7, <4>1, SeqEqual DEF n
    <3>8. ~Overdrawn(b) \/ e = m + n => t = m + n /\ Body(b) = body
      BY <2>3, <2>5, <3>3, <3>6, <3>7
    <3> QED BY <1>4, <1>6, <2>1, <2>6, <3>5, <3>8 DEF h, m, n, e, t
  <2>7. CASE ~(IsRequestLine(start) /\ m + n <= e)
    <3>1. ~IsRequestLine(start) \/ e < m + c
      <4>1. ~(m + n <= e) => c = n BY <1>2, <1>6
      <4> QED BY <1>2, <2>7, <4>1
    <3>2. t = 0 BY <2>4, <3>1
    <3> QED BY <2>7, <3>2 DEF h, m, n, e, t
  <2> QED BY <2>6, <2>7
<1> QED BY <1>5, <1>6

(* What is sent on is read as the request that was received. *)
LEMMA ForwardedRead ==
  ASSUME NEW b \in Seq(Symbols), NEW start \in Tokens, IsRequestLine(start),
         NEW d \in Seq(Tokens), IsDict(d), NEW body \in Seq(Symbols), Measured(d, body),
         b[1] = start, Headers(b) = d, Body(b) = body
  PROVE  /\ TryParseRequest(SerialiseRequest(b)) = Len(SerialiseRequest(b))
         /\ Body(SerialiseRequest(b)) = body
         /\ Addressed(d, Headers(SerialiseRequest(b)))
<1> DEFINE r == InjectForwardedFor(d)
           h == HeadSection(start, r)
           f == h \o body
<1>1. SerialiseRequest(b) = f BY DEF SerialiseRequest, HeadSection
<1>2. /\ r \in Seq(Tokens) /\ IsDict(r) /\ Addressed(d, r)
      /\ Has(r, "content-length") <=> Has(d, "content-length")
      /\ \A n : Says(d, "content-length", n) => Says(r, "content-length", n)
      /\ \A n : AtMost(d, "content-length", n) => AtMost(r, "content-length", n)
  BY InjectForwardedForIs
<1> HIDE DEF r
<1>3. Dict(r) = r BY <1>2, DictOfDict
<1>4. Measured(r, body) BY <1>2 DEF Measured
<1>5. h \in Seq(Symbols) BY <1>2, HeadIs
<1> HIDE DEF h
<1>6. f \in Seq(Symbols) /\ Len(f) = Len(h) + Len(body)
  <2>1. Joined(Symbols, f, h, body, Len(h), Len(body)) BY <1>5, ConcatIs
  <2> HIDE DEF f
  <2> QED BY <2>1 DEF Joined
<1>l. Len(f) \in Nat
  <2> HIDE DEF f
  <2> QED BY <1>6
<1>7. Follows(f, 0, f)
  <2> HIDE DEF f
  <2>1. \A i \in 1..Len(f) : 0 + i = i BY <1>l
  <2> QED BY <2>1 DEF Follows
<1>8. Len(h) + Len(body) <= Len(f)
  <2> HIDE DEF f
  <2>1. Len(f) <= Len(f) BY <1>l
  <2> QED BY <1>6, <2>1
<1>9. /\ TryParseRequest(f) = Len(h) + Len(body)
      /\ Body(f) = body /\ Headers(f) = Dict(r)
  <2>1. Measured(Dict(r), body) BY <1>3, <1>4
  <2>2. Follows(f, 0, HeadSection(start, r) \o body) BY <1>7 DEF h
  <2>3. Len(HeadSection(start, r)) + Len(body) <= Len(f) BY <1>8 DEF h
  <2>4. Len(f) = Len(HeadSection(start, r)) + Len(body) BY <1>6 DEF h
  <2> HIDE DEF f
  <2> QED BY <1>2, <1>6, <2>1, <2>2, <2>3, <2>4, RequestRead DEF h
<1> HIDE DEF f
<1> QED BY <1>1, <1>2, <1>3, <1>6, <1>9

-----------------------------------------------------------------------------
(* Responses.                                                              *)
(* What goes on with two parts goes on with their concatenation.           *)
LEMMA FollowsJoined ==
  ASSUME NEW b \in Seq(Symbols), NEW o \in Nat, NEW t \in Seq(Symbols), NEW u \in Seq(Symbols),
         Follows(b, o, t), Follows(b, o + Len(t), u)
  PROVE  Follows(b, o, t \o u)
<1> DEFINE c == t \o u
           m == Len(t)
           n == Len(u)
<1>1. Joined(Symbols, c, t, u, m, n) BY ConcatIs
<1>2. m \in Nat /\ n \in Nat /\ Len(b) \in Nat OBVIOUS
<1> HIDE DEF c
<1> SUFFICES ASSUME NEW i \in 1..Len(c), o + i <= Len(b) PROVE b[o + i] = c[i]
  BY DEF Follows, c
<1>3. i \in 1..(m + n) BY <1>1 DEF Joined
<1>4. CASE i <= m
  <2>1. i \in 1..m /\ c[i] = t[i] BY <1>1, <1>2, <1>3, <1>4 DEF Joined
  <2> QED BY <2>1 DEF Follows
<1>5. CASE ~(i <= m)
  <2> DEFINE k == i - m
  <2> HIDE DEF m, n
  <2>1. k \in 1..n /\ i = m + k /\ o + i = (o + m) + k BY <1>2, <1>3, <1>5
  <2> HIDE DEF k
  <2>2. c[i] = u[k] BY <1>1, <2>1 DEF Joined
  <2>3. b[(o + m) + k] = u[k] BY <2>1 DEF Follows, m, n
  <2> QED BY <2>1, <2>2, <2>3
<1> QED BY <1>4, <1>5

(* What is left of a buffer behind its first n symbols. *)
LEMMA RestIs ==
  ASSUME NEW b \in Seq(Symbols), NEW n \in 0..Len(b)
  PROVE  LET r == SubSeq(b, n + 1, Len(b))
         IN /\ r \in Seq(Symbols) /\ Len(r) = Len(b) - n
            /\ \A k \in 1..Len(r) : r[k] = b[n + k]
            /\ \A o \in Nat : \A t : Follows(b, n + o, t) => Follows(r, o, t)
<1> DEFINE e == Len(b)
           r == SubSeq(b, n + 1, e)
           l == e - n
<1>0. e \in Nat /\ n \in 0..e OBVIOUS
<1>1. l \in Nat /\ n + 1 \in Nat \ {0} /\ n \in Nat /\ (n + 1) + l <= e + 1 /\ (n + 1) + l - 1 = e
      /\ \A k \in 1..l : (n + 1) + k - 1 = n + k
  <2> HIDE DEF e
  <2> QED BY <1>0
<1>2. r \in Seq(Symbols) /\ Len(r) = l /\ \A k \in 1..l : r[k] = b[n + k]
  <2>1. /\ SubSeq(b, n + 1, (n + 1) + l - 1) \in Seq(Symbols)
        /\ Len(SubSeq(b, n + 1, (n + 1) + l - 1)) = l
        /\ \A k \in 1..l : SubSeq(b, n + 1, (n + 1) + l - 1)[k] = b[(n + 1) + k - 1]
    <3>1. (n + 1) + l <= Len(b) + 1 BY <1>1
    <3> HIDE DEF l, e
    <3> QED BY <1>1, <3>1, SubSeqAt
  <2> HIDE DEF l, e
  <2> QED BY <1>1, <2>1
<1> HIDE DEF r
<1>3. ASSUME NEW o \in Nat, NEW t, Follows(b, n + o, t) PROVE Follows(r, o, t)
  <2> SUFFICES ASSUME NEW i \in 1..Len(t), o + i <= l PROVE r[o + i] = t[i]
    BY <1>2 DEF Follows
  <2>1. CASE i \in Nat /\ i > 0
    <3>1. o + i \in 1..l /\ (n + o) + i = n + (o + i) /\ (n + o) + i <= e
      <4> HIDE DEF e
      <4> QED BY <1>0, <2>1
    <3>2. b[(n + o) + i] = t[i] BY <1>3, <3>1 DEF Follows
    <3>3. r[o + i] = b[n + (o + i)] BY <1>2, <3>1
    <3> QED BY <3>1, <3>2, <3>3
  <2>2. i \in Nat /\ i > 0 OBVIOUS
  <2> QED BY <2>1, <2>2
<1>4. \A k \in 1..Len(r) : r[k] = b[n + k] BY <1>2
<1> QED BY <1>2, <1>3, <1>4 DEF r

(* A response that is not chunked. *)
LEMMA PlainResponseRead ==
  ASSUME NEW b \in Seq(Symbols), NEW start \in Tokens, NEW fields \in Seq(Tokens),
         ~Has(fields, "transfer-encoding"), Follows(b, 0, HeadSection(start, fields)),
         ContentLength(fields, CONTENT_LENGTH_ABSENT) \in Int
  PROVE  LET c == ContentLength(fields, CONTENT_LENGTH_ABSENT)
         IN /\ TryReadResponse(b)
                  = IF c >= 0 /\ Len(HeadSection(start, fields)) + c <= Len(b)
                    THEN Len(b) ELSE 0
            /\ HeaderEnd(b) # 0 => ~IsChunkedResponse(b)
<1> DEFINE m == Len(HeadSection(start, fields))
           e == Len(b)
           r == SubSeq(b, m + 1, e)
           c == ContentLength(fields, CONTENT_LENGTH_ABSENT)
<1>0. m \in Nat /\ e \in Nat /\ c \in Int BY HeadIs
<1>1. IF m <= e
      THEN /\ HeaderEnd(b) # 0 /\ HeaderLength(b) = m /\ FieldLines(b) = fields
      ELSE HeaderEnd(b) = 0
  BY HeadRead
<1>2. CASE ~(m <= e)
  <2>1. TryReadResponse(b) = 0 /\ HeaderEnd(b) = 0 BY <1>1, <1>2 DEF TryReadResponse
  <2>2. ~(c >= 0 /\ m + c <= e)
    <3> HIDE DEF m, e, c
    <3> QED BY <1>0, <1>2
  <2> QED BY <2>1, <2>2
<1>3. CASE m <= e
  <2>1. m \in 0..Len(b) BY <1>0, <1>3
  <2>2. Len(r) = e - m BY <2>1, RestIs
  <2>3. First(fields, "transfer-encoding") = 0 BY FirstIs
  <2>4. ~IsChunkedResponse(b) BY <1>1, <1>3, <2>3 DEF IsChunkedResponse
  <2>5. TryReadResponse(b) = IF c >= 0 /\ Len(r) >= c THEN e ELSE 0
    BY <1>1, <1>3, <2>4 DEF TryReadResponse, ResponseBody
  <2>6. e - m >= c <=> m + c <= e
    <3> HIDE DEF m, e, c
    <3> QED BY <1>0
  <2> HIDE DEF r
  <2> QED BY <2>2, <2>4, <2>5, <2>6
<1> QED BY <1>2, <1>3

(* A chunked response is as long as its body turns out.                    *)
LEMMA ChunkedResponseRead ==
  ASSUME NEW b \in Seq(Symbols), NEW start \in Tokens, NEW fields \in Seq(Tokens),
         Has(fields, "transfer-encoding"), Says(fields, "transfer-encoding", 1),
         Follows(b, 0, HeadSection(start, fields))
  PROVE  LET m == Len(HeadSection(start, fields))
             framed == TryConsumeChunkedBody(SubSeq(b, m + 1, Len(b)))
         IN /\ TryReadResponse(b) = IF m <= Len(b) /\ framed # 0 THEN m + framed ELSE 0
            /\ HeaderEnd(b) # 0 => m <= Len(b) /\ ResponseBody(b) = SubSeq(b, m + 1, Len(b))
<1> DEFINE m == Len(HeadSection(start, fields))
           e == Len(b)
           framed == TryConsumeChunkedBody(SubSeq(b, m + 1, e))
           i == First(fields, "transfer-encoding")
<1>1. IF m <= e
      THEN /\ HeaderEnd(b) # 0 /\ HeaderLength(b) = m /\ FieldLines(b) = fields
      ELSE HeaderEnd(b) = 0
  BY HeadRead
<1>2. CASE ~(m <= e)
  <2>1. TryReadResponse(b) = 0 /\ HeaderEnd(b) = 0 BY <1>1, <1>2 DEF TryReadResponse
  <2> QED BY <1>2, <2>1
<1>3. CASE m <= e
  <2>1. i \in DOMAIN fields /\ Lower(fields[i].text) = "transfer-encoding" /\ i # 0
    BY FirstIs
  <2>2. fields[i].value = 1
    <3>1. fields[i] \in Range(fields) BY <2>1 DEF Range
    <3> QED BY <2>1, <3>1 DEF Says
  <2>3. IsChunkedResponse(b) BY <1>1, <1>3, <2>1, <2>2 DEF IsChunkedResponse
  <2>4. TryReadResponse(b) = IF framed = 0 THEN 0 ELSE m + framed
    BY <1>1, <1>3, <2>3 DEF TryReadResponse, ResponseBody
  <2>5. ResponseBody(b) = SubSeq(b, m + 1, e) BY <1>1, <1>3 DEF ResponseBody
  <2> QED BY <1>3, <2>4, <2>5
<1> QED BY <1>2, <1>3

-----------------------------------------------------------------------------
(* The scan of a chunked body.                                             *)
(* The search behind the last chunk gives a place, or 0.                   *)
LEMMA EndOfTrailerIs ==
  ASSUME NEW b \in Seq(Symbols), NEW pos \in Nat \ {0}
  PROVE  EndOfTrailer(b, pos) \in 0..Len(b)
<1> DEFINE blank == Find(b, BlankLine, pos)
<1>0. Len(b) \in Nat OBVIOUS
<1>1. blank = 0 \/ (blank \in pos..Len(b) /\ IsAt(BlankLine, b, blank)) BY FindIs
<1>2. EndOfTrailer(b, pos) = IF blank # 0 THEN blank + 3
                             ELSE IF IsAt(CRLF, b, pos) THEN pos + 1 ELSE 0
  BY DEF EndOfTrailer
<1> HIDE DEF blank
<1>3. CASE blank # 0
  <2>1. blank \in Nat \ {0} BY <1>0, <1>1, <1>3
  <2>2. blank + 3 <= Len(b) BY <1>1, <1>3, <2>1, IsAtBlankLine
  <2> QED BY <1>0, <1>2, <1>3, <2>1, <2>2
<1>4. CASE blank = 0
  <2>1. IsAt(CRLF, b, pos) => pos + 1 <= Len(b) BY IsAtCRLF
  <2> QED BY <1>0, <1>2, <1>4, <2>1
<1> QED BY <1>3, <1>4

(* The end of a size line is behind its beginning.                         *)
LEMMA SizeLineEndIs ==
  ASSUME NEW b \in Seq(Symbols), NEW pos \in Nat \ {0}
  PROVE  \/ SizeLineEnd(b, pos) = 0
         \/ SizeLineEnd(b, pos) \in pos..Len(b) /\ pos \in 1..Len(b)
<1> DEFINE end == Find(b, CRLF, pos)
<1>1. end = 0 \/ end \in pos..Len(b) BY FindIs
<1>2. SizeLineEnd(b, pos) = 0 \/ SizeLineEnd(b, pos) = end BY DEF SizeLineEnd
<1> HIDE DEF end
<1>3. end \in pos..Len(b) => pos \in 1..Len(b) OBVIOUS
<1> QED BY <1>1, <1>2, <1>3

(* A round leads to a place in the body or to its end, also backwards.     *)
LEMMA NextChunkIs ==
  ASSUME NEW b \in Seq(Symbols), NEW pos \in 0..(Len(b) + 1)
  PROVE  NextChunk(b, pos) \in 0..(Len(b) + 1) /\ (pos = 0 => NextChunk(b, pos) = 0)
<1> DEFINE end == SizeLineEnd(b, pos)
           v == b[pos].value
           place == end + 2 + v
           start == IF place > 0 THEN place ELSE Len(b) + place
           Stops == \/ pos = 0 \/ end = 0 \/ v = 0
                    \/ place = -1 \/ start < 1 \/ ~IsAt(CRLF, b, start)
<1>0. Len(b) \in Nat OBVIOUS
<1>1. NextChunk(b, pos) = IF Stops THEN 0 ELSE start + 2 BY DEF NextChunk
<1>2. ASSUME ~Stops PROVE start + 2 \in 0..(Len(b) + 1)
  <2>1. pos \in Nat \ {0} BY <1>2
  <2>2. end \in Nat /\ pos \in 1..Len(b)
    <3>1. end \in pos..Len(b) /\ pos \in 1..Len(b) BY <1>2, <2>1, SizeLineEndIs
    <3> HIDE DEF end
    <3> QED BY <2>1, <3>1
  <2>3. v \in Int
    <3>1. b[pos] \in Symbols BY <2>2
    <3> QED BY <3>1 DEF Symbols
  <2>4. ~(start < 1) /\ IsAt(CRLF, b, start) BY <1>2
  <2>5. start \in Int
    <3> HIDE DEF end, v
    <3> QED BY <1>0, <2>2, <2>3
  <2> HIDE DEF start
  <2>6. start \in Nat \ {0} BY <2>4, <2>5
  <2>7. start + 1 <= Len(b) BY <2>4, <2>6, IsAtCRLF
  <2> QED BY <1>0, <2>6, <2>7
<1>3. pos = 0 => Stops OBVIOUS
<1>4. 0 \in 0..(Len(b) + 1) BY <1>0
<1> HIDE DEF Stops, start
<1> QED BY <1>1, <1>2, <1>3, <1>4

(* The places that the loop comes to, round by round. *)
Scans(at, b) ==
  /\ at \in [0..(Len(b) + 1) -> 0..(Len(b) + 1)]
  /\ at[0] = 1
  /\ \A i \in 1..(Len(b) + 1) : at[i] = NextChunk(b, at[i - 1])

(* Rounds gives them.                                                      *)
LEMMA RoundsAre ==
  ASSUME NEW b \in Seq(Symbols)
  PROVE  Scans(Rounds(b), b)
<1> DEFINE n == Len(b) + 1
           T == 0..n
           one == 1
           step == [i \in 1..n |-> [pos \in T |-> NextChunk(b, pos)]]
           Next1(g) == [i \in 0..(Len(b) + 1) |-> IF i = 0 THEN 1 ELSE NextChunk(b, g[i - 1])]
           at == CHOOSE g : g = Next1(g)
<1>0. n \in Nat /\ one \in T OBVIOUS
<1>1. step \in [1..n -> [T -> T]]
  <2>1. \A pos \in T : NextChunk(b, pos) \in T BY NextChunkIs
  <2> HIDE DEF T
  <2> QED BY <2>1
<1>2. PICK f : Iterates(f, T, n, one, step)
  <2> HIDE DEF step, T, n, one
  <2> QED BY <1>0, <1>1, RecursionExists
<1>3. f \in [0..n -> T] /\ f[0] = 1 /\ \A i \in 1..n : f[i] = step[i][f[i - 1]]
  BY <1>2 DEF Iterates
<1>4. ASSUME NEW i \in 1..n PROVE f[i] = NextChunk(b, f[i - 1])
  <2>1. i - 1 \in 0..n BY <1>0
  <2>2. f[i - 1] \in T BY <1>3, <2>1
  <2>3. step[i][f[i - 1]] = NextChunk(b, f[i - 1]) BY <2>2
  <2> HIDE DEF step
  <2> QED BY <1>3, <2>3
<1> HIDE DEF step
<1>5. f = [i \in 0..n |-> f[i]]
  <2> HIDE DEF n, T
  <2> QED BY <1>3
<1>6. \A i \in 0..n : f[i] = IF i = 0 THEN 1 ELSE NextChunk(b, f[i - 1])
  <2>1. \A i \in 0..n : i # 0 => i \in 1..n BY <1>0
  <2> HIDE DEF n, T
  <2> QED BY <1>3, <1>4, <2>1
<1>7. \A g : Next1(g) = [i \in 0..n |-> IF i = 0 THEN 1 ELSE NextChunk(b, g[i - 1])]
  OBVIOUS
<1>8. Rounds(b) = at BY DEF Rounds
<1> HIDE DEF Next1
<1>9. f = Next1(f)
  <2> HIDE DEF n
  <2> QED BY <1>5, <1>6, <1>7
<1>10. at = Next1(at) BY <1>9
<1> HIDE DEF at
<1>11. at = [i \in 0..n |-> IF i = 0 THEN 1 ELSE NextChunk(b, at[i - 1])] BY <1>7, <1>10
<1> HIDE DEF n
<1>12. DOMAIN at = 0..n /\ \A i \in 0..n : at[i] = IF i = 0 THEN 1 ELSE NextChunk(b, at[i - 1])
  BY <1>11
<1>13. at[0] = 1 /\ \A i \in 1..n : at[i] = NextChunk(b, at[i - 1])
  <2>1. 0 \in 0..n /\ \A i \in 1..n : i \in 0..n /\ i # 0 BY <1>0
  <2> QED BY <1>12, <2>1
<1> DEFINE S == {i \in 0..n : at[i] \in T}
<1>14. 0 \in S
  <2>1. 0 \in 0..n BY <1>0
  <2> QED BY <1>0, <1>13, <2>1
<1>15. ASSUME NEW k \in 0..(n - 1), k \in S PROVE k + 1 \in S
  <2>1. k + 1 \in 1..n /\ (k + 1) - 1 = k /\ k + 1 \in 0..n BY <1>0
  <2>2. at[k + 1] = NextChunk(b, at[k]) BY <1>13, <2>1
  <2>3. NextChunk(b, at[k]) \in T BY <1>15, NextChunkIs DEF n
  <2> QED BY <2>1, <2>2, <2>3
<1>16. S = 0..n
  <2>1. S \in SUBSET (0..n) OBVIOUS
  <2> HIDE DEF S
  <2> QED BY <1>0, <1>14, <1>15, <2>1, InductionTo
<1>17. at \in [0..n -> T]
  <2>1. \A i \in 0..n : at[i] \in T BY <1>16
  <2> HIDE DEF T
  <2> QED BY <1>11, <2>1
<1> QED BY <1>8, <1>13, <1>17 DEF Scans, n

(* After the loop has returned, it has returned.                           *)
LEMMA ZeroStays ==
  ASSUME NEW b \in Seq(Symbols), NEW at, Scans(at, b),
         NEW j \in 0..(Len(b) + 1), at[j] = 0
  PROVE  \A k \in 0..(Len(b) + 1) : k >= j => at[k] = 0
<1> DEFINE n == Len(b) + 1
           S == {k \in 0..n : k >= j => at[k] = 0}
<1>0. n \in Nat /\ Len(b) \in Nat OBVIOUS
<1>1. \A i \in 1..n : at[i] = NextChunk(b, at[i - 1]) BY DEF Scans
<1>2. 0 \in S
  <2>1. 0 \in 0..n /\ (0 >= j => 0 = j) BY <1>0
  <2> QED BY <2>1
<1>3. ASSUME NEW k \in 0..(n - 1), k \in S PROVE k + 1 \in S
  <2>1. k + 1 \in 1..n /\ (k + 1) - 1 = k /\ k + 1 \in 0..n BY <1>0
  <2>2. k + 1 >= j => k >= j \/ k + 1 = j BY <1>0
  <2>3. k >= j => at[k + 1] = 0
    <3>1. 0 \in 0..(Len(b) + 1) BY <1>0
    <3>2. NextChunk(b, 0) = 0 BY <3>1, NextChunkIs
    <3> QED BY <1>1, <1>3, <2>1, <3>2
  <2> HIDE DEF n
  <2> QED BY <2>1, <2>2, <2>3
<1>4. S = 0..n
  <2>1. S \in SUBSET (0..n) OBVIOUS
  <2> HIDE DEF S, n
  <2> QED BY <1>0, <1>2, <1>3, <2>1, InductionTo
<1> QED BY <1>4

(* The round that is not followed by another is the last.                  *)
LEMMA LastRound ==
  ASSUME NEW b \in Seq(Symbols), NEW at, Scans(at, b), at = Rounds(b),
         NEW j \in 0..Len(b), at[j] # 0, at[j + 1] = 0
  PROVE  Returns(b) /\ TryConsumeChunkedBody(b) = StopAt(b, at[j])
<1> DEFINE n == Len(b) + 1
           i == CHOOSE k \in 0..Len(b) : at[k] # 0 /\ at[k + 1] = 0
<1>0. Len(b) \in Nat /\ n \in Nat OBVIOUS
<1>1. i \in 0..Len(b) /\ at[i] # 0 /\ at[i + 1] = 0 OBVIOUS
<1> HIDE DEF i
<1>2. /\ j \in 0..n /\ j + 1 \in 0..n /\ i \in 0..n /\ i + 1 \in 0..n /\ n \in 0..n
      /\ (i < j => j >= i + 1) /\ (j < i => i >= j + 1) /\ n >= j + 1
  BY <1>0, <1>1
<1>3. at[n] = 0 BY <1>2, ZeroStays
<1>4. ~(i < j) BY <1>1, <1>2, ZeroStays
<1>5. ~(j < i) BY <1>2, ZeroStays, <1>1
<1>6. i = j BY <1>0, <1>1, <1>4, <1>5
<1>7. Returns(b) BY <1>3 DEF Returns
<1>8. TryConsumeChunkedBody(b) = StopAt(b, at[i])
  BY <1>7 DEF TryConsumeChunkedBody, i
<1> QED BY <1>6, <1>7, <1>8

(* If the loop returns, it has a last round. *)
LEMMA SomeLastRound ==
  ASSUME NEW b \in Seq(Symbols), NEW at, Scans(at, b), at = Rounds(b), Returns(b)
  PROVE  \E j \in 0..Len(b) : at[j] # 0 /\ at[j + 1] = 0
<1> SUFFICES ASSUME \A j \in 0..Len(b) : at[j] # 0 => at[j + 1] # 0 PROVE FALSE
  OBVIOUS
<1> DEFINE n == Len(b) + 1
           S == {k \in 0..n : at[k] # 0}
<1>0. n \in Nat /\ n \in 0..n /\ 0 \in 0..n OBVIOUS
<1>1. 0 \in S BY <1>0 DEF Scans
<1>2. ASSUME NEW k \in 0..(n - 1), k \in S PROVE k + 1 \in S
  <2>1. k \in 0..Len(b) /\ k + 1 \in 0..n BY <1>0
  <2> QED BY <1>2, <2>1
<1>3. S = 0..n
  <2>1. S \in SUBSET (0..n) OBVIOUS
  <2> HIDE DEF S, n
  <2> QED BY <1>0, <1>1, <1>2, <2>1, InductionTo
<1>4. at[n] # 0 BY <1>0, <1>3
<1>5. at[n] = 0 BY DEF Returns
<1> QED BY <1>4, <1>5

(* Whatever the body, no more is found than there is.                      *)
LEMMA ConsumedIs ==
  ASSUME NEW b \in Seq(Symbols)
  PROVE  TryConsumeChunkedBody(b) \in 0..Len(b)
<1> DEFINE at == Rounds(b)
<1>0. Len(b) \in Nat /\ 0 \in 0..Len(b) OBVIOUS
<1>1. CASE ~Returns(b)
  <2>1. TryConsumeChunkedBody(b) = 0 BY <1>1 DEF TryConsumeChunkedBody
  <2> QED BY <1>0, <2>1
<1>2. CASE Returns(b)
  <2>1. Scans(at, b) BY RoundsAre
  <2> HIDE DEF at
  <2>2. at = Rounds(b) BY DEF at
  <2>3. PICK j \in 0..Len(b) : at[j] # 0 /\ at[j + 1] = 0 BY <1>2, <2>1, <2>2, SomeLastRound
  <2>4. TryConsumeChunkedBody(b) = StopAt(b, at[j]) BY <2>1, <2>2, <2>3, LastRound
  <2> DEFINE pos == at[j]
             end == SizeLineEnd(b, pos)
  <2>5. pos \in Nat \ {0}
    <3>1. j \in 0..(Len(b) + 1) BY <1>0
    <3>2. pos \in 0..(Len(b) + 1) BY <2>1, <3>1 DEF Scans
    <3> QED BY <2>3, <3>2
  <2> HIDE DEF pos
  <2>6. end = 0 \/ end \in pos..Len(b) BY <2>5, SizeLineEndIs
  <2>7. end + 2 \in Nat \ {0}
    <3> HIDE DEF end
    <3> QED BY <2>5, <2>6
  <2>8. EndOfTrailer(b, end + 2) \in 0..Len(b) BY <2>7, EndOfTrailerIs
  <2> QED BY <1>0, <2>4, <2>8 DEF StopAt, pos
<1> QED BY <1>1, <1>2

-----------------------------------------------------------------------------
(* Chunks.                                                                 *)
IsSize(x) == x.text = "size"

IsExtension(s) == \A i \in DOMAIN s : s[i].text = "extension"

SizeLineOf(x, extension) == <<x>> \o extension \o CRLF

(* A size line holds no line end, with its extension or without, and       *)
(* parses if it begins with a number.                                      *)
LEMMA SizeLineIs ==
  ASSUME NEW x \in Tokens, NEW s \in Seq(Symbols), IsExtension(s)
  PROVE  LET u == <<x>> \o s
         IN /\ u \in Seq(Symbols) /\ Len(u) = Len(s) + 1 /\ u[1] = x
            /\ \A k \in 1..(Len(s) + 1) : u[k] # CR
            /\ SizeLine(u) <=> IsSize(x)
            /\ SizeLineOf(x, s) = u \o CRLF
            /\ SizeLineOf(x, s) \in Seq(Symbols) /\ Len(SizeLineOf(x, s)) = Len(s) + 3
<1> DEFINE a == <<x>>
           u == a \o s
           n == Len(s)
<1>0. n \in Nat OBVIOUS
<1>x. x \in Symbols /\ x # CR BY TokenIsNoLineEnd DEF Tokens
<1>1. a \in Seq(Symbols) /\ Len(a) = 1 /\ a[1] = x BY <1>x
<1> HIDE DEF a, n
<1>2. Joined(Symbols, u, a, s, 1, n) BY <1>1, ConcatIs DEF n
<1> HIDE DEF u
<1>3. u \in Seq(Symbols) /\ Len(u) = n + 1 /\ 1 \in 1..1 BY <1>0, <1>2 DEF Joined
<1>4. u[1] = x BY <1>1, <1>2, <1>3 DEF Joined
<1>5. \A k \in 1..n : u[1 + k] = s[k] BY <1>2 DEF Joined
<1>6. ASSUME NEW k \in 1..n PROVE u[1 + k].text = "extension"
  <2>1. k \in DOMAIN s BY DEF n
  <2> QED BY <1>5, <2>1 DEF IsExtension
<1>8. ASSUME NEW k \in 1..(n + 1) PROVE u[k] # CR
  <2>1. CASE k = 1 BY <1>4, <1>x, <2>1
  <2>2. CASE k # 1
    <3>1. k - 1 \in 1..n /\ 1 + (k - 1) = k BY <1>0, <2>2
    <3>2. u[k].text = "extension" BY <1>6, <3>1
    <3> QED BY <3>2, LineEnds
  <2> QED BY <2>1, <2>2
<1>9. SizeLine(u) <=> IsSize(x)
  <2>1. u # << >> BY <1>0, <1>3
  <2>2. Len(u) > 1 => u[2].text = "extension"
    <3>1. Len(u) > 1 => 1 \in 1..n /\ 1 + 1 = 2 BY <1>0, <1>3
    <3> QED BY <1>6, <3>1
  <2> QED BY <1>4, <2>1, <2>2 DEF SizeLine, IsSize
<1>10. SizeLineOf(x, s) = u \o CRLF BY DEF SizeLineOf, u, a
<1>11. u \o CRLF \in Seq(Symbols) /\ Len(u \o CRLF) = n + 3
  <2>1. Joined(Symbols, u \o CRLF, u, CRLF, Len(u), Len(CRLF)) BY <1>3, CRLFIs, ConcatIs
  <2> DEFINE w == u \o CRLF
  <2>2. w \in Seq(Symbols) /\ Len(w) = (n + 1) + 2 BY <1>3, <2>1, CRLFIs DEF Joined
  <2> HIDE DEF w
  <2>3. Len(w) = n + 3 BY <1>0, <2>2
  <2> QED BY <2>2, <2>3 DEF w
<1> QED BY <1>3, <1>4, <1>8, <1>9, <1>10, <1>11 DEF u, a, n

(* The line before a chunk is found with its last byte. *)
LEMMA SizeLineRead ==
  ASSUME NEW b \in Seq(Symbols), NEW o \in Nat,
         NEW x \in Tokens, NEW s \in Seq(Symbols), IsExtension(s),
         Follows(b, o, SizeLineOf(x, s))
  PROVE  IF o + Len(s) + 3 <= Len(b)
         THEN /\ SizeLineEnd(b, o + 1) = IF IsSize(x) THEN o + Len(s) + 2 ELSE 0
              /\ b[o + 1] = x
         ELSE SizeLineEnd(b, o + 1) = 0
<1> DEFINE u == <<x>> \o s
           n == Len(s)
           e == Len(b)
<1>0. n \in Nat /\ e \in Nat OBVIOUS
<1>1. /\ u \in Seq(Symbols) /\ Len(u) = n + 1 /\ u[1] = x
      /\ \A k \in 1..(n + 1) : u[k] # CR
      /\ (SizeLine(u) <=> IsSize(x)) /\ SizeLineOf(x, s) = u \o CRLF
  BY SizeLineIs
<1> HIDE DEF u, n
<1>2. Follows(b, o, u) /\ Follows(b, o + (n + 1), CRLF)
  <2>1. Follows(b, o, u \o CRLF) BY <1>1
  <2> QED BY <1>1, <2>1, CRLFIs, FollowsBoth
<1>3. ASSUME NEW k \in 1..(n + 1), o + k <= e PROVE b[o + k] = u[k]
  BY <1>1, <1>2, <1>3 DEF Follows
<1> HIDE DEF e
<1>4. ASSUME NEW j \in (o + 1)..(o + n + 1), j <= e PROVE ~IsAt(CRLF, b, j)
  <2> DEFINE k == j - o
  <2>1. k \in 1..(n + 1) /\ j = o + k /\ j \in Nat \ {0} BY <1>0
  <2> HIDE DEF k
  <2>2. b[j] # CR BY <1>1, <1>3, <1>4, <2>1
  <2> QED BY <2>1, <2>2, IsAtCRLF
<1>5. CASE o + n + 3 <= e
  <2>1. /\ o + n + 2 \in (o + 1)..e /\ o + n + 2 \in Nat \ {0} /\ (o + n + 2) + 1 = o + n + 3
        /\ o + (n + 1) + 1 = o + n + 2 /\ o + (n + 1) + 2 = o + n + 3
        /\ o + n + 2 <= e /\ (o + n + 2) - 1 = o + n + 1 /\ o + 1 \in Nat \ {0}
        /\ \A j \in (o + 1)..(o + n + 1) : j <= e
    BY <1>0, <1>5
  <2>2. b[o + n + 2] = CR /\ b[o + n + 3] = LF
    <3>1. 1 \in 1..Len(CRLF) /\ 2 \in 1..Len(CRLF) BY CRLFIs
    <3> QED BY <1>2, <1>5, <2>1, <3>1, CRLFIs DEF Follows, e
  <2>3. IsAt(CRLF, b, o + n + 2) BY <1>5, <2>1, <2>2, IsAtCRLF DEF e
  <2>4. Find(b, CRLF, o + 1) = o + n + 2
    <3> DEFINE i == o + n + 2
    <3>1. i \in (o + 1)..Len(b) /\ IsAt(CRLF, b, i) BY <2>1, <2>3 DEF e
    <3>2. \A j \in (o + 1)..(i - 1) : ~IsAt(CRLF, b, j) BY <1>4, <2>1
    <3> HIDE DEF i
    <3>3. Find(b, CRLF, o + 1) = i BY <2>1, <3>1, <3>2, FindAt
    <3> QED BY <3>3 DEF i
  <2>5. SubSeq(b, o + 1, o + n + 1) = u
    <3> DEFINE l == n + 1
               v == SubSeq(b, o + 1, o + n + 1)
    <3>1. /\ l \in Nat /\ (o + 1) + l <= e + 1 /\ (o + 1) + l - 1 = o + n + 1
          /\ \A k \in 1..l : (o + 1) + k - 1 = o + k /\ o + k <= e
      BY <1>0, <1>5
    <3>2. /\ SubSeq(b, o + 1, (o + 1) + l - 1) \in Seq(Symbols)
          /\ Len(SubSeq(b, o + 1, (o + 1) + l - 1)) = l
          /\ \A k \in 1..l : SubSeq(b, o + 1, (o + 1) + l - 1)[k] = b[(o + 1) + k - 1]
      <4>1. (o + 1) + l <= Len(b) + 1 BY <3>1 DEF e
      <4> HIDE DEF l
      <4> QED BY <2>1, <3>1, <4>1, SubSeqAt
    <3>3. v \in Seq(Symbols) /\ Len(v) = l /\ \A k \in 1..l : v[k] = b[o + k]
      <4> HIDE DEF l
      <4> QED BY <3>1, <3>2
    <3> HIDE DEF v
    <3>4. \A k \in 1..l : v[k] = u[k] BY <1>3, <3>1, <3>3
    <3>5. v = u BY <1>1, <3>3, <3>4, SeqEqual
    <3> QED BY <3>5 DEF v
  <2>6. b[o + 1] = x
    <3>1. 1 \in 1..(n + 1) /\ o + 1 <= e BY <1>0, <1>5
    <3> QED BY <1>1, <1>3, <3>1
  <2>7. SizeLineEnd(b, o + 1) = IF IsSize(x) THEN o + n + 2 ELSE 0
    <3>1. o + n + 2 # 0 BY <1>0
    <3>2. SubSeq(b, o + 1, (o + n + 2) - 1) = u BY <2>1, <2>5
    <3> QED BY <1>1, <2>4, <3>1, <3>2 DEF SizeLineEnd
  <2> QED BY <1>5, <2>6, <2>7 DEF n, e
<1>6. CASE ~(o + n + 3 <= e)
  <2>1. ASSUME NEW j \in (o + 1)..e PROVE ~IsAt(CRLF, b, j)
    <3>1. CASE j <= o + n + 1
      <4>1. j \in (o + 1)..(o + n + 1) /\ j <= e BY <1>0, <3>1
      <4> QED BY <1>4, <4>1
    <3>2. CASE ~(j <= o + n + 1)
      <4>1. j \in Nat \ {0} /\ ~(j + 1 <= e) BY <1>0, <1>6, <3>2
      <4> QED BY <4>1, IsAtCRLF DEF e
    <3> QED BY <3>1, <3>2
  <2>2. o + 1 \in Nat \ {0} /\ \A j \in (o + 1)..Len(b) : ~IsAt(CRLF, b, j) BY <2>1 DEF e
  <2>3. Find(b, CRLF, o + 1) = 0 BY <2>2, FindNone
  <2>4. SizeLineEnd(b, o + 1) = 0 BY <2>3 DEF SizeLineEnd
  <2> QED BY <1>6, <2>4 DEF n, e
<1> QED BY <1>5, <1>6

EndOfChunk(c) == IF c.malformed THEN <<Symbol("data", 0), CRLF[2]>> ELSE CRLF

(* The two bytes behind the data.                                          *)
LEMMA EndOfChunkIs ==
  ASSUME NEW c \in Chunks
  PROVE  /\ EndOfChunk(c) \in Seq(Symbols) /\ Len(EndOfChunk(c)) = 2
         /\ EndOfChunk(c)[2] = LF
         /\ EndOfChunk(c)[1] = CR <=> ~c.malformed
<1>1. CASE c.malformed
  <2> DEFINE x == Symbol("data", 0)
  <2>1. x \in Symbols /\ x # CR
    <3>1. "data" \in Texts /\ 0 \in Int BY TextAssumption
    <3>2. x.text = "data" BY DEF Symbol
    <3>3. x \in Symbols BY <3>1 DEF Symbol, Symbols
    <3> QED BY <3>2, <3>3, LineEnds
  <2>2. EndOfChunk(c) = <<x, LF>> BY <1>1, CRLFIs DEF EndOfChunk
  <2>3. LF \in Symbols BY LineEnds
  <2> HIDE DEF x
  <2>4. <<x, LF>> \in Seq(Symbols) BY <2>1, <2>3
  <2> QED BY <1>1, <2>1, <2>2, <2>4
<1>2. CASE ~c.malformed
  BY <1>2, CRLFIs DEF EndOfChunk
<1> QED BY <1>1, <1>2

(* A size is negative, or not a number, or that of the data.               *)
IsNegative(c) == IsSize(c.size) /\ c.size.value < 0

(* The size line of a chunk, and the data.                                 *)
LEMMA SizeIs ==
  ASSUME NEW c \in Chunks
  PROVE  /\ c.size \in Tokens
         /\ IsSize(c.size) /\ ~IsNegative(c) => c.size.value = Len(c.data)
         /\ c.data \in Seq(Symbols) /\ Len(c.data) \in Nat \ {0}
         /\ c.extension \in Seq(Symbols) /\ IsExtension(c.extension)
<1>1. /\ c.data \in Seq(Symbols) \ {<< >>} /\ c.malformed \in BOOLEAN
      /\ c.extension \in Seq({x \in Symbols : x.text = "extension"})
      /\ c.size \in Tokens
  BY DEF Chunks
<1>2. Len(c.data) \in Nat \ {0}
  <2> DEFINE d == c.data
  <2>1. d \in Seq(Symbols) /\ d # << >> BY <1>1
  <2> HIDE DEF d
  <2>2. Len(d) \in Nat \ {0} BY <2>1, EmptySeq
  <2> QED BY <2>2 DEF d
<1>3. IsSize(c.size) => c.size.value = Len(c.data) \/ c.size.value < 0
  BY DEF Chunks, IsSize
<1>4. c.extension \in Seq(Symbols) /\ IsExtension(c.extension)
  <2> DEFINE s == c.extension
             E == {x \in Symbols : x.text = "extension"}
  <2>1. s \in Seq(E) BY <1>1
  <2> HIDE DEF s
  <2>2. \A i \in 1..Len(s) : s[i] \in E
    <3> HIDE DEF E
    <3> QED BY <2>1
  <2>3. DOMAIN s = 1..Len(s) /\ Len(s) \in Nat
    <3> HIDE DEF E
    <3> QED BY <2>1
  <2>4. s = [i \in 1..Len(s) |-> s[i]]
    <3> HIDE DEF E
    <3> QED BY <2>1
  <2>5. s \in Seq(Symbols) BY <2>2, <2>3, <2>4
  <2>6. IsExtension(s) BY <2>2, <2>3 DEF IsExtension
  <2> QED BY <2>5, <2>6 DEF s
<1> QED BY <1>1, <1>2, <1>3, <1>4 DEF IsNegative

(* The parts of a chunk, and their places.                                 *)
LEMMA ChunkIs ==
  ASSUME NEW c \in Chunks, NEW b \in Seq(Symbols), NEW o \in Nat
  PROVE  LET n == Len(c.extension) + 3
             d == Len(c.data)
         IN /\ Chunk(c) \in Seq(Symbols) /\ Len(Chunk(c)) = n + d + 2
            /\ Follows(b, o, Chunk(c)) =>
                 /\ Follows(b, o, SizeLineOf(c.size, c.extension))
                 /\ Follows(b, o + (n + d), EndOfChunk(c))
<1> DEFINE v == SizeLineOf(c.size, c.extension)
           n == Len(c.extension) + 3
           data == c.data
           d == Len(data)
           t == EndOfChunk(c)
<1>1. v \in Seq(Symbols) /\ Len(v) = n BY SizeIs, SizeLineIs
<1>2. data \in Seq(Symbols) /\ n \in Nat /\ d \in Nat BY SizeIs
<1>3. t \in Seq(Symbols) /\ Len(t) = 2 BY EndOfChunkIs
<1>4. Chunk(c) = (v \o data) \o t BY DEF Chunk, SizeLineOf, EndOfChunk
<1> HIDE DEF v, data, t, n
<1>5. v \o data \in Seq(Symbols) /\ Len(v \o data) = n + d BY <1>1, <1>2, FollowsBoth
<1> DEFINE w == v \o data
<1>w. w \in Seq(Symbols) /\ Len(w) = n + d BY <1>5
<1> HIDE DEF w, d
<1>6. w \o t \in Seq(Symbols) /\ Len(w \o t) = (n + d) + 2
  <2>1. Joined(Symbols, w \o t, w, t, Len(w), Len(t)) BY <1>w, <1>3, ConcatIs
  <2> QED BY <1>w, <1>3, <2>1 DEF Joined
<1>7. ASSUME Follows(b, o, w \o t) PROVE Follows(b, o, v) /\ Follows(b, o + (n + d), t)
  <2>1. Follows(b, o, w) /\ Follows(b, o + Len(w), t) BY <1>w, <1>3, <1>7, FollowsBoth
  <2>2. Follows(b, o, v) BY <1>1, <1>2, <2>1, FollowsBoth DEF w
  <2> QED BY <1>w, <2>1, <2>2
<1>8. Chunk(c) = w \o t BY <1>4 DEF w
<1>9. (n + d) + 2 = n + d + 2 OBVIOUS
<1> QED BY <1>6, <1>7, <1>8, <1>9 DEF v, data, t, n, d

IsSound(c) == ~c.malformed /\ IsSize(c.size)

(* One round of the loop: over a chunk that is there with its line ends.   *)
LEMMA ChunkRead ==
  ASSUME NEW b \in Seq(Symbols), NEW o \in Nat, o <= Len(b), NEW c \in Chunks, ~IsNegative(c),
         Follows(b, o, Chunk(c))
  PROVE  IF IsSound(c) /\ o + Len(Chunk(c)) <= Len(b)
         THEN NextChunk(b, o + 1) = o + Len(Chunk(c)) + 1
         ELSE NextChunk(b, o + 1) = 0 /\ StopAt(b, o + 1) = 0
<1> DEFINE l == Len(c.extension)
           d == Len(c.data)
           e == Len(b)
           t == EndOfChunk(c)
           w == Len(Chunk(c))
           pos == o + 1
           end == SizeLineEnd(b, pos)
           v == b[pos].value
           place == end + 2 + v
           start == IF place > 0 THEN place ELSE e + place
           p == o + ((l + 3) + d) + 1
<1>0. l \in Nat /\ d \in Nat \ {0} /\ e \in Nat BY SizeIs
<1>1. w = (l + 3) + d + 2 BY ChunkIs
<1>2. Follows(b, o, SizeLineOf(c.size, c.extension)) /\ Follows(b, o + ((l + 3) + d), t)
  BY ChunkIs
<1>3. IF o + l + 3 <= e
      THEN end = (IF IsSize(c.size) THEN o + l + 2 ELSE 0) /\ b[pos] = c.size
      ELSE end = 0
  BY <1>2, SizeIs, SizeLineRead
<1>4. Len(t) = 2 /\ t[2] = LF /\ (t[1] = CR <=> ~c.malformed) BY EndOfChunkIs
<1>5. NextChunk(b, pos) = IF \/ pos = 0 \/ end = 0 \/ v = 0
                             \/ place = -1 \/ start < 1 \/ ~IsAt(CRLF, b, start)
                          THEN 0 ELSE start + 2
  BY DEF NextChunk
<1>6. StopAt(b, pos) = IF end = 0 \/ v # 0 THEN 0 ELSE EndOfTrailer(b, end + 2)
  BY DEF StopAt
<1>v. IsSize(c.size) => c.size.value = d BY SizeIs
<1> DEFINE sound == IsSound(c)
           sized == IsSize(c.size)
           bad == c.malformed
<1>s. sound <=> ~bad /\ sized BY DEF IsSound
<1>7. CASE end = 0
  <2>1. NextChunk(b, pos) = 0 /\ StopAt(b, pos) = 0 BY <1>5, <1>6, <1>7
  <2>2. ~(sound /\ o + w <= e)
    <3>1. ~(o + l + 3 <= e) \/ ~sized
      <4> HIDE DEF l, e, end, pos, sized
      <4> QED BY <1>0, <1>3, <1>7 DEF sized
    <3> HIDE DEF l, d, e, w, sound, sized, bad
    <3> QED BY <1>0, <1>1, <1>s, <3>1
  <2> QED BY <2>1, <2>2
<1>8. CASE end # 0
  <2>1. o + l + 3 <= e /\ sized /\ end = o + l + 2 /\ v = d BY <1>3, <1>8, <1>v
  <2>2. /\ pos # 0 /\ v # 0 /\ place = p /\ start = p /\ ~(place = -1) /\ ~(start < 1)
        /\ p + 2 = o + w + 1 /\ p \in Nat \ {0} /\ p + 1 = o + w
        /\ o + ((l + 3) + d) + 2 = p + 1
    <3> HIDE DEF end, v, l, d, e, w
    <3> QED BY <1>0, <1>1, <2>1
  <2>3. StopAt(b, pos) = 0 BY <1>6, <2>2
  <2>4. NextChunk(b, pos) = IF ~IsAt(CRLF, b, p) THEN 0 ELSE p + 2
    <3> HIDE DEF end, v, place, start, pos, p
    <3> QED BY <1>5, <1>8, <2>2
  <2> HIDE DEF end, v, place, start, l, d, e, w, t, pos
  <2>5. IsAt(CRLF, b, p) <=> o + w <= Len(b) /\ b[p] = CR /\ b[p + 1] = LF
    <3> HIDE DEF p
    <3> QED BY <2>2, IsAtCRLF
  <2>6. ASSUME o + w <= e PROVE b[p] = t[1] /\ b[p + 1] = LF
    <3>1. 1 \in 1..Len(t) /\ 2 \in 1..Len(t) BY <1>4
    <3>2. o + ((l + 3) + d) + 1 <= e BY <1>0, <1>1, <2>6
    <3>3. b[o + ((l + 3) + d) + 1] = t[1] BY <1>2, <3>1, <3>2 DEF Follows, e
    <3>4. b[o + ((l + 3) + d) + 2] = t[2] BY <1>2, <2>2, <2>6, <3>1 DEF Follows, e
    <3> QED BY <1>4, <2>2, <3>3, <3>4
  <2> HIDE DEF p, sound, sized, bad
  <2>7. IsAt(CRLF, b, p) <=> o + w <= e /\ ~bad
    <3>1. CASE ~(o + w <= e) BY <2>5, <3>1 DEF e
    <3>2. CASE o + w <= e
      <4>1. IsAt(CRLF, b, p) <=> t[1] = CR BY <2>5, <2>6, <3>2 DEF e
      <4> QED BY <1>4, <3>2, <4>1 DEF bad
    <3> QED BY <3>1, <3>2
  <2> QED BY <1>s, <2>1, <2>2, <2>3, <2>4, <2>7 DEF w, e, pos, sound
<1> QED BY <1>7, <1>8

(* What the search behind the last chunk finds.                            *)
EndsAt(b, framed, w, s) ==
  \/ framed = w
  \/ /\ s = << >> /\ framed > w /\ framed <= Len(b) /\ framed - 3 \in Nat \ {0}
     /\ IsAt(BlankLine, b, framed - 3)

(* A trailer is found where it ends; without one, maybe further on.        *)
LEMMA TrailerRead ==
  ASSUME NEW b \in Seq(Symbols), NEW o \in Nat, NEW s \in Seq(Tokens),
         Follows(b, o, Each(s, Line) \o CRLF)
  PROVE  LET w == o + 3 * Len(s) + 2
             framed == EndOfTrailer(b, o + 1)
         IN IF w <= Len(b) THEN framed \in Nat /\ EndsAt(b, framed, w, s) ELSE framed = 0
<1> DEFINE n == Len(s)
           e == Len(b)
           w == o + 3 * n + 2
           blank == Find(b, BlankLine, o + 1)
           framed == EndOfTrailer(b, o + 1)
<1>0. n \in Nat /\ e \in Nat /\ o + 1 \in Nat \ {0} OBVIOUS
<1>1. GoesOn(b, o, s) BY EachLineIs, LinesGoOn
<1>2. framed = IF blank # 0 THEN blank + 3 ELSE IF IsAt(CRLF, b, o + 1) THEN o + 2 ELSE 0
  <2>1. (o + 1) + 1 = o + 2 OBVIOUS
  <2> QED BY <2>1 DEF EndOfTrailer
<1>3. CASE s # << >>
  <2>1. blank = IF o + 3 * n + 2 <= e THEN o + 3 * n - 1 ELSE 0
    BY <1>1, <1>3, BlankLineIsLast
  <2>2. n # 0 BY <1>3
  <2>3. ~IsAt(CRLF, b, o + 1)
    <3> SUFFICES ASSUME IsAt(CRLF, b, o + 1) PROVE FALSE OBVIOUS
    <3>1. (o + 1) + 1 <= e /\ b[o + 1] = CR BY <1>0, IsAtCRLF
    <3>2. 1 \in 1..n /\ o + 3 * 1 - 2 = o + 1 /\ o + 1 <= e
      <4> HIDE DEF n, e
      <4> QED BY <1>0, <2>2, <3>1
    <3>3. b[o + 1] = s[1] /\ s[1] \in Tokens BY <1>1, <3>2 DEF GoesOn
    <3> QED BY <3>1, <3>3, TokenIsNoLineEnd
  <2> HIDE DEF n, e, blank, framed
  <2>4. CASE w <= e
    <3>1. blank = o + 3 * n - 1 BY <2>1, <2>4
    <3>2. blank # 0 /\ blank + 3 = w BY <1>0, <2>2, <3>1
    <3>3. framed = w BY <1>2, <3>2
    <3>4. w \in Nat BY <1>0
    <3> QED BY <2>4, <3>3, <3>4 DEF EndsAt, n, e, framed
  <2>5. CASE ~(w <= e)
    <3>1. blank = 0 BY <2>1, <2>5
    <3>2. framed = 0 BY <1>2, <2>3, <3>1
    <3> QED BY <2>5, <3>2 DEF n, e, framed
  <2> QED BY <2>4, <2>5
<1>4. CASE s = << >>
  <2>1. n = 0 BY <1>4
  <2>2. w = o + 2 /\ o + 3 * n + 1 = o + 1 /\ o + 3 * n + 2 = o + 2
    <3> HIDE DEF n
    <3> QED BY <2>1
  <2>3. blank = 0 \/ (blank \in (o + 1)..e /\ IsAt(BlankLine, b, blank)) BY <1>0, FindIs
  <2> HIDE DEF n, blank, framed
  <2>4. ASSUME blank # 0
        PROVE  /\ blank + 3 > o + 2 /\ blank + 3 <= e /\ (blank + 3) - 3 = blank
               /\ blank \in Nat \ {0} /\ blank + 3 \in Nat
    <3>1. blank \in (o + 1)..e /\ IsAt(BlankLine, b, blank) BY <2>3, <2>4
    <3>2. blank \in Nat \ {0} BY <1>0, <3>1
    <3>3. blank + 3 <= e BY <3>1, <3>2, IsAtBlankLine
    <3> HIDE DEF e
    <3> QED BY <1>0, <3>1, <3>2, <3>3
  <2>5. CASE o + 2 <= e
    <3>1. IsAt(CRLF, b, o + 1)
      <4>1. o + 1 <= e /\ (o + 1) + 1 = o + 2
        <5> HIDE DEF e
        <5> QED BY <1>0, <2>5
      <4>2. b[o + 1] = CR /\ b[o + 2] = LF BY <1>1, <2>2, <2>5, <4>1 DEF GoesOn, n
      <4> QED BY <1>0, <2>5, <4>1, <4>2, IsAtCRLF
    <3>2. CASE blank # 0
      <4>1. framed = blank + 3 BY <1>2, <3>2
      <4>2. framed \in Nat /\ EndsAt(b, framed, o + 2, s)
        <5>1. framed > o + 2 /\ framed <= Len(b) /\ framed - 3 = blank BY <2>4, <3>2, <4>1
        <5> QED BY <1>4, <2>3, <2>4, <3>2, <4>1, <5>1 DEF EndsAt
      <4> QED BY <2>2, <2>5, <4>2 DEF n, framed
    <3>3. CASE blank = 0
      <4>1. framed = o + 2 BY <1>2, <3>1, <3>3
      <4>2. framed \in Nat /\ EndsAt(b, framed, o + 2, s) BY <4>1 DEF EndsAt
      <4> QED BY <2>2, <2>5, <4>2 DEF n, framed
    <3> QED BY <3>2, <3>3
  <2>6. CASE ~(o + 2 <= e)
    <3>1. ~IsAt(CRLF, b, o + 1)
      <4>1. (o + 1) + 1 = o + 2 OBVIOUS
      <4> QED BY <1>0, <2>6, <4>1, IsAtCRLF
    <3>2. blank = 0
      <4> SUFFICES ASSUME blank # 0 PROVE FALSE OBVIOUS
      <4>1. blank + 3 > o + 2 /\ blank + 3 <= e /\ blank \in Nat BY <2>4
      <4> HIDE DEF e
      <4> QED BY <1>0, <2>6, <4>1
    <3>3. framed = 0 BY <1>2, <3>1, <3>2
    <3> QED BY <2>2, <2>6, <3>3 DEF n, framed
  <2> QED BY <2>5, <2>6
<1> QED BY <1>3, <1>4

LastChunk == Symbol("size", 0)

(* The chunk of size 0.                                                    *)
LEMMA LastChunkIs ==
  LastChunk \in Tokens /\ LastChunk \in Symbols /\ IsSize(LastChunk) /\ LastChunk.value = 0
<1>1. LastChunk.text = "size" /\ LastChunk.value = 0 BY DEF LastChunk, Symbol
<1>2. "size" \in Texts /\ 0 \in Int BY TextAssumption
<1>3. LastChunk \in Symbols BY <1>2 DEF LastChunk, Symbol, Symbols
<1> QED BY <1>1, <1>3 DEF IsSize, Tokens

(* The round that finds the last chunk. *)
LEMMA LastChunkRead ==
  ASSUME NEW b \in Seq(Symbols), NEW o \in Nat, o <= Len(b),
         Follows(b, o, Line(LastChunk))
  PROVE  /\ NextChunk(b, o + 1) = 0
         /\ StopAt(b, o + 1) = IF o + 3 <= Len(b) THEN EndOfTrailer(b, o + 4) ELSE 0
<1> DEFINE s == << >>
           x == LastChunk
           end == SizeLineEnd(b, o + 1)
           size == b[o + 1].value
           e == Len(b)
<1>0. e \in Nat OBVIOUS
<1>1. s \in Seq(Symbols) /\ Len(s) = 0 /\ IsExtension(s) BY DEF IsExtension
<1>2. x \in Tokens /\ IsSize(x) /\ x.value = 0 BY LastChunkIs
<1>3. SizeLineOf(x, s) = Line(x)
  <2>1. <<x>> \o << >> = <<x>> OBVIOUS
  <2> QED BY <2>1 DEF SizeLineOf, Line
<1> HIDE DEF s, x
<1>4. IF o + Len(s) + 3 <= Len(b)
      THEN end = (IF IsSize(x) THEN o + Len(s) + 2 ELSE 0) /\ b[o + 1] = x
      ELSE end = 0
  <2>1. Follows(b, o, SizeLineOf(x, s)) BY <1>3 DEF x
  <2> QED BY <1>1, <1>2, <2>1, SizeLineRead
<1>5. o + Len(s) + 3 = o + 3 /\ o + Len(s) + 2 = o + 2 BY <1>1
<1>6. IF o + 3 <= e THEN end = o + 2 /\ size = 0 ELSE end = 0
  BY <1>2, <1>4, <1>5
<1>7. NextChunk(b, o + 1) = 0
  <2>1. end = 0 \/ size = 0 BY <1>6
  <2> QED BY <2>1 DEF NextChunk
<1>8. StopAt(b, o + 1) = IF end = 0 \/ size # 0 THEN 0 ELSE EndOfTrailer(b, end + 2)
  BY DEF StopAt
<1>9. end = o + 2 => end # 0 /\ end + 2 = o + 4
  <2> HIDE DEF end
  <2> QED OBVIOUS
<1> HIDE DEF end, size
<1>10. StopAt(b, o + 1) = IF o + 3 <= e THEN EndOfTrailer(b, o + 4) ELSE 0
  BY <1>6, <1>8, <1>9
<1> QED BY <1>7, <1>10

-----------------------------------------------------------------------------
(* All chunks of a body.                                                   *)
WellFormed(chunks) == \A i \in DOMAIN chunks : IsSound(chunks[i])

NoneNegative(chunks) == \A i \in DOMAIN chunks : ~IsNegative(chunks[i])

(* The chunks of a body begin at these places, each behind the last one.   *)
Placed(at, chunks, b) ==
  /\ at \in [0..Len(chunks) -> Nat]
  /\ at[0] = 0
  /\ \A i \in 1..Len(chunks) :
       /\ at[i] = at[i - 1] + Len(Chunk(chunks[i]))
       /\ Follows(b, at[i - 1], Chunk(chunks[i]))

(* By induction from the last chunk to the first.                          *)
LEMMA ChunksArePlaced ==
  ASSUME NEW b \in Seq(Symbols), NEW chunks \in Seq(Chunks)
  PROVE  /\ Each(chunks, Chunk) \in Seq(Symbols)
         /\ Follows(b, 0, Each(chunks, Chunk)) =>
              \E at : Placed(at, chunks, b) /\ at[Len(chunks)] = Len(Each(chunks, Chunk))
<1> DEFINE n == Len(chunks)
           ss == [i \in DOMAIN chunks |-> Chunk(chunks[i])]
           a == Each(chunks, Chunk)
<1>1. n \in Nat /\ DOMAIN chunks = 1..n /\ \A i \in 1..n : chunks[i] \in Chunks OBVIOUS
<1>2. \A i \in 1..n : Chunk(chunks[i]) \in Seq(Symbols) BY <1>1, ChunkIs
<1>3. ss \in Seq(Seq(Symbols)) /\ Len(ss) = n
  <2> HIDE DEF n
  <2> QED BY <1>1, <1>2
<1>4. \A i \in 1..n : ss[i] = Chunk(chunks[i]) BY <1>1
<1>5. a = FlattenSeq(ss) BY DEF Each
<1> HIDE DEF ss, n, a
<1>6. PICK f : Concatenates(f, Seq(Symbols), n, << >>, ss) /\ FlattenSeq(ss) = f[n]
  BY <1>3, FlattenIs
<1>7. f \in [0..n -> Seq(Symbols)] /\ f[0] = << >> BY <1>6 DEF Concatenates
<1>8. \A i \in 1..n : f[i] = f[i - 1] \o Chunk(chunks[i]) BY <1>4, <1>6 DEF Concatenates
<1>9. a = f[n] /\ a \in Seq(Symbols)
  <2>1. n \in 0..n BY <1>1
  <2> QED BY <1>5, <1>6, <1>7, <2>1
<1>10. ASSUME Follows(b, 0, a) PROVE \E at : Placed(at, chunks, b) /\ at[n] = Len(a)
  <2> DEFINE S == {k \in 0..n : \A i \in 0..n : i + k = n => Follows(b, 0, f[i])}
             at == [i \in 0..n |-> Len(f[i])]
  <2>1. 0 \in S
    <3>1. \A i \in 0..n : i + 0 = n => i = n BY <1>1
    <3> QED BY <1>1, <1>9, <1>10, <3>1
  <2>2. ASSUME NEW i \in 1..n, Follows(b, 0, f[i])
        PROVE  /\ Follows(b, 0, f[i - 1]) /\ Follows(b, Len(f[i - 1]), Chunk(chunks[i]))
               /\ Len(f[i]) = Len(f[i - 1]) + Len(Chunk(chunks[i]))
    <3> DEFINE t == f[i - 1]
               c == Chunk(chunks[i])
    <3>1. t \in Seq(Symbols)
      <4>1. i - 1 \in 0..n BY <1>1
      <4> QED BY <1>7, <4>1
    <3>2. c \in Seq(Symbols) /\ f[i] = t \o c BY <1>2, <1>8
    <3>3. 0 \in Nat /\ 0 + Len(t) = Len(t)
      <4> HIDE DEF t
      <4> QED BY <3>1
    <3> HIDE DEF t, c
    <3>4. Follows(b, 0, t) /\ Follows(b, 0 + Len(t), c)
      <4>1. Follows(b, 0, t \o c) BY <2>2, <3>2
      <4> QED BY <3>1, <3>2, <3>3, <4>1, FollowsBoth
    <3>5. Len(t \o c) = Len(t) + Len(c) BY <3>1, <3>2, <3>3, FollowsBoth
    <3> QED BY <3>2, <3>3, <3>4, <3>5 DEF t, c
  <2>3. ASSUME NEW k \in 0..(n - 1), k \in S PROVE k + 1 \in S
    <3>1. k + 1 \in 0..n BY <1>1
    <3>2. ASSUME NEW i \in 0..n, i + (k + 1) = n PROVE Follows(b, 0, f[i])
      <4>1. i + 1 \in 1..n /\ i + 1 \in 0..n /\ (i + 1) + k = n /\ (i + 1) - 1 = i
        BY <1>1, <3>2
      <4>2. Follows(b, 0, f[i + 1]) BY <2>3, <4>1
      <4> QED BY <2>2, <4>1, <4>2
    <3> QED BY <3>1, <3>2
  <2>4. S = 0..n
    <3>1. S \in SUBSET (0..n) OBVIOUS
    <3> HIDE DEF S
    <3> QED BY <1>1, <2>1, <2>3, <3>1, InductionTo
  <2>5. ASSUME NEW i \in 0..n PROVE Follows(b, 0, f[i])
    <3>1. n - i \in 0..n /\ i + (n - i) = n BY <1>1
    <3>2. n - i \in S
      <4> HIDE DEF S
      <4> QED BY <2>4, <3>1
    <3> QED BY <3>1, <3>2
  <2> HIDE DEF S
  <2>6. at \in [0..n -> Nat]
    <3>1. \A i \in 0..n : Len(f[i]) \in Nat BY <1>7
    <3> QED BY <3>1
  <2>7. \A i \in 0..n : at[i] = Len(f[i]) OBVIOUS
  <2> HIDE DEF at
  <2>8. at[0] = 0 /\ at[n] = Len(a)
    <3>1. 0 \in 0..n /\ n \in 0..n /\ Len(<< >>) = 0 BY <1>1
    <3> QED BY <1>7, <1>9, <2>7, <3>1
  <2>9. ASSUME NEW i \in 1..n
        PROVE  /\ at[i] = at[i - 1] + Len(Chunk(chunks[i]))
               /\ Follows(b, at[i - 1], Chunk(chunks[i]))
    <3>1. i \in 0..n /\ i - 1 \in 0..n BY <1>1
    <3>2. Follows(b, 0, f[i]) BY <2>5, <3>1
    <3>3. at[i] = Len(f[i]) /\ at[i - 1] = Len(f[i - 1]) BY <2>7, <3>1
    <3> QED BY <2>2, <3>2, <3>3
  <2> QED BY <2>6, <2>8, <2>9 DEF Placed, n
<1> QED BY <1>9, <1>10 DEF a, n

(* The loop returns in some round, and None. *)
ReturnsNone(b, at) ==
  \E j \in 0..Len(b) : at[j] # 0 /\ at[j + 1] = 0 /\ StopAt(b, at[j]) = 0

(* try_consume_chunked_body gets past chunks that are whole, and not past  *)
(* others.                                                                 *)
LEMMA ChunksRead ==
  ASSUME NEW b \in Seq(Symbols), NEW chunks \in Seq(Chunks), NoneNegative(chunks),
         NEW p, Placed(p, chunks, b), NEW at, Scans(at, b)
  PROVE  IF WellFormed(chunks) /\ p[Len(chunks)] <= Len(b)
         THEN Len(chunks) \in 0..Len(b) /\ at[Len(chunks)] = p[Len(chunks)] + 1
         ELSE ReturnsNone(b, at)
<1> DEFINE n == Len(chunks)
           e == Len(b)
           Sound(j) == \A i \in 1..j : IsSound(chunks[i])
           w(i) == Len(Chunk(chunks[i]))
           P(j) == /\ j <= p[j]
                   /\ IF Sound(j) /\ p[j] <= e THEN at[j] = p[j] + 1 ELSE ReturnsNone(b, at)
           S == {j \in 0..n : P(j)}
<1>0. n \in Nat /\ e \in Nat /\ DOMAIN chunks = 1..n /\ \A i \in 1..n : chunks[i] \in Chunks
  OBVIOUS
<1>1. /\ p \in [0..n -> Nat] /\ p[0] = 0
      /\ \A i \in 1..n : p[i] = p[i - 1] + w(i) /\ Follows(b, p[i - 1], Chunk(chunks[i]))
  BY DEF Placed
<1>2. at[0] = 1 /\ \A i \in 1..(e + 1) : at[i] = NextChunk(b, at[i - 1]) BY DEF Scans
<1>3. ASSUME NEW i \in 1..n PROVE w(i) \in Nat /\ w(i) >= 1
  <2> DEFINE c == chunks[i]
             l == Len(c.extension)
             d == Len(c.data)
             k == w(i)
  <2>1. c \in Chunks BY <1>0
  <2> HIDE DEF c
  <2>2. l \in Nat /\ d \in Nat BY <2>1, SizeIs
  <2>3. Len(Chunk(c)) = (l + 3) + d + 2
    <3>1. 0 \in Nat OBVIOUS
    <3> QED BY <2>1, <3>1, ChunkIs
  <2>4. k = (l + 3) + d + 2 BY <2>3 DEF c
  <2> HIDE DEF k, l, d
  <2>5. k \in Nat /\ k >= 1 BY <2>2, <2>4
  <2> QED BY <2>5 DEF k
<1> HIDE DEF n, e, w
<1>4. 0 \in S
  <2>1. Sound(0) OBVIOUS
  <2>2. p[0] <= e /\ p[0] + 1 = 1 /\ 0 \in 0..n /\ 0 <= p[0] BY <1>0, <1>1
  <2> HIDE DEF Sound
  <2> QED BY <1>2, <2>1, <2>2
<1>5. ASSUME NEW j \in 0..(n - 1), j \in S PROVE j + 1 \in S
  <2>1. j + 1 \in 1..n /\ (j + 1) - 1 = j /\ j \in 0..n /\ j + 1 \in 0..n /\ j \in Nat BY <1>0
  <2> DEFINE o == p[j]
             c == chunks[j + 1]
             l == w(j + 1)
  <2>2. o \in Nat /\ c \in Chunks /\ l \in Nat /\ l >= 1 /\ p[j + 1] = o + l
    BY <1>0, <1>1, <1>3, <2>1
  <2>3. Follows(b, o, Chunk(c)) /\ ~IsNegative(c)
    <3>1. j + 1 \in DOMAIN chunks BY <1>0, <2>1
    <3> QED BY <1>1, <2>1, <3>1 DEF NoneNegative
  <2>4. Sound(j + 1) <=> Sound(j) /\ IsSound(c)
    <3>1. j + 1 \in 1..(j + 1) /\ (\A i \in 1..j : i \in 1..(j + 1))
          /\ \A i \in 1..(j + 1) : i \in 1..j \/ i = j + 1
      BY <2>1
    <3> QED BY <3>1
  <2>5. j <= o /\ IF Sound(j) /\ o <= e THEN at[j] = o + 1 ELSE ReturnsNone(b, at) BY <1>5
  <2> HIDE DEF Sound
  <2>6. j + 1 <= p[j + 1]
    <3> HIDE DEF o, c, l
    <3> QED BY <2>1, <2>2, <2>5
  <2>7. CASE Sound(j) /\ o <= e
    <3>1. IF IsSound(c) /\ o + Len(Chunk(c)) <= Len(b)
          THEN NextChunk(b, o + 1) = o + Len(Chunk(c)) + 1
          ELSE NextChunk(b, o + 1) = 0 /\ StopAt(b, o + 1) = 0
      <4>1. o <= Len(b) BY <2>7 DEF e
      <4> HIDE DEF o, c
      <4> QED BY <2>2, <2>3, <4>1, ChunkRead
    <3>2. l = Len(Chunk(c)) /\ e = Len(b) BY DEF w, e
    <3>3. j \in 0..e /\ j + 1 \in 1..(e + 1) /\ o + 1 # 0
      <4> HIDE DEF o
      <4> QED BY <1>0, <2>1, <2>2, <2>5, <2>7
    <3>4. at[j] = o + 1 /\ at[j + 1] = NextChunk(b, o + 1)
      <4> HIDE DEF o
      <4> QED BY <1>2, <2>1, <2>5, <2>7, <3>3
    <3>5. IF IsSound(c) /\ o + l <= e THEN at[j + 1] = o + l + 1 ELSE ReturnsNone(b, at)
      <4> HIDE DEF o, c, l
      <4>1. CASE IsSound(c) /\ o + l <= e BY <3>1, <3>2, <3>4, <4>1
      <4>2. CASE ~(IsSound(c) /\ o + l <= e)
        <5>1. at[j] # 0 /\ at[j + 1] = 0 /\ StopAt(b, at[j]) = 0 BY <3>1, <3>2, <3>3, <3>4, <4>2
        <5> QED BY <3>2, <3>3, <4>2, <5>1 DEF ReturnsNone
      <4> QED BY <4>1, <4>2
    <3>6. P(j + 1)
      <4> HIDE DEF o, c, l
      <4> QED BY <2>2, <2>4, <2>6, <2>7, <3>5
    <3> HIDE DEF P
    <3> QED BY <2>1, <3>6
  <2>8. CASE ~(Sound(j) /\ o <= e)
    <3>1. ReturnsNone(b, at) BY <2>5, <2>8
    <3>2. ~(Sound(j + 1) /\ p[j + 1] <= e)
      <4> HIDE DEF o, c, l
      <4>1. o + l <= e => o <= e BY <1>0, <2>2
      <4> QED BY <2>2, <2>4, <2>8, <4>1
    <3>3. P(j + 1) BY <2>6, <3>1, <3>2
    <3> HIDE DEF P
    <3> QED BY <2>1, <3>3
  <2> QED BY <2>7, <2>8
<1>6. S = 0..n
  <2>1. S \in SUBSET (0..n) OBVIOUS
  <2> HIDE DEF S
  <2> QED BY <1>0, <1>4, <1>5, <2>1, InductionTo
<1>7. P(n)
  <2>1. n \in 0..n BY <1>0
  <2>2. n \in S
    <3> HIDE DEF S
    <3> QED BY <1>6, <2>1
  <2> HIDE DEF P
  <2> QED BY <2>2
<1>8. Sound(n) <=> WellFormed(chunks) BY <1>0 DEF WellFormed
<1>9. p[n] \in Nat /\ (n <= p[n] /\ p[n] <= e => n \in 0..e)
  <2>1. n \in 0..n BY <1>0
  <2>2. p[n] \in Nat BY <1>1, <2>1
  <2> QED BY <1>0, <2>2
<1> HIDE DEF Sound
<1> QED BY <1>7, <1>8, <1>9 DEF n, e

(* try_consume_chunked_body: a body is found when it is whole and not      *)
(* malformed; without a negative size, the search for it returns.          *)
LEMMA ChunkedBodyRead ==
  ASSUME NEW b \in Seq(Symbols), NEW chunks \in Seq(Chunks), NoneNegative(chunks),
         NEW s \in Seq(Tokens),
         Follows(b, 0, Each(chunks, Chunk)),
         Follows(b, Len(Each(chunks, Chunk)), Line(LastChunk)),
         Follows(b, Len(Each(chunks, Chunk)) + 3, Each(s, Line) \o CRLF)
  PROVE  LET w == Len(Each(chunks, Chunk)) + 3 + 3 * Len(s) + 2
             framed == TryConsumeChunkedBody(b)
         IN /\ Returns(b)
            /\ IF WellFormed(chunks) /\ w <= Len(b)
               THEN framed \in Nat /\ EndsAt(b, framed, w, s) ELSE framed = 0
<1> DEFINE a == Len(Each(chunks, Chunk))
           e == Len(b)
           n == Len(s)
           w == a + 3 + 3 * n + 2
           framed == TryConsumeChunkedBody(b)
           at == Rounds(b)
           m == Len(chunks)
<1>0. a \in Nat /\ e \in Nat /\ n \in Nat
  <2>1. Each(chunks, Chunk) \in Seq(Symbols) BY ChunksArePlaced
  <2> QED BY <2>1
<1>1. PICK p : Placed(p, chunks, b) /\ p[Len(chunks)] = a BY ChunksArePlaced
<1>2. Scans(at, b) BY RoundsAre
<1> HIDE DEF at
<1>r. at = Rounds(b) BY DEF at
<1>3. IF WellFormed(chunks) /\ a <= e THEN m \in 0..e /\ at[m] = a + 1 ELSE ReturnsNone(b, at)
  BY <1>1, <1>2, ChunksRead
<1>4. ASSUME NEW j \in 0..e, at[j] # 0, at[j + 1] = 0
      PROVE  Returns(b) /\ framed = StopAt(b, at[j])
  BY <1>2, <1>r, <1>4, LastRound
<1>5. Follows(b, a, Line(LastChunk)) /\ Follows(b, a + 3, Each(s, Line) \o CRLF) OBVIOUS
<1>6. LET v == (a + 3) + 3 * n + 2
          r == EndOfTrailer(b, (a + 3) + 1)
      IN IF v <= e THEN r \in Nat /\ EndsAt(b, r, v, s) ELSE r = 0
  <2>1. a + 3 \in Nat
    <3> HIDE DEF a
    <3> QED BY <1>0
  <2> HIDE DEF a
  <2> QED BY <1>5, <2>1, TrailerRead
<1> HIDE DEF a, n, framed, m
<1>7. (a + 3) + 3 * n + 2 = w /\ (a + 3) + 1 = a + 4 BY <1>0
<1> HIDE DEF w, e
<1>8. IF w <= e THEN EndOfTrailer(b, a + 4) \in Nat /\ EndsAt(b, EndOfTrailer(b, a + 4), w, s)
      ELSE EndOfTrailer(b, a + 4) = 0
  BY <1>6, <1>7
<1>9. (w <= e => a + 3 <= e) /\ (a + 3 <= e => a <= e) BY <1>0 DEF w
<1>10. CASE WellFormed(chunks) /\ a <= e
  <2>1. m \in 0..e /\ at[m] = a + 1 /\ m + 1 \in 1..(e + 1) /\ (m + 1) - 1 = m /\ a + 1 # 0
    BY <1>0, <1>3, <1>10
  <2>2. a <= Len(b) BY <1>10 DEF e
  <2>3. /\ NextChunk(b, a + 1) = 0
        /\ StopAt(b, a + 1) = IF a + 3 <= Len(b) THEN EndOfTrailer(b, a + 4) ELSE 0
    BY <1>0, <1>5, <2>2, LastChunkRead
  <2>4. at[m + 1] = NextChunk(b, at[m]) BY <1>2, <2>1 DEF Scans, e
  <2>5. Returns(b) /\ framed = StopAt(b, at[m]) BY <1>4, <2>1, <2>3, <2>4
  <2>6. framed = IF a + 3 <= e THEN EndOfTrailer(b, a + 4) ELSE 0 BY <2>1, <2>3, <2>5 DEF e
  <2>7. IF w <= e THEN framed \in Nat /\ EndsAt(b, framed, w, s) ELSE framed = 0
    BY <1>8, <1>9, <2>6
  <2> QED BY <1>10, <2>5, <2>7 DEF w, a, n, e, framed
<1>11. CASE ~(WellFormed(chunks) /\ a <= e)
  <2>1. PICK j \in 0..e : at[j] # 0 /\ at[j + 1] = 0 /\ StopAt(b, at[j]) = 0
    BY <1>3, <1>11 DEF ReturnsNone, e
  <2>2. Returns(b) /\ framed = 0 BY <1>4, <2>1
  <2>3. ~(WellFormed(chunks) /\ w <= e) BY <1>9, <1>11
  <2> QED BY <2>2, <2>3 DEF w, a, n, e, framed
<1> QED BY <1>10, <1>11

-----------------------------------------------------------------------------
(* Messages.                                                               *)
TakenOf(m, b) == IF IsRequest(m) THEN TryParseRequest(b) ELSE TryReadResponse(b)

IsStatusLine(symbol) == symbol.text = "status line"

MayStart(start) ==
  /\ start \in Tokens
  /\ IsRequestLine(start) \/ IsStatusLine(start) \/ start.text = "not a request line"

(* The four shapes of a message. *)
RequestShape(m) ==
  /\ m.framing = "length" /\ IsRequest(m) /\ m.chunks = << >>
  /\ Measured(m.fields, m.body)

MeasuredShape(m) ==
  /\ m.framing = "length" /\ ~IsRequest(m) /\ m.chunks = << >>
  /\ Says(m.fields, "content-length", Len(m.body))
  /\ Has(m.fields, "content-length")
  /\ ~Has(m.fields, "transfer-encoding")

UnendedShape(m) ==
  /\ m.framing = "close" /\ ~IsRequest(m) /\ m.chunks = << >>
  /\ AtMost(m.fields, "content-length", -1)
  /\ ~Has(m.fields, "transfer-encoding")

ChunkedShape(m) ==
  /\ m.framing = "chunked" /\ ~IsRequest(m)
  /\ Says(m.fields, "transfer-encoding", 1)
  /\ Has(m.fields, "transfer-encoding")

(* A message has one of these shapes.                                      *)
LEMMA MessageIs ==
  ASSUME NEW m, IsMessage(m)
  PROVE  /\ MayStart(m.start) /\ m.fields \in Seq(Tokens) /\ m.body \in Seq(Symbols)
         /\ m.chunks \in Seq(Chunks) /\ m.trailers \in Seq(Tokens) /\ m.excess \in Seq(Symbols)
         /\ RequestShape(m) \/ MeasuredShape(m) \/ UnendedShape(m) \/ ChunkedShape(m)
BY DEF IsMessage, MayStart, IsRequestLine, IsStatusLine,
       RequestShape, MeasuredShape, UnendedShape, ChunkedShape, Measured

(* Of the start lines, only one is wrong.                                  *)
LEMMA StartIs ==
  ASSUME NEW m, MayStart(m.start)
  PROVE  /\ IsRequest(m) <=> ~IsStatusLine(m.start)
         /\ IsStatusLine(m.start) => ~IsRequestLine(m.start)
         /\ Malformed(m) <=>
              (~IsStatusLine(m.start) /\ ~IsRequestLine(m.start)) \/ ~WellFormed(m.chunks)
         /\ NegativeSize(m) <=> ~NoneNegative(m.chunks)
<1>1. /\ IsRequest(m) <=> ~IsStatusLine(m.start)
      /\ IsStatusLine(m.start) => ~IsRequestLine(m.start)
      /\ m.start.text = "not a request line" <=>
           ~IsStatusLine(m.start) /\ ~IsRequestLine(m.start)
  BY DEF MayStart, IsRequest, IsStatusLine, IsRequestLine
<1>2. ~WellFormed(m.chunks) <=>
        \E i \in DOMAIN m.chunks : m.chunks[i].malformed \/ m.chunks[i].size.text # "size"
  BY DEF WellFormed, IsSound, IsSize
<1>3. NegativeSize(m) <=> ~NoneNegative(m.chunks)
  BY DEF NegativeSize, NoneNegative, IsNegative, IsSize
<1> QED BY <1>1, <1>2, <1>3 DEF Malformed

(* Without chunks, no chunk is malformed.                                  *)
LEMMA NoChunks == WellFormed(<< >>) /\ NoneNegative(<< >>)
BY DEF WellFormed, NoneNegative

(* The bytes of a message, in the order of serialisation.                  *)
LEMMA WholeIs ==
  ASSUME NEW m
  PROVE  /\ m.framing # "chunked" => Whole(m) = HeadSection(m.start, m.fields) \o m.body
         /\ m.framing = "chunked" =>
              Whole(m) = HeadSection(m.start, m.fields) \o Each(m.chunks, Chunk) \o Line(LastChunk)
                           \o Each(m.trailers, Line) \o CRLF
BY DEF Whole, HeadOf, HeadSection, LastChunk

HangsOf(m, b) ==
  ~IsRequest(m) /\ HeaderEnd(b) # 0 /\ IsChunkedResponse(b) /\ ~Returns(ResponseBody(b))

(* What becomes of a buffer that holds the beginning of a message: nothing *)
(* is taken before all of it is there, and then it, as far as can be told. *)
FoundAsSent(m, b) ==
  LET taken == TakenOf(m, b)
      whole == Len(Whole(m))
  IN /\ taken \in 0..Len(b)
     /\ HangsOf(m, b) => NegativeSize(m)
     /\ ~NegativeSize(m) =>
          /\ taken # 0 <=> ~Malformed(m) /\ m.framing # "close" /\ Len(b) >= whole
          /\ taken # 0 =>
               \/ taken = whole
               \/ IsRequest(m) /\ Overdrawn(b)
               \/ ~IsRequest(m) /\ m.framing = "length" /\ taken = Len(b)
               \/ /\ m.framing = "chunked" /\ m.trailers = << >>
                  /\ taken > whole /\ IsAt(BlankLine, b, taken - 3)

(* Their number, without chunks.                                           *)
LEMMA BodyIs ==
  ASSUME NEW m, IsMessage(m), m.framing # "chunked"
  PROVE  /\ Whole(m) = HeadSection(m.start, m.fields) \o m.body
         /\ Whole(m) \in Seq(Symbols)
         /\ Len(Whole(m)) = Len(HeadSection(m.start, m.fields)) + Len(m.body)
         /\ Len(HeadSection(m.start, m.fields)) \in Nat /\ Len(HeadSection(m.start, m.fields)) > 0
         /\ Len(m.body) \in Nat /\ Len(Whole(m)) \in Nat /\ Len(Whole(m)) > 0
<1> DEFINE h == HeadSection(m.start, m.fields)
           y == m.body
<1>1. h \in Seq(Symbols) /\ Len(h) \in Nat /\ Len(h) > 0
  <2> DEFINE s == m.fields
             n == Len(s)
  <2>1. m.start \in Tokens /\ s \in Seq(Tokens) BY MessageIs DEF MayStart
  <2>2. h \in Seq(Symbols) /\ Len(h) = 3 * n + 5 BY <2>1, HeadIs
  <2> HIDE DEF h, s
  <2>3. n \in Nat BY <2>1
  <2> HIDE DEF n
  <2> QED BY <2>2, <2>3
<1>2. y \in Seq(Symbols) BY MessageIs
<1>3. Whole(m) = h \o y BY WholeIs
<1> HIDE DEF h, y
<1>4. Joined(Symbols, h \o y, h, y, Len(h), Len(y)) BY <1>1, <1>2, ConcatIs
<1>5. h \o y \in Seq(Symbols) /\ Len(h \o y) = Len(h) + Len(y) BY <1>4 DEF Joined
<1>6. Len(h) \in Nat /\ Len(h) > 0 BY <1>1
<1>7. Len(y) \in Nat BY <1>2
<1>8. Len(h) + Len(y) \in Nat /\ Len(h) + Len(y) > 0
  <2> DEFINE m1 == Len(h)
             m2 == Len(y)
  <2>1. m1 \in Nat /\ m1 > 0 /\ m2 \in Nat BY <1>6, <1>7
  <2> HIDE DEF m1, m2
  <2>2. m1 + m2 \in Nat /\ m1 + m2 > 0 BY <2>1
  <2> QED BY <2>2 DEF m1, m2
<1> QED BY <1>3, <1>5, <1>6, <1>7, <1>8 DEF h, y

(* A request: try_parse_request.                                           *)
LEMMA RequestFound ==
  ASSUME NEW m, IsMessage(m), RequestShape(m),
         NEW b \in Seq(Symbols), Follows(b, 0, Whole(m))
  PROVE  /\ FoundAsSent(m, b)
         /\ TakenOf(m, b) # 0 =>
              /\ IsRequestLine(m.start) /\ b[1] = m.start
              /\ Headers(b) = Dict(m.fields)
              /\ ~Overdrawn(b) => Body(b) = m.body
<1> DEFINE h == HeadSection(m.start, m.fields)
           w == Len(Whole(m))
           e == Len(b)
<1>0. e \in Nat OBVIOUS
<1>1. /\ MayStart(m.start) /\ m.start \in Tokens /\ m.fields \in Seq(Tokens)
      /\ m.body \in Seq(Symbols)
  BY MessageIs DEF MayStart
<1>2. m.framing = "length" /\ IsRequest(m) /\ m.chunks = << >> /\ Measured(m.fields, m.body)
  BY DEF RequestShape
<1>3. Whole(m) = h \o m.body /\ w = Len(h) + Len(m.body) /\ w \in Nat /\ w > 0
  <2>1. m.framing # "chunked" BY <1>2
  <2> QED BY <2>1, BodyIs
<1>4. Measured(Dict(m.fields), m.body) BY <1>1, <1>2, DictMeasured
<1>5. ~Malformed(m) <=> IsRequestLine(m.start)
  BY <1>1, <1>2, StartIs, NoChunks
<1>6. TakenOf(m, b) = TryParseRequest(b) BY <1>2 DEF TakenOf
<1>7. IF IsRequestLine(m.start) /\ w <= e
      THEN /\ TryParseRequest(b) \in w..e /\ Headers(b) = Dict(m.fields) /\ b[1] = m.start
           /\ ~Overdrawn(b) => TryParseRequest(b) = w /\ Body(b) = m.body
      ELSE TryParseRequest(b) = 0
  <2>1. Follows(b, 0, HeadSection(m.start, m.fields) \o m.body) BY <1>3
  <2> DEFINE v == Len(HeadSection(m.start, m.fields)) + Len(m.body)
  <2>2. w = v BY <1>3
  <2>3. IF IsRequestLine(m.start) /\ v <= Len(b)
        THEN /\ TryParseRequest(b) \in v..Len(b)
             /\ Headers(b) = Dict(m.fields) /\ b[1] = m.start
             /\ ~Overdrawn(b) \/ Len(b) = v => TryParseRequest(b) = v /\ Body(b) = m.body
        ELSE TryParseRequest(b) = 0
    BY <1>1, <1>4, <2>1, RequestRead
  <2> HIDE DEF v, w
  <2> QED BY <2>2, <2>3
<1> DEFINE taken == TakenOf(m, b)
<1> HIDE DEF h, w, e, taken
<1>8. IF IsRequestLine(m.start) /\ w <= e
      THEN taken \in w..e /\ (~Overdrawn(b) => taken = w)
      ELSE taken = 0
  BY <1>6, <1>7 DEF taken
<1>9. taken \in 0..e /\ (taken # 0 <=> IsRequestLine(m.start) /\ w <= e)
  <2>1. taken \in w..e => taken \in 0..e /\ taken # 0 BY <1>0, <1>3
  <2>2. 0 \in 0..e BY <1>0
  <2> QED BY <1>8, <2>1, <2>2
<1>10. w <= e <=> e >= w BY <1>0, <1>3
<1>11. taken # 0 => taken = w \/ Overdrawn(b) BY <1>8
<1>12. FoundAsSent(m, b)
  BY <1>2, <1>5, <1>9, <1>10, <1>11 DEF FoundAsSent, HangsOf, taken, w, e
<1> QED BY <1>7, <1>9, <1>12 DEF taken

(* A response with Content-Length: everything, once its length is reached. *)
LEMMA MeasuredFound ==
  ASSUME NEW m, IsMessage(m), MeasuredShape(m),
         NEW b \in Seq(Symbols), Follows(b, 0, Whole(m))
  PROVE  FoundAsSent(m, b)
<1> DEFINE h == HeadSection(m.start, m.fields)
           w == Len(Whole(m))
           e == Len(b)
           taken == TakenOf(m, b)
<1>0. e \in Nat OBVIOUS
<1>1. /\ MayStart(m.start) /\ m.start \in Tokens /\ m.fields \in Seq(Tokens)
      /\ m.body \in Seq(Symbols)
  BY MessageIs DEF MayStart
<1>2. /\ m.framing = "length" /\ ~IsRequest(m) /\ m.chunks = << >>
      /\ Says(m.fields, "content-length", Len(m.body)) /\ Has(m.fields, "content-length")
      /\ ~Has(m.fields, "transfer-encoding")
  BY DEF MeasuredShape
<1>3. /\ Whole(m) = h \o m.body /\ w = Len(h) + Len(m.body)
      /\ Len(h) \in Nat /\ Len(h) > 0 /\ Len(m.body) \in Nat
  BY <1>2, BodyIs
<1>4. w \in Nat /\ w > 0 BY <1>2, BodyIs
<1>5. ~Malformed(m) BY <1>1, <1>2, StartIs, NoChunks
<1>6. /\ ContentLength(m.fields, CONTENT_LENGTH_ABSENT) = Len(m.body)
      /\ Len(m.body) \in Int /\ Len(m.body) >= 0
  BY <1>1, <1>2, <1>3, ContentLengthIs
<1>7. Follows(b, 0, h)
  <2>1. h \in Seq(Symbols) BY <1>1, HeadIs
  <2> HIDE DEF h
  <2> QED BY <1>1, <1>3, <2>1, FollowsBoth
<1>8. /\ TryReadResponse(b) = IF w <= e THEN e ELSE 0
      /\ HeaderEnd(b) # 0 => ~IsChunkedResponse(b)
  BY <1>1, <1>2, <1>3, <1>6, <1>7, PlainResponseRead
<1> HIDE DEF h, w, e
<1>9. taken = IF w <= e THEN e ELSE 0 BY <1>2, <1>8 DEF TakenOf
<1> HIDE DEF taken
<1>10. taken \in 0..e /\ (taken # 0 <=> e >= w) /\ (taken # 0 => taken = e)
  BY <1>0, <1>4, <1>9
<1> QED BY <1>2, <1>5, <1>8, <1>10 DEF FoundAsSent, HangsOf, taken, w, e

(* A response that ends with the connection: never, in handle_backend_readable.*)
LEMMA UnendedFound ==
  ASSUME NEW m, IsMessage(m), UnendedShape(m),
         NEW b \in Seq(Symbols), Follows(b, 0, Whole(m))
  PROVE  FoundAsSent(m, b)
<1> DEFINE h == HeadSection(m.start, m.fields)
           e == Len(b)
<1>0. e \in Nat OBVIOUS
<1>1. /\ m.start \in Tokens /\ m.fields \in Seq(Tokens) /\ m.body \in Seq(Symbols)
  BY MessageIs DEF MayStart
<1>2. /\ m.framing = "close" /\ ~IsRequest(m)
      /\ AtMost(m.fields, "content-length", -1) /\ ~Has(m.fields, "transfer-encoding")
  BY DEF UnendedShape
<1>3. Whole(m) = h \o m.body /\ Len(h) \in Nat /\ Len(h) > 0 BY <1>2, BodyIs
<1> DEFINE c == ContentLength(m.fields, CONTENT_LENGTH_ABSENT)
<1>4. CONTENT_LENGTH_ABSENT \in Int /\ CONTENT_LENGTH_ABSENT <= -1 /\ -1 \in Int
  BY DEF CONTENT_LENGTH_ABSENT
<1>5. c \in Int /\ c <= -1 BY <1>1, <1>2, <1>4, ContentLengthAtMost
<1>6. Follows(b, 0, h)
  <2>1. h \in Seq(Symbols) BY <1>1, HeadIs
  <2> HIDE DEF h
  <2> QED BY <1>1, <1>3, <2>1, FollowsBoth
<1>7. /\ TryReadResponse(b) = IF c >= 0 /\ Len(h) + c <= e THEN e ELSE 0
      /\ HeaderEnd(b) # 0 => ~IsChunkedResponse(b)
  BY <1>1, <1>2, <1>5, <1>6, PlainResponseRead
<1> HIDE DEF h, e, c
<1>8. ~(c >= 0) BY <1>5
<1>9. TakenOf(m, b) = 0 BY <1>2, <1>7, <1>8 DEF TakenOf
<1>10. 0 \in 0..e BY <1>0
<1> QED BY <1>2, <1>7, <1>9, <1>10 DEF FoundAsSent, HangsOf, e

(* The parts of a chunked response, each behind the other.                 *)
LEMMA ChunkedParts ==
  ASSUME NEW h \in Seq(Symbols), NEW a \in Seq(Symbols), NEW l \in Seq(Symbols),
         NEW t \in Seq(Symbols), NEW b \in Seq(Symbols),
         Follows(b, 0, h \o a \o l \o t \o CRLF)
  PROVE  /\ Follows(b, 0, h) /\ Follows(b, Len(h) + 0, a)
         /\ Follows(b, Len(h) + Len(a), l)
         /\ Follows(b, Len(h) + (Len(a) + Len(l)), t \o CRLF)
<1> DEFINE u == h \o a
           v == u \o l
           w == v \o t
           i == Len(h)
           j == Len(a)
           k == Len(l)
<1>0. i \in Nat /\ j \in Nat /\ k \in Nat /\ 0 \in Nat OBVIOUS
<1>1. u \in Seq(Symbols) /\ Len(u) = i + j BY <1>0, FollowsBoth
<1>2. v \in Seq(Symbols) /\ Len(v) = (i + j) + k
  <2> HIDE DEF u, i, j
  <2>1. Joined(Symbols, v, u, l, Len(u), k) BY <1>1, ConcatIs
  <2> HIDE DEF v, k
  <2> QED BY <1>1, <2>1 DEF Joined
<1>3. w \in Seq(Symbols)
  <2> HIDE DEF v
  <2> QED BY <1>0, <1>2, FollowsBoth
<1>4. Follows(b, 0, w \o CRLF) OBVIOUS
<1>5. Follows(b, 0, w) /\ Follows(b, 0 + Len(w), CRLF)
  <2> HIDE DEF w
  <2> QED BY <1>0, <1>3, <1>4, CRLFIs, FollowsBoth
<1>6. Follows(b, 0, v) /\ Follows(b, 0 + Len(v), t) /\ Len(w) = Len(v) + Len(t)
  <2>1. Follows(b, 0, v \o t) BY <1>5
  <2> HIDE DEF v
  <2> QED BY <1>0, <1>2, <2>1, FollowsBoth
<1>7. Follows(b, 0, u) /\ Follows(b, 0 + Len(u), l)
  <2>1. Follows(b, 0, u \o l) BY <1>6
  <2> HIDE DEF u
  <2> QED BY <1>0, <1>1, <2>1, FollowsBoth
<1>8. Follows(b, 0, h) /\ Follows(b, 0 + i, a) BY <1>0, <1>7, FollowsBoth
<1> HIDE DEF u, v, w, i, j, k
<1>9. /\ 0 + i = i + 0 /\ 0 + Len(u) = i + j /\ 0 + Len(v) = i + (j + k)
  BY <1>0, <1>1, <1>2
<1>10. Len(v) \in Nat /\ Len(t) \in Nat /\ i + (j + k) = Len(v) BY <1>0, <1>2
<1>11. Follows(b, i + (j + k), t) /\ Follows(b, i + (j + k) + Len(t), CRLF)
  <2>1. 0 + Len(v) = i + (j + k) BY <1>9
  <2> DEFINE p == Len(v)
             q == Len(t)
             z == i + (j + k)
  <2>3. p \in Nat /\ q \in Nat /\ z = p /\ Len(w) = p + q BY <1>6, <1>10
  <2> HIDE DEF p, q, z
  <2>4. 0 + Len(w) = z + q BY <2>3
  <2>2. 0 + Len(w) = i + (j + k) + Len(t) BY <2>4 DEF z, q
  <2> QED BY <1>5, <1>6, <2>1, <2>2
<1>12. Follows(b, i + (j + k), t \o CRLF)
  <2> DEFINE o == i + (j + k)
  <2>1. o \in Nat BY <1>10
  <2> HIDE DEF o
  <2>2. Follows(b, o, t) /\ Follows(b, o + Len(t), CRLF) BY <1>11 DEF o
  <2>3. Follows(b, o, t \o CRLF) BY <2>1, <2>2, CRLFIs, FollowsJoined
  <2> QED BY <2>3 DEF o
<1> QED BY <1>7, <1>8, <1>9, <1>12 DEF i, j, k

(* Their lengths.                                                          *)
LEMMA ChunkedIs ==
  ASSUME NEW m, IsMessage(m), ChunkedShape(m)
  PROVE  LET h == HeadSection(m.start, m.fields)
             a == Each(m.chunks, Chunk)
             l == Line(LastChunk)
             t == Each(m.trailers, Line)
         IN /\ Whole(m) = h \o a \o l \o t \o CRLF
            /\ h \in Seq(Symbols) /\ a \in Seq(Symbols) /\ l \in Seq(Symbols) /\ t \in Seq(Symbols)
            /\ Len(h) > 0 /\ Len(l) = 3 /\ Len(t) = 3 * Len(m.trailers)
            /\ Whole(m) \in Seq(Symbols)
            /\ Len(Whole(m)) = Len(h) + (Len(a) + 3 + 3 * Len(m.trailers) + 2)
<1> DEFINE h == HeadSection(m.start, m.fields)
           a == Each(m.chunks, Chunk)
           l == Line(LastChunk)
           t == Each(m.trailers, Line)
           n == Len(m.trailers)
           w == h \o a \o l \o t \o CRLF
<1>1. /\ m.start \in Tokens /\ m.fields \in Seq(Tokens) /\ m.chunks \in Seq(Chunks)
      /\ m.trailers \in Seq(Tokens)
  BY MessageIs DEF MayStart
<1>2. h \in Seq(Symbols) /\ Len(h) > 0
  <2> DEFINE s == m.fields
             k == Len(s)
  <2>1. s \in Seq(Tokens) BY <1>1
  <2>2. h \in Seq(Symbols) /\ Len(h) = 3 * k + 5 BY <1>1, HeadIs
  <2> HIDE DEF h, s
  <2>3. k \in Nat BY <2>1
  <2> HIDE DEF k
  <2> QED BY <2>2, <2>3
<1>3. a \in Seq(Symbols)
  <2>1. << >> \in Seq(Symbols) OBVIOUS
  <2> QED BY <1>1, <2>1, ChunksArePlaced
<1>4. l \in Seq(Symbols) /\ Len(l) = 3 BY LastChunkIs, LineIs
<1>5. t \in Seq(Symbols) /\ Len(t) = 3 * n BY <1>1, EachLineIs DEF Ruled
<1>6. n \in Nat
  <2> DEFINE s == m.trailers
  <2>1. s \in Seq(Tokens) BY <1>1
  <2> HIDE DEF s
  <2>2. Len(s) \in Nat BY <2>1
  <2> QED BY <2>2 DEF s
<1>7. Whole(m) = w
  <2>1. m.framing = "chunked" BY DEF ChunkedShape
  <2> QED BY <2>1, WholeIs
<1> HIDE DEF h, a, l, t, n
<1> DEFINE i == Len(h)
           j == Len(a)
           u == h \o a
           v == u \o l
           x == v \o t
<1>8. i \in Nat /\ j \in Nat /\ 3 * n \in Nat
  <2>1. 3 * n \in Nat BY <1>6
  <2> QED BY <1>2, <1>3, <2>1
<1>9. u \in Seq(Symbols) /\ Len(u) = i + j BY <1>2, <1>3, <1>8, FollowsBoth
<1> HIDE DEF u, i, j
<1>10. v \in Seq(Symbols) /\ Len(v) = (i + j) + 3
  <2>1. Joined(Symbols, u \o l, u, l, Len(u), Len(l)) BY <1>9, <1>4, ConcatIs
  <2> QED BY <1>4, <1>9, <2>1 DEF Joined
<1> HIDE DEF v
<1>11. x \in Seq(Symbols) /\ Len(x) = ((i + j) + 3) + 3 * n
  <2>1. Joined(Symbols, v \o t, v, t, Len(v), Len(t)) BY <1>10, <1>5, ConcatIs
  <2> QED BY <1>5, <1>10, <2>1 DEF Joined
<1> HIDE DEF x
<1>12. x \o CRLF \in Seq(Symbols) /\ Len(x \o CRLF) = (((i + j) + 3) + 3 * n) + 2
  <2>1. Joined(Symbols, x \o CRLF, x, CRLF, Len(x), Len(CRLF)) BY <1>11, CRLFIs, ConcatIs
  <2> QED BY <1>11, <2>1, CRLFIs DEF Joined
<1>13. w = x \o CRLF BY DEF x, v, u
<1>14. (((i + j) + 3) + 3 * n) + 2 = i + (j + 3 + 3 * n + 2) BY <1>8
<1> HIDE DEF w
<1> QED BY <1>2, <1>3, <1>4, <1>5, <1>7, <1>12, <1>13, <1>14 DEF h, a, l, t, n, w, i, j

(* A chunked response: try_consume_chunked_body, behind the header section.*)
LEMMA ChunkedFound ==
  ASSUME NEW m, IsMessage(m), ChunkedShape(m),
         NEW b \in Seq(Symbols), Follows(b, 0, Whole(m))
  PROVE  FoundAsSent(m, b)
<1> DEFINE h == HeadSection(m.start, m.fields)
           a == Each(m.chunks, Chunk)
           l == Line(LastChunk)
           t == Each(m.trailers, Line)
           s == m.trailers
           i == Len(h)
           e == Len(b)
           w == Len(a) + 3 + 3 * Len(s) + 2
           r == SubSeq(b, i + 1, e)
           framed == TryConsumeChunkedBody(r)
           taken == TakenOf(m, b)
<1>1. /\ MayStart(m.start) /\ m.start \in Tokens /\ m.fields \in Seq(Tokens)
      /\ m.chunks \in Seq(Chunks) /\ s \in Seq(Tokens)
  BY MessageIs DEF MayStart
<1>2. /\ m.framing = "chunked" /\ ~IsRequest(m)
      /\ Says(m.fields, "transfer-encoding", 1) /\ Has(m.fields, "transfer-encoding")
  BY DEF ChunkedShape
<1>3. /\ Whole(m) = h \o a \o l \o t \o CRLF
      /\ h \in Seq(Symbols) /\ a \in Seq(Symbols) /\ l \in Seq(Symbols) /\ t \in Seq(Symbols)
      /\ i > 0 /\ Len(l) = 3 /\ Len(Whole(m)) = i + w
  BY ChunkedIs
<1>4. /\ Malformed(m) <=> ~WellFormed(m.chunks)
      /\ NegativeSize(m) <=> ~NoneNegative(m.chunks)
  BY <1>1, <1>2, StartIs
<1>5. /\ Follows(b, 0, h) /\ Follows(b, i + 0, a)
      /\ Follows(b, i + Len(a), l)
      /\ Follows(b, i + (Len(a) + Len(l)), t \o CRLF)
  <2>1. Follows(b, 0, h \o a \o l \o t \o CRLF) BY <1>3
  <2> HIDE DEF h, a, l, t
  <2> QED BY <1>3, <2>1, ChunkedParts
<1>6. taken = IF i <= e /\ framed # 0 THEN i + framed ELSE 0
  <2>1. TryReadResponse(b) = IF i <= e /\ framed # 0 THEN i + framed ELSE 0
    BY <1>1, <1>2, <1>5, ChunkedResponseRead
  <2> QED BY <1>2, <2>1 DEF TakenOf
<1>h. HeaderEnd(b) # 0 => i <= e /\ ResponseBody(b) = r
  BY <1>1, <1>2, <1>5, ChunkedResponseRead
<1>7. i \in Nat /\ e \in Nat /\ w \in Nat
  <2> DEFINE n == Len(s)
             j == Len(a)
  <2>1. i \in Nat /\ e \in Nat /\ n \in Nat /\ j \in Nat
    <3> HIDE DEF h, a, s
    <3> QED BY <1>1, <1>3
  <2> HIDE DEF i, e, n, j
  <2>2. j + 3 + 3 * n + 2 \in Nat BY <2>1
  <2> QED BY <2>1, <2>2 DEF n, j
<1>t. taken \in 0..e
  <2>1. CASE i <= e
    <3>1. i \in 0..Len(b) BY <1>7, <2>1
    <3>2. r \in Seq(Symbols) /\ Len(r) = e - i
      <4> HIDE DEF i
      <4> QED BY <3>1, RestIs
    <3> HIDE DEF r
    <3>3. framed \in 0..(e - i) BY <3>2, ConsumedIs
    <3> HIDE DEF i, e, framed, taken
    <3> QED BY <1>6, <1>7, <2>1, <3>3
  <2>2. CASE ~(i <= e)
    <3> HIDE DEF i, e, framed, taken
    <3> QED BY <1>6, <1>7, <2>2
  <2> QED BY <2>1, <2>2
<1>n. CASE NegativeSize(m) BY <1>t, <1>n DEF FoundAsSent
<1> SUFFICES ASSUME ~NegativeSize(m) PROVE FoundAsSent(m, b) BY <1>n
<1>p. NoneNegative(m.chunks) BY <1>4
<1>8. ASSUME i <= e
      PROVE  /\ r \in Seq(Symbols) /\ Len(r) = e - i /\ \A k \in 1..(e - i) : r[k] = b[i + k]
             /\ Returns(r)
             /\ IF WellFormed(m.chunks) /\ w <= e - i
                THEN framed \in Nat /\ EndsAt(r, framed, w, s) ELSE framed = 0
  <2>1. i \in 0..Len(b) BY <1>7, <1>8
  <2>2. /\ r \in Seq(Symbols) /\ Len(r) = e - i /\ \A k \in 1..Len(r) : r[k] = b[i + k]
        /\ \A o \in Nat : \A x : Follows(b, i + o, x) => Follows(r, o, x)
    <3> HIDE DEF i
    <3> QED BY <2>1, RestIs
  <2>3. /\ Follows(r, 0, a) /\ Follows(r, Len(a), l) /\ Follows(r, Len(a) + 3, t \o CRLF)
    <3> HIDE DEF r, h, a, l, t, i
    <3>1. 0 \in Nat /\ Len(a) \in Nat /\ Len(a) + 3 \in Nat BY <1>3
    <3>2. Follows(b, i + (Len(a) + 3), t \o CRLF) BY <1>3, <1>5
    <3> QED BY <1>5, <2>2, <3>1, <3>2
  <2>4. /\ Returns(r)
        /\ IF WellFormed(m.chunks) /\ w <= Len(r)
           THEN framed \in Nat /\ EndsAt(r, framed, w, s) ELSE framed = 0
    <3> HIDE DEF r
    <3> QED BY <1>1, <1>p, <2>2, <2>3, ChunkedBodyRead
  <2> HIDE DEF r, framed, w, i, e, s
  <2> QED BY <2>2, <2>4
<1> HIDE DEF h, a, l, t, i, e, w, r, framed, taken, s
<1>q. ~HangsOf(m, b) BY <1>h, <1>8 DEF HangsOf
<1>9. CASE ~(WellFormed(m.chunks) /\ i + w <= e)
  <2>1. taken = 0
    <3>1. CASE i <= e
      <4>1. ~(WellFormed(m.chunks) /\ w <= e - i) BY <1>7, <1>9
      <4>2. framed = 0 BY <1>8, <3>1, <4>1
      <4> QED BY <1>6, <4>2
    <3>2. CASE ~(i <= e) BY <1>6, <3>2
    <3> QED BY <3>1, <3>2
  <2>2. 0 \in 0..e /\ (e >= i + w <=> i + w <= e) BY <1>7
  <2> QED BY <1>3, <1>4, <1>q, <1>9, <2>1, <2>2 DEF FoundAsSent, taken, e
<1>10. CASE WellFormed(m.chunks) /\ i + w <= e
  <2>1. i <= e /\ w <= e - i /\ e >= i + w BY <1>7, <1>10
  <2>2. /\ r \in Seq(Symbols) /\ Len(r) = e - i /\ \A k \in 1..(e - i) : r[k] = b[i + k]
        /\ framed \in Nat /\ EndsAt(r, framed, w, s)
    BY <1>8, <1>10, <2>1
  <2>w. w > 0
    <3> DEFINE n == Len(s)
               j == Len(a)
    <3>1. n \in Nat /\ j \in Nat BY <1>1, <1>3
    <3> HIDE DEF n, j
    <3>2. j + 3 + 3 * n + 2 > 0 BY <3>1
    <3> QED BY <3>2 DEF w, n, j
  <2>3. CASE framed = w
    <3>1. taken = i + w /\ taken # 0 /\ taken \in 0..e
      BY <1>6, <1>7, <1>10, <2>1, <2>3, <2>w
    <3> QED BY <1>2, <1>3, <1>4, <1>q, <1>10, <2>1, <3>1 DEF FoundAsSent, taken, e
  <2>4. CASE /\ s = << >> /\ framed > w /\ framed <= Len(r) /\ framed - 3 \in Nat \ {0}
             /\ IsAt(BlankLine, r, framed - 3)
    <3>1. taken = i + framed /\ taken # 0 /\ taken \in 0..e /\ taken > i + w
      BY <1>6, <1>7, <2>1, <2>2, <2>4, <2>w
    <3>2. IsAt(BlankLine, b, taken - 3)
      <4> DEFINE k == framed - 3
      <4>1. k \in Nat \ {0} /\ taken - 3 = i + k /\ i + k \in Nat \ {0}
        BY <1>7, <2>2, <2>4, <3>1
      <4> HIDE DEF k
      <4>2. /\ k + 3 <= e - i /\ r[k] = CR /\ r[k + 1] = LF /\ r[k + 2] = CR /\ r[k + 3] = LF
        BY <2>2, <2>4, <4>1, IsAtBlankLine DEF k
      <4>3. /\ k \in 1..(e - i) /\ k + 1 \in 1..(e - i) /\ k + 2 \in 1..(e - i)
            /\ k + 3 \in 1..(e - i)
            /\ i + (k + 1) = (i + k) + 1 /\ i + (k + 2) = (i + k) + 2
            /\ i + (k + 3) = (i + k) + 3 /\ (i + k) + 3 <= e
        BY <1>7, <4>1, <4>2
      <4>4. /\ b[i + k] = CR /\ b[(i + k) + 1] = LF
            /\ b[(i + k) + 2] = CR /\ b[(i + k) + 3] = LF
        BY <2>2, <4>2, <4>3
      <4> QED BY <4>1, <4>3, <4>4, IsAtBlankLine DEF e
    <3> QED BY <1>2, <1>3, <1>4, <1>q, <1>10, <2>1, <2>4, <3>1, <3>2 DEF FoundAsSent, taken, e, s
  <2> QED BY <2>2, <2>3, <2>4 DEF EndsAt
<1> QED BY <1>9, <1>10

(* Any message.                                                            *)
LEMMA MessageFound ==
  ASSUME NEW m, IsMessage(m), NEW b \in Seq(Symbols), Follows(b, 0, Whole(m))
  PROVE  FoundAsSent(m, b)
BY MessageIs, RequestFound, MeasuredFound, UnendedFound, ChunkedFound

(* Its bytes are symbols.                                                  *)
LEMMA WholeIsTyped ==
  ASSUME NEW m, IsMessage(m)
  PROVE  Whole(m) \in Seq(Symbols)
<1>1. CASE ChunkedShape(m) BY <1>1, ChunkedIs
<1>2. CASE ~ChunkedShape(m)
  <2>1. m.framing # "chunked"
    BY <1>2, MessageIs DEF RequestShape, MeasuredShape, UnendedShape
  <2> QED BY <2>1, BodyIs
<1> QED BY <1>1, <1>2

-----------------------------------------------------------------------------
(* The invariants.                                                         *)
(* What every step keeps. *)
Reading ==
  /\ message \in Messages
  /\ got \in 0..Len(Text(message))

(* The buffer holds the beginning of the message.                          *)
LEMMA BufferIs ==
  ASSUME Reading
  PROVE  /\ IsMessage(message)
         /\ Buffer \in Seq(Symbols) /\ Len(Buffer) = got /\ got \in Nat
         /\ Follows(Buffer, 0, Whole(message))
<1> DEFINE t == Text(message)
           w == Whole(message)
           x == message.excess
           b == SubSeq(t, 1, got)
<1>1. IsMessage(message) BY MessageAssumption DEF Reading
<1>2. w \in Seq(Symbols) /\ x \in Seq(Symbols) BY <1>1, WholeIsTyped, MessageIs
<1>3. t = w \o x BY DEF Text
<1>4. got \in 0..Len(t) BY DEF Reading
<1> HIDE DEF t, w, x
<1>5. t \in Seq(Symbols) BY <1>2, <1>3, FollowsBoth
<1>6. b \in Seq(Symbols) /\ Len(b) = got /\ got \in Nat /\ \A i \in 1..got : b[i] = t[i]
  BY <1>4, <1>5
<1> HIDE DEF b
<1>7. Follows(b, 0, t)
  <2>1. \A i \in 1..Len(t) : 0 + i <= got => i \in 1..got /\ 0 + i = i BY <1>5, <1>6
  <2> QED BY <1>6, <2>1 DEF Follows
<1>8. Follows(b, 0, w)
  <2>1. 0 \in Nat OBVIOUS
  <2> QED BY <1>2, <1>3, <1>6, <1>7, <2>1, FollowsBoth
<1>9. Buffer = b BY DEF Buffer, b, t
<1> QED BY <1>1, <1>6, <1>8, <1>9 DEF w

(* What the handlers take of it.                                           *)
LEMMA TakenIs ==
  ASSUME Reading
  PROVE  FoundAsSent(message, Buffer) /\ Taken = TakenOf(message, Buffer)
BY BufferIs, MessageFound DEF Taken, TakenOf

(* The length of the buffer is all that changes, and it does not pass the end.*)
LEMMA ReadingHolds == Spec => []Reading
<1>1. Init => Reading
  <2> SUFFICES ASSUME Init PROVE Reading OBVIOUS
  <2>1. message \in Messages /\ got = 0 BY DEF Init
  <2>2. IsMessage(message) BY <2>1, MessageAssumption
  <2> DEFINE w == Whole(message)
             x == message.excess
  <2>3. w \in Seq(Symbols) /\ x \in Seq(Symbols) BY <2>2, WholeIsTyped, MessageIs
  <2>4. Text(message) = w \o x BY DEF Text
  <2> HIDE DEF w, x
  <2>5. w \o x \in Seq(Symbols) BY <2>3, FollowsBoth
  <2>6. Len(Text(message)) \in Nat BY <2>4, <2>5
  <2> QED BY <2>1, <2>6 DEF Reading
<1>2. Reading /\ [Next]_vars => Reading'
  <2> SUFFICES ASSUME Reading, [Next]_vars PROVE Reading' OBVIOUS
  <2>1. CASE Read
    <3>1. /\ message' = message /\ got' \in (got + 1)..Len(Text(message)) BY <2>1 DEF Read
    <3>2. got \in Nat BY BufferIs
    <3>3. got' \in 0..Len(Text(message)) BY <3>1, <3>2
    <3> QED BY <3>1, <3>3 DEF Reading, Text, Whole, HeadOf
  <2>2. CASE UNCHANGED vars BY <2>2 DEF vars, Reading, Text, Whole, HeadOf
  <2> QED BY <2>1, <2>2 DEF Next
<1> QED BY <1>1, <1>2, PTL DEF Spec

(* Whatever is sent and however the reads cut it, no more is taken than the*)
(* buffer holds (try_parse_request, handle_backend_readable).              *)
THEOREM Typed == Spec => []TypeOK
<1>1. Reading => TypeOK
  <2> SUFFICES ASSUME Reading PROVE TypeOK OBVIOUS
  <2>1. Taken \in 0..got BY BufferIs, TakenIs DEF FoundAsSent
  <2> QED BY <2>1 DEF Reading, TypeOK
<1> QED BY <1>1, ReadingHolds, PTL

(* The search for the end of a chunked body returns after every read,      *)
(* whatever the body's prefix, well-formed or not, that the buffer holds,  *)
(* unless a size line of it has a negative number (the loop of             *)
(* try_consume_chunked_body).                                              *)
THEOREM ScanReturns == Spec => []HangsOnlyOnNegativeSize
<1>1. Reading => HangsOnlyOnNegativeSize
  <2> SUFFICES ASSUME Reading, Hangs PROVE NegativeSize(message)
    BY DEF HangsOnlyOnNegativeSize
  <2>1. HangsOf(message, Buffer) BY DEF Hangs, HangsOf
  <2> QED BY <2>1, TakenIs DEF FoundAsSent
<1> QED BY <1>1, ReadingHolds, PTL

(* A message is found when its last byte is there and not before; one with *)
(* a bad start line, a size that does not parse or no line end behind a    *)
(* chunk never.  For messages with any number of fields, chunks and        *)
(* trailers and data of any kind, but without a negative size              *)
(* (try_parse_request, try_consume_chunked_body).                          *)
THEOREM FoundWithTheLastByte == Spec => []FoundWhenWhole
<1>1. Reading => FoundWhenWhole
  BY BufferIs, TakenIs DEF FoundAsSent, FoundWhenWhole
<1> QED BY <1>1, ReadingHolds, PTL

(* What is found ends where the message ends, but for the exceptions that  *)
(* the property names (get_response_content_length, http_parser.py:95,     *)
(* http_parser.py:240) and for messages with a negative size.              *)
THEOREM FoundExactly == Spec => []FoundToTheByte
<1>1. Reading => FoundToTheByte
  BY BufferIs, TakenIs DEF FoundAsSent, FoundToTheByte, MayBeFound
<1> QED BY <1>1, ReadingHolds, PTL

(* The request that serialise_request makes, with the address that         *)
(* inject_forwarded_for adds, reads as the client's request, whatever the  *)
(* client has sent behind it; unless a negative Content-Length reaches     *)
(* behind the headers (http_parser.py:95).                                 *)
THEOREM ForwardedFaithfully == Spec => []ForwardedIsTheRequest
<1>1. Reading => ForwardedIsTheRequest
  <2> SUFFICES ASSUME Reading, Taken # 0, IsRequest(message), ~Overdrawn(Buffer) PROVE
       /\ TryParseRequest(SerialiseRequest(Buffer)) = Len(SerialiseRequest(Buffer))
       /\ Body(SerialiseRequest(Buffer)) = message.body
       /\ Range(Headers(Buffer)) = LastOfEach(message.fields)
       /\ Addressed(Headers(Buffer), Headers(SerialiseRequest(Buffer)))
    BY DEF ForwardedIsTheRequest, Addressed
  <2> DEFINE d == Dict(message.fields)
  <2>1. IsMessage(message) /\ Buffer \in Seq(Symbols) /\ Follows(Buffer, 0, Whole(message))
    BY BufferIs
  <2>2. RequestShape(message)
    BY <2>1, MessageIs DEF MeasuredShape, UnendedShape, ChunkedShape
  <2>3. /\ IsRequestLine(message.start) /\ Buffer[1] = message.start
        /\ Body(Buffer) = message.body /\ Headers(Buffer) = d
    BY <2>1, <2>2, TakenIs, RequestFound
  <2>4. /\ message.start \in Tokens /\ message.fields \in Seq(Tokens)
        /\ message.body \in Seq(Symbols)
    BY <2>1, MessageIs DEF MayStart
  <2>5. d \in Seq(Tokens) /\ IsDict(d) /\ Range(d) = LastOfEach(message.fields)
    BY <2>4, DictIs
  <2>6. Measured(d, message.body) BY <2>2, <2>4, DictMeasured DEF RequestShape
  <2> HIDE DEF d
  <2>7. /\ TryParseRequest(SerialiseRequest(Buffer)) = Len(SerialiseRequest(Buffer))
        /\ Body(SerialiseRequest(Buffer)) = message.body
        /\ Addressed(d, Headers(SerialiseRequest(Buffer)))
    BY <2>1, <2>3, <2>4, <2>5, <2>6, ForwardedRead
  <2> QED BY <2>3, <2>5, <2>7
<1> QED BY <1>1, ReadingHolds, PTL
===============================================================================

------------------------------ MODULE LogProofs -----------------------------
(***************************************************************************)
(* What the parser makes of the log of a scan Job, for any number of       *)
(* images, any outcome of each scan and any first lines lost.  The log is  *)
(* taken frame by frame: a frame that the log has from its begin marker on *)
(* leaves its whole report, one that has lost the marker leaves nothing,   *)
(* and neither touches what is known of another image.                     *)
(***************************************************************************)
EXTENDS BatchLog, SequenceTheorems, FoldLemmas

LogLine == {l \in [kind : {"begin", "rc", "end", "report", "message"}, image : Image \cup {None},
                   value : 0..2, long : BOOLEAN] :
               l.kind \in {"begin", "rc", "end"} => l.image \in Image}

Parsed == [current : Image \cup {None}, chunks : [Image -> Seq(LogLine)],
           rc : [Image -> (0..2) \cup {None}]]

-----------------------------------------------------------------------------
(* The parser as an iteration                                              *)

Parse(x, q) == FoldLeft(ParseLine, x, q)

LEMMA LineParsed ==
    ASSUME NEW x \in Parsed, NEW l \in LogLine
    PROVE  ParseLine(x, l) \in Parsed
<1>1. l.kind \in {"begin", "rc", "end", "report", "message"} /\ l.value \in 0..2
  BY DEF LogLine
<1>2. CASE l.kind = "begin"
  BY <1>2 DEF ParseLine, Parsed, LogLine
<1>3. CASE l.kind = "rc"
  BY <1>3 DEF ParseLine, Parsed, LogLine
<1>4. CASE l.kind = "end"
  BY <1>4 DEF ParseLine, Parsed, LogLine
<1>5. CASE l.kind \in {"report", "message"}
  <2>1. x.current # None => x.current \in Image /\ Append(x.chunks[x.current], l) \in Seq(LogLine)
    BY DEF Parsed
  <2>2. ParseLine(x, l) = IF x.current = None THEN x
                          ELSE [x EXCEPT !.chunks[x.current] = Append(@, l)]
    BY <1>5 DEF ParseLine
  <2> QED BY <2>1, <2>2 DEF Parsed
<1> QED BY <1>1, <1>2, <1>3, <1>4, <1>5

LEMMA ParseFold ==
    ASSUME NEW x \in Parsed, NEW q \in Seq(LogLine)
    PROVE  \E g : /\ g[0] = x
                  /\ \A i \in 1..Len(q) : g[i] = ParseLine(g[i - 1], q[i])
                  /\ \A i \in 0..Len(q) : g[i] \in Parsed
                  /\ Parse(x, q) = g[Len(q)]
<1> DEFINE Step == [y \in Parsed \X LogLine |-> ParseLine(y[1], y[2])]
           S == DOMAIN q
           Eq(it) == it = [s \in SUBSET S |->
                             IF s = {} THEN x ELSE ParseLine(it[s \ {Max(s)}], q[Max(s)])]
           iter == CHOOSE it : Eq(it)
<1>1. Step \in [Parsed \X LogLine -> Parsed]
  BY LineParsed
<1>2. PICK it : Iterates(it, Parsed, Step, x, q)
  <2> HIDE DEF Step
  <2> QED BY <1>1, IterationExists
<1>3. Eq(it)
  <2>1. ASSUME NEW s \in SUBSET S, s # {}
        PROVE  it[s \ {Max(s)}] \in Parsed /\ q[Max(s)] \in LogLine
    BY <1>2, <2>1, Iteration
  <2>2. \A s \in SUBSET S :
           it[s] = IF s = {} THEN x ELSE ParseLine(it[s \ {Max(s)}], q[Max(s)])
    BY <1>2, <2>1 DEF Iterates
  <2>3. it = [s \in SUBSET S |-> it[s]]
    BY <1>2 DEF Iterates
  <2> QED BY <2>2, <2>3
<1>4. Eq(iter)
  <2> HIDE DEF Eq
  <2> QED BY <1>3
<1>5. Parse(x, q) = iter[DOMAIN q]
  BY Zenon DEF Parse, FoldLeft, MapThenFoldSet
<1>6. S = 1..Len(q)
  OBVIOUS
<1> HIDE DEF iter
<1> DEFINE g == [i \in 0..Len(q) |-> iter[1..i]]
<1>7. g[0] = x
  BY <1>4
<1>8. ASSUME NEW i \in 1..Len(q) PROVE g[i] = ParseLine(g[i - 1], q[i]) /\ q[i] \in LogLine
  <2>1. 1..i \in SUBSET S
    BY <1>6
  <2>2. i \in Nat /\ i \in 1..i /\ (1..i) \ {i} = 1..(i - 1)
    OBVIOUS
  <2>3. Max(1..i) = i
    BY <2>2, MaxOfInterval
  <2> HIDE DEF S
  <2>4. iter[1..i] = ParseLine(iter[1..(i - 1)], q[i])
    BY <1>4, <2>1, <2>2, <2>3
  <2> QED BY <2>4
<1>9. g[Len(q)] = Parse(x, q)
  BY <1>5, <1>6
<1>10. \A i \in 0..Len(q) : g[i] \in Parsed
  <2> DEFINE T == {i \in Nat : i <= Len(q) => g[i] \in Parsed}
  <2> HIDE DEF g
  <2>1. 0 \in T
    BY <1>7
  <2>2. ASSUME NEW i \in Nat, i \in T PROVE i + 1 \in T
    BY <1>8, <2>2, LineParsed
  <2>3. Nat \subseteq T
    <3> HIDE DEF T
    <3> QED BY <2>1, <2>2, Induction
  <2> QED BY <2>3
<1> QED BY <1>7, <1>8, <1>9, <1>10

\* There is one iteration only.
LEMMA ParseIs ==
    ASSUME NEW x \in Parsed, NEW q \in Seq(LogLine), NEW g, g[0] = x,
           \A i \in 1..Len(q) : g[i] = ParseLine(g[i - 1], q[i])
    PROVE  Parse(x, q) = g[Len(q)] /\ Parse(x, q) \in Parsed
<1>1. PICK h : /\ h[0] = x
               /\ \A i \in 1..Len(q) : h[i] = ParseLine(h[i - 1], q[i])
               /\ \A i \in 0..Len(q) : h[i] \in Parsed
               /\ Parse(x, q) = h[Len(q)]
  BY ParseFold
<1> DEFINE T == {i \in Nat : i <= Len(q) => g[i] = h[i]}
<1>2. 0 \in T
  BY <1>1
<1>3. ASSUME NEW i \in Nat, i \in T PROVE i + 1 \in T
  BY <1>1, <1>3
<1>4. Nat \subseteq T
  <2> HIDE DEF T
  <2> QED BY <1>2, <1>3, Induction
<1> QED BY <1>1, <1>4

LEMMA ParseType ==
    ASSUME NEW x \in Parsed, NEW q \in Seq(LogLine) PROVE Parse(x, q) \in Parsed
<1>1. PICK h : /\ \A i \in 0..Len(q) : h[i] \in Parsed
               /\ Parse(x, q) = h[Len(q)]
  BY ParseFold
<1> QED BY <1>1

\* A log is parsed piece by piece.
LEMMA ParseConcat ==
    ASSUME NEW x \in Parsed, NEW a \in Seq(LogLine), NEW b \in Seq(LogLine)
    PROVE  Parse(x, a \o b) = Parse(Parse(x, a), b)
<1> DEFINE q == a \o b
<1>1. /\ q \in Seq(LogLine) /\ Len(q) = Len(a) + Len(b)
      /\ \A i \in 1..Len(a) : q[i] = a[i]
      /\ \A i \in 1..Len(b) : q[Len(a) + i] = b[i]
  OBVIOUS
<1> HIDE DEF q
<1>2. PICK g : /\ g[0] = x
               /\ \A i \in 1..Len(q) : g[i] = ParseLine(g[i - 1], q[i])
               /\ \A i \in 0..Len(q) : g[i] \in Parsed
               /\ Parse(x, q) = g[Len(q)]
  BY <1>1, ParseFold
<1>3. Parse(x, a) = g[Len(a)]
  <2>1. \A i \in 1..Len(a) : g[i] = ParseLine(g[i - 1], a[i])
    BY <1>1, <1>2
  <2> QED BY <1>2, <2>1, ParseIs
<1>4. Parse(g[Len(a)], b) = g[Len(a) + Len(b)]
  <2> DEFINE h == [i \in 0..Len(b) |-> g[Len(a) + i]]
  <2>1. h[0] = g[Len(a)] /\ h[Len(b)] = g[Len(a) + Len(b)] /\ g[Len(a)] \in Parsed
    BY <1>1, <1>2
  <2>2. \A i \in 1..Len(b) : h[i] = ParseLine(h[i - 1], b[i])
    <3> SUFFICES ASSUME NEW i \in 1..Len(b) PROVE h[i] = ParseLine(h[i - 1], b[i])
      OBVIOUS
    <3>1. Len(a) + i \in 1..Len(q) /\ q[Len(a) + i] = b[i] /\ Len(a) + i - 1 = Len(a) + (i - 1)
      BY <1>1
    <3>2. g[Len(a) + i] = ParseLine(g[Len(a) + (i - 1)], b[i])
      BY <1>2, <3>1
    <3> QED BY <3>2
  <2> HIDE DEF h
  <2> QED BY <2>1, <2>2, ParseIs
<1> QED BY <1>1, <1>2, <1>3, <1>4 DEF q

LEMMA ParseEmpty == ASSUME NEW x \in Parsed PROVE Parse(x, <<>>) = x
<1> DEFINE q == <<>>
<1>1. q \in Seq(LogLine) /\ Len(q) = 0
  OBVIOUS
<1> HIDE DEF q
<1>2. PICK g : /\ g[0] = x
               /\ \A i \in 1..Len(q) : g[i] = ParseLine(g[i - 1], q[i])
               /\ \A i \in 0..Len(q) : g[i] \in Parsed
               /\ Parse(x, q) = g[Len(q)]
  BY <1>1, ParseFold
<1>3. Parse(x, q) = x
  BY <1>1, <1>2
<1> QED BY <1>3 DEF q

LEMMA ParseOne ==
    ASSUME NEW x \in Parsed, NEW l \in LogLine PROVE Parse(x, <<l>>) = ParseLine(x, l)
<1> DEFINE q == <<l>>
<1>1. q \in Seq(LogLine) /\ Len(q) = 1 /\ q[1] = l
  OBVIOUS
<1> HIDE DEF q
<1>2. PICK g : /\ g[0] = x
               /\ \A i \in 1..Len(q) : g[i] = ParseLine(g[i - 1], q[i])
               /\ Parse(x, q) = g[Len(q)]
  BY <1>1, ParseFold
<1>3. Parse(x, q) = ParseLine(x, l)
  BY <1>1, <1>2
<1> QED BY <1>3 DEF q

-----------------------------------------------------------------------------
(* Frames                                                                  *)

\* Lines that are framed by no begin marker are lost.
LEMMA Unframed ==
    ASSUME NEW x \in Parsed, x.current = None, NEW q \in Seq(LogLine),
           \A k \in 1..Len(q) : q[k].kind # "begin"
    PROVE  LET y == Parse(x, q)
           IN  /\ y.current = None /\ y.chunks = x.chunks
               /\ \A j \in Image : (\A k \in 1..Len(q) : q[k].kind = "rc" => q[k].image # j)
                                    => y.rc[j] = x.rc[j]
<1>1. PICK g : /\ g[0] = x
               /\ \A i \in 1..Len(q) : g[i] = ParseLine(g[i - 1], q[i])
               /\ \A i \in 0..Len(q) : g[i] \in Parsed
               /\ Parse(x, q) = g[Len(q)]
  BY ParseFold
<1> DEFINE Good(y) == /\ y.current = None /\ y.chunks = x.chunks
                      /\ \A j \in Image : (\A k \in 1..Len(q) : q[k].kind = "rc" => q[k].image # j)
                                           => y.rc[j] = x.rc[j]
           T == {i \in Nat : i <= Len(q) => Good(g[i])}
<1>2. 0 \in T
  BY <1>1
<1>3. ASSUME NEW i \in Nat, i \in T PROVE i + 1 \in T
  <2> SUFFICES ASSUME i + 1 <= Len(q) PROVE Good(g[i + 1])
    OBVIOUS
  <2> DEFINE y == g[i]
             l == q[i + 1]
  <2>1. i + 1 \in 1..Len(q) /\ y \in Parsed /\ Good(y) /\ l \in LogLine
        /\ g[i + 1] = ParseLine(y, l)
    BY <1>1, <1>3
  <2> HIDE DEF y
  <2>2. l.kind \in {"rc", "end", "report", "message"} /\ (l.kind = "rc" => l.image \in Image)
    BY <2>1 DEF LogLine
  <2>3. CASE l.kind = "rc"
    <3>1. ParseLine(y, l) = [y EXCEPT !.rc[l.image] = l.value]
      BY <2>3 DEF ParseLine
    <3>2. \A j \in Image : (\A k \in 1..Len(q) : q[k].kind = "rc" => q[k].image # j)
                              => l.image # j
      BY <2>1, <2>3
    <3> HIDE DEF l
    <3> QED BY <2>1, <3>1, <3>2 DEF Parsed
  <2>4. CASE l.kind = "end"
    <3>1. l.image # None
      BY <2>1, <2>4, CveCommandAssumption DEF LogLine
    <3>2. ParseLine(y, l) = y
      BY <2>1, <2>4, <3>1 DEF ParseLine
    <3> QED BY <2>1, <3>2
  <2>5. CASE l.kind \in {"report", "message"}
    <3>1. ParseLine(y, l) = y
      BY <2>1, <2>5 DEF ParseLine
    <3> QED BY <2>1, <3>1
  <2> QED BY <2>2, <2>3, <2>4, <2>5
<1>4. Nat \subseteq T
  <2> HIDE DEF T
  <2> QED BY <1>2, <1>3, Induction
<1>5. Good(g[Len(q)])
  <2> HIDE DEF Good
  <2> QED BY <1>4
<1> QED BY <1>1, <1>5

\* The lines of an open frame are collected for its image.
WithChunk(x, i, c) == [x EXCEPT !.chunks[i] = c]

LEMMA Collected ==
    ASSUME NEW x \in Parsed, NEW i \in Image, x.current = i, NEW q \in Seq(LogLine),
           \A k \in 1..Len(q) : q[k].kind \in {"report", "message"}
    PROVE  Parse(x, q) = WithChunk(x, i, x.chunks[i] \o q)
<1> DEFINE More(c) == [x EXCEPT !.chunks[i] = c]
           chunk == x.chunks[i]
           g == [k \in 0..Len(q) |-> More(chunk \o SubSeq(q, 1, k))]
<1>1. chunk \in Seq(LogLine) /\ i # None
  BY CveCommandAssumption DEF Parsed
<1>2. g[0] = x
  <2>1. chunk \o SubSeq(q, 1, 0) = chunk
    BY <1>1
  <2>2. More(chunk) = x
    BY DEF Parsed
  <2> QED BY <2>1, <2>2
<1>3. ASSUME NEW k \in 1..Len(q) PROVE g[k] = ParseLine(g[k - 1], q[k])
  <2> DEFINE c == chunk \o SubSeq(q, 1, k - 1)
  <2>1. c \in Seq(LogLine) /\ g[k - 1] = More(c) /\ g[k] = More(chunk \o SubSeq(q, 1, k))
    BY <1>1
  <2>2. chunk \o SubSeq(q, 1, k) = Append(c, q[k])
    <3>1. SubSeq(q, 1, k) = Append(SubSeq(q, 1, k - 1), q[k])
      OBVIOUS
    <3> HIDE DEF chunk
    <3> QED BY <1>1, <3>1
  <2> HIDE DEF c, chunk, g
  <2>3. q[k].kind \in {"report", "message"}
    OBVIOUS
  <2>4. More(c).current = i /\ More(c).chunks[i] = c
    BY DEF Parsed
  <2>5. ParseLine(More(c), q[k]) = [More(c) EXCEPT !.chunks[i] = Append(@, q[k])]
    BY <1>1, <2>3, <2>4 DEF ParseLine
  <2>6. [More(c) EXCEPT !.chunks[i] = Append(@, q[k])] = More(Append(c, q[k]))
    BY DEF Parsed
  <2> QED BY <2>1, <2>2, <2>5, <2>6
<1>4. g[Len(q)] = More(chunk \o q)
  <2>1. SubSeq(q, 1, Len(q)) = q /\ Len(q) \in 0..Len(q)
    OBVIOUS
  <2> QED BY <2>1
<1>5. Parse(x, q) = g[Len(q)]
  <2> HIDE DEF g
  <2> QED BY <1>2, <1>3, ParseIs
<1> QED BY <1>4, <1>5 DEF WithChunk

LEMMA KeptLines ==
    ASSUME NEW B, NEW a \in Seq(B), NEW d \in Nat
    PROVE  /\ Kept(a, d) \in Seq(B)
           /\ Len(Kept(a, d)) = IF d <= Len(a) THEN Len(a) - d ELSE 0
           /\ \A k \in 1..Len(Kept(a, d)) : d + k \in 1..Len(a) /\ Kept(a, d)[k] = a[d + k]
BY DEF Kept

LEMMA KeptAll == ASSUME NEW B, NEW a \in Seq(B) PROVE Kept(a, 0) = a
BY DEF Kept

LEMMA SameLines ==
    ASSUME NEW B, NEW a \in Seq(B), NEW b \in Seq(B), Len(a) = Len(b),
           \A i \in 1..Len(a) : a[i] = b[i]
    PROVE  a = b
OBVIOUS

LEMMA ConcatLines ==
    ASSUME NEW B, NEW a \in Seq(B), NEW b \in Seq(B)
    PROVE  /\ a \o b \in Seq(B) /\ Len(a \o b) = Len(a) + Len(b)
           /\ Len(a) \in Nat /\ Len(b) \in Nat
           /\ \A i \in 1..Len(a \o b) : (a \o b)[i] = IF i <= Len(a) THEN a[i] ELSE b[i - Len(a)]
OBVIOUS

\* What is kept of two pieces.
LEMMA KeptConcat ==
    ASSUME NEW B, NEW a \in Seq(B), NEW b \in Seq(B), NEW d \in Nat
    PROVE  \E e \in Nat : /\ Kept(a \o b, d) = Kept(a, d) \o Kept(b, e)
                         /\ e = IF d <= Len(a) THEN 0 ELSE d - Len(a)
<1> DEFINE e == IF d <= Len(a) THEN 0 ELSE d - Len(a)
           q == a \o b
           r == Kept(a, d)
           s == Kept(b, e)
<1>1. /\ q \in Seq(B) /\ Len(q) = Len(a) + Len(b) /\ Len(a) \in Nat /\ Len(b) \in Nat
      /\ \A i \in 1..Len(q) : q[i] = IF i <= Len(a) THEN a[i] ELSE b[i - Len(a)]
  BY ConcatLines
<1>2. e \in Nat
  OBVIOUS
<1>3. /\ r \in Seq(B) /\ Len(r) = IF d <= Len(a) THEN Len(a) - d ELSE 0
      /\ \A k \in 1..Len(r) : r[k] = a[d + k]
  BY KeptLines
<1>4. /\ s \in Seq(B) /\ Len(s) = IF e <= Len(b) THEN Len(b) - e ELSE 0
      /\ \A k \in 1..Len(s) : s[k] = b[e + k]
  <2> HIDE DEF e
  <2> QED BY <1>2, KeptLines
<1> HIDE DEF q
<1> DEFINE u == r \o s
           w == Kept(q, d)
<1>5. /\ w \in Seq(B) /\ Len(w) = IF d <= Len(q) THEN Len(q) - d ELSE 0
      /\ \A k \in 1..Len(w) : d + k \in 1..Len(q) /\ w[k] = q[d + k]
  BY <1>1, KeptLines
<1> HIDE DEF r, s
<1>6. /\ u \in Seq(B) /\ Len(u) = Len(r) + Len(s) /\ Len(r) \in Nat /\ Len(s) \in Nat
      /\ \A k \in 1..Len(u) : u[k] = IF k <= Len(r) THEN r[k] ELSE s[k - Len(r)]
  BY <1>3, <1>4, ConcatLines
<1> HIDE DEF u, w, e
<1>7. ASSUME d <= Len(a) PROVE w = u
  <2>1. e = 0 /\ Len(r) = Len(a) - d /\ Len(s) = Len(b) /\ Len(w) = Len(u)
    BY <1>1, <1>3, <1>4, <1>5, <1>6, <1>7 DEF e
  <2>2. ASSUME NEW k \in 1..Len(w) PROVE w[k] = u[k]
    <3>1. k \in Nat /\ k \in 1..Len(u) /\ w[k] = q[d + k] /\ d + k \in 1..Len(q)
      BY <1>5, <1>6, <2>1
    <3>2. CASE k <= Len(r)
      BY <1>1, <1>3, <1>6, <2>1, <3>1, <3>2
    <3>3. CASE ~(k <= Len(r))
      <4>1. k - Len(r) \in 1..Len(s) /\ u[k] = s[k - Len(r)]
        BY <1>6, <2>1, <3>1, <3>3
      <4>2. ~(d + k <= Len(a)) /\ (d + k) - Len(a) = k - Len(r)
        BY <1>1, <2>1, <3>1, <3>3
      <4>3. q[d + k] = b[k - Len(r)]
        BY <1>1, <3>1, <4>2
      <4>4. s[k - Len(r)] = b[k - Len(r)]
        <5>1. e + (k - Len(r)) = k - Len(r)
          BY <2>1, <3>1, <1>6
        <5> QED BY <1>4, <4>1, <5>1
      <4> QED BY <3>1, <4>1, <4>3, <4>4
    <3> QED BY <3>2, <3>3
  <2> QED BY <1>5, <1>6, <2>1, <2>2, SameLines
<1>8. ASSUME ~(d <= Len(a)) PROVE w = u
  <2>1. e = d - Len(a) /\ Len(r) = 0 /\ Len(w) = Len(s) /\ Len(w) = Len(u)
    BY <1>1, <1>3, <1>4, <1>5, <1>6, <1>8 DEF e
  <2>2. ASSUME NEW k \in 1..Len(w) PROVE w[k] = u[k]
    <3>1. k \in Nat /\ k \in 1..Len(u) /\ k \in 1..Len(s) /\ w[k] = q[d + k] /\ d + k \in 1..Len(q)
      BY <1>5, <1>6, <2>1
    <3>2. ~(k <= Len(r)) /\ k - Len(r) = k
      BY <2>1, <3>1
    <3>3. ~(d + k <= Len(a)) /\ (d + k) - Len(a) = e + k
      BY <1>1, <1>8, <2>1, <3>1
    <3>4. u[k] = s[k]
      BY <1>6, <3>1, <3>2
    <3>5. q[d + k] = b[e + k]
      BY <1>1, <3>1, <3>3
    <3> QED BY <1>4, <3>1, <3>4, <3>5
  <2> QED BY <1>5, <1>6, <2>1, <2>2, SameLines
<1>9. w = u
  BY <1>7, <1>8
<1> QED BY <1>2, <1>9 DEF w, u, q, r, s, e

LEMMA ContainsConcat ==
    ASSUME NEW B, NEW a \in Seq(B), NEW b \in Seq(B), NEW l
    PROVE  Contains(a \o b, l) <=> Contains(a, l) \/ Contains(b, l)
<1> DEFINE q == a \o b
<1>1. /\ Len(q) = Len(a) + Len(b) /\ Len(a) \in Nat /\ Len(b) \in Nat
      /\ \A i \in 1..Len(a) : q[i] = a[i]
      /\ \A i \in 1..Len(b) : q[Len(a) + i] = b[i]
  OBVIOUS
<1> HIDE DEF q
<1>2. \A i \in 1..Len(a) : i \in 1..Len(q)
  BY <1>1
<1>3. \A i \in 1..Len(b) : Len(a) + i \in 1..Len(q)
  BY <1>1
<1>4. ASSUME NEW i \in 1..Len(q) PROVE i \in 1..Len(a) \/ i - Len(a) \in 1..Len(b)
  BY <1>1
<1>5. ASSUME NEW i \in 1..Len(q), i - Len(a) \in 1..Len(b) PROVE q[i] = b[i - Len(a)]
  <2>1. i = Len(a) + (i - Len(a))
    BY <1>1
  <2> QED BY <1>1, <1>5, <2>1
<1>6. Contains(q, l) => Contains(a, l) \/ Contains(b, l)
  BY <1>1, <1>4, <1>5 DEF Contains
<1>7. Contains(a, l) \/ Contains(b, l) => Contains(q, l)
  BY <1>1, <1>2, <1>3 DEF Contains
<1> QED BY <1>6, <1>7 DEF q

LEMMA TwoLines ==
    ASSUME NEW B, NEW a \in Seq(B), NEW l \in B, NEW m \in B
    PROVE  a \o <<l, m>> = (a \o <<l>>) \o <<m>>
<1> DEFINE b == <<l>> \o <<m>>
<1>1. <<l>> \in Seq(B) /\ <<m>> \in Seq(B) /\ <<l, m>> \in Seq(B) /\ Len(<<l, m>>) = 2
  OBVIOUS
<1>2. b \in Seq(B) /\ Len(b) = 2 /\ b[1] = l /\ b[2] = m
  OBVIOUS
<1> HIDE DEF b
<1>3. <<l, m>> = b
  <2>1. \A k \in 1..2 : <<l, m>>[k] = b[k]
    BY <1>2
  <2> QED BY <1>1, <1>2, <2>1, SameLines
<1> QED BY <1>1, <1>3, ConcatAssociative DEF b

-----------------------------------------------------------------------------
(* The lines the script prints                                             *)

LEMMA ReportLines ==
    ASSUME NEW i \in Image, NEW o \in Outcome
    PROVE  /\ Report(i, o) \in Seq(LogLine)
           /\ \A k \in 1..Len(Report(i, o)) : Report(i, o)[k].kind \in {"report", "message"}
           /\ o = "long" => \E k \in 1..Len(Report(i, o)) : Report(i, o)[k].long
<1> DEFINE first == Line("report", i, 1)
           last == Line("report", i, 2)
           message == Line("message", i, 0)
           long == [last EXCEPT !.long = TRUE]
<1>1. /\ first \in LogLine /\ last \in LogLine /\ message \in LogLine /\ long \in LogLine
      /\ first.kind = "report" /\ last.kind = "report" /\ message.kind = "message"
      /\ long.kind = "report" /\ long.long
  <2>1. first \in LogLine /\ last \in LogLine /\ message \in LogLine
    BY DEF Line, LogLine
  <2>2. first.kind = "report" /\ last.kind = "report" /\ message.kind = "message"
    BY DEF Line
  <2> HIDE DEF last
  <2>3. long \in LogLine /\ long.kind = last.kind /\ long.long
    BY <2>1 DEF LogLine
  <2> QED BY <2>1, <2>2, <2>3
<1>2. o \in {"ok", "mixed", "long", "failed", "silent"}
  BY DEF Outcome
<1>3. Report(i, o) = CASE o = "ok" -> <<first, last>>
                       [] o = "mixed" -> <<first, message, last>>
                       [] o = "long" -> <<first, long>>
                       [] o = "failed" -> <<message>>
                       [] o = "silent" -> <<>>
  BY DEF Report
<1> HIDE DEF first, last, message, long
<1>4. CASE o = "ok"
  BY <1>1, <1>3, <1>4
<1>5. CASE o = "mixed"
  BY <1>1, <1>3, <1>5
<1>6. CASE o = "long"
  BY <1>1, <1>3, <1>6
<1>7. CASE o = "failed"
  BY <1>1, <1>3, <1>7
<1>8. CASE o = "silent"
  BY <1>1, <1>3, <1>8
<1> QED BY <1>2, <1>4, <1>5, <1>6, <1>7, <1>8

LEMMA MarkerLines ==
    ASSUME NEW i \in Image, NEW o \in Outcome
    PROVE  LET begin == Line("begin", i, 0)
               rc == Line("rc", i, ExitCode(o))
               end == Line("end", i, 0)
           IN  /\ begin \in LogLine /\ begin.kind = "begin" /\ begin.image = i
               /\ rc \in LogLine /\ rc.kind = "rc" /\ rc.image = i /\ rc.value = ExitCode(o)
               /\ end \in LogLine /\ end.kind = "end" /\ end.image = i
BY DEF Line, LogLine, ExitCode

LEMMA FrameLines ==
    ASSUME NEW i \in Image, NEW o \in Outcome
    PROVE  LET frame == Frame(i, o)
           IN  /\ frame \in Seq(LogLine) /\ Len(frame) > 0
               /\ frame[1] = Line("begin", i, 0)
               /\ \A k \in 2..Len(frame) :
                     frame[k].kind # "begin" /\ (frame[k].kind = "rc" => frame[k].image = i)
               /\ o = "long" => \E k \in 1..Len(frame) : frame[k].long
<1> DEFINE begin == Line("begin", i, 0)
           rc == Line("rc", i, ExitCode(o))
           end == Line("end", i, 0)
           report == Report(i, o)
           frame == Frame(i, o)
<1>1. /\ begin \in LogLine /\ rc \in LogLine /\ end \in LogLine
      /\ begin.kind = "begin" /\ rc.kind = "rc" /\ rc.image = i /\ end.kind = "end"
  BY MarkerLines
<1>2. /\ report \in Seq(LogLine)
      /\ \A k \in 1..Len(report) : report[k].kind \in {"report", "message"}
      /\ o = "long" => \E k \in 1..Len(report) : report[k].long
  BY ReportLines
<1>3. frame = <<begin>> \o report \o <<rc, end>>
  BY DEF Frame
<1> HIDE DEF begin, rc, end, report, frame
<1>4. /\ frame \in Seq(LogLine) /\ Len(frame) = Len(report) + 3 /\ Len(report) \in Nat
      /\ frame[1] = begin
      /\ \A k \in 1..Len(report) : frame[k + 1] = report[k]
      /\ frame[Len(report) + 2] = rc /\ frame[Len(report) + 3] = end
  <2> DEFINE a == <<begin>> \o report
             b == <<rc, end>>
  <2>1. /\ a \in Seq(LogLine) /\ Len(a) = 1 + Len(report) /\ a[1] = begin
        /\ \A k \in 1..Len(report) : a[k + 1] = report[k]
    BY <1>1, <1>2
  <2>2. b \in Seq(LogLine) /\ Len(b) = 2 /\ b[1] = rc /\ b[2] = end
    BY <1>1
  <2>3. Len(report) \in Nat /\ \A k \in 1..Len(report) : k + 1 \in 1..Len(a)
    BY <1>2, <2>1
  <2> HIDE DEF a, b
  <2> QED BY <1>3, <2>1, <2>2, <2>3 DEF a, b
<1>5. ASSUME NEW k \in 2..Len(frame)
      PROVE  frame[k].kind # "begin" /\ (frame[k].kind = "rc" => frame[k].image = i)
  <2>1. k = Len(report) + 2 \/ k = Len(report) + 3 \/ (k - 1 \in 1..Len(report) /\ k = (k - 1) + 1)
    BY <1>4
  <2> QED BY <1>1, <1>2, <1>4, <2>1
<1>6. o = "long" => \E k \in 1..Len(frame) : frame[k].long
  <2>1. \A k \in 1..Len(report) : k + 1 \in 1..Len(frame)
    BY <1>4
  <2> QED BY <1>2, <1>4, <2>1
<1> QED BY <1>4, <1>5, <1>6 DEF frame, begin

-----------------------------------------------------------------------------
(* The parser and the frames                                               *)

\* A frame that is whole leaves its report and its exit code.
LEMMA WholeFrame ==
    ASSUME NEW x \in Parsed, x.current = None, NEW i \in Image, NEW o \in Outcome
    PROVE  LET y == Parse(x, Frame(i, o))
           IN  /\ y.current = None
               /\ y.chunks[i] = x.chunks[i] \o Report(i, o) /\ y.rc[i] = ExitCode(o)
               /\ \A j \in Image \ {i} : y.chunks[j] = x.chunks[j] /\ y.rc[j] = x.rc[j]
<1> DEFINE begin == Line("begin", i, 0)
           rc == Line("rc", i, ExitCode(o))
           end == Line("end", i, 0)
           report == Report(i, o)
           y1 == [x EXCEPT !.current = i]
           y2 == [y1 EXCEPT !.chunks[i] = @ \o report]
           y3 == [y2 EXCEPT !.rc[i] = ExitCode(o)]
           y4 == [y3 EXCEPT !.current = None]
<1>1. /\ begin \in LogLine /\ begin.kind = "begin" /\ begin.image = i
      /\ rc \in LogLine /\ rc.kind = "rc" /\ rc.image = i /\ rc.value = ExitCode(o)
      /\ end \in LogLine /\ end.kind = "end" /\ end.image = i
  BY MarkerLines
<1>2. /\ report \in Seq(LogLine)
      /\ \A k \in 1..Len(report) : report[k].kind \in {"report", "message"}
  BY ReportLines
<1> HIDE DEF begin, rc, end, report
<1>3. y1 \in Parsed /\ y1.current = i /\ y2 \in Parsed /\ y3 \in Parsed /\ y3.current = i
      /\ y4 \in Parsed
  <2>1. y1 \in Parsed /\ y1.current = i
    BY DEF Parsed
  <2>2. y1.chunks[i] \o report \in Seq(LogLine)
    BY <1>2, <2>1 DEF Parsed
  <2>3. y2 \in Parsed /\ y2.current = i
    BY <2>1, <2>2 DEF Parsed
  <2>4. ExitCode(o) \in 0..2
    BY DEF ExitCode
  <2> HIDE DEF y2
  <2>5. y3 \in Parsed /\ y3.current = i
    BY <2>3, <2>4 DEF Parsed
  <2> HIDE DEF y3
  <2>6. y4 \in Parsed
    BY <2>5 DEF Parsed
  <2> QED BY <2>1, <2>3, <2>5, <2>6
<1> HIDE DEF y1, y2, y3, y4
<1>4. Parse(x, <<begin>>) = y1
  BY <1>1, ParseOne DEF ParseLine, y1
<1>5. Parse(y1, report) = y2
  <2>1. Parse(y1, report) = WithChunk(y1, i, y1.chunks[i] \o report)
    BY <1>2, <1>3, Collected
  <2> QED BY <2>1 DEF y2, WithChunk
<1>6. Parse(y2, <<rc>>) = y3
  <2>1. Parse(y2, <<rc>>) = ParseLine(y2, rc)
    BY <1>1, <1>3, ParseOne
  <2>2. ParseLine(y2, rc) = [y2 EXCEPT !.rc[i] = ExitCode(o)]
    BY <1>1 DEF ParseLine
  <2> QED BY <2>1, <2>2 DEF y3
<1>7. Parse(y3, <<end>>) = y4
  <2>1. Parse(y3, <<end>>) = ParseLine(y3, end)
    BY <1>1, <1>3, ParseOne
  <2>2. ParseLine(y3, end) = [y3 EXCEPT !.current = None]
    BY <1>1, <1>3 DEF ParseLine
  <2> QED BY <2>1, <2>2 DEF y4
<1>8. Parse(x, Frame(i, o)) = y4
  <2>1. Frame(i, o) = ((<<begin>> \o report) \o <<rc>>) \o <<end>>
    <3>1. Frame(i, o) = (<<begin>> \o report) \o <<rc, end>>
      BY DEF Frame, begin, rc, end, report
    <3>2. \A a \in Seq(LogLine) : a \o <<rc, end>> = (a \o <<rc>>) \o <<end>>
      BY <1>1, TwoLines
    <3>3. <<begin>> \o report \in Seq(LogLine)
      BY <1>1, <1>2
    <3> QED BY <3>1, <3>2, <3>3
  <2>2. /\ <<begin>> \in Seq(LogLine) /\ <<rc>> \in Seq(LogLine) /\ <<end>> \in Seq(LogLine)
        /\ <<begin>> \o report \in Seq(LogLine)
        /\ (<<begin>> \o report) \o <<rc>> \in Seq(LogLine)
    BY <1>1, <1>2
  <2>3. Parse(x, <<begin>> \o report) = y2
    BY <1>2, <1>4, <1>5, <2>2, ParseConcat
  <2>4. Parse(x, (<<begin>> \o report) \o <<rc>>) = y3
    BY <1>6, <2>2, <2>3, ParseConcat
  <2> DEFINE q == (<<begin>> \o report) \o <<rc>>
  <2>5. q \in Seq(LogLine) /\ Parse(x, q) = y3 /\ Frame(i, o) = q \o <<end>>
    BY <2>1, <2>2, <2>4
  <2> HIDE DEF q
  <2>6. Parse(x, q \o <<end>>) = Parse(Parse(x, q), <<end>>)
    BY <2>2, <2>5, ParseConcat
  <2> QED BY <1>7, <2>5, <2>6
<1>9. /\ y4.current = None
      /\ y4.chunks[i] = x.chunks[i] \o report /\ y4.rc[i] = ExitCode(o)
      /\ \A j \in Image \ {i} : y4.chunks[j] = x.chunks[j] /\ y4.rc[j] = x.rc[j]
  BY DEF Parsed, y1, y2, y3, y4
<1> QED BY <1>8, <1>9 DEF report

\* A frame without its begin marker leaves nothing, and changes nothing of another image.
LEMMA TornFrame ==
    ASSUME NEW x \in Parsed, x.current = None, NEW i \in Image, NEW o \in Outcome,
           NEW d \in Nat \ {0}
    PROVE  LET y == Parse(x, Kept(Frame(i, o), d))
           IN  /\ y.current = None /\ y.chunks = x.chunks
               /\ \A j \in Image \ {i} : y.rc[j] = x.rc[j]
<1> DEFINE frame == Frame(i, o)
           q == Kept(frame, d)
<1>1. /\ frame \in Seq(LogLine)
      /\ \A k \in 2..Len(frame) :
           frame[k].kind # "begin" /\ (frame[k].kind = "rc" => frame[k].image = i)
  BY FrameLines
<1> HIDE DEF frame
<1>2. /\ q \in Seq(LogLine)
      /\ \A k \in 1..Len(q) : d + k \in 1..Len(frame) /\ q[k] = frame[d + k]
  BY <1>1, KeptLines
<1> HIDE DEF q
<1>3. \A k \in 1..Len(q) : q[k].kind # "begin" /\ (q[k].kind = "rc" => q[k].image = i)
  <2> SUFFICES ASSUME NEW k \in 1..Len(q)
               PROVE  q[k].kind # "begin" /\ (q[k].kind = "rc" => q[k].image = i)
    OBVIOUS
  <2>1. d + k \in 2..Len(frame)
    BY <1>1, <1>2
  <2> QED BY <1>1, <1>2, <2>1
<1>4. LET y == Parse(x, q)
      IN  /\ y.current = None /\ y.chunks = x.chunks
          /\ \A j \in Image : (\A k \in 1..Len(q) : q[k].kind = "rc" => q[k].image # j)
                               => y.rc[j] = x.rc[j]
  BY <1>2, <1>3, Unframed
<1> QED BY <1>3, <1>4 DEF q, frame

\* The log has a frame from its begin marker on, or not.
LEMMA FrameBegins ==
    ASSUME NEW i \in Image, NEW o \in Outcome, NEW d \in Nat
    PROVE  LET q == Kept(Frame(i, o), d)
           IN  /\ q \in Seq(LogLine)
               /\ \A j \in Image : Contains(q, Line("begin", j, 0)) <=> j = i /\ d = 0
               /\ d = 0 => q = Frame(i, o)
<1> DEFINE frame == Frame(i, o)
           q == Kept(frame, d)
<1>1. /\ frame \in Seq(LogLine) /\ Len(frame) > 0 /\ frame[1] = Line("begin", i, 0)
      /\ \A k \in 2..Len(frame) : frame[k].kind # "begin"
  BY FrameLines
<1> HIDE DEF frame
<1>2. /\ q \in Seq(LogLine)
      /\ \A k \in 1..Len(q) : d + k \in 1..Len(frame) /\ q[k] = frame[d + k]
  BY <1>1, KeptLines
<1>3. d = 0 => q = frame
  BY <1>1, KeptAll
<1> HIDE DEF q
<1>4. \A j : Line("begin", j, 0).kind = "begin" /\ Line("begin", j, 0).image = j
  BY DEF Line
<1>5. ASSUME NEW j \in Image, Contains(q, Line("begin", j, 0)) PROVE j = i /\ d = 0
  <2>1. PICK k \in 1..Len(q) : q[k] = Line("begin", j, 0)
    BY <1>5 DEF Contains
  <2>2. q[k].kind = "begin" /\ q[k].image = j
    BY <1>4, <2>1
  <2>3. d + k \in 1..Len(frame) /\ q[k] = frame[d + k]
    BY <1>2
  <2>4. d + k = 1
    BY <1>1, <2>2, <2>3
  <2>5. d = 0
    BY <2>4
  <2> QED BY <1>1, <1>4, <2>2, <2>3, <2>4, <2>5
<1>6. d = 0 => Contains(q, Line("begin", i, 0))
  BY <1>1, <1>3 DEF Contains
<1> QED BY <1>2, <1>3, <1>5, <1>6 DEF q, frame

-----------------------------------------------------------------------------
(* All frames                                                              *)

\* FlattenSeq joins the pieces one after the other.
LEMMA Flattened ==
    ASSUME NEW B, NEW seqs \in Seq(Seq(B)), Len(seqs) > 0
    PROVE  \E f : /\ \A i \in 1..Len(seqs) : f[i] \in Seq(B)
                  /\ f[1] = seqs[1]
                  /\ \A i \in 2..Len(seqs) : f[i] = f[i - 1] \o seqs[i]
                  /\ FlattenSeq(seqs) = f[Len(seqs)]
<1> DEFINE n == Len(seqs)
           Upto(f, m) == /\ f \in [1..m -> Seq(B)]
                         /\ \A i \in 1..m : f[i] = IF i = 1 THEN seqs[i] ELSE f[i - 1] \o seqs[i]
           Good == {m \in Nat : m <= n => \E f : Upto(f, m)}
           Eq(f) == f = [i \in 1..n |-> IF i = 1 THEN seqs[i] ELSE f[i - 1] \o seqs[i]]
           flatten == CHOOSE f : Eq(f)
<1>1. n \in Nat \ {0} /\ \A i \in 1..n : seqs[i] \in Seq(B)
  OBVIOUS
<1> HIDE DEF n
<1>2. 0 \in Good
  <2> DEFINE f == [i \in 1..0 |-> <<>>]
  <2>1. Upto(f, 0)
    OBVIOUS
  <2> QED BY <2>1
<1>3. ASSUME NEW m \in Nat, m \in Good PROVE m + 1 \in Good
  <2> SUFFICES ASSUME m + 1 <= n PROVE \E f : Upto(f, m + 1)
    <3> HIDE DEF Upto
    <3> QED OBVIOUS
  <2>1. PICK f : Upto(f, m)
    <3> HIDE DEF Upto
    <3>1. m <= n
      BY <1>1
    <3> QED BY <1>3, <3>1
  <2> DEFINE g == [i \in 1..(m + 1) |->
                     IF i = m + 1 THEN (IF i = 1 THEN seqs[i] ELSE f[m] \o seqs[i]) ELSE f[i]]
  <2>2. seqs[m + 1] \in Seq(B)
    BY <1>1
  <2>3. m # 0 => f[m] \in Seq(B)
    BY <2>1
  <2>4. ASSUME NEW i \in 1..(m + 1)
        PROVE  /\ g[i] \in Seq(B)
               /\ g[i] = IF i = 1 THEN seqs[i] ELSE g[i - 1] \o seqs[i]
    <3>1. CASE i = m + 1
      <4>1. i # 1 => f[m] \o seqs[i] \in Seq(B) /\ g[i - 1] = f[m]
        BY <2>2, <2>3, <3>1
      <4> QED BY <2>2, <3>1, <4>1
    <3>2. CASE i # m + 1
      <4>1. i \in 1..m /\ g[i] = f[i] /\ (i # 1 => g[i - 1] = f[i - 1])
        BY <3>2
      <4> QED BY <2>1, <4>1
    <3> QED BY <3>1, <3>2
  <2>5. Upto(g, m + 1)
    <3>1. DOMAIN g = 1..(m + 1) /\ g = [i \in 1..(m + 1) |-> g[i]]
      OBVIOUS
    <3> HIDE DEF g
    <3> QED BY <2>4, <3>1
  <2> HIDE DEF Upto
  <2> QED BY <2>5
<1>4. PICK f : Upto(f, n)
  <2>1. Nat \subseteq Good
    <3> HIDE DEF Good
    <3> QED BY <1>2, <1>3, Induction
  <2> HIDE DEF Upto
  <2> QED BY <1>1, <2>1
<1>5. Eq(f)
  BY <1>4
<1>6. Eq(flatten)
  <2> HIDE DEF Eq
  <2> QED BY <1>5
<1>7. FlattenSeq(seqs) = flatten[n]
  BY <1>1, Zenon DEF FlattenSeq, n
<1>8. flatten = [i \in 1..n |-> IF i = 1 THEN seqs[i] ELSE flatten[i - 1] \o seqs[i]]
  <2> HIDE DEF flatten
  <2> QED BY <1>6
<1> HIDE DEF flatten
<1>9. flatten[1] = seqs[1] /\ \A i \in 2..n : flatten[i] = flatten[i - 1] \o seqs[i]
  <2>1. 1 \in 1..n
    BY <1>1
  <2>2. ASSUME NEW i \in 2..n PROVE i \in 1..n /\ i # 1
    BY <1>1
  <2>3. \A i \in 1..n : flatten[i] = IF i = 1 THEN seqs[i] ELSE flatten[i - 1] \o seqs[i]
    BY <1>8
  <2> QED BY <2>1, <2>2, <2>3
<1>10. \A i \in 1..n : flatten[i] \in Seq(B)
  <2> DEFINE T == {i \in Nat : i + 1 <= n => flatten[i + 1] \in Seq(B)}
  <2>1. 0 \in T
    BY <1>1, <1>9
  <2>2. ASSUME NEW i \in Nat, i \in T PROVE i + 1 \in T
    <3> SUFFICES ASSUME i + 2 <= n PROVE flatten[i + 2] \in Seq(B)
      BY <1>1
    <3>1. flatten[i + 1] \in Seq(B)
      BY <1>1, <2>2
    <3>2. flatten[i + 2] = flatten[i + 1] \o seqs[i + 2]
      <4>1. i + 2 \in 2..n /\ (i + 2) - 1 = i + 1
        BY <1>1
      <4> QED BY <1>9, <4>1
    <3>3. seqs[i + 2] \in Seq(B)
      BY <1>1
    <3> QED BY <3>1, <3>2, <3>3
  <2>3. Nat \subseteq T
    <3> HIDE DEF T
    <3> QED BY <2>1, <2>2, Induction
  <2>4. ASSUME NEW i \in 1..n PROVE flatten[i] \in Seq(B)
    <3>1. i - 1 \in Nat /\ (i - 1) + 1 = i /\ i <= n
      BY <1>1
    <3>2. i - 1 \in T
      BY <2>3, <3>1
    <3> QED BY <3>1, <3>2
  <2> QED BY <2>4
<1> QED BY <1>7, <1>9, <1>10 DEF n

Begin(j) == Line("begin", j, 0)
HasLong(q) == \E k \in 1..Len(q) : q[k].long

\* What is known after a part of the log that has been cut off between frames, of which those of
\* the images of S have been printed.
Known(q, S, of) ==
    LET y == Parse(Unparsed, q)
    IN  /\ q \in Seq(LogLine) /\ y.current = None
        /\ \A j \in Image :
             /\ Contains(q, Begin(j)) =>
                  /\ j \in S
                  /\ y.chunks[j] = Report(j, of[j]) /\ y.rc[j] = ExitCode(of[j])
                  /\ of[j] = "long" => HasLong(q)
             /\ ~Contains(q, Begin(j)) => y.chunks[j] = <<>>

LEMMA UnparsedType == Unparsed \in Parsed /\ Unparsed.current = None
                      /\ \A j \in Image : Unparsed.chunks[j] = <<>>
<1>1. <<>> \in Seq(LogLine)
  OBVIOUS
<1> QED BY <1>1 DEF Unparsed, Parsed

\* The messages of the download say nothing of an image.
LEMMA DownloadKnown ==
    ASSUME NEW output, NEW of, NEW d \in Nat
    PROVE  /\ Download(output) \in Seq(LogLine)
           /\ Known(Kept(Download(output), d), {}, of)
<1> DEFINE a == Download(output)
           q == Kept(a, d)
<1>1. a \in Seq(LogLine) /\ \A k \in 1..Len(a) : a[k].kind = "message"
  <2>1. Line("message", None, 0) \in LogLine /\ Line("message", None, 0).kind = "message"
    BY DEF Line, LogLine
  <2> DEFINE m == Line("message", None, 0)
  <2>2. a = <<m>> \/ a = <<>>
    BY DEF Download
  <2>3. m \in LogLine /\ m.kind = "message"
    BY <2>1
  <2> HIDE DEF m, a
  <2>4. CASE a = <<m>>
    BY <2>3, <2>4
  <2>5. CASE a = <<>>
    BY <2>5
  <2> QED BY <2>2, <2>4, <2>5
<1> HIDE DEF a
<1>2. /\ q \in Seq(LogLine)
      /\ \A k \in 1..Len(q) : d + k \in 1..Len(a) /\ q[k] = a[d + k]
  BY <1>1, KeptLines
<1> HIDE DEF q
<1>3. \A k \in 1..Len(q) : q[k].kind = "message"
  BY <1>1, <1>2
<1>4. Parse(Unparsed, q).current = None /\ Parse(Unparsed, q).chunks = Unparsed.chunks
  BY <1>2, <1>3, UnparsedType, Unframed
<1>5. ASSUME NEW j \in Image PROVE ~Contains(q, Begin(j))
  BY <1>3 DEF Contains, Begin, Line
<1> QED BY <1>1, <1>2, <1>4, <1>5, UnparsedType DEF Known, q, a

\* One frame more.
LEMMA FrameAdded ==
    ASSUME NEW q, NEW S, NEW of \in [Image -> Outcome], Known(q, S, of),
           NEW i \in Image \ S, NEW d \in Nat
    PROVE  Known(q \o Kept(Frame(i, of[i]), d), S \cup {i}, of)
<1> DEFINE frame == Frame(i, of[i])
           r == Kept(frame, d)
           x == Parse(Unparsed, q)
           y == Parse(x, r)
           s == q \o r
           report == Report(i, of[i])
<1>1. /\ q \in Seq(LogLine) /\ x.current = None /\ x \in Parsed /\ of[i] \in Outcome
      /\ \A j \in Image :
           /\ Contains(q, Begin(j)) =>
                /\ j \in S
                /\ x.chunks[j] = Report(j, of[j]) /\ x.rc[j] = ExitCode(of[j])
                /\ of[j] = "long" => HasLong(q)
           /\ ~Contains(q, Begin(j)) => x.chunks[j] = <<>>
  BY UnparsedType, ParseType DEF Known
<1>2. /\ r \in Seq(LogLine)
      /\ \A j \in Image : Contains(r, Begin(j)) <=> j = i /\ d = 0
      /\ d = 0 => r = frame
  BY <1>1, FrameBegins DEF Begin
<1>3. d = 0 =>
        /\ y.current = None
        /\ y.chunks[i] = x.chunks[i] \o report /\ y.rc[i] = ExitCode(of[i])
        /\ \A j \in Image \ {i} : y.chunks[j] = x.chunks[j] /\ y.rc[j] = x.rc[j]
        /\ of[i] = "long" => HasLong(r)
  <2> SUFFICES ASSUME d = 0
               PROVE  /\ y.current = None
                      /\ y.chunks[i] = x.chunks[i] \o report /\ y.rc[i] = ExitCode(of[i])
                      /\ \A j \in Image \ {i} : y.chunks[j] = x.chunks[j] /\ y.rc[j] = x.rc[j]
                      /\ of[i] = "long" => HasLong(r)
    OBVIOUS
  <2>1. LET z == Parse(x, frame)
        IN  /\ z.current = None
            /\ z.chunks[i] = x.chunks[i] \o report /\ z.rc[i] = ExitCode(of[i])
            /\ \A j \in Image \ {i} : z.chunks[j] = x.chunks[j] /\ z.rc[j] = x.rc[j]
    <3> HIDE DEF x
    <3> QED BY <1>1, WholeFrame
  <2>2. of[i] = "long" => \E k \in 1..Len(frame) : frame[k].long
    BY <1>1, FrameLines
  <2>3. r = frame
    BY <1>2
  <2> HIDE DEF frame, r, x
  <2> QED BY <2>1, <2>2, <2>3 DEF HasLong
<1>4. d # 0 => /\ y.current = None /\ y.chunks = x.chunks
               /\ \A j \in Image \ {i} : y.rc[j] = x.rc[j]
  <2> HIDE DEF x
  <2> QED BY <1>1, TornFrame
<1>5. Parse(Unparsed, s) = y
  BY <1>1, <1>2, UnparsedType, ParseConcat
<1>6. s \in Seq(LogLine) /\ (HasLong(q) \/ HasLong(r) => HasLong(s))
  <2> HIDE DEF r
  <2>1. /\ s \in Seq(LogLine) /\ Len(s) = Len(q) + Len(r) /\ Len(q) \in Nat /\ Len(r) \in Nat
        /\ \A k \in 1..Len(q) : s[k] = q[k]
        /\ \A k \in 1..Len(r) : s[Len(q) + k] = r[k]
    BY <1>1, <1>2
  <2>2. (\A k \in 1..Len(q) : k \in 1..Len(s)) /\ (\A k \in 1..Len(r) : Len(q) + k \in 1..Len(s))
    BY <2>1
  <2> HIDE DEF s
  <2> QED BY <2>1, <2>2 DEF HasLong
<1>7. \A j \in Image : Contains(s, Begin(j)) <=> Contains(q, Begin(j)) \/ (j = i /\ d = 0)
  <2> HIDE DEF r
  <2>1. \A j \in Image : Contains(s, Begin(j)) <=> Contains(q, Begin(j)) \/ Contains(r, Begin(j))
    BY <1>1, <1>2, ContainsConcat
  <2> QED BY <1>2, <2>1
<1>8. ~Contains(q, Begin(i)) /\ x.chunks[i] = <<>>
  BY <1>1
<1>9. report \in Seq(LogLine) /\ <<>> \o report = report
  <2>1. report \in Seq(LogLine)
    BY <1>1, ReportLines
  <2> HIDE DEF report
  <2> QED BY <2>1
<1> HIDE DEF x, y, r, s, frame
<1>10. y.current = None
  BY <1>3, <1>4
<1>11. ASSUME NEW j \in Image
       PROVE  /\ Contains(s, Begin(j)) =>
                   /\ j \in S \cup {i}
                   /\ y.chunks[j] = Report(j, of[j]) /\ y.rc[j] = ExitCode(of[j])
                   /\ of[j] = "long" => HasLong(s)
              /\ ~Contains(s, Begin(j)) => y.chunks[j] = <<>>
  <2>1. CASE j # i
    <3>1. y.chunks[j] = x.chunks[j] /\ y.rc[j] = x.rc[j]
      BY <1>3, <1>4, <2>1
    <3>2. Contains(s, Begin(j)) <=> Contains(q, Begin(j))
      BY <1>7, <2>1
    <3> QED BY <1>1, <1>6, <3>1, <3>2
  <2>2. CASE j = i /\ d = 0
    <3>1. y.chunks[i] = report /\ y.rc[i] = ExitCode(of[i])
      BY <1>3, <1>8, <1>9, <2>2
    <3>2. of[i] = "long" => HasLong(s)
      BY <1>3, <1>6, <2>2
    <3> QED BY <1>7, <2>2, <3>1, <3>2
  <2>3. CASE j = i /\ d # 0
    <3>1. y.chunks[i] = <<>>
      BY <1>4, <1>8, <2>3
    <3> QED BY <1>7, <1>8, <2>3, <3>1
  <2> QED BY <2>1, <2>2, <2>3
<1> QED BY <1>5, <1>6, <1>10, <1>11 DEF Known, s, r, frame

LEMMA BatchKnown ==
    ASSUME NEW images \in Seq(Image), Len(images) > 1,
           \A k, m \in DOMAIN images : images[k] = images[m] => k = m,
           NEW output, output.of \in [Image -> Outcome], output.dropped \in Nat
    PROVE  Known(PodLog(images, output), {images[k] : k \in DOMAIN images}, output.of)
<1> DEFINE n == Len(images)
           of == output.of
           d == output.dropped
           seqs == [k \in DOMAIN images |-> Frame(images[k], of[images[k]])]
           D == Download(output)
           S(k) == {images[m] : m \in 1..k}
<1>1. n \in Nat /\ n > 1 /\ DOMAIN images = 1..n /\ \A k \in 1..n : images[k] \in Image
  OBVIOUS
<1>2. \A k \in 1..n : Frame(images[k], of[images[k]]) \in Seq(LogLine)
  BY <1>1, FrameLines
<1>3. /\ seqs \in Seq(Seq(LogLine)) /\ Len(seqs) = n
      /\ \A k \in 1..n : seqs[k] = Frame(images[k], of[images[k]])
  BY <1>1, <1>2
<1> HIDE DEF seqs
<1>4. PICK f : /\ \A i \in 1..Len(seqs) : f[i] \in Seq(LogLine)
               /\ f[1] = seqs[1]
               /\ \A i \in 2..Len(seqs) : f[i] = f[i - 1] \o seqs[i]
               /\ FlattenSeq(seqs) = f[Len(seqs)]
  <2>1. Len(seqs) > 0
    BY <1>1, <1>3
  <2> QED BY <1>3, <2>1, Flattened
<1>5. PodLog(images, output) = Kept(D \o f[n], d)
  BY <1>1, <1>3, <1>4 DEF PodLog, Printed, seqs
<1>6. D \in Seq(LogLine) /\ Known(Kept(D, d), {}, of)
  BY DownloadKnown
<1> HIDE DEF D, n, of, d
<1> DEFINE Good(k) == Known(Kept(D \o f[k], d), S(k), of)
           T == {k \in Nat : k + 1 <= n => Good(k + 1)}
<1>7. ASSUME NEW a \in Seq(LogLine), NEW k \in 1..n, Known(Kept(a, d), S(k - 1), of)
      PROVE  Known(Kept(a \o seqs[k], d), S(k), of)
  <2> DEFINE i == images[k]
  <2>1. seqs[k] = Frame(i, of[i]) /\ seqs[k] \in Seq(LogLine)
    BY <1>2, <1>3
  <2>2. i \in Image \ S(k - 1) /\ S(k) = S(k - 1) \cup {i}
    <3>1. 1..k = (1..(k - 1)) \cup {k} /\ k \notin 1..(k - 1) /\ 1..(k - 1) \subseteq 1..n
      BY <1>1
    <3> QED BY <1>1, <3>1
  <2>3. PICK e \in Nat : /\ Kept(a \o seqs[k], d) = Kept(a, d) \o Kept(seqs[k], e)
                         /\ e = IF d <= Len(a) THEN 0 ELSE d - Len(a)
    <3>1. d \in Nat
      BY DEF d
    <3> QED BY <2>1, <3>1, KeptConcat
  <2>4. of \in [Image -> Outcome]
    BY DEF of
  <2> HIDE DEF S, i
  <2>5. Known(Kept(a, d) \o Kept(Frame(i, of[i]), e), S(k - 1) \cup {i}, of)
    BY <1>7, <2>2, <2>4, FrameAdded
  <2> QED BY <2>1, <2>2, <2>3, <2>5
<1>8. 0 \in T
  <2>1. S(0) = {} /\ 1 \in 1..n /\ 1 - 1 = 0 /\ f[1] = seqs[1]
    BY <1>1, <1>4
  <2> HIDE DEF S
  <2>2. Known(Kept(D, d), S(1 - 1), of)
    BY <1>6, <2>1
  <2>3. Known(Kept(D \o seqs[1], d), S(1), of)
    BY <1>6, <1>7, <2>1, <2>2
  <2> QED BY <2>1, <2>3
<1>9. ASSUME NEW k \in Nat, k \in T PROVE k + 1 \in T
  <2> SUFFICES ASSUME (k + 1) + 1 <= n PROVE Good((k + 1) + 1)
    OBVIOUS
  <2> DEFINE m == k + 1
  <2>1. Good(m) /\ m \in Nat /\ m + 1 \in 2..n /\ m + 1 \in 1..n /\ m \in 1..n /\ (m + 1) - 1 = m
    BY <1>1, <1>9
  <2> HIDE DEF m, S
  <2>2. f[m + 1] = f[m] \o seqs[m + 1] /\ f[m] \in Seq(LogLine) /\ seqs[m + 1] \in Seq(LogLine)
    BY <1>2, <1>3, <1>4, <2>1
  <2>3. D \o f[m + 1] = (D \o f[m]) \o seqs[m + 1] /\ D \o f[m] \in Seq(LogLine)
    <3>0. \A a, b, c \in Seq(LogLine) : (a \o b) \o c = a \o (b \o c)
      BY ConcatAssociative, SMTT(30)
    <3>1. (D \o f[m]) \o seqs[m + 1] = D \o (f[m] \o seqs[m + 1])
      BY <1>6, <2>2, <3>0
    <3>2. D \o f[m] \in Seq(LogLine)
      BY <1>6, <2>2
    <3> QED BY <2>2, <3>1, <3>2
  <2>4. Known(Kept((D \o f[m]) \o seqs[m + 1], d), S(m + 1), of)
    BY <1>7, <2>1, <2>3
  <2>5. Good(m + 1)
    BY <2>3, <2>4
  <2> QED BY <2>5 DEF m
<1>10. Good(n)
  <2>1. Nat \subseteq T
    <3> HIDE DEF T
    <3> QED BY <1>8, <1>9, Induction
  <2>2. n - 1 \in Nat /\ (n - 1) + 1 = n
    BY <1>1
  <2>3. n - 1 \in T
    BY <2>1, <2>2
  <2> HIDE DEF S
  <2> QED BY <1>1, <2>2, <2>3
<1> QED BY <1>1, <1>5, <1>10 DEF n, of, d

-----------------------------------------------------------------------------
(* The findings                                                            *)

LEMMA TrivyOfReport ==
    ASSUME NEW i \in Image, NEW o \in Outcome
    PROVE  trivyCVEsFromJSON(Report(i, o)) = IF o \in {"ok", "long"} THEN i ELSE None
<1> DEFINE first == Line("report", i, 1)
           last == Line("report", i, 2)
           message == Line("message", i, 0)
           long == [last EXCEPT !.long = TRUE]
<1>1. /\ first.kind = "report" /\ first.value = 1 /\ first.image = i
      /\ last.kind = "report" /\ last.value = 2 /\ last.image = i
      /\ long.kind = "report" /\ long.value = 2 /\ long.image = i
  BY DEF Line
<1>2. Report(i, o) = CASE o = "ok" -> <<first, last>>
                       [] o = "mixed" -> <<first, message, last>>
                       [] o = "long" -> <<first, long>>
                       [] o = "failed" -> <<message>>
                       [] o = "silent" -> <<>>
  BY DEF Report
<1> HIDE DEF first, last, message, long
<1>3. o \in {"ok", "mixed", "long", "failed", "silent"}
  BY DEF Outcome
<1>4. CASE o = "ok"
  <2>1. Report(i, o) = <<first, last>>
    BY <1>2, <1>4
  <2> QED BY <1>1, <1>4, <2>1 DEF trivyCVEsFromJSON
<1>5. CASE o = "long"
  <2>1. Report(i, o) = <<first, long>>
    BY <1>2, <1>5
  <2> QED BY <1>1, <1>5, <2>1 DEF trivyCVEsFromJSON
<1>6. CASE o \in {"mixed", "failed", "silent"}
  <2>1. Len(Report(i, o)) # 2
    BY <1>2, <1>6
  <2> QED BY <1>6, <2>1 DEF trivyCVEsFromJSON
<1> QED BY <1>3, <1>4, <1>5, <1>6

\* A batch of several images: the findings of one are reported when its own frame is whole, and
\* nothing else is reported for it.
LEMMA BatchFindings ==
    ASSUME NEW request, request.images \in Seq(Image), request.batch, Len(request.images) > 1,
           \A k, m \in DOMAIN request.images : request.images[k] = request.images[m] => k = m,
           NEW output, output.of \in [Image -> Outcome], output.dropped \in Nat, NEW i \in Image
    PROVE  LET log == PodLog(request.images, output)
           IN  Findings(request, output)[i] =
                 IF /\ i \in imagesOf(request) /\ output.of[i] = "ok"
                    /\ Contains(log, Line("begin", i, 0))
                    /\ \A k \in DOMAIN log : ~log[k].long
                 THEN i ELSE None
<1> DEFINE images == request.images
           of == output.of
           log == PodLog(images, output)
           y == Parse(Unparsed, log)
<1>1. Known(log, imagesOf(request), of)
  BY BatchKnown DEF imagesOf
<1>2. /\ log \in Seq(LogLine)
      /\ Contains(log, Begin(i)) =>
           /\ i \in imagesOf(request)
           /\ y.chunks[i] = Report(i, of[i]) /\ y.rc[i] = ExitCode(of[i])
           /\ of[i] = "long" => HasLong(log)
      /\ ~Contains(log, Begin(i)) => y.chunks[i] = <<>>
  BY <1>1 DEF Known
<1>3. Contains(images, i) <=> i \in imagesOf(request)
  BY DEF Contains, imagesOf
<1> HIDE DEF log
<1>4. Findings(request, output) = listCVEsForImagesInCluster(images, log)
  BY DEF Findings, log
<1>5. HasLong(log) <=> \E k \in DOMAIN log : log[k].long
  BY <1>2 DEF HasLong
<1>6. of[i] \in Outcome
  OBVIOUS
<1>7. CASE HasLong(log)
  <2>1. Findings(request, output)[i] = None
    BY <1>4, <1>5, <1>7 DEF listCVEsForImagesInCluster
  <2> QED BY <1>5, <1>7, <2>1 DEF log
<1>8. CASE ~HasLong(log)
  <2>1. Findings(request, output)[i] = IF i \in imagesOf(request) THEN ResultOf(y, i) ELSE None
    <3>1. Findings(request, output)[i] = IF Contains(images, i) THEN ResultOf(y, i) ELSE None
      BY <1>4, <1>5, <1>8 DEF listCVEsForImagesInCluster, Parse
    <3> QED BY <1>3, <3>1
  <2> HIDE DEF y, of
  <2>2. CASE Contains(log, Begin(i)) /\ i \in imagesOf(request)
    <3>1. ResultOf(y, i) = IF ExitCode(of[i]) = 0 THEN trivyCVEsFromJSON(Report(i, of[i])) ELSE None
      BY <1>2, <2>2 DEF ResultOf
    <3>2. ResultOf(y, i) = IF of[i] = "ok" THEN i ELSE None
      <4>1. of[i] # "long"
        BY <1>2, <1>8, <2>2
      <4>2. CASE of[i] = "ok"
        BY <1>6, <3>1, <4>2, TrivyOfReport DEF ExitCode
      <4>3. CASE of[i] \in {"mixed", "failed", "silent"}
        BY <1>6, <3>1, <4>3, TrivyOfReport DEF ExitCode
      <4> QED BY <1>6, <4>1, <4>2, <4>3 DEF Outcome
    <3> QED BY <1>5, <1>8, <2>1, <2>2, <3>2 DEF log, Begin, of
  <2>3. CASE ~Contains(log, Begin(i))
    <3>1. trivyCVEsFromJSON(<<>>) = None
      BY DEF trivyCVEsFromJSON
    <3>2. ResultOf(y, i) = None
      BY <1>2, <2>3, <3>1 DEF ResultOf
    <3> QED BY <2>1, <2>3, <3>2 DEF log, Begin
  <2>4. CASE i \notin imagesOf(request)
    BY <2>1, <2>4
  <2> QED BY <2>2, <2>3, <2>4
<1> QED BY <1>7, <1>8

\* A report is of at most three lines, and of three the second is a message.
LEMMA ShortReport ==
    ASSUME NEW i \in Image, NEW o \in Outcome
    PROVE  /\ Report(i, o) \in Seq(LogLine) /\ Len(Report(i, o)) \in 0..3
           /\ Len(Report(i, o)) = 3 => Report(i, o)[2].kind = "message"
<1> DEFINE first == Line("report", i, 1)
           last == Line("report", i, 2)
           message == Line("message", i, 0)
           long == [last EXCEPT !.long = TRUE]
<1>1. message.kind = "message"
  BY DEF Line
<1>2. Report(i, o) = CASE o = "ok" -> <<first, last>>
                       [] o = "mixed" -> <<first, message, last>>
                       [] o = "long" -> <<first, long>>
                       [] o = "failed" -> <<message>>
                       [] o = "silent" -> <<>>
  BY DEF Report
<1>3. o \in {"ok", "mixed", "long", "failed", "silent"}
  BY DEF Outcome
<1>4. Report(i, o) \in Seq(LogLine)
  BY ReportLines
<1> HIDE DEF first, last, message, long
<1>5. CASE o \in {"ok", "long", "failed", "silent"}
  <2>1. Len(Report(i, o)) \in 0..2
    BY <1>2, <1>5
  <2> QED BY <1>4, <2>1
<1>6. CASE o = "mixed"
  <2>1. Report(i, o) = <<first, message, last>>
    BY <1>2, <1>6
  <2>2. Len(Report(i, o)) = 3 /\ Report(i, o)[2] = message
    BY <2>1
  <2> QED BY <1>1, <1>4, <2>2
<1> QED BY <1>3, <1>5, <1>6

LEMMA DownloadLines ==
    ASSUME NEW output
    PROVE  /\ Download(output) \in Seq(LogLine) /\ Len(Download(output)) \in 0..1
           /\ Len(Download(output)) = 1 => Download(output)[1].kind = "message"
<1> DEFINE m == Line("message", None, 0)
           a == Download(output)
<1>1. m \in LogLine /\ m.kind = "message"
  BY DEF Line, LogLine
<1>2. a = <<m>> \/ a = <<>>
  BY DEF Download
<1> HIDE DEF m, a
<1>3. CASE a = <<m>>
  BY <1>1, <1>3 DEF a
<1>4. CASE a = <<>>
  BY <1>4 DEF a
<1> QED BY <1>2, <1>3, <1>4

\* A scan of one image, whose log has no markers: its findings are reported when the log is the
\* report and nothing else.
LEMMA SingleFindings ==
    ASSUME NEW request, request.images \in Seq(Image), ~request.batch, Len(request.images) = 1,
           NEW output, output.of \in [Image -> Outcome], output.dropped \in Nat, NEW i \in Image
    PROVE  Findings(request, output)[i] =
             IF /\ i \in imagesOf(request) /\ output.of[i] \in {"ok", "long"}
                /\ output.dropped = Len(Download(output))
             THEN i ELSE None
<1> DEFINE images == request.images
           j == images[1]
           o == output.of[j]
           R == Report(j, o)
           D == Download(output)
           d == output.dropped
           log == PodLog(images, output)
<1>1. j \in Image /\ o \in Outcome /\ (i \in imagesOf(request) <=> i = j)
  BY DEF imagesOf
<1>2. log = Kept(D \o R, d)
  BY DEF PodLog, Printed
<1>3. Findings(request, output)[i] = IF i = j THEN trivyCVEsFromJSON(log) ELSE None
  <2>1. Findings(request, output) = [[k \in Image |-> None] EXCEPT ![j] = trivyCVEsFromJSON(log)]
    BY DEF Findings, listCVEsForImageInCluster
  <2> HIDE DEF log, j
  <2> QED BY <2>1
<1>4. R \in Seq(LogLine) /\ Len(R) \in 0..3 /\ (Len(R) = 3 => R[2].kind = "message")
  BY <1>1, ShortReport
<1>5. D \in Seq(LogLine) /\ Len(D) \in 0..1 /\ (Len(D) = 1 => D[1].kind = "message")
  BY DownloadLines
<1>6. trivyCVEsFromJSON(R) = IF o \in {"ok", "long"} THEN j ELSE None
  BY <1>1, TrivyOfReport
<1>7. d \in Nat
  OBVIOUS
<1> HIDE DEF D, R, d, log
<1>8. /\ D \o R \in Seq(LogLine) /\ Len(D \o R) = Len(D) + Len(R)
      /\ \A k \in 1..Len(D \o R) : (D \o R)[k] = IF k <= Len(D) THEN D[k] ELSE R[k - Len(D)]
  BY <1>4, <1>5, ConcatLines
<1> DEFINE W == D \o R
<1>9. /\ log \in Seq(LogLine) /\ Len(log) = IF d <= Len(W) THEN Len(W) - d ELSE 0
      /\ \A k \in 1..Len(log) : d + k \in 1..Len(W) /\ log[k] = W[d + k]
  BY <1>2, <1>7, <1>8, KeptLines
<1>10. W \in Seq(LogLine) /\ Len(W) = Len(D) + Len(R)
       /\ \A k \in 1..Len(W) : W[k] = IF k <= Len(D) THEN D[k] ELSE R[k - Len(D)]
  BY <1>8
<1> HIDE DEF W
<1>11. trivyCVEsFromJSON(log) = IF o \in {"ok", "long"} /\ d = Len(D) THEN j ELSE None
  <2>1. CASE d = Len(D)
    <3>1. Len(log) = Len(R)
      BY <1>4, <1>5, <1>9, <1>10, <2>1
    <3>2. ASSUME NEW k \in 1..Len(R) PROVE log[k] = R[k]
      <4>1. d + k \in 1..Len(W) /\ log[k] = W[d + k] /\ ~(d + k <= Len(D)) /\ (d + k) - Len(D) = k
        BY <1>5, <1>9, <2>1, <3>1
      <4> QED BY <1>10, <4>1
    <3>3. log = R
      BY <1>4, <1>9, <3>1, <3>2, SameLines
    <3> QED BY <1>6, <2>1, <3>3
  <2>2. CASE d # Len(D) /\ Len(log) # 2
    BY <2>2 DEF trivyCVEsFromJSON
  <2>3. CASE d # Len(D) /\ Len(log) = 2
    <3>1. log[1].kind = "message"
      <4> DEFINE m == Len(D)
                 n == Len(R)
                 w == Len(W)
      <4>1. /\ m \in 0..1 /\ n \in 0..3 /\ w = m + n /\ d \in Nat /\ d # m
            /\ 2 = IF d <= w THEN w - d ELSE 0
        BY <1>4, <1>5, <1>7, <1>9, <1>10, <2>3
      <4> HIDE DEF m, n, w
      <4>2. /\ d + 1 \in 1..w
            /\ \/ d = 0 /\ m = 1 /\ d + 1 <= m /\ d + 1 = 1
               \/ n = 3 /\ d = m + 1 /\ ~(d + 1 <= m) /\ (d + 1) - m = 2
        BY <4>1
      <4>3. log[1] = W[d + 1]
        <5>1. 1 \in 1..Len(log)
          BY <2>3
        <5>2. \A k \in 1..Len(log) : log[k] = W[d + k]
          BY <1>9
        <5> QED BY <5>1, <5>2
      <4>4. W[d + 1] = IF d + 1 <= m THEN D[d + 1] ELSE R[(d + 1) - m]
        BY <1>10, <4>2 DEF w, m
      <4>5. CASE d + 1 <= m
        BY <1>5, <4>2, <4>3, <4>4, <4>5 DEF m
      <4>6. CASE ~(d + 1 <= m)
        BY <1>4, <4>2, <4>3, <4>4, <4>6 DEF n
      <4> QED BY <4>5, <4>6
    <3>2. log[1].kind # "report"
      BY <3>1
    <3> QED BY <2>3, <3>2 DEF trivyCVEsFromJSON
  <2> QED BY <2>1, <2>2, <2>3
<1> QED BY <1>1, <1>3, <1>11 DEF D, d
=============================================================================

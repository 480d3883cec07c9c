------------------------ MODULE ArticleStreamProofs -------------------------
(***************************************************************************)
(* Theorems about ArticleStream, for contents and lines of any length, any *)
(* output chunk and any replies.                                           *)
(*                                                                         *)
(* What the decoder yields is the value of recursive functions.  Induction *)
(* over their arguments is stated of sets of numbers (Induction), which    *)
(* follows from the numbers being well-founded.                            *)
(***************************************************************************)
EXTENDS ArticleStream, SequenceTheorems, WellFoundedInduction, TLAPS

(* The types.  Until the article has been read there is a line to read.    *)
Lines == [kind : {"data", "=ybegin", "=ypart", "=yend"}, bytes : Seq(Bytes), size : Int,
          pcrc : Seq(Bytes), crc : Seq(Bytes)]

TypeInv ==
  /\ content \in Seq(Bytes) \ {<<>>} /\ form \in {"single", "part", "bare", "text"}
  /\ MayBePosted(content, form)
  /\ whole \in BOOLEAN
  /\ wire \in Seq(Lines)
  /\ pc \in {"connect", "greeting", "user", "pass", "body", "lines", "close", "ended"}
  /\ outcome \in {"none", "temporary", "failed", "unavailable", "refused", "abandoned", "done"}
  /\ mode \in {"none", "plain", "yenc"} /\ finished \in BOOLEAN /\ expected \in Int
  /\ decoded \in Seq(Bytes) /\ output \in Seq(Bytes) /\ handed \in Seq(Bytes)
  /\ outcome = "none" <=> pc \notin {"close", "ended"}
  /\ pc \notin {"close", "ended"} => wire # <<>> /\ wire[Len(wire)].bytes = <<Dot>>

(* What was decoded is what was yielded and what waits in the output.      *)
HandedInv ==
  /\ mode = "none" => handed = <<>> /\ output = <<>> /\ decoded = <<>> /\ ~finished
  /\ mode = "yenc" => handed \o output = decoded
  /\ finished => mode = "yenc" /\ output = <<>>
  /\ outcome = "done" => output = <<>> /\ (mode = "yenc" => finished)

(* What a line adds to what is yielded, and what the first k lines do.     *)
Yield(line, f) ==
  IF f = "text" THEN line.bytes \o CRLF ELSE IF line.kind = "data" THEN Decoded(line.bytes) ELSE <<>>

Yields(c, f, k) == LET a == Article(c, f) IN FlattenSeq([i \in 1..k |-> Yield(a[i], f)])

(* The decoder after k undamaged lines.                                    *)
CleanState(k) ==
  /\ mode = IF k = 0 THEN "none" ELSE IF form = "text" THEN "plain" ELSE "yenc"
  /\ finished = (form # "text" /\ k = Len(Article(content, form)))
  /\ form # "text" /\ k > 0 => expected = Article(content, form)[1].size
  /\ handed \o output = Yields(content, form, k)

(* An article of which at most the size in its trailer is damaged.         *)
Trailed(n) ==
  LET a == Article(content, form) IN [a EXCEPT ![Len(a)].size = n]

(* What is left to read of b, and how many lines of it have been read.     *)
Read(b) == IF wire = <<>> THEN Len(b) ELSE Len(b) + 1 - Len(wire)

OnWire(b) ==
  /\ Len(wire) <= Len(b) + 1
  /\ \A i \in 1..Len(wire) : wire[i] = Sent(b)[Len(b) + 1 - Len(wire) + i]

CleanInv ==
  LET a == Article(content, form) IN
  \E n \in Int :
    /\ OnWire(Trailed(n))
    /\ whole => n = a[Len(a)].size /\ outcome # "refused"
    /\ Read(a) < Len(a) \/ whole => CleanState(Read(a))
    /\ whole /\ outcome = "done" => Read(a) = Len(a)

(* What the trailers still to come say.                                    *)
CrcInv ==
  \A i \in 1..Len(wire) :
    wire[i].kind = "=yend" => form # "text" /\ Checksum(wire[i]) = IF form = "bare" THEN NoCrc ELSE Crc(content)

SizeInv == \A i \in 1..Len(wire) : wire[i].kind = "=yend" => wire[i].size = Len(content)

FinishedInv ==
  finished => Len(decoded) = Len(content) /\ (form # "bare" => decoded = content)

StreamInv ==
  /\ TypeInv /\ HandedInv /\ CrcInv /\ FinishedInv
  /\ CleanInv \/ (~whole /\ SizeInv)
-----------------------------------------------------------------------------
(* Induction, of sets of numbers.                                          *)

LEMMA LeastNumber ==
  ASSUME NEW T \in SUBSET Nat, T # {}
  PROVE  \E n \in T : \A m \in T : n <= m
<1> DEFINE Less == {p \in Nat \X Nat : p[1] < p[2]}
<1>1. IsWellFoundedOn(Less, Nat)
  BY NatLessThanWellFounded DEF OpToRel
<1>2. PICK n \in T : \A m \in T : ~(<<m, n>> \in Less)
  <2> HIDE DEF Less
  <2> QED BY <1>1, WFMin
<1>3. \A m \in T : ~(m < n)
  <2> TAKE m \in T
  <2>1. <<m, n>> \in Nat \X Nat
    OBVIOUS
  <2>2. <<m, n>> \notin Less
    BY <1>2
  <2>3. QED BY <2>1, <2>2
<1>4. \A m \in T : n <= m
  BY <1>3
<1>5. QED BY <1>4

LEMMA Induction ==
  ASSUME NEW S \in SUBSET Nat, 0 \in S, \A n \in S : n + 1 \in S
  PROVE  S = Nat
<1> SUFFICES ASSUME Nat \ S # {} PROVE FALSE
  OBVIOUS
<1>1. PICK n \in Nat \ S : \A m \in Nat \ S : n <= m
  BY LeastNumber, Nat \ S \in SUBSET Nat
<1>2. n - 1 \in S
  BY <1>1
<1>3. QED BY <1>1, <1>2

-----------------------------------------------------------------------------
(* FlattenSeq.                                                             *)

Flattens(f, q, n) == f = [i \in 1..n |-> IF i = 1 THEN q[i] ELSE f[i-1] \o q[i]]

LEMMA FlattensExists ==
  ASSUME NEW S, NEW q \in Seq(Seq(S)), NEW n \in 0..Len(q)
  PROVE  \E f \in [1..n -> Seq(S)] : Flattens(f, q, n)
<1> DEFINE T == {m \in Nat : m <= Len(q) => \E f \in [1..m -> Seq(S)] : Flattens(f, q, m)}
<1>1. 0 \in T
  <2>1. [i \in 1..0 |-> <<>>] \in [1..0 -> Seq(S)]
    OBVIOUS
  <2>2. Flattens([i \in 1..0 |-> <<>>], q, 0)
    BY DEF Flattens
  <2>3. QED BY <2>1, <2>2
<1>2. ASSUME NEW m \in T PROVE m + 1 \in T
  <2> SUFFICES ASSUME m + 1 <= Len(q)
               PROVE  \E g \in [1..m + 1 -> Seq(S)] : Flattens(g, q, m + 1)
    OBVIOUS
  <2>1. PICK f \in [1..m -> Seq(S)] : Flattens(f, q, m)
    BY LenProperties
  <2> DEFINE last == IF m = 0 THEN q[1] ELSE f[m] \o q[m + 1]
             g == [i \in 1..m + 1 |-> IF i = m + 1 THEN last ELSE f[i]]
  <2>2. q[m + 1] \in Seq(S)
    BY ElementOfSeq, LenProperties
  <2>3. last \in Seq(S)
    BY <2>2, ConcatProperties
  <2>4. g \in [1..m + 1 -> Seq(S)]
    BY <2>3
  <2>5. \A i \in 1..m + 1 : g[i] = IF i = 1 THEN q[i] ELSE g[i-1] \o q[i]
    <3> TAKE i \in 1..m + 1
    <3>1. CASE i = m + 1
      BY <3>1
    <3>2. CASE i # m + 1
      <4>1. i \in 1..m /\ g[i] = f[i] /\ (i # 1 => g[i-1] = f[i-1])
        BY <3>2
      <4>2. f[i] = IF i = 1 THEN q[i] ELSE f[i-1] \o q[i]
        BY <4>1, <2>1 DEF Flattens
      <4>3. QED BY <4>1, <4>2
    <3>3. QED BY <3>1, <3>2
  <2>6. Flattens(g, q, m + 1)
    <3> HIDE DEF last
    <3> QED BY <2>5 DEF Flattens
  <2>7. QED BY <2>4, <2>6
<1>3. T = Nat
  <2> HIDE DEF T
  <2>1. T \in SUBSET Nat
    BY DEF T
  <2>2. QED BY <1>1, <1>2, <2>1, Induction
<1>4. n \in Nat /\ n <= Len(q)
  BY LenProperties
<1>5. QED BY <1>3, <1>4

LEMMA FlattensAt ==
  ASSUME NEW q, NEW f, NEW n, Flattens(f, q, n), NEW i \in 1..n
  PROVE  f[i] = IF i = 1 THEN q[i] ELSE f[i-1] \o q[i]
  BY Zenon DEF Flattens

(* Where two sequences agree, so do their flattenings.                     *)
LEMMA FlattensAgree ==
  ASSUME NEW p, NEW q, NEW f, NEW g, NEW n \in Nat, NEW m \in Nat, Flattens(f, p, n), Flattens(g, q, m),
         NEW k \in Nat, k <= n, k <= m, \A i \in 1..k : p[i] = q[i]
  PROVE  \A i \in 1..k : f[i] = g[i]
<1> DEFINE T == {i \in Nat : i \in 1..k => f[i] = g[i]}
<1>1. 0 \in T
  OBVIOUS
<1>2. ASSUME NEW i \in T PROVE i + 1 \in T
  <2> SUFFICES ASSUME i + 1 \in 1..k PROVE f[i + 1] = g[i + 1]
    OBVIOUS
  <2>1. /\ f[i + 1] = IF i + 1 = 1 THEN p[i + 1] ELSE f[i + 1 - 1] \o p[i + 1]
        /\ g[i + 1] = IF i + 1 = 1 THEN q[i + 1] ELSE g[i + 1 - 1] \o q[i + 1]
    <3>1. i + 1 \in 1..n /\ i + 1 \in 1..m
      OBVIOUS
    <3>2. QED BY <3>1, FlattensAt
  <2>2. i # 0 => i \in 1..k /\ f[i] = g[i]
    OBVIOUS
  <2>3. p[i + 1] = q[i + 1] /\ i + 1 - 1 = i
    OBVIOUS
  <2>4. QED BY <2>1, <2>2, <2>3
<1>3. T = Nat
  <2> HIDE DEF T
  <2>1. T \in SUBSET Nat
    BY DEF T
  <2>2. QED BY <1>1, <1>2, <2>1, Induction
<1>4. QED BY <1>3

LEMMA FlattensSame ==
  ASSUME NEW q, NEW f, NEW g, NEW n \in Nat, Flattens(f, q, n), Flattens(g, q, n)
  PROVE  \A i \in 1..n : f[i] = g[i]
<1>1. n <= n /\ \A i \in 1..n : q[i] = q[i]
  OBVIOUS
<1>2. QED BY <1>1, FlattensAgree

Agree(q, r, n) == \A i \in 1..n : q[i] = r[i]

SameAt(f, g, n) == f[n] = g[n]

LEMMA FlattensPrefix ==
  ASSUME NEW q, NEW r, NEW f, NEW g, NEW n \in Nat, NEW m \in Nat, n # 0, m = n + 1,
         Flattens(f, q, n), Flattens(g, r, m), Agree(q, r, n)
  PROVE  SameAt(f, g, n)
<1>1. n <= n /\ n <= m /\ \A i \in 1..n : q[i] = r[i]
  BY DEF Agree
<1>2. \A i \in 1..n : f[i] = g[i]
  BY <1>1, FlattensAgree
<1>3. QED BY <1>2 DEF SameAt

LEMMA FlattenIs ==
  ASSUME NEW S, NEW q \in Seq(Seq(S)), Len(q) # 0
  PROVE  \E f \in [1..Len(q) -> Seq(S)] : Flattens(f, q, Len(q)) /\ FlattenSeq(q) = f[Len(q)]
<1> DEFINE g == CHOOSE h : h = [i \in 1..Len(q) |-> IF i = 1 THEN q[i] ELSE h[i-1] \o q[i]]
<1>0. Len(q) \in Nat /\ Len(q) \in 0..Len(q)
  BY LenProperties
<1>1. PICK f \in [1..Len(q) -> Seq(S)] : Flattens(f, q, Len(q))
  BY <1>0, FlattensExists
<1>2. Flattens(g, q, Len(q))
  BY <1>1, Zenon DEF Flattens
<1>3. FlattenSeq(q) = g[Len(q)]
  BY Zenon DEF FlattenSeq
<1> HIDE DEF g
<1>4. \A i \in 1..Len(q) : f[i] = g[i]
  <2>1. Flattens(f, q, Len(q)) /\ Len(q) \in Nat
    BY <1>0, <1>1
  <2>2. QED BY ONLY <1>2, <2>1, FlattensSame
<1>5. f[Len(q)] = g[Len(q)]
  BY <1>0, <1>4
<1>6. QED BY <1>1, <1>3, <1>5

LEMMA FlattenType ==
  ASSUME NEW S, NEW q \in Seq(Seq(S))
  PROVE  FlattenSeq(q) \in Seq(S) /\ (Len(q) = 0 => FlattenSeq(q) = <<>>)
<1>1. CASE Len(q) = 0
  BY <1>1, EmptySeq DEF FlattenSeq
<1>2. CASE Len(q) # 0
  <2>1. Len(q) \in 1..Len(q)
    BY <1>2, LenProperties
  <2>2. PICK f \in [1..Len(q) -> Seq(S)] : FlattenSeq(q) = f[Len(q)]
    <3> QED BY ONLY <1>2, FlattenIs, q \in Seq(Seq(S)), Zenon
  <2>3. f[Len(q)] \in Seq(S)
    BY <2>1
  <2>4. QED BY ONLY <1>2, <2>2, <2>3
<1>3. QED BY <1>1, <1>2

LEMMA FlattenAppends ==
  ASSUME NEW S, NEW q \in Seq(Seq(S)), NEW r \in Seq(Seq(S)), Len(r) = Len(q) + 1,
         \A i \in 1..Len(q) : r[i] = q[i]
  PROVE  FlattenSeq(r) = FlattenSeq(q) \o r[Len(r)]
<1>0. Len(q) \in Nat /\ Len(r) \in Nat /\ Len(r) # 0 /\ Len(q) <= Len(r) /\ r[Len(r)] \in Seq(S)
  BY LenProperties, ElementOfSeq
<1>1. PICK g \in [1..Len(r) -> Seq(S)] : Flattens(g, r, Len(r)) /\ FlattenSeq(r) = g[Len(r)]
  BY <1>0, FlattenIs
<1>2. Flattens(g, r, Len(r)) /\ Len(r) \in 1..Len(r)
  BY <1>0, <1>1
<1>3. g[Len(r)] = IF Len(r) = 1 THEN r[Len(r)] ELSE g[Len(r) - 1] \o r[Len(r)]
  BY ONLY <1>2, FlattensAt
<1>4. CASE Len(q) = 0
  <2>1. FlattenSeq(q) = <<>>
    BY <1>4, FlattenType
  <2>2. QED BY <1>0, <1>1, <1>3, <1>4, <2>1, ConcatEmptySeq
<1>5. CASE Len(q) # 0
  <2>1. PICK f \in [1..Len(q) -> Seq(S)] : Flattens(f, q, Len(q)) /\ FlattenSeq(q) = f[Len(q)]
    BY <1>5, FlattenIs
  <2>2. /\ Flattens(f, q, Len(q)) /\ Flattens(g, r, Len(r))
        /\ Len(q) \in Nat /\ Len(r) \in Nat /\ Len(q) # 0 /\ Len(r) = Len(q) + 1
    BY <1>0, <1>1, <1>5, <2>1
  <2>3. Agree(q, r, Len(q))
    BY DEF Agree
  <2>4. SameAt(f, g, Len(q))
    BY ONLY <2>2, <2>3, FlattensPrefix
  <2>5. Len(r) # 1 /\ Len(r) - 1 = Len(q)
    BY <2>2
  <2>6. QED BY <1>1, <1>3, <2>1, <2>4, <2>5, Zenon DEF SameAt
<1>6. QED BY <1>4, <1>5

-----------------------------------------------------------------------------
(* The escapes of a line.                                                  *)

Escapes(f, s, n) == f = [i \in 0..n |-> i > 0 /\ s[i] = Escape /\ ~f[i-1]]

LEMMA EscapesAt ==
  ASSUME NEW s, NEW f, NEW n, Escapes(f, s, n), NEW i \in 0..n
  PROVE  f[i] = (i > 0 /\ s[i] = Escape /\ ~f[i-1])
  BY Zenon DEF Escapes

LEMMA EscapesExists ==
  ASSUME NEW s, NEW n \in Nat
  PROVE  \E f : Escapes(f, s, n)
<1> DEFINE T == {m \in Nat : \E f \in [0..m -> BOOLEAN] : Escapes(f, s, m)}
<1>1. 0 \in T
  <2> DEFINE f == [i \in 0..0 |-> FALSE]
             P(i) == i > 0 /\ s[i] = Escape /\ ~f[i-1]
  <2>1. f \in [0..0 -> BOOLEAN]
    OBVIOUS
  <2>2. f = [i \in 0..0 |-> i > 0 /\ s[i] = Escape /\ ~f[i-1]]
    <3>1. \A i \in 0..0 : P(i) = FALSE
      OBVIOUS
    <3> HIDE DEF P
    <3>2. f = [i \in 0..0 |-> P(i)]
      BY <3>1
    <3>3. QED BY <3>2 DEF P
  <2>3. QED BY <2>1, <2>2 DEF Escapes
<1>2. ASSUME NEW m \in T PROVE m + 1 \in T
  <2>1. PICK f \in [0..m -> BOOLEAN] : Escapes(f, s, m)
    BY Zenon
  <2> DEFINE last == s[m + 1] = Escape /\ ~f[m]
             g == [i \in 0..m + 1 |-> IF i = m + 1 THEN last ELSE f[i]]
  <2>2. g \in [0..m + 1 -> BOOLEAN]
    <3>1. last \in BOOLEAN
      BY Zenon
    <3> HIDE DEF last
    <3>2. QED BY <3>1
  <2>3. \A i \in 0..m + 1 : g[i] = (i > 0 /\ s[i] = Escape /\ ~g[i-1])
    <3> TAKE i \in 0..m + 1
    <3>1. CASE i = m + 1
      BY <3>1
    <3>2. CASE i # m + 1
      <4>1. i \in 0..m /\ g[i] = f[i] /\ (i > 0 => g[i-1] = f[i-1])
        BY <3>2
      <4>2. f[i] = (i > 0 /\ s[i] = Escape /\ ~f[i-1])
        BY <4>1, <2>1, EscapesAt
      <4>3. QED BY <4>1, <4>2
    <3>3. QED BY <3>1, <3>2
  <2>4. g = [i \in 0..m + 1 |-> i > 0 /\ s[i] = Escape /\ ~g[i-1]]
    <3> DEFINE P(i) == i > 0 /\ s[i] = Escape /\ ~g[i-1]
    <3>1. \A i \in 0..m + 1 : g[i] = P(i)
      BY <2>3
    <3>2. g = [i \in 0..m + 1 |-> g[i]]
      OBVIOUS
    <3> HIDE DEF g, P
    <3>3. g = [i \in 0..m + 1 |-> P(i)]
      BY <3>1, <3>2
    <3>4. QED BY <3>3 DEF P
  <2>5. m + 1 \in Nat
    OBVIOUS
  <2> HIDE DEF g
  <2>6. QED BY <2>2, <2>4, <2>5 DEF Escapes
<1>3. T = Nat
  <2> HIDE DEF T
  <2>1. T \in SUBSET Nat
    BY DEF T
  <2>2. QED BY <1>1, <1>2, <2>1, Induction
<1>4. QED BY <1>3

LEMMA EscapingIs ==
  ASSUME NEW s, Len(s) \in Nat
  PROVE  Escapes(Escaping(s), s, Len(s))
<1>1. \E f : Escapes(f, s, Len(s))
  BY EscapesExists
<1>2. QED BY <1>1, Zenon DEF Escapes, Escaping

LEMMA EscapesAgree ==
  ASSUME NEW s, NEW t, NEW f, NEW g, NEW n \in Nat, NEW m \in Nat, Escapes(f, s, n), Escapes(g, t, m),
         n <= m, Agree(s, t, n)
  PROVE  \A i \in 0..n : f[i] = g[i]
<1> DEFINE T == {i \in Nat : i \in 0..n => f[i] = g[i]}
<1>1. 0 \in T
  <2>1. 0 \in 0..n /\ 0 \in 0..m
    OBVIOUS
  <2>2. /\ f[0] = (0 > 0 /\ s[0] = Escape /\ ~f[0-1])
        /\ g[0] = (0 > 0 /\ t[0] = Escape /\ ~g[0-1])
    BY <2>1, EscapesAt
  <2>3. QED BY <2>2
<1>2. ASSUME NEW i \in T PROVE i + 1 \in T
  <2> SUFFICES ASSUME i + 1 \in 0..n PROVE f[i + 1] = g[i + 1]
    OBVIOUS
  <2>1. /\ f[i + 1] = (i + 1 > 0 /\ s[i + 1] = Escape /\ ~f[i + 1 - 1])
        /\ g[i + 1] = (i + 1 > 0 /\ t[i + 1] = Escape /\ ~g[i + 1 - 1])
    <3>1. i + 1 \in 0..n /\ i + 1 \in 0..m
      OBVIOUS
    <3>2. QED BY <3>1, EscapesAt
  <2>2. f[i] = g[i] /\ s[i + 1] = t[i + 1] /\ i + 1 - 1 = i /\ i + 1 > 0
    BY DEF Agree
  <2>3. QED BY <2>1, <2>2
<1>3. T = Nat
  <2> HIDE DEF T
  <2>1. T \in SUBSET Nat
    BY DEF T
  <2>2. QED BY <1>1, <1>2, <2>1, Induction
<1>4. QED BY <1>3

LEMMA EscapingAppends ==
  ASSUME NEW t \in Seq(Bytes), NEW x \in Bytes
  PROVE  /\ \A i \in 0..Len(t) : Escaping(Append(t, x))[i] = Escaping(t)[i]
         /\ Dangling(Append(t, x)) = (x = Escape /\ ~Dangling(t))
<1> DEFINE u == Append(t, x)
<1>1. /\ Len(t) \in Nat /\ Len(u) = Len(t) + 1 /\ u[Len(t) + 1] = x
      /\ \A i \in 1..Len(t) : u[i] = t[i]
  BY AppendProperties, LenProperties
<1> HIDE DEF u
<1>2. Escapes(Escaping(t), t, Len(t)) /\ Escapes(Escaping(u), u, Len(u))
  BY <1>1, EscapingIs
<1>3. \A i \in 0..Len(t) : Escaping(t)[i] = Escaping(u)[i]
  <2>1. Agree(t, u, Len(t)) /\ Len(t) <= Len(u) /\ Len(u) \in Nat
    BY <1>1 DEF Agree
  <2>2. QED BY ONLY <1>1, <1>2, <2>1, EscapesAgree
<1>4. Escaping(u)[Len(u)] = (Len(u) > 0 /\ u[Len(u)] = Escape /\ ~Escaping(u)[Len(u) - 1])
  <2>1. Len(u) \in 0..Len(u)
    BY <1>1
  <2>2. QED BY <1>2, <2>1, EscapesAt
<1>5. Escaping(u)[Len(u) - 1] = Escaping(t)[Len(t)]
  BY <1>1, <1>3
<1>6. QED BY <1>1, <1>3, <1>4, <1>5 DEF u, Dangling

LEMMA DanglingEmpty == ~Dangling(<<>>)
<1>1. Len(<<>>) = 0 /\ 0 \in 0..0
  BY EmptySeq
<1>2. Escapes(Escaping(<<>>), <<>>, 0)
  BY <1>1, EscapingIs
<1>3. Escaping(<<>>)[0] = (0 > 0 /\ <<>>[0] = Escape /\ ~Escaping(<<>>)[0-1])
  BY <1>1, <1>2, EscapesAt
<1>4. ~Escaping(<<>>)[0]
  <2>1. ~(0 > 0)
    OBVIOUS
  <2>2. QED BY <1>3, <2>1, Zenon
<1>5. QED BY <1>1, <1>4, Zenon DEF Dangling

(* The bytes a byte of a line stands for.                                  *)
DecodedByte(at, s, i) ==
  IF at[i] THEN <<>>
  ELSE <<IF at[i - 1] THEN (((s[i] - 64) % 256) - 42) % 256 ELSE (s[i] - 42) % 256>>

LEMMA DecodedIs ==
  ASSUME NEW s
  PROVE  Decoded(s) = FlattenSeq([i \in DOMAIN s |-> DecodedByte(Escaping(s), s, i)])
  BY Zenon DEF Decoded, DecodedByte

LEMMA DecodedNumber ==
  ASSUME NEW x \in 0..255
  PROVE  (((x - 64) % 256) - 42) % 256 \in 0..255 /\ (x - 42) % 256 \in 0..255
<1>1. \A n \in Int : n % 256 \in 0..255
  OBVIOUS
<1>2. (x - 64) % 256 \in 0..255
  BY <1>1
<1>3. ((x - 64) % 256) - 42 \in Int
  BY <1>2
<1>4. QED BY <1>1, <1>3

LEMMA DecodedByteType ==
  ASSUME NEW s \in Seq(Bytes), NEW at, NEW i \in DOMAIN s
  PROVE  DecodedByte(at, s, i) \in Seq(Bytes)
<1>1. s[i] \in 0..255
  BY LenProperties, ElementOfSeq DEF Bytes
<1> DEFINE a == (((s[i] - 64) % 256) - 42) % 256
           b == (s[i] - 42) % 256
<1>2. a \in 0..255 /\ b \in 0..255
  BY <1>1, DecodedNumber
<1> HIDE DEF a, b
<1>3. (IF at[i - 1] THEN a ELSE b) \in Bytes
  BY <1>2 DEF Bytes
<1>4. DecodedByte(at, s, i) = IF at[i] THEN <<>> ELSE <<IF at[i - 1] THEN a ELSE b>>
  BY Zenon DEF DecodedByte, a, b
<1>5. QED BY <1>3, <1>4

LEMMA DecodedBytes ==
  ASSUME NEW s \in Seq(Bytes)
  PROVE  [i \in DOMAIN s |-> DecodedByte(Escaping(s), s, i)] \in Seq(Seq(Bytes))
<1> DEFINE at == Escaping(s)
<1> HIDE DEF at
<1>1. \A i \in DOMAIN s : DecodedByte(at, s, i) \in Seq(Bytes)
  BY DecodedByteType
<1>2. DOMAIN s = 1..Len(s) /\ Len(s) \in Nat
  BY LenProperties
<1>3. QED BY <1>1, <1>2 DEF at

LEMMA DecodedType ==
  ASSUME NEW s \in Seq(Bytes)
  PROVE  Decoded(s) \in Seq(Bytes)
  BY DecodedIs, DecodedBytes, FlattenType

Joins(x, s, t) == x = s \o t

(* What the byte x adds to the decoded bytes of t.                         *)
DecodedLast(t, x) ==
  IF x = Escape /\ ~Dangling(t) THEN <<>>
  ELSE <<IF Dangling(t) THEN (((x - 64) % 256) - 42) % 256 ELSE (x - 42) % 256>>

LEMMA FlattenJoins ==
  ASSUME NEW S, NEW q \in Seq(Seq(S)), NEW r \in Seq(Seq(S)), NEW n \in Nat, NEW m \in Nat, Len(q) = n,
         Len(r) = m, m = n + 1, Agree(q, r, n)
  PROVE  Joins(FlattenSeq(r), FlattenSeq(q), r[m])
<1>1. Len(r) = Len(q) + 1 /\ \A i \in 1..Len(q) : r[i] = q[i]
  BY DEF Agree
<1>2. FlattenSeq(r) = FlattenSeq(q) \o r[Len(r)]
  BY <1>1, FlattenAppends
<1>3. QED BY <1>2 DEF Joins

LEMMA DecodedAppends ==
  ASSUME NEW t \in Seq(Bytes), NEW x \in Bytes
  PROVE  Joins(Decoded(Append(t, x)), Decoded(t), DecodedLast(t, x))
<1> DEFINE u == Append(t, x)
           n == Len(t)
           m == Len(u)
           q == [i \in DOMAIN t |-> DecodedByte(Escaping(t), t, i)]
           r == [i \in DOMAIN u |-> DecodedByte(Escaping(u), u, i)]
<1>1. /\ u \in Seq(Bytes) /\ n \in Nat /\ m \in Nat /\ m = n + 1 /\ u[m] = x
      /\ \A i \in 1..n : u[i] = t[i]
      /\ DOMAIN t = 1..n /\ DOMAIN u = 1..m
  BY AppendProperties, LenProperties
<1>2. \A i \in 0..n : Escaping(u)[i] = Escaping(t)[i]
  BY EscapingAppends
<1>3. Escaping(u)[m] = (x = Escape /\ ~Dangling(t))
  <2>1. Dangling(u) = (x = Escape /\ ~Dangling(t))
    BY EscapingAppends
  <2>2. QED BY <2>1, Zenon DEF Dangling
<1> HIDE DEF u, n, m
<1>4. q \in Seq(Seq(Bytes)) /\ r \in Seq(Seq(Bytes)) /\ Len(q) = n /\ Len(r) = m
  <2>1. q \in Seq(Seq(Bytes)) /\ r \in Seq(Seq(Bytes))
    BY <1>1, DecodedBytes
  <2>2. DOMAIN q = 1..n /\ DOMAIN r = 1..m
    BY <1>1
  <2> HIDE DEF q, r
  <2>3. QED BY <1>1, <2>1, <2>2, LenProperties
<1>5. Agree(q, r, n)
  <2> SUFFICES ASSUME NEW i \in 1..n PROVE q[i] = r[i]
    BY DEF Agree
  <2>1. /\ Escaping(u)[i] = Escaping(t)[i] /\ Escaping(u)[i - 1] = Escaping(t)[i - 1] /\ u[i] = t[i]
        /\ i \in DOMAIN t /\ i \in DOMAIN u
    BY <1>1, <1>2
  <2>2. QED BY <2>1 DEF DecodedByte
<1>6. Joins(FlattenSeq(r), FlattenSeq(q), r[m])
  <2> HIDE DEF q, r
  <2>1. QED BY ONLY <1>1, <1>4, <1>5, FlattenJoins
<1>7. r[m] = DecodedLast(t, x)
  <2>1. m \in DOMAIN u /\ m - 1 = n /\ n \in 0..n
    BY <1>1
  <2>2. Escaping(u)[m - 1] = Dangling(t)
    BY <1>2, <2>1 DEF Dangling, n
  <2>3. r[m] = DecodedByte(Escaping(u), u, m)
    BY <2>1
  <2> HIDE DEF r
  <2>4. QED BY <1>1, <1>3, <2>2, <2>3, ZenonT(60) DEF DecodedByte, DecodedLast
<1>8. Decoded(u) = FlattenSeq(r) /\ Decoded(t) = FlattenSeq(q)
  BY DecodedIs
<1>9. QED BY <1>6, <1>7, <1>8 DEF u

LEMMA DecodedEmpty == Decoded(<<>>) = <<>>
<1>1. <<>> \in Seq(Bytes) /\ DOMAIN <<>> = 1..0
  OBVIOUS
<1> DEFINE q == [i \in DOMAIN <<>> |-> DecodedByte(Escaping(<<>>), <<>>, i)]
<1>2. q \in Seq(Seq(Bytes))
  BY <1>1, DecodedBytes
<1>3. DOMAIN q = 1..0
  BY <1>1
<1> HIDE DEF q
<1>4. Len(q) = 0
  BY <1>2, <1>3, LenProperties
<1>5. FlattenSeq(q) = <<>>
  BY <1>2, <1>4, FlattenType
<1>6. QED BY <1>5, DecodedIs DEF q

(* A byte that is encoded and decoded comes out as it went in.             *)
Wrapped(b) == (b + 42) % 256
Escaped(b) == (Wrapped(b) + 64) % 256

LEMMA WrapsAround ==
  ASSUME NEW b \in Bytes
  PROVE  /\ Wrapped(b) \in Bytes /\ Escaped(b) \in Bytes
         /\ (Wrapped(b) - 42) % 256 = b
         /\ (((Escaped(b) - 64) % 256) - 42) % 256 = b
<1>1. b \in 0..255
  BY DEF Bytes
<1>2. Wrapped(b) = IF b <= 213 THEN b + 42 ELSE b - 214
  BY <1>1 DEF Wrapped
<1>3. Wrapped(b) \in 0..255
  BY <1>1, <1>2
<1>4. (Wrapped(b) - 42) % 256 = b
  BY <1>1, <1>2
<1>5. Escaped(b) = IF Wrapped(b) <= 191 THEN Wrapped(b) + 64 ELSE Wrapped(b) - 192
  BY <1>3 DEF Escaped
<1>6. Escaped(b) \in 0..255
  BY <1>3, <1>5
<1>7. (Escaped(b) - 64) % 256 = Wrapped(b)
  BY <1>3, <1>5
<1>8. QED BY <1>3, <1>4, <1>6, <1>7 DEF Bytes

Special(e) == e \in {0, 10, 13, Escape}

LEMMA EncodedIs ==
  ASSUME NEW b
  PROVE  Encoded(b) = IF Special(Wrapped(b)) THEN <<Escape, Escaped(b)>> ELSE <<Wrapped(b)>>
  BY Zenon DEF Encoded, Special, Wrapped, Escaped

LEMMA EscapeType == Escape \in Bytes
  BY DEF Escape, Bytes

LEMMA EncodedType ==
  ASSUME NEW b \in Bytes
  PROVE  Encoded(b) \in Seq(Bytes)
<1>1. Wrapped(b) \in Bytes /\ Escaped(b) \in Bytes /\ Escape \in Bytes
  BY WrapsAround, EscapeType
<1>2. <<Escape, Escaped(b)>> \in Seq(Bytes) /\ <<Wrapped(b)>> \in Seq(Bytes)
  BY <1>1
<1>3. QED BY <1>2, EncodedIs

LEMMA DecodesEncoded ==
  ASSUME NEW t \in Seq(Bytes), NEW b \in Bytes, ~Dangling(t)
  PROVE  ~Dangling(t \o Encoded(b)) /\ Decoded(t \o Encoded(b)) = Append(Decoded(t), b)
<1> DEFINE w == Wrapped(b)
           e == Escaped(b)
<1>1. /\ w \in Bytes /\ e \in Bytes /\ Escape \in Bytes
      /\ (w - 42) % 256 = b /\ (((e - 64) % 256) - 42) % 256 = b
  BY WrapsAround, EscapeType
<1>2. Encoded(b) = IF Special(w) THEN <<Escape, e>> ELSE <<w>>
  BY EncodedIs
<1>3. Decoded(t) \in Seq(Bytes)
  BY DecodedType
<1> HIDE DEF w, e
<1>4. CASE ~Special(w)
  <2>1. w # Escape
    BY <1>4 DEF Special
  <2>2. t \o Encoded(b) = Append(t, w)
    BY <1>1, <1>2, <1>4, AppendIsConcat
  <2>3. ~Dangling(Append(t, w))
    BY <1>1, <2>1, EscapingAppends
  <2>4. DecodedLast(t, w) = <<b>>
    BY <1>1, <2>1 DEF DecodedLast
  <2>5. Decoded(Append(t, w)) = Decoded(t) \o <<b>>
    BY <1>1, <2>4, DecodedAppends, Zenon DEF Joins
  <2>6. QED BY <1>3, <2>2, <2>3, <2>5, AppendIsConcat
<1>5. CASE Special(w)
  <2> DEFINE u == Append(t, Escape)
  <2>1. u \in Seq(Bytes)
    BY <1>1, AppendProperties
  <2>2. t \o Encoded(b) = Append(u, e)
    BY <1>1, <1>2, <1>5
  <2>3. Dangling(u)
    <3>1. Dangling(u) = (Escape = Escape /\ ~Dangling(t))
      BY <1>1, EscapingAppends
    <3>2. QED BY <3>1, Zenon
  <2>4. Decoded(u) = Decoded(t) \o <<>>
    <3>1. DecodedLast(t, Escape) = <<>>
      BY DEF DecodedLast
    <3>2. QED BY <1>1, <3>1, DecodedAppends, Zenon DEF Joins
  <2>5. Decoded(u) = Decoded(t)
    BY <1>3, <2>4, ConcatEmptySeq
  <2> HIDE DEF u
  <2>6. ~Dangling(Append(u, e))
    BY <1>1, <2>1, <2>3, EscapingAppends
  <2>7. DecodedLast(u, e) = <<b>>
    BY <1>1, <2>3 DEF DecodedLast
  <2>8. Decoded(Append(u, e)) = Decoded(u) \o <<b>>
    BY <1>1, <2>1, <2>7, DecodedAppends, Zenon DEF Joins
  <2>9. QED BY <1>3, <2>2, <2>5, <2>6, <2>8, AppendIsConcat
<1>6. QED BY <1>4, <1>5

LEMMA EncodedEnds ==
  ASSUME NEW b \in Bytes
  PROVE  Len(Encoded(b)) \in Nat \ {0} /\ Encoded(b)[Len(Encoded(b))] \notin LineEnds
<1> DEFINE w == Wrapped(b)
           e == Escaped(b)
<1>1. w \in Bytes /\ e \in Bytes
  BY WrapsAround
<1>2. Encoded(b) = IF Special(w) THEN <<Escape, e>> ELSE <<w>>
  BY EncodedIs
<1>3. Special(w) => e \notin LineEnds
  BY <1>1 DEF Special, LineEnds, Escaped, Escape, Bytes
<1>4. ~Special(w) => w \notin LineEnds
  BY DEF Special, LineEnds
<1> HIDE DEF w, e
<1>5. QED BY <1>2, <1>3, <1>4

LEMMA EncodesAppends ==
  ASSUME NEW s \in Seq(Bytes), NEW b \in Bytes
  PROVE  Joins(Encodes(Append(s, b)), Encodes(s), Encoded(b))
<1> DEFINE u == Append(s, b)
           n == Len(s)
           m == Len(u)
           q == [k \in DOMAIN s |-> Encoded(s[k])]
           r == [k \in DOMAIN u |-> Encoded(u[k])]
<1>1. /\ u \in Seq(Bytes) /\ n \in Nat /\ m \in Nat /\ m = n + 1 /\ u[m] = b
      /\ \A i \in 1..n : u[i] = s[i]
      /\ DOMAIN s = 1..n /\ DOMAIN u = 1..m
  BY AppendProperties, LenProperties
<1>2. /\ \A i \in 1..n : Encoded(s[i]) \in Seq(Bytes)
      /\ \A i \in 1..m : Encoded(u[i]) \in Seq(Bytes)
  BY <1>1, EncodedType, ElementOfSeq
<1> HIDE DEF u, n, m
<1>3. q \in Seq(Seq(Bytes)) /\ r \in Seq(Seq(Bytes)) /\ Len(q) = n /\ Len(r) = m
  <2>1. q \in Seq(Seq(Bytes)) /\ r \in Seq(Seq(Bytes))
    BY <1>1, <1>2
  <2>2. DOMAIN q = 1..n /\ DOMAIN r = 1..m
    BY <1>1
  <2> HIDE DEF q, r
  <2>3. QED BY <1>1, <2>1, <2>2, LenProperties
<1>4. Agree(q, r, n)
  BY <1>1 DEF Agree
<1>5. r[m] = Encoded(b)
  BY <1>1
<1> HIDE DEF q, r
<1>6. Joins(FlattenSeq(r), FlattenSeq(q), r[m])
  BY ONLY <1>1, <1>3, <1>4, FlattenJoins
<1>7. QED BY <1>5, <1>6 DEF Encodes, q, r, u

(* The poster's encoding of any bytes, of any number of them, is one the   *)
(* decoder undoes, and it ends in no escape.                               *)
Undone(s) == Encodes(s) \in Seq(Bytes) /\ ~Dangling(Encodes(s)) /\ Decoded(Encodes(s)) = s

LEMMA EncodesEmpty == Encodes(<<>>) = <<>>
<1> DEFINE q == [k \in DOMAIN <<>> |-> Encoded(<<>>[k])]
<1>1. q \in Seq(Seq(Bytes)) /\ Len(q) = 0
  OBVIOUS
<1> HIDE DEF q
<1>2. FlattenSeq(q) = <<>>
  BY <1>1, FlattenType
<1>3. QED BY <1>2 DEF Encodes, q

LEMMA UndoneAppends ==
  ASSUME NEW s \in Seq(Bytes), NEW b \in Bytes, Undone(s)
  PROVE  Undone(Append(s, b))
<1> DEFINE t == Encodes(s)
<1>1. t \in Seq(Bytes) /\ ~Dangling(t) /\ Decoded(t) = s
  BY DEF Undone
<1>2. Encodes(Append(s, b)) = t \o Encoded(b)
  BY EncodesAppends, Zenon DEF Joins
<1> HIDE DEF t
<1>3. ~Dangling(t \o Encoded(b)) /\ Decoded(t \o Encoded(b)) = Append(s, b)
  BY <1>1, DecodesEncoded
<1>4. t \o Encoded(b) \in Seq(Bytes)
  BY <1>1, EncodedType, ConcatProperties
<1>5. QED BY <1>2, <1>3, <1>4 DEF Undone

LEMMA EncodingUndone ==
  ASSUME NEW s \in Seq(Bytes)
  PROVE  Undone(s)
<1> DEFINE T == {n \in Nat : \A t \in Seq(Bytes) : Len(t) = n => Undone(t)}
<1>1. 0 \in T
  <2> SUFFICES ASSUME NEW t \in Seq(Bytes), Len(t) = 0 PROVE Undone(t)
    OBVIOUS
  <2>1. t = <<>>
    BY EmptySeq
  <2>2. <<>> \in Seq(Bytes)
    BY EmptySeq
  <2>3. QED BY <2>1, <2>2, EncodesEmpty, DecodedEmpty, DanglingEmpty, Zenon DEF Undone
<1>2. ASSUME NEW n \in T PROVE n + 1 \in T
  <2> SUFFICES ASSUME NEW t \in Seq(Bytes), Len(t) = n + 1 PROVE Undone(t)
    OBVIOUS
  <2>1. t # <<>>
    BY EmptySeq
  <2>2. PICK u \in Seq(Bytes), b \in Bytes : t = Append(u, b)
    BY <2>1, SequenceEmptyOrAppend
  <2>3. Len(u) = n
    BY <2>2, AppendProperties, LenProperties
  <2>4. Undone(u)
    BY <2>3
  <2>5. QED BY <2>2, <2>4, UndoneAppends
<1>3. T = Nat
  <2> HIDE DEF T
  <2>1. T \in SUBSET Nat
    BY DEF T
  <2>2. QED BY <1>1, <1>2, <2>1, Induction
<1>4. Len(s) \in Nat
  BY LenProperties
<1>5. QED BY <1>3, <1>4

-----------------------------------------------------------------------------
(* The lines an article is cut into cover it.                              *)

LEMMA LinesSuffice ==
  ASSUME NEW n \in Nat \ {0}, NEW L \in Nat \ {0}, NEW m, m = (n + L - 1) \div L
  PROVE  m \in Nat \ {0} /\ n <= m * L /\ (m - 1) * L < n
<1>1. m \in Int
  OBVIOUS
<1>2. m * L <= n + L - 1 /\ n + L - 1 < m * L + L
  OBVIOUS
<1>3. (m - 1) * L = m * L - L
  BY <1>1
<1>4. n <= m * L /\ (m - 1) * L < n
  BY <1>1, <1>2, <1>3
<1>5. m >= 1
  BY <1>1, <1>4
<1>6. QED BY <1>1, <1>4, <1>5

LEMMA PieceJoins ==
  ASSUME NEW s \in Seq(Bytes), s # <<>>
  PROVE  /\ NumLines(s) \in Nat \ {0}
         /\ EndOf(s, 0) = 0 /\ EndOf(s, NumLines(s)) = Len(s)
         /\ \A i \in 1..NumLines(s) :
              /\ EndOf(s, i - 1) \in 0..Len(s) /\ EndOf(s, i) \in 0..Len(s)
              /\ Piece(s, i) \in Seq(Bytes)
              /\ Joins(SubSeq(s, 1, EndOf(s, i)), SubSeq(s, 1, EndOf(s, i - 1)), Piece(s, i))
<1> DEFINE n == Len(s)
           m == NumLines(s)
           L == LineLength
<1>1. n \in Nat \ {0} /\ L \in Nat \ {0}
  BY EmptySeq, ConstantsAssumption
<1>2. m \in Nat \ {0} /\ n <= m * L /\ (m - 1) * L < n
  BY <1>1, LinesSuffice DEF NumLines
<1>3. \A i \in Int : EndOf(s, i) = IF i * L > n THEN n ELSE i * L
  BY DEF EndOf
<1>4. \A i \in Int : Piece(s, i) = SubSeq(s, (i - 1) * L + 1, EndOf(s, i))
  BY DEF Piece
<1> HIDE DEF n, m, L
<1>5. EndOf(s, 0) = 0 /\ EndOf(s, m) = n
  BY <1>1, <1>2, <1>3
<1>6. ASSUME NEW i \in 1..m
      PROVE  /\ EndOf(s, i - 1) \in 0..n /\ EndOf(s, i) \in 0..n
             /\ Piece(s, i) \in Seq(Bytes)
             /\ Joins(SubSeq(s, 1, EndOf(s, i)), SubSeq(s, 1, EndOf(s, i - 1)), Piece(s, i))
  <2>1. (i - 1) * L >= 0 /\ (i - 1) * L <= (m - 1) * L
    BY <1>1, <1>2
  <2>2. i * L = (i - 1) * L + L
    BY <1>1, <1>2
  <2> DEFINE before == (i - 1) * L
             after == EndOf(s, i)
  <2>3. before \in Nat /\ before < n
    BY <1>1, <1>2, <2>1
  <2>4. EndOf(s, i - 1) = before /\ before \in 0..n
    BY <1>1, <1>3, <2>3
  <2>5. after \in before..n /\ after \in 0..n
    BY <1>1, <1>3, <2>2, <2>3
  <2>6. Piece(s, i) = SubSeq(s, before + 1, after)
    BY <1>4
  <2> HIDE DEF before, after
  <2>7. SubSeq(s, before + 1, after) \in Seq(Bytes)
    <3>1. \A j \in before + 1..after : s[j] \in Bytes
      BY <1>1, <2>3, <2>5, ElementOfSeq DEF n
    <3>2. before + 1 \in Int /\ after \in Int
      BY <2>3, <2>5
    <3>3. QED BY <3>1, <3>2, SubSeqProperties
  <2>8. SubSeq(s, 1, before) \o SubSeq(s, before + 1, after) = SubSeq(s, 1, after)
    <3>1. 1 \in 1..Len(s) + 1 /\ before \in 1 - 1..Len(s) /\ after \in before..Len(s)
      BY <1>1, <2>3, <2>5 DEF n
    <3>2. QED BY <3>1, ConcatAdjacentSubSeq
  <2>9. QED BY <2>4, <2>5, <2>6, <2>7, <2>8 DEF Joins, after
<1>7. QED BY <1>2, <1>5, <1>6 DEF n, m

LEMMA PieceEnds ==
  ASSUME NEW s \in Seq(Bytes), s # <<>>, NEW i \in 1..NumLines(s),
         \A k \in 1..Len(s) : s[k] \notin {10, 13}
  PROVE  Piece(s, i) # <<>> => Piece(s, i)[Len(Piece(s, i))] \notin {10, 13}
<1> DEFINE before == (i - 1) * LineLength
           after == EndOf(s, i)
<1>1. Len(s) \in Nat \ {0} /\ after \in 0..Len(s) /\ NumLines(s) \in Nat
  BY PieceJoins, EmptySeq
<1>2. before \in Nat
  BY <1>1, ConstantsAssumption
<1>3. Piece(s, i) = SubSeq(s, before + 1, after)
  BY DEF Piece
<1> HIDE DEF before, after
<1>4. SUFFICES ASSUME SubSeq(s, before + 1, after) # <<>>
               PROVE  SubSeq(s, before + 1, after)[Len(SubSeq(s, before + 1, after))] \notin {10, 13}
  BY <1>3
<1>5. \A k \in before + 1..after : s[k] \in Bytes
  BY <1>1, <1>2, ElementOfSeq
<1>6. /\ SubSeq(s, before + 1, after) \in Seq(Bytes)
      /\ Len(SubSeq(s, before + 1, after)) = IF before + 1 <= after THEN after - before ELSE 0
      /\ \A k \in 1..after - before : SubSeq(s, before + 1, after)[k] = s[before + k]
  BY <1>1, <1>2, <1>5, SubSeqProperties
<1>7. before + 1 <= after
  BY <1>4, <1>6, EmptySeq
<1>8. before + (after - before) = after /\ after - before \in 1..after - before /\ after \in 1..Len(s)
  BY <1>1, <1>2, <1>7
<1>9. QED BY <1>6, <1>7, <1>8

(* The lines of a yEnc article: the header, a =ypart line or none, the     *)
(* encoded pieces, the trailer.                                            *)
Lead(f) == IF f = "part" THEN 2 ELSE 1
CrcGiven(c, f) == IF f = "bare" THEN NoCrc ELSE Crc(c)

LEMMA LineKinds ==
  /\ \A n : Begin(n).kind = "=ybegin" /\ Begin(n).size = n /\ Begin(n).bytes = <<Escape, 121, 98>>
  /\ Part.kind = "=ypart" /\ Part.bytes = <<Escape, 121, 112>>
  /\ \A n, p, s : End(n, p, s).kind = "=yend" /\ End(n, p, s).size = n
                  /\ End(n, p, s).bytes = <<Escape, 121, 101>>
                  /\ End(n, p, s).pcrc = p /\ End(n, p, s).crc = s
  /\ \A s : Data(s).kind = "data" /\ Data(s).bytes = s
  BY DEF Begin, Part, End, Data, Line

LEMMA LineTypes ==
  /\ \A n \in Int : Begin(n) \in Lines
  /\ Part \in Lines
  /\ \A n \in Int, p \in Seq(Bytes), s \in Seq(Bytes) : End(n, p, s) \in Lines
  /\ \A s \in Seq(Bytes) : Data(s) \in Lines
<1>1. /\ <<Escape, 121, 98>> \in Seq(Bytes) /\ <<Escape, 121, 112>> \in Seq(Bytes)
      /\ <<Escape, 121, 101>> \in Seq(Bytes) /\ NoCrc \in Seq(Bytes)
  BY DEF Escape, NoCrc, Bytes
<1>2. \A k \in {"data", "=ybegin", "=ypart", "=yend"}, b \in Seq(Bytes), n \in Int,
         p \in Seq(Bytes), s \in Seq(Bytes) : Line(k, b, n, p, s) \in Lines
  BY DEF Line, Lines
<1>3. 0 \in Int
  OBVIOUS
<1>4. \A n \in Int : Begin(n) \in Lines
  BY ONLY <1>1, <1>2, Zenon DEF Begin
<1>5. Part \in Lines
  BY ONLY <1>1, <1>2, <1>3, Zenon DEF Part
<1>6. \A n \in Int, p \in Seq(Bytes), s \in Seq(Bytes) : End(n, p, s) \in Lines
  BY ONLY <1>1, <1>2, Zenon DEF End
<1>7. \A s \in Seq(Bytes) : Data(s) \in Lines
  BY ONLY <1>1, <1>2, <1>3, Zenon DEF Data
<1>8. QED BY <1>4, <1>5, <1>6, <1>7

LEMMA TrailerIs ==
  ASSUME NEW c \in Seq(Bytes), c # <<>>, NEW f \in {"single", "part", "bare"}
  PROVE  /\ Trailer(c, f) \in Lines
         /\ Trailer(c, f).kind = "=yend" /\ Trailer(c, f).size = Len(c)
         /\ Trailer(c, f).bytes = <<Escape, 121, 101>>
         /\ Checksum(Trailer(c, f)) = CrcGiven(c, f)
<1>1. Len(c) \in Int /\ Append(c, 0) \in Seq(Bytes) /\ <<>> \in Seq(Bytes)
  BY LenProperties, AppendProperties, EmptySeq DEF Bytes
<1>2. PICK p \in Seq(Bytes), s \in Seq(Bytes) :
        Trailer(c, f) = End(Len(c), p, s) /\ (IF p # NoCrc THEN p ELSE s) = CrcGiven(c, f)
  <2>1. CASE f = "part"
    <3>1. Trailer(c, f) = End(Len(c), c, Append(c, 0))
      BY <2>1 DEF Trailer, Crc
    <3>2. (IF c # NoCrc THEN c ELSE Append(c, 0)) = CrcGiven(c, f)
      BY <2>1 DEF CrcGiven, Crc, NoCrc
    <3>3. QED BY <1>1, <3>1, <3>2
  <2>2. CASE f = "single"
    <3>1. Trailer(c, f) = End(Len(c), <<>>, c)
      BY <2>2 DEF Trailer, Crc, NoCrc
    <3>2. (IF <<>> # NoCrc THEN <<>> ELSE c) = CrcGiven(c, f)
      BY <2>2 DEF CrcGiven, Crc, NoCrc
    <3>3. QED BY <1>1, <3>1, <3>2
  <2>3. CASE f = "bare"
    <3>1. Trailer(c, f) = End(Len(c), <<>>, <<>>)
      BY <2>3 DEF Trailer, NoCrc
    <3>2. (IF <<>> # NoCrc THEN <<>> ELSE <<>>) = CrcGiven(c, f)
      BY <2>3 DEF CrcGiven, NoCrc
    <3>3. QED BY <1>1, <3>1, <3>2
  <2>4. QED BY <2>1, <2>2, <2>3
<1>3. Trailer(c, f) \in Lines
  BY <1>1, <1>2, LineTypes
<1>4. QED BY <1>2, <1>3, LineKinds DEF Checksum

LEMMA CutIs ==
  ASSUME NEW c \in Seq(Bytes), c # <<>>, NEW encode \in BOOLEAN
  PROVE  /\ Cut(c, encode) \in Seq(Lines) /\ Len(Cut(c, encode)) = NumLines(c)
         /\ \A i \in 1..NumLines(c) :
              Cut(c, encode)[i] = Data(IF encode THEN Encodes(Piece(c, i)) ELSE Piece(c, i))
<1> DEFINE m == NumLines(c)
           E(i) == Data(IF encode THEN Encodes(Piece(c, i)) ELSE Piece(c, i))
<1>1. m \in Nat /\ \A i \in 1..m : Piece(c, i) \in Seq(Bytes)
  BY PieceJoins
<1>2. \A i \in 1..m : Encodes(Piece(c, i)) \in Seq(Bytes)
  BY <1>1, EncodingUndone DEF Undone
<1>3. \A i \in 1..m : E(i) \in Lines
  <2> HIDE DEF m
  <2>1. QED BY <1>1, <1>2, LineTypes
<1>4. Cut(c, encode) = [i \in 1..m |-> E(i)]
  BY Zenon DEF Cut
<1> HIDE DEF m, E
<1>5. [i \in 1..m |-> E(i)] \in Seq(Lines) /\ Len([i \in 1..m |-> E(i)]) = m
  BY <1>1, <1>3
<1>6. \A i \in 1..m : [j \in 1..m |-> E(j)][i] = E(i)
  OBVIOUS
<1>7. QED BY <1>4, <1>5, <1>6 DEF m, E

Enclosed(a, p, q, e) == a = p \o q \o <<e>>

Placed(a, p, q, e) ==
  /\ Len(a) = Len(p) + Len(q) + 1
  /\ \A i \in 1..Len(p) : a[i] = p[i]
  /\ \A i \in Len(p) + 1..Len(p) + Len(q) : a[i] = q[i - Len(p)]
  /\ a[Len(p) + Len(q) + 1] = e

LEMMA Between ==
  ASSUME NEW S, NEW p \in Seq(S), NEW q \in Seq(S), NEW e \in S, NEW a, Enclosed(a, p, q, e)
  PROVE  a \in Seq(S) /\ Placed(a, p, q, e)
<1>1. Len(p) \in Nat /\ Len(q) \in Nat
  BY LenProperties
<1> DEFINE b == p \o q
<1>2. /\ b \in Seq(S) /\ Len(b) = Len(p) + Len(q)
      /\ \A i \in 1..Len(p) + Len(q) : b[i] = IF i <= Len(p) THEN p[i] ELSE q[i - Len(p)]
  BY ConcatProperties
<1>3. a = b \o <<e>>
  BY DEF Enclosed
<1> HIDE DEF b
<1>4. <<e>> \in Seq(S) /\ Len(<<e>>) = 1 /\ <<e>>[1] = e
  OBVIOUS
<1>5. /\ a \in Seq(S) /\ Len(a) = Len(b) + 1
      /\ \A i \in 1..Len(b) + 1 : a[i] = IF i <= Len(b) THEN b[i] ELSE <<e>>[i - Len(b)]
  <2> DEFINE r == <<e>>
  <2> HIDE DEF r
  <2>1. /\ b \o r \in Seq(S) /\ Len(b \o r) = Len(b) + 1
        /\ \A i \in 1..Len(b) + 1 : (b \o r)[i] = IF i <= Len(b) THEN b[i] ELSE r[i - Len(b)]
    BY ONLY <1>2, <1>4, ConcatProperties, SMTT(60) DEF r
  <2>2. QED BY ONLY <1>3, <2>1, Zenon DEF r
<1>6. QED BY ONLY <1>1, <1>2, <1>4, <1>5 DEF Placed

Shape(c, f, a) ==
  LET h == Lead(f)
      m == NumLines(c)
  IN /\ a \in Seq(Lines) /\ m \in Nat \ {0} /\ Len(a) = h + m + 1
     /\ \E n \in Nat : n >= Len(c) /\ a[1] = Begin(n)
     /\ f = "part" => a[2] = Part
     /\ \A i \in h + 1..h + m : a[i] = Data(Encodes(Piece(c, i - h)))
     /\ a[h + m + 1] = Trailer(c, f)

LEMMA ShapeOf ==
  ASSUME NEW c \in Seq(Bytes), c # <<>>, NEW f \in {"single", "part", "bare"}, NEW a,
         NEW n \in Nat, n >= Len(c), NEW p \in Seq(Lines),
         Len(p) = Lead(f), p[1] = Begin(n), f = "part" => p[2] = Part,
         a = p \o Cut(c, TRUE) \o <<Trailer(c, f)>>
  PROVE  Shape(c, f, a)
<1> DEFINE q == Cut(c, TRUE)
           e == Trailer(c, f)
           h == Lead(f)
           m == NumLines(c)
<1>1. q \in Seq(Lines) /\ Len(q) = m /\ \A i \in 1..m : q[i] = Data(Encodes(Piece(c, i)))
  BY CutIs
<1>2. e \in Lines
  BY TrailerIs
<1>3. m \in Nat \ {0}
  BY PieceJoins
<1>4. h \in {1, 2} /\ (f = "part" => h = 2)
  BY DEF Lead
<1>5. Enclosed(a, p, q, e) /\ Len(p) = h /\ p \in Seq(Lines)
  BY DEF Enclosed
<1> HIDE DEF q, e, h, m
<1>6. /\ a \in Seq(Lines) /\ Len(a) = h + m + 1
      /\ \A i \in 1..h : a[i] = p[i]
      /\ \A i \in h + 1..h + m : a[i] = q[i - h]
      /\ a[h + m + 1] = e
  <2>1. a \in Seq(Lines) /\ Placed(a, p, q, e)
    BY ONLY <1>1, <1>2, <1>5, Between
  <2>2. QED BY ONLY <1>1, <1>5, <2>1 DEF Placed
<1>7. a[1] = Begin(n) /\ (f = "part" => a[2] = Part)
  <2>1. p[1] = Begin(n) /\ (f = "part" => p[2] = Part)
    OBVIOUS
  <2>2. QED BY ONLY <1>4, <1>6, <2>1
<1>8. \A i \in h + 1..h + m : a[i] = Data(Encodes(Piece(c, i - h)))
  <2>1. \A i \in h + 1..h + m : i - h \in 1..m
    BY ONLY <1>3, <1>4
  <2>2. QED BY ONLY <1>1, <1>6, <2>1
<1>9. QED BY <1>3, <1>6, <1>7, <1>8 DEF Shape, e, h, m

LEMMA ArticleShape ==
  ASSUME NEW c \in Seq(Bytes), c # <<>>, NEW f \in {"single", "part", "bare"}
  PROVE  Shape(c, f, Article(c, f))
<1>0. Len(c) \in Nat
  BY LenProperties
<1>1. \A n \in Nat : Begin(n) \in Lines /\ <<Begin(n)>> \in Seq(Lines) /\ <<Begin(n), Part>> \in Seq(Lines)
  BY LineTypes
<1>2. CASE f = "part"
  <2> DEFINE p == <<Begin(Len(c) + 1), Part>>
  <2>1. p \in Seq(Lines) /\ Len(p) = Lead(f) /\ p[1] = Begin(Len(c) + 1) /\ p[2] = Part
    BY <1>0, <1>1, <1>2 DEF Lead
  <2>2. Article(c, f) = p \o Cut(c, TRUE) \o <<Trailer(c, f)>>
    BY <1>2 DEF Article
  <2>3. Len(c) + 1 \in Nat /\ Len(c) + 1 >= Len(c)
    BY <1>0
  <2> HIDE DEF p
  <2>4. QED BY <2>1, <2>2, <2>3, ShapeOf
<1>3. CASE f # "part"
  <2> DEFINE p == <<Begin(Len(c))>>
  <2>1. p \in Seq(Lines) /\ Len(p) = Lead(f) /\ p[1] = Begin(Len(c))
    BY <1>0, <1>1, <1>3 DEF Lead
  <2>2. Article(c, f) = p \o Cut(c, TRUE) \o <<Trailer(c, f)>>
    BY <1>3 DEF Article
  <2>3. Len(c) \in Nat /\ Len(c) >= Len(c)
    BY <1>0
  <2> HIDE DEF p
  <2>4. QED BY <1>3, <2>1, <2>2, <2>3, ShapeOf
<1>4. QED BY <1>2, <1>3

LEMMA TextShape ==
  ASSUME NEW c \in Seq(Bytes), c # <<>>
  PROVE  LET a == Article(c, "text")
             m == NumLines(c)
         IN /\ a \in Seq(Lines) /\ m \in Nat \ {0} /\ Len(a) = m
            /\ \A i \in 1..m : a[i] = Data(Piece(c, i))
<1> DEFINE a == Article(c, "text")
           m == NumLines(c)
<1>1. a = Cut(c, FALSE)
  BY DEF Article
<1>2. m \in Nat \ {0}
  BY PieceJoins
<1>3. /\ Cut(c, FALSE) \in Seq(Lines) /\ Len(Cut(c, FALSE)) = m
      /\ \A i \in 1..m : Cut(c, FALSE)[i] = Data(IF FALSE THEN Encodes(Piece(c, i)) ELSE Piece(c, i))
  BY CutIs
<1> HIDE DEF a, m
<1>4. QED BY <1>1, <1>2, <1>3, Zenon DEF a, m

LEMMA ArticleType ==
  ASSUME NEW c \in Seq(Bytes), c # <<>>, NEW f \in {"single", "part", "bare", "text"}
  PROVE  Article(c, f) \in Seq(Lines) /\ Len(Article(c, f)) \in Nat \ {0}
<1>1. CASE f = "text"
  BY <1>1, TextShape
<1>2. CASE f # "text"
  BY <1>2, ArticleShape, SMTT(60) DEF Shape, Lead
<1>3. QED BY <1>1, <1>2

-----------------------------------------------------------------------------
(* What the lines of an undamaged article yield.                           *)

LEMMA YieldType ==
  ASSUME NEW line \in Lines, NEW f
  PROVE  Yield(line, f) \in Seq(Bytes)
<1>1. line.bytes \in Seq(Bytes)
  BY DEF Lines
<1>2. CRLF \in Seq(Bytes) /\ <<>> \in Seq(Bytes)
  BY EmptySeq DEF CRLF, Bytes
<1>3. line.bytes \o CRLF \in Seq(Bytes)
  BY <1>1, <1>2, ConcatProperties
<1>4. Decoded(line.bytes) \in Seq(Bytes)
  BY <1>1, DecodedType
<1>5. QED BY <1>2, <1>3, <1>4 DEF Yield

LEMMA YieldsParts ==
  ASSUME NEW c \in Seq(Bytes), c # <<>>, NEW f \in {"single", "part", "bare", "text"},
         NEW k \in 0..Len(Article(c, f))
  PROVE  LET q == [i \in 1..k |-> Yield(Article(c, f)[i], f)]
         IN q \in Seq(Seq(Bytes)) /\ Len(q) = k /\ Yields(c, f, k) = FlattenSeq(q)
<1> DEFINE a == Article(c, f)
           q == [i \in 1..k |-> Yield(a[i], f)]
<1>1. Yields(c, f, k) = FlattenSeq(q)
  BY DEF Yields
<1>2. a \in Seq(Lines) /\ Len(a) \in Nat
  BY ArticleType
<1>3. k \in Nat /\ k <= Len(a)
  BY <1>2
<1> HIDE DEF a
<1>4. \A i \in 1..k : Yield(a[i], f) \in Seq(Bytes)
  <2> TAKE i \in 1..k
  <2>1. i \in 1..Len(a)
    BY <1>2, <1>3
  <2>2. a[i] \in Lines
    BY <1>2, <2>1, ElementOfSeq
  <2>3. QED BY <2>2, YieldType
<1>5. q \in Seq(Seq(Bytes)) /\ Len(q) = k
  BY <1>3, <1>4
<1>6. QED BY <1>1, <1>5 DEF a

LEMMA YieldsType ==
  ASSUME NEW c \in Seq(Bytes), c # <<>>, NEW f \in {"single", "part", "bare", "text"},
         NEW k \in 0..Len(Article(c, f))
  PROVE  Yields(c, f, k) \in Seq(Bytes) /\ (k = 0 => Yields(c, f, k) = <<>>)
<1> DEFINE q == [i \in 1..k |-> Yield(Article(c, f)[i], f)]
<1>1. q \in Seq(Seq(Bytes)) /\ Len(q) = k /\ Yields(c, f, k) = FlattenSeq(q)
  BY YieldsParts
<1> HIDE DEF q
<1>2. FlattenSeq(q) \in Seq(Bytes) /\ (Len(q) = 0 => FlattenSeq(q) = <<>>)
  BY <1>1, FlattenType
<1>3. QED BY <1>1, <1>2

LEMMA YieldsAppends ==
  ASSUME NEW c \in Seq(Bytes), c # <<>>, NEW f \in {"single", "part", "bare", "text"},
         NEW k \in Nat, k < Len(Article(c, f))
  PROVE  Joins(Yields(c, f, k + 1), Yields(c, f, k), Yield(Article(c, f)[k + 1], f))
<1> DEFINE a == Article(c, f)
           m == k + 1
           q == [i \in 1..k |-> Yield(a[i], f)]
           r == [i \in 1..m |-> Yield(a[i], f)]
<1>0. Len(a) \in Nat
  BY ArticleType
<1>1. k \in 0..Len(a) /\ m \in 0..Len(a) /\ k \in Nat /\ m \in Nat
  BY <1>0
<1>2. q \in Seq(Seq(Bytes)) /\ Len(q) = k /\ Yields(c, f, k) = FlattenSeq(q)
  BY <1>1, YieldsParts
<1>3. r \in Seq(Seq(Bytes)) /\ Len(r) = m /\ Yields(c, f, m) = FlattenSeq(r)
  <2> HIDE DEF m
  <2>1. QED BY <1>1, YieldsParts
<1>4. Agree(q, r, k) /\ r[m] = Yield(a[m], f)
  BY DEF Agree
<1>5. m = k + 1
  OBVIOUS
<1> HIDE DEF m, q, r, a
<1>6. Joins(FlattenSeq(r), FlattenSeq(q), r[m])
  BY ONLY <1>1, <1>2, <1>3, <1>4, <1>5, FlattenJoins
<1>7. QED BY <1>2, <1>3, <1>4, <1>5, <1>6 DEF a

Starts(s, t) == Len(s) <= Len(t) /\ \A i \in 1..Len(s) : s[i] = t[i]

LEMMA StartsPrefix ==
  ASSUME NEW s \in Seq(Bytes), NEW t \in Seq(Bytes), Starts(s, t)
  PROVE  IsPrefix(s, t)
<1>1. Len(s) \in Nat /\ Len(t) \in Nat /\ Len(s) <= Len(t) /\ \A i \in 1..Len(s) : s[i] = t[i]
  BY LenProperties DEF Starts
<1>2. \A i \in 1..Len(s) : s[i] \in Bytes /\ t[i] \in Bytes
  BY <1>1, ElementOfSeq
<1> DEFINE n == Len(s)
           x == SubSeq(s, 1, n)
           y == SubSeq(t, 1, n)
<1>3. /\ x \in Seq(Bytes) /\ Len(x) = n /\ \A i \in 1..n : x[i] = s[i]
      /\ y \in Seq(Bytes) /\ Len(y) = n /\ \A i \in 1..n : y[i] = t[i]
  BY <1>1, <1>2, SubSeqProperties
<1>4. x = y
  <2> HIDE DEF n, x, y
  <2>1. \A i \in 1..n : x[i] = y[i]
    BY <1>1, <1>3 DEF n
  <2>2. QED BY <1>3, <2>1, SeqEqual
<1>5. QED BY <1>1, <1>4 DEF IsPrefix

LEMMA StartsLonger ==
  ASSUME NEW s \in Seq(Bytes), NEW t \in Seq(Bytes), NEW u \in Seq(Bytes), NEW v \in Seq(Bytes),
         Starts(s, t), Joins(v, t, u)
  PROVE  Starts(s, v)
<1>1. /\ Len(t \o u) = Len(t) + Len(u)
      /\ \A i \in 1..Len(t) + Len(u) : (t \o u)[i] = IF i <= Len(t) THEN t[i] ELSE u[i - Len(t)]
  BY ConcatProperties
<1>2. Len(v) = Len(t) + Len(u) /\ \A i \in 1..Len(t) : v[i] = t[i]
  <2>1. v = t \o u
    BY DEF Joins
  <2>2. QED BY <1>1, <2>1, LenProperties
<1>3. Len(s) \in Nat /\ Len(t) \in Nat /\ Len(u) \in Nat
  BY LenProperties
<1>4. QED BY <1>2, <1>3 DEF Starts

LEMMA YieldsStarts ==
  ASSUME NEW c \in Seq(Bytes), c # <<>>, NEW f \in {"single", "part", "bare", "text"},
         NEW k \in 0..Len(Article(c, f))
  PROVE  Starts(Yields(c, f, k), Yields(c, f, Len(Article(c, f))))
<1> DEFINE a == Article(c, f)
           Y(j) == Yields(c, f, j)
           T == {j \in Nat : k + j <= Len(a) => Starts(Y(k), Y(k + j))}
<1>1. a \in Seq(Lines) /\ Len(a) \in Nat
  BY ArticleType
<1>2. k \in Nat /\ k <= Len(a)
  BY <1>1
<1>3. \A j \in 0..Len(a) : Y(j) \in Seq(Bytes)
  BY YieldsType
<1>4. \A j \in Nat : j < Len(a) => Joins(Y(j + 1), Y(j), Yield(a[j + 1], f))
  BY YieldsAppends
<1>5. \A j \in 1..Len(a) : Yield(a[j], f) \in Seq(Bytes)
  BY <1>1, ElementOfSeq, YieldType
<1> HIDE DEF a, Y
<1>6. 0 \in T
  <2>1. Starts(Y(k), Y(k))
    BY <1>2, <1>3, LenProperties DEF Starts
  <2>2. k + 0 = k
    BY <1>2
  <2>3. QED BY <2>1, <2>2
<1>7. ASSUME NEW j \in T PROVE j + 1 \in T
  <2> SUFFICES ASSUME k + (j + 1) <= Len(a) PROVE Starts(Y(k), Y(k + (j + 1)))
    OBVIOUS
  <2> DEFINE n == k + j
  <2>1. /\ n \in Nat /\ n < Len(a) /\ n \in 0..Len(a) /\ n + 1 \in 0..Len(a) /\ n + 1 \in 1..Len(a)
        /\ k + (j + 1) = n + 1
    BY <1>1, <1>2
  <2>2. Starts(Y(k), Y(n))
    BY <1>1, <1>2
  <2> HIDE DEF n
  <2>3. Joins(Y(n + 1), Y(n), Yield(a[n + 1], f))
    BY <1>4, <2>1
  <2>4. Starts(Y(k), Y(n + 1))
    BY <1>2, <1>3, <1>5, <2>1, <2>2, <2>3, StartsLonger
  <2>5. QED BY <2>1, <2>4
<1>8. T = Nat
  <2> HIDE DEF T
  <2>1. T \in SUBSET Nat
    BY DEF T
  <2>2. QED BY <1>6, <1>7, <2>1, Induction
<1>9. Len(a) - k \in T /\ k + (Len(a) - k) = Len(a)
  <2> HIDE DEF T
  <2>1. QED BY <1>1, <1>2, <1>8
<1>10. Starts(Y(k), Y(Len(a)))
  BY <1>1, <1>9
<1>11. QED BY <1>10 DEF a, Y

(* How much of the content the first k lines of a yEnc article carry.      *)
Covered(c, f, k) ==
  IF k <= Lead(f) THEN 0
  ELSE IF k <= Lead(f) + NumLines(c) THEN EndOf(c, k - Lead(f)) ELSE Len(c)

LEMMA YieldEncoded ==
  ASSUME NEW c \in Seq(Bytes), c # <<>>, NEW f \in {"single", "part", "bare"},
         NEW k \in 1..Lead(f) + NumLines(c) + 1
  PROVE  Yield(Article(c, f)[k], f) =
           IF k \in Lead(f) + 1..Lead(f) + NumLines(c) THEN Piece(c, k - Lead(f)) ELSE <<>>
<1> DEFINE h == Lead(f)
           m == NumLines(c)
           a == Article(c, f)
<1>1. /\ m \in Nat \ {0}
      /\ \E n \in Nat : n >= Len(c) /\ a[1] = Begin(n)
      /\ f = "part" => a[2] = Part
      /\ \A i \in h + 1..h + m : a[i] = Data(Encodes(Piece(c, i - h)))
      /\ a[h + m + 1] = Trailer(c, f)
  BY ArticleShape DEF Shape
<1>2. \A i \in 1..m : Piece(c, i) \in Seq(Bytes)
  BY PieceJoins
<1>3. h \in {1, 2} /\ (h = 2 => f = "part")
  BY DEF Lead
<1> HIDE DEF h, m, a
<1>4. CASE k \in h + 1..h + m
  <2>1. a[k] = Data(Encodes(Piece(c, k - h)))
    BY <1>1, <1>4
  <2>2. k - h \in 1..m
    BY <1>1, <1>3, <1>4
  <2>3. Decoded(Encodes(Piece(c, k - h))) = Piece(c, k - h)
    BY <1>2, <2>2, EncodingUndone DEF Undone
  <2>4. Yield(a[k], f) = Decoded(Encodes(Piece(c, k - h)))
    BY <2>1, LineKinds DEF Yield
  <2>5. QED BY <1>4, <2>3, <2>4, Zenon DEF h, m, a
<1>5. CASE k \notin h + 1..h + m
  <2>1. k = 1 \/ (k = 2 /\ h = 2) \/ k = h + m + 1
    BY <1>1, <1>3, <1>5 DEF h, m
  <2>2. a[k].kind # "data"
    <3>1. a[h + m + 1].kind = "=yend"
      BY <1>1, TrailerIs
    <3>2. QED BY <1>1, <1>3, <2>1, <3>1, LineKinds
  <2>3. Yield(a[k], f) = <<>>
    BY <2>2 DEF Yield
  <2>4. QED BY <1>5, <2>3, Zenon DEF h, m, a
<1>6. QED BY <1>4, <1>5

LEMMA YieldsCovered ==
  ASSUME NEW c \in Seq(Bytes), c # <<>>, NEW f \in {"single", "part", "bare"}, NEW k \in 0..Len(Article(c, f))
  PROVE  Yields(c, f, k) = SubSeq(c, 1, Covered(c, f, k))
<1> DEFINE h == Lead(f)
           m == NumLines(c)
           a == Article(c, f)
           Y(j) == Yields(c, f, j)
           C(j) == Covered(c, f, j)
           T == {j \in Nat : j <= Len(a) => Y(j) = SubSeq(c, 1, C(j))}
<1>1. m \in Nat \ {0} /\ Len(a) = h + m + 1
  BY ArticleShape DEF Shape
<1>2. /\ EndOf(c, 0) = 0 /\ EndOf(c, m) = Len(c)
      /\ \A i \in 1..m : Joins(SubSeq(c, 1, EndOf(c, i)), SubSeq(c, 1, EndOf(c, i - 1)), Piece(c, i))
  BY PieceJoins
<1>3. h \in {1, 2}
  BY DEF Lead
<1>4. \A j : C(j) = IF j <= h THEN 0 ELSE IF j <= h + m THEN EndOf(c, j - h) ELSE Len(c)
  BY DEF Covered
<1>5. \A j \in 0..Len(a) : Y(j) \in Seq(Bytes)
  BY YieldsType
<1>6. \A j \in Nat : j < Len(a) => Joins(Y(j + 1), Y(j), Yield(a[j + 1], f))
  BY YieldsAppends
<1>7. \A j \in 1..h + m + 1 : Yield(a[j], f) = IF j \in h + 1..h + m THEN Piece(c, j - h) ELSE <<>>
  BY YieldEncoded
<1>8. Y(0) = <<>>
  <2>1. 0 \in 0..Len(a)
    BY <1>1, <1>3
  <2>2. QED BY <2>1, YieldsType
<1> HIDE DEF h, m, a, Y, C
<1>9. 0 \in T
  <2>1. C(0) = 0
    BY <1>3, <1>4
  <2>2. SubSeq(c, 1, 0) = <<>>
    BY SubSeqEmpty
  <2>3. QED BY <1>8, <2>1, <2>2
<1>10. ASSUME NEW j \in T PROVE j + 1 \in T
  <2> SUFFICES ASSUME j + 1 <= Len(a) PROVE Y(j + 1) = SubSeq(c, 1, C(j + 1))
    OBVIOUS
  <2>1. /\ j \in Nat /\ j < Len(a) /\ j \in 0..Len(a) /\ j + 1 \in 1..h + m + 1
        /\ Y(j) = SubSeq(c, 1, C(j))
    BY <1>1, <1>3
  <2>2. Joins(Y(j + 1), Y(j), Yield(a[j + 1], f))
    BY <1>6, <2>1
  <2>3. CASE j + 1 \in h + 1..h + m
    <3> DEFINE i == j + 1 - h
               x == j + 1
    <3>1. x \in h + 1..h + m /\ x \in Int /\ x \in 1..h + m + 1 /\ i = x - h /\ x = j + 1
      BY <1>1, <1>3, <2>1, <2>3
    <3> HIDE DEF i, x
    <3>2. i \in 1..m /\ i - 1 = j - h
      BY <1>1, <1>3, <2>1, <3>1
    <3>3. C(x) = EndOf(c, i)
      <4>1. C(x) = IF x <= h THEN 0 ELSE IF x <= h + m THEN EndOf(c, x - h) ELSE Len(c)
        BY <1>4
      <4>2. ~(x <= h) /\ x <= h + m
        BY <1>1, <1>3, <3>1
      <4>3. QED BY <3>1, <4>1, <4>2
    <3>4. C(j) = EndOf(c, i - 1)
      <4>1. CASE j <= h
        <5>1. C(j) = 0 /\ i - 1 = 0
          BY <1>3, <1>4, <2>1, <3>1, <4>1
        <5>2. QED BY <1>2, <5>1
      <4>2. CASE ~(j <= h)
        <5>1. j <= h + m
          BY <1>1, <1>3, <2>1, <3>1
        <5>2. C(j) = EndOf(c, j - h)
          BY <1>4, <4>2, <5>1
        <5>3. QED BY <3>2, <5>2
      <4>3. QED BY <4>1, <4>2
    <3>5. Yield(a[x], f) = Piece(c, i)
      BY <1>7, <3>1
    <3>6. Joins(SubSeq(c, 1, EndOf(c, i)), SubSeq(c, 1, EndOf(c, i - 1)), Piece(c, i))
      BY <1>2, <3>2
    <3>7. QED BY <2>1, <2>2, <3>1, <3>3, <3>4, <3>5, <3>6, Zenon DEF Joins
  <2>4. CASE j + 1 \notin h + 1..h + m
    <3>1. Yield(a[j + 1], f) = <<>>
      BY <1>7, <2>1, <2>4
    <3>2. Y(j + 1) = Y(j)
      <4>1. Y(j + 1) = Y(j) \o <<>>
        BY <2>2, <3>1, Zenon DEF Joins
      <4>2. QED BY <1>5, <2>1, <4>1, ConcatEmptySeq
    <3>3. C(j + 1) = C(j)
      <4>1. CASE j + 1 <= h
        BY <1>3, <1>4, <2>1, <4>1
      <4>2. CASE j + 1 = h + m + 1
        <5>1. j = h + m /\ j - h = m
          BY <1>1, <1>3, <2>1, <4>2
        <5>2. C(j) = EndOf(c, m)
          BY <1>1, <1>3, <1>4, <5>1
        <5>3. C(j + 1) = Len(c)
          BY <1>1, <1>3, <1>4, <4>2
        <5>4. QED BY <1>2, <5>2, <5>3
      <4>3. QED BY <1>1, <1>3, <2>1, <2>4, <4>1, <4>2
    <3>4. QED BY <2>1, <3>2, <3>3
  <2>5. QED BY <2>3, <2>4
<1>11. T = Nat
  <2> HIDE DEF T
  <2>1. T \in SUBSET Nat
    BY DEF T
  <2>2. QED BY <1>9, <1>10, <2>1, Induction
<1>12. k \in Nat /\ k <= Len(a)
  BY <1>1, <1>3 DEF a
<1>13. Y(k) = SubSeq(c, 1, C(k))
  BY <1>11, <1>12
<1>14. QED BY <1>13 DEF Y, C

(* All of it before the trailer.                                           *)
LEMMA YieldsContent ==
  ASSUME NEW c \in Seq(Bytes), c # <<>>, NEW f \in {"single", "part", "bare"}
  PROVE  /\ Yields(c, f, Len(Article(c, f))) = c
         /\ Yields(c, f, Len(Article(c, f)) - 1) = c
<1> DEFINE n == Len(Article(c, f))
<1>1. NumLines(c) \in Nat \ {0} /\ n = Lead(f) + NumLines(c) + 1
  BY ArticleShape DEF Shape
<1>2. Lead(f) \in {1, 2}
  BY DEF Lead
<1>3. n \in 0..n /\ n - 1 \in 0..n
  BY <1>1, <1>2
<1>4. Covered(c, f, n) = Len(c)
  BY <1>1, <1>2 DEF Covered
<1>5. Covered(c, f, n - 1) = Len(c)
  <2>1. n - 1 - Lead(f) = NumLines(c) /\ ~(n - 1 <= Lead(f)) /\ n - 1 <= Lead(f) + NumLines(c)
    BY <1>1, <1>2
  <2>2. Covered(c, f, n - 1) = EndOf(c, NumLines(c))
    BY <2>1, Zenon DEF Covered
  <2>3. QED BY <2>2, PieceJoins
<1>6. SubSeq(c, 1, Len(c)) = c
  BY SubSeqFull
<1> DEFINE p == n - 1
<1> HIDE DEF n, p
<1>7. Yields(c, f, n) = c
  BY <1>3, <1>4, <1>6, YieldsCovered DEF n
<1>8. Yields(c, f, p) = c
  BY <1>3, <1>5, <1>6, YieldsCovered DEF n, p
<1>9. QED BY <1>7, <1>8 DEF n, p

LEMMA YieldsPosted ==
  ASSUME content \in Seq(Bytes), content # <<>>, form \in {"single", "part", "bare", "text"}
  PROVE  Posted \in Seq(Bytes) /\ Yields(content, form, Len(Article(content, form))) = Posted
<1> DEFINE a == Article(content, form)
<1>1. a \in Seq(Lines) /\ Len(a) \in 0..Len(a)
  BY ArticleType
<1>2. Yields(content, form, Len(a)) \in Seq(Bytes)
  BY <1>1, YieldsType
<1>3. CASE form # "text"
  <2>1. Yields(content, form, Len(a)) = content
    BY <1>3, YieldsContent
  <2>2. QED BY <1>2, <1>3, <2>1 DEF Posted
<1>4. CASE form = "text"
  <2>1. \A i : Yield(a[i], form) = a[i].bytes \o CRLF
    BY <1>4, Zenon DEF Yield
  <2>2. DOMAIN a = 1..Len(a)
    BY <1>1, LenProperties
  <2>3. [i \in 1..Len(a) |-> Yield(a[i], form)] = [i \in DOMAIN a |-> a[i].bytes \o CRLF]
    <3> HIDE DEF a
    <3>1. QED BY <2>1, <2>2, Zenon
  <2>4. Posted = FlattenSeq([i \in DOMAIN a |-> a[i].bytes \o CRLF])
    BY <1>4, Zenon DEF Posted
  <2>5. Yields(content, form, Len(a)) = FlattenSeq([i \in 1..Len(a) |-> Yield(a[i], form)])
    BY Zenon DEF Yields
  <2>6. Posted = Yields(content, form, Len(a))
    BY <2>3, <2>4, <2>5, Zenon
  <2>7. QED BY <1>2, <2>6
<1>5. QED BY <1>3, <1>4

-----------------------------------------------------------------------------
(* The dots of the wire.                                                   *)

LEMMA UnstuffsBytes ==
  ASSUME NEW s \in Seq(Bytes)
  PROVE  /\ <<Dot>> \o s \in Seq(Bytes)
         /\ s # <<>> => <<Dot>> \o s # <<Dot>>
         /\ s # <<>> /\ s[1] = Dot => Unstuffed(<<Dot>> \o s) = s
         /\ ~(s # <<>> /\ s[1] = Dot) => Unstuffed(s) = s /\ s # <<Dot>>
<1> DEFINE d == <<Dot>>
           u == d \o s
<1>1. d \in Seq(Bytes) /\ Len(d) = 1 /\ d[1] = Dot
  BY DEF Dot, Bytes
<1>2. /\ u \in Seq(Bytes) /\ Len(u) = 1 + Len(s) /\ Len(s) \in Nat
      /\ \A i \in 1..1 + Len(s) : u[i] = IF i <= 1 THEN d[i] ELSE s[i - 1]
  <2>1. Len(s) \in Nat /\ s \in Seq(Bytes)
    BY LenProperties
  <2> HIDE DEF d
  <2>2. /\ d \o s \in Seq(Bytes) /\ Len(d \o s) = Len(d) + Len(s)
        /\ \A i \in 1..Len(d) + Len(s) : (d \o s)[i] = IF i <= Len(d) THEN d[i] ELSE s[i - Len(d)]
    BY ONLY <1>1, <2>1, ConcatProperties
  <2>3. QED BY ONLY <1>1, <2>1, <2>2 DEF u
<1>3. s # <<>> => Len(s) >= 1
  BY EmptySeq
<1> HIDE DEF u
<1>4. s # <<>> => u # d
  BY <1>1, <1>2, <1>3
<1>5. ASSUME s # <<>>, s[1] = Dot PROVE Unstuffed(u) = s
  <2>1. u[1] = Dot /\ u[2] = Dot /\ Len(u) > 1
    BY <1>1, <1>2, <1>3, <1>5
  <2>2. u # <<>>
    BY <2>1, EmptySeq
  <2>3. Tail(u) \in Seq(Bytes) /\ Len(Tail(u)) = Len(s) /\ \A i \in 1..Len(s) : Tail(u)[i] = u[i + 1]
    BY <1>2, <2>2, HeadTailProperties
  <2>4. \A i \in 1..Len(s) : Tail(u)[i] = s[i]
    <3> TAKE i \in 1..Len(s)
    <3>1. i + 1 \in 1..1 + Len(s) /\ ~(i + 1 <= 1) /\ i + 1 - 1 = i
      BY <1>2
    <3>2. QED BY <1>2, <2>3, <3>1
  <2>5. Tail(u) = s
    BY <2>3, <2>4, SeqEqual
  <2>6. QED BY <2>1, <2>5 DEF Unstuffed
<1>6. ASSUME ~(s # <<>> /\ s[1] = Dot) PROVE Unstuffed(s) = s /\ s # d
  <2>1. ~(Len(s) > 1 /\ s[1] = Dot)
    BY <1>6, EmptySeq
  <2>2. s # d
    BY <1>1, <1>6, EmptySeq
  <2>3. QED BY <2>1, <2>2 DEF Unstuffed
<1>7. QED BY <1>2, <1>4, <1>5, <1>6 DEF u

(* The line ends at the end of a line.                                     *)
Ends(s) == s # <<>> /\ s[Len(s)] \in LineEnds

LEMMA GreatestIndex ==
  ASSUME NEW n \in Nat, NEW I \in SUBSET (1..n), I # {}
  PROVE  Max(I) \in I /\ \A i \in I : i <= Max(I)
<1> DEFINE T == {n - i : i \in I}
<1>1. PICK t \in T : \A u \in T : t <= u
  <2>1. T \in SUBSET Nat /\ T # {}
    <3>1. \A i \in I : n - i \in Nat
      OBVIOUS
    <3>2. PICK i \in I : TRUE
      OBVIOUS
    <3>3. QED BY <3>1, <3>2
  <2> HIDE DEF T
  <2>2. QED BY <2>1, LeastNumber
<1>2. PICK m \in I : t = n - m
  BY <1>1
<1>3. \A i \in I : m >= i
  <2> TAKE i \in I
  <2>1. n - m <= n - i
    BY <1>1, <1>2
  <2>2. QED BY <2>1
<1>4. Max(I) \in I /\ \A i \in I : Max(I) >= i
  BY <1>3, Zenon DEF Max
<1>5. QED BY <1>4

LEMMA StripsEnds ==
  ASSUME NEW s \in Seq(Bytes)
  PROVE  Stripped(s) \in Seq(Bytes) /\ (~Ends(s) => Stripped(s) = s)
<1> DEFINE I == {i \in 1..Len(s) : s[i] \notin LineEnds}
           last == IF I # {} THEN Max(I) ELSE 0
<1>1. Len(s) \in Nat
  BY LenProperties
<1>2. Stripped(s) = SubSeq(s, 1, last)
  BY Zenon DEF Stripped, SelectLastInSeq
<1>3. I # {} => Max(I) \in I /\ \A i \in I : i <= Max(I)
  <2>1. I \in SUBSET (1..Len(s))
    OBVIOUS
  <2> HIDE DEF I
  <2>2. QED BY <1>1, <2>1, GreatestIndex
<1>4. last \in 0..Len(s)
  BY <1>1, <1>3
<1>5. SubSeq(s, 1, last) \in Seq(Bytes)
  <2> HIDE DEF last
  <2>1. \A i \in 1..last : s[i] \in Bytes
    BY <1>1, <1>4, ElementOfSeq
  <2>2. QED BY <1>4, <2>1, SubSeqProperties
<1>6. ASSUME ~Ends(s) PROVE last = Len(s)
  <2>1. CASE s = <<>>
    BY <1>4, <2>1, EmptySeq
  <2>2. CASE s # <<>>
    <3>1. Len(s) \in 1..Len(s) /\ s[Len(s)] \notin LineEnds
      BY <1>1, <1>6, <2>2, EmptySeq DEF Ends
    <3>2. Len(s) \in I
      BY <3>1
    <3> HIDE DEF I
    <3>3. Len(s) <= Max(I) /\ last = Max(I)
      BY <1>3, <3>2
    <3>4. QED BY <1>1, <1>4, <3>3
  <2>3. QED BY <2>1, <2>2
<1> HIDE DEF last
<1>7. ~Ends(s) => Stripped(s) = s
  BY <1>2, <1>6, SubSeqFull
<1>8. QED BY <1>2, <1>5, <1>7

(* The wire's line, and what the client makes of it.                       *)
Received(line) == [line EXCEPT !.bytes = Unstuffed(Stripped(@))]

LEMMA DotIsNoEnd == Stripped(<<Dot>>) = <<Dot>>
<1>1. <<Dot>> \in Seq(Bytes) /\ ~Ends(<<Dot>>)
  BY DEF Dot, Bytes, Ends, LineEnds
<1>2. QED BY <1>1, StripsEnds

LEMMA Stuffs ==
  ASSUME NEW line \in Lines
  PROVE  /\ Stuffed(line) \in Lines
         /\ Stuffed(line).kind = line.kind /\ Stuffed(line).size = line.size
         /\ Checksum(Stuffed(line)) = Checksum(line)
<1> DEFINE u == <<Dot>> \o line.bytes
<1>1. u \in Seq(Bytes)
  BY UnstuffsBytes DEF Lines
<1>2. Stuffed(line) = line \/ Stuffed(line) = [line EXCEPT !.bytes = u]
  BY DEF Stuffed
<1> HIDE DEF u
<1>3. QED BY <1>1, <1>2 DEF Lines, Checksum

LEMMA Unstuffs ==
  ASSUME NEW line \in Lines, ~Ends(line.bytes)
  PROVE  /\ Stripped(Stuffed(line).bytes) # <<Dot>>
         /\ Received(Stuffed(line)) = line
<1> DEFINE s == line.bytes
<1>1. s \in Seq(Bytes)
  BY DEF Lines
<1>2. CASE s # <<>> /\ s[1] = Dot
  <2> DEFINE u == <<Dot>> \o s
  <2>1. Stuffed(line) = [line EXCEPT !.bytes = u]
    BY <1>2 DEF Stuffed
  <2>2. u \in Seq(Bytes) /\ u # <<Dot>> /\ Unstuffed(u) = s
    BY <1>1, <1>2, UnstuffsBytes
  <2>3. ~Ends(u)
    <3>1. <<Dot>> \in Seq(Bytes) /\ Len(<<Dot>>) = 1
      BY DEF Dot, Bytes
    <3>2. Len(s) \in Nat \ {0}
      BY <1>1, <1>2, EmptySeq
    <3>3. Len(u) = 1 + Len(s) /\ u[1 + Len(s)] = s[Len(s)]
      BY <1>1, <3>1, <3>2, ConcatProperties
    <3>4. QED BY <1>2, <3>3 DEF Ends
  <2>4. Stripped(u) = u
    BY <2>2, <2>3, StripsEnds
  <2> HIDE DEF u
  <2>5. Stuffed(line).bytes = u
    BY <2>1 DEF Lines
  <2>6. Received(Stuffed(line)) = [Stuffed(line) EXCEPT !.bytes = s]
    BY <2>2, <2>4, <2>5, Zenon DEF Received
  <2>7. Received(Stuffed(line)) = line
    BY <2>1, <2>6 DEF Lines
  <2>8. QED BY <2>2, <2>4, <2>5, <2>7
<1>3. CASE ~(s # <<>> /\ s[1] = Dot)
  <2>1. Stuffed(line) = line
    BY <1>3 DEF Stuffed
  <2>2. s # <<Dot>> /\ Unstuffed(s) = s
    BY <1>1, <1>3, UnstuffsBytes
  <2>3. Stripped(s) = s
    BY <1>1, StripsEnds
  <2>4. QED BY <2>1, <2>2, <2>3 DEF Lines, Received
<1>4. QED BY <1>2, <1>3

LEMMA SentIs ==
  ASSUME NEW b \in Seq(Lines)
  PROVE  /\ Sent(b) \in Seq(Lines) /\ Len(Sent(b)) = Len(b) + 1
         /\ \A i \in 1..Len(b) : Sent(b)[i] = Stuffed(b[i])
         /\ Sent(b)[Len(b) + 1] = Data(<<Dot>>) /\ Data(<<Dot>>).bytes = <<Dot>>
<1> DEFINE p == [i \in DOMAIN b |-> Stuffed(b[i])]
           q == <<Data(<<Dot>>)>>
<1>1. Len(b) \in Nat /\ DOMAIN b = 1..Len(b)
  BY LenProperties
<1>2. \A i \in 1..Len(b) : Stuffed(b[i]) \in Lines
  BY ElementOfSeq, Stuffs
<1>3. p \in Seq(Lines) /\ Len(p) = Len(b) /\ \A i \in 1..Len(b) : p[i] = Stuffed(b[i])
  BY <1>1, <1>2
<1>4. q \in Seq(Lines) /\ Len(q) = 1 /\ q[1] = Data(<<Dot>>)
  <2>1. <<Dot>> \in Seq(Bytes)
    BY DEF Dot, Bytes
  <2>2. Data(<<Dot>>) \in Lines
    BY <2>1, LineTypes
  <2>3. QED BY <2>2
<1>5. Sent(b) = p \o q
  BY Zenon DEF Sent
<1> HIDE DEF p, q
<1>6. /\ p \o q \in Seq(Lines) /\ Len(p \o q) = Len(b) + 1
      /\ \A i \in 1..Len(b) + 1 : (p \o q)[i] = IF i <= Len(b) THEN p[i] ELSE q[i - Len(b)]
  <2>1. /\ p \o q \in Seq(Lines) /\ Len(p \o q) = Len(p) + Len(q)
        /\ \A i \in 1..Len(p) + Len(q) : (p \o q)[i] = IF i <= Len(p) THEN p[i] ELSE q[i - Len(p)]
    BY ONLY <1>3, <1>4, ConcatProperties, ZenonT(60)
  <2>2. QED BY ONLY <1>1, <1>3, <1>4, <2>1
<1>7. /\ \A i \in 1..Len(b) : (p \o q)[i] = Stuffed(b[i])
      /\ (p \o q)[Len(b) + 1] = Data(<<Dot>>)
  BY <1>1, <1>3, <1>4, <1>6
<1>8. QED BY <1>5, <1>6, <1>7, LineKinds, Zenon

-----------------------------------------------------------------------------
(* The output.                                                             *)

LEMMA FlushKeeps ==
  ASSUME handed \in Seq(Bytes), NEW s \in Seq(Bytes), NEW force \in BOOLEAN, Flushes(s, force)
  PROVE  /\ handed' \in Seq(Bytes) /\ output' \in Seq(Bytes)
         /\ Joins(handed' \o output', handed, s)
         /\ force => output' = <<>>
<1> DEFINE n == IF force THEN Len(s) ELSE Len(s) - (Len(s) % OutputChunk)
           out == SubSeq(s, 1, n)
           rest == SubSeq(s, n + 1, Len(s))
<1>1. Len(s) \in Nat /\ OutputChunk \in Nat \ {0}
  BY LenProperties, ConstantsAssumption
<1>2. n \in Nat /\ n <= Len(s)
  <2>1. Len(s) % OutputChunk >= 0 /\ Len(s) % OutputChunk <= Len(s) /\ Len(s) % OutputChunk \in Int
    BY <1>1
  <2>2. QED BY <1>1, <2>1
<1>3. out = IF force THEN s ELSE WholeChunks(s)
  <2>1. SubSeq(s, 1, Len(s)) = s
    BY SubSeqFull
  <2>2. QED BY <2>1, Zenon DEF WholeChunks
<1>4. force => n = Len(s)
  OBVIOUS
<1> HIDE DEF n
<1>5. /\ out \in Seq(Bytes) /\ Len(out) = n
      /\ rest \in Seq(Bytes)
  <2>1. \A i \in 1..Len(s) : s[i] \in Bytes
    BY ElementOfSeq
  <2>2. out \in Seq(Bytes) /\ Len(out) = IF 1 <= n THEN n - 1 + 1 ELSE 0
    BY <1>1, <1>2, <2>1, SubSeqProperties
  <2>3. rest \in Seq(Bytes)
    BY <1>1, <1>2, <2>1, SubSeqProperties
  <2>4. QED BY <1>2, <2>2, <2>3
<1>6. out \o rest = s
  <2>1. 1 \in 1..Len(s) + 1 /\ n \in 1 - 1..Len(s) /\ Len(s) \in n..Len(s)
    BY <1>1, <1>2
  <2>2. out \o rest = SubSeq(s, 1, Len(s))
    BY <2>1, ConcatAdjacentSubSeq
  <2>3. QED BY <2>2, SubSeqFull
<1>7. force => rest = <<>>
  BY <1>1, <1>4, SubSeqEmpty
<1> HIDE DEF out
<1>8. handed' = handed \o out /\ output' = SubSeq(s, Len(out) + 1, Len(s))
  BY <1>3, Zenon DEF Flushes
<1>9. output' = rest
  BY <1>5, <1>8
<1> HIDE DEF rest
<1>10. (handed \o out) \o rest = handed \o (out \o rest) /\ handed \o out \in Seq(Bytes)
  BY <1>5, ConcatAssociative, ConcatProperties, SMTT(60)
<1>11. QED BY <1>5, <1>6, <1>7, <1>8, <1>9, <1>10, Zenon DEF Joins

-----------------------------------------------------------------------------
(* The article after one damage: its lines say what the poster's do in     *)
(* their trailers, or it is all there but for the size in the trailer.     *)
Good ==
  {l \in Lines : l.kind = "=yend" => form # "text" /\ l.size = Len(content) /\ Checksum(l) = CrcGiven(content, form)}

IsPosted ==
  /\ content \in Seq(Bytes) /\ content # <<>> /\ form \in {"single", "part", "bare", "text"}
  /\ MayBePosted(content, form)

LEMMA SubSequence ==
  ASSUME NEW S, NEW s \in Seq(S), NEW i \in Int, NEW j \in Int, i >= 1, j <= Len(s)
  PROVE  SubSeq(s, i, j) \in Seq(S)
<1>1. Len(s) \in Nat
  BY LenProperties
<1>2. \A k \in i..j : s[k] \in S
  BY <1>1, ElementOfSeq
<1>3. QED BY <1>2, SubSeqProperties

LEMMA ArticleGood ==
  ASSUME IsPosted
  PROVE  LET a == Article(content, form)
         IN /\ a \in Seq(Lines) /\ a \in Seq(Good) /\ Len(a) \in Nat \ {0}
            /\ \A i \in 1..Len(a) : a[i].kind = "=yend" => i = Len(a)
<1> DEFINE a == Article(content, form)
<1>1. a \in Seq(Lines) /\ Len(a) \in Nat \ {0}
  BY ArticleType DEF IsPosted
<1>2. \A i \in 1..Len(a) : a[i] \in Lines
  BY <1>1, ElementOfSeq
<1>3. ASSUME NEW i \in 1..Len(a), a[i].kind = "=yend"
      PROVE  form # "text" /\ i = Len(a) /\ a[i].size = Len(content) /\ Checksum(a[i]) = CrcGiven(content, form)
  <2>1. CASE form = "text"
    <3>1. Len(a) = NumLines(content) /\ \A j \in 1..NumLines(content) : a[j] = Data(Piece(content, j))
      BY <2>1, TextShape DEF IsPosted
    <3> HIDE DEF a
    <3>2. a[i] = Data(Piece(content, i))
      BY <3>1
    <3>3. a[i].kind = "data"
      BY <3>2, LineKinds
    <3>4. QED BY <1>3, <3>3
  <2>2. CASE form # "text"
    <3> DEFINE h == Lead(form)
               m == NumLines(content)
    <3>1. /\ m \in Nat \ {0} /\ Len(a) = h + m + 1
          /\ \E n \in Nat : n >= Len(content) /\ a[1] = Begin(n)
          /\ form = "part" => a[2] = Part
          /\ \A j \in h + 1..h + m : a[j] = Data(Encodes(Piece(content, j - h)))
          /\ a[h + m + 1] = Trailer(content, form)
      BY <2>2, ArticleShape DEF IsPosted, Shape
    <3>2. h \in {1, 2} /\ (h = 2 => form = "part")
      BY DEF Lead
    <3> HIDE DEF a, h, m
    <3>3. i = 1 \/ (i = 2 /\ h = 2) \/ i \in h + 1..h + m \/ i = h + m + 1
      BY <3>1, <3>2
    <3>4. i \in h + 1..h + m => a[i].kind = "data"
      <4>1. i \in h + 1..h + m => a[i] = Data(Encodes(Piece(content, i - h)))
        BY <3>1
      <4>2. QED BY <4>1, LineKinds
    <3>5. i = h + m + 1
      BY <1>3, <3>1, <3>2, <3>3, <3>4, LineKinds
    <3>6. a[i] = Trailer(content, form)
      BY <3>1, <3>5
    <3>7. QED BY <2>2, <3>1, <3>5, <3>6, TrailerIs DEF IsPosted
  <2>3. QED BY <2>1, <2>2
<1>4. \A i \in 1..Len(a) : a[i] \in Good
  <2> HIDE DEF a
  <2>1. QED BY <1>2, <1>3 DEF Good
<1>5. a \in Seq(Good)
  <2>1. a \in [1..Len(a) -> Lines]
    BY <1>1, LenProperties
  <2> HIDE DEF a
  <2>2. a \in [1..Len(a) -> Good]
    BY <1>4, <2>1
  <2>3. QED BY <1>1, <2>2, SeqDef
<1>6. \A i \in 1..Len(a) : a[i].kind = "=yend" => i = Len(a)
  BY <1>3
<1>7. QED BY <1>1, <1>5, <1>6

LEMMA DamagedGood ==
  ASSUME IsPosted, NEW b \in Damaged(Article(content, form))
  PROVE  b \in Seq(Good) \/ \E n \in Int : b = Trailed(n)
<1> DEFINE a == Article(content, form)
           I == DOMAIN a
<1>1. /\ a \in Seq(Lines) /\ a \in Seq(Good) /\ Len(a) \in Nat \ {0}
      /\ \A i \in 1..Len(a) : a[i].kind = "=yend" => i = Len(a)
  BY ArticleGood
<1>2. I = 1..Len(a)
  BY <1>1, LenProperties
<1>3. \A i \in I : a[i] \in Good /\ a[i] \in Lines
  BY <1>1, <1>2, ElementOfSeq
<1>4. /\ \A i \in Int, j \in Int : i >= 1 /\ j <= Len(a) => SubSeq(a, i, j) \in Seq(Good)
      /\ \A s \in Seq(Good), t \in Seq(Good) : s \o t \in Seq(Good)
      /\ \A l \in Good : <<l>> \in Seq(Good)
  BY <1>1, SubSequence, ConcatProperties
<1>5. \/ \E i \in I : b = RemoveAt(a, i)
      \/ \E i \in I : b = InsertAt(a, i, a[i])
      \/ \E i \in I \cup {0} : b = SubSeq(a, 1, i)
      \/ \E i \in I \ {Len(a)} : b = [a EXCEPT ![i] = a[i + 1], ![i + 1] = a[i]]
      \/ \E i \in DataLines(a) :
           \E k \in DOMAIN a[i].bytes, x \in OtherBytes : b = [a EXCEPT ![i].bytes[k] = x]
      \/ \E i \in ControlLines(a), n \in {-1, 0, Len(content) + 1} : b = [a EXCEPT ![i].size = n]
      \/ b = <<Data(<<>>)>> \o a \/ b = a \o <<Data(<<>>)>>
  <2> DEFINE D1 == {RemoveAt(a, i) : i \in I}
             D2 == {InsertAt(a, i, a[i]) : i \in I}
             D3 == {SubSeq(a, 1, i) : i \in I \cup {0}}
             D4 == {[a EXCEPT ![i] = a[i + 1], ![i + 1] = a[i]] : i \in I \ {Len(a)}}
             D5 == {<<Data(<<>>)>> \o a, a \o <<Data(<<>>)>>}
  <2>0. b \in Damaged(a)
    OBVIOUS
  <2> HIDE DEF a
  <2>1. Damaged(a) = D1 \cup D2 \cup D3 \cup D4 \cup ByteChanged(a) \cup SizeChanged(a) \cup D5
    BY DEF Damaged
  <2>2. b \in D4 => \E i \in I \ {Len(a)} : b = [a EXCEPT ![i] = a[i + 1], ![i + 1] = a[i]]
    OBVIOUS
  <2>3. b \in ByteChanged(a) =>
          \E i \in DataLines(a) : \E k \in DOMAIN a[i].bytes, x \in OtherBytes : b = [a EXCEPT ![i].bytes[k] = x]
    BY SMT DEF ByteChanged
  <2>4. b \in SizeChanged(a) =>
          \E i \in ControlLines(a), n \in {-1, 0, Len(content) + 1} : b = [a EXCEPT ![i].size = n]
    BY SMT DEF SizeChanged
  <2>5. /\ b \in D1 => \E i \in I : b = RemoveAt(a, i)
        /\ b \in D2 => \E i \in I : b = InsertAt(a, i, a[i])
        /\ b \in D3 => \E i \in I \cup {0} : b = SubSeq(a, 1, i)
        /\ b \in D5 => b = <<Data(<<>>)>> \o a \/ b = a \o <<Data(<<>>)>>
    OBVIOUS
  <2> HIDE DEF D1, D2, D3, D4, D5, I
  <2>6. b \in D1 \/ b \in D2 \/ b \in D3 \/ b \in D4 \/ b \in ByteChanged(a) \/ b \in SizeChanged(a) \/ b \in D5
    BY ONLY <2>0, <2>1
  <2>7. QED BY <2>2, <2>3, <2>4, <2>5, <2>6, Zenon
<1> HIDE DEF a, I
<1>6. ASSUME NEW i \in I, b = RemoveAt(a, i) PROVE b \in Seq(Good)
  <2>1. i \in Int /\ i <= Len(a) /\ i - 1 <= Len(a) /\ i - 1 \in Int /\ i + 1 \in Int /\ i + 1 >= 1
    BY <1>1, <1>2
  <2>2. SubSeq(a, 1, i - 1) \in Seq(Good) /\ SubSeq(a, i + 1, Len(a)) \in Seq(Good)
    BY <1>1, <1>4, <2>1
  <2>3. QED BY <1>4, <1>6, <2>2 DEF RemoveAt
<1>7. ASSUME NEW i \in I, b = InsertAt(a, i, a[i]) PROVE b \in Seq(Good)
  <2>1. i \in Int /\ i >= 1 /\ i <= Len(a) /\ i - 1 <= Len(a) /\ i - 1 \in Int
    BY <1>1, <1>2
  <2>2. SubSeq(a, 1, i - 1) \in Seq(Good) /\ SubSeq(a, i, Len(a)) \in Seq(Good)
    BY <1>1, <1>4, <2>1
  <2>3. <<a[i]>> \in Seq(Good)
    BY <1>3, <1>4
  <2>4. SubSeq(a, 1, i - 1) \o <<a[i]>> \in Seq(Good)
    BY <1>4, <2>2, <2>3
  <2>5. QED BY <1>4, <1>7, <2>2, <2>4 DEF InsertAt
<1>8. ASSUME NEW i \in I \cup {0}, b = SubSeq(a, 1, i) PROVE b \in Seq(Good)
  <2>1. i \in Int /\ i <= Len(a)
    BY <1>1, <1>2
  <2>2. QED BY <1>4, <1>8, <2>1
<1>9. ASSUME NEW i \in I \ {Len(a)}, b = [a EXCEPT ![i] = a[i + 1], ![i + 1] = a[i]] PROVE b \in Seq(Good)
  <2>1. i \in 1..Len(a) /\ i + 1 \in 1..Len(a)
    BY <1>1, <1>2
  <2>2. a[i] \in Good /\ a[i + 1] \in Good
    BY <1>2, <1>3, <2>1
  <2> DEFINE d == [a EXCEPT ![i] = a[i + 1]]
  <2>3. d \in Seq(Good) /\ Len(d) = Len(a)
    BY <1>1, <2>1, <2>2, ExceptSeq
  <2>4. b = [d EXCEPT ![i + 1] = a[i]]
    BY <1>9
  <2> HIDE DEF d
  <2>5. QED BY <2>1, <2>2, <2>3, <2>4, ExceptSeq
<1>10. ASSUME NEW i \in DataLines(a), NEW k \in DOMAIN a[i].bytes, NEW x \in OtherBytes,
              b = [a EXCEPT ![i].bytes[k] = x]
       PROVE  b \in Seq(Good)
  <2> DEFINE s == [a[i].bytes EXCEPT ![k] = x]
             l == [a[i] EXCEPT !.bytes = s]
  <2>1. i \in 1..Len(a) /\ a[i] \in Lines /\ a[i].kind = "data"
    BY <1>2, <1>3 DEF DataLines, I
  <2>2. b = [a EXCEPT ![i] = l]
    BY <1>10
  <2>3. a[i].bytes \in Seq(Bytes) /\ x \in Bytes
    BY <2>1, ConstantsAssumption DEF Lines
  <2>4. s \in Seq(Bytes)
    <3>1. k \in 1..Len(a[i].bytes)
      BY <2>3, LenProperties
    <3>2. QED BY <2>3, <3>1, ExceptSeq
  <2> HIDE DEF s
  <2>5. l \in Lines /\ l.kind = "data"
    BY <2>1, <2>4 DEF Lines
  <2> HIDE DEF l
  <2>6. l \in Good
    BY <2>5 DEF Good
  <2>7. QED BY <1>1, <2>1, <2>2, <2>6, ExceptSeq
<1>11. ASSUME NEW i \in ControlLines(a), NEW n \in {-1, 0, Len(content) + 1}, b = [a EXCEPT ![i].size = n]
       PROVE  b \in Seq(Good) \/ \E m \in Int : b = Trailed(m)
  <2>1. i \in 1..Len(a) /\ a[i] \in Lines /\ a[i].kind \in {"=ybegin", "=yend"}
    BY <1>2, <1>3 DEF ControlLines, I
  <2>2. n \in Int
    <3>1. Len(content) \in Nat
      BY LenProperties DEF IsPosted
    <3>2. QED BY <3>1
  <2>3. CASE a[i].kind = "=yend"
    <3>1. i = Len(a)
      BY <1>1, <2>1, <2>3
    <3>2. b = Trailed(n)
      BY <1>11, <3>1 DEF Trailed, a
    <3>3. QED BY <2>2, <3>2
  <2>4. CASE a[i].kind = "=ybegin"
    <3> DEFINE l == [a[i] EXCEPT !.size = n]
    <3>1. b = [a EXCEPT ![i] = l]
      BY <1>11
    <3>2. l \in Lines /\ l.kind = "=ybegin"
      BY <2>1, <2>2, <2>4 DEF Lines
    <3> HIDE DEF l
    <3>3. l \in Good
      BY <3>2 DEF Good
    <3>4. QED BY <1>1, <2>1, <3>1, <3>3, ExceptSeq
  <2>5. QED BY <2>1, <2>3, <2>4
<1>12. ASSUME b = <<Data(<<>>)>> \o a \/ b = a \o <<Data(<<>>)>> PROVE b \in Seq(Good)
  <2>1. Data(<<>>) \in Good
    <3>1. <<>> \in Seq(Bytes)
      BY EmptySeq
    <3>2. Data(<<>>) \in Lines /\ Data(<<>>).kind = "data"
      BY <3>1, LineTypes, LineKinds
    <3>3. QED BY <3>2 DEF Good
  <2>2. <<Data(<<>>)>> \in Seq(Good)
    BY <1>4, <2>1
  <2>3. QED BY <1>1, <1>4, <1>12, <2>2
<1>13. QED BY <1>5, <1>6, <1>7, <1>8, <1>9, <1>10, <1>11, <1>12

LEMMA TrailedIs ==
  ASSUME IsPosted, NEW n \in Int
  PROVE  LET a == Article(content, form)
         IN /\ Trailed(n) \in Seq(Lines) /\ Len(Trailed(n)) = Len(a)
            /\ \A i \in 1..Len(a) : i # Len(a) => Trailed(n)[i] = a[i]
            /\ Trailed(n)[Len(a)] = [a[Len(a)] EXCEPT !.size = n]
            /\ n = a[Len(a)].size => Trailed(n) = a
            /\ \A i \in 1..Len(a) :
                 Trailed(n)[i].kind = "=yend" => form # "text" /\ Checksum(Trailed(n)[i]) = CrcGiven(content, form)
<1> DEFINE a == Article(content, form)
           k == Len(a)
           l == [a[k] EXCEPT !.size = n]
           t == Trailed(n)
<1>1. a \in Seq(Lines) /\ a \in Seq(Good) /\ k \in Nat \ {0}
  BY ArticleGood
<1>2. k \in 1..k /\ k \in 1..Len(a)
  BY <1>1
<1>3. t = [a EXCEPT ![k] = l]
  BY DEF Trailed
<1> HIDE DEF a, t
<1>4. a[k] \in Lines /\ a[k] \in Good
  BY <1>1, <1>2, ElementOfSeq
<1>5. l \in Lines /\ l.kind = a[k].kind /\ Checksum(l) = Checksum(a[k])
  BY <1>4 DEF Lines, Checksum
<1> HIDE DEF k, l
<1>6. /\ t \in Seq(Lines) /\ Len(t) = Len(a)
      /\ \A i \in 1..Len(a) : t[i] = IF i = k THEN l ELSE a[i]
  BY <1>1, <1>2, <1>3, <1>5, ExceptSeq
<1>7. ASSUME n = a[k].size PROVE t = a
  <2>1. l = a[k]
    BY <1>4, <1>7 DEF l, Lines
  <2>2. \A i \in 1..Len(a) : t[i] = a[i]
    BY <1>6, <2>1
  <2>3. QED BY <1>1, <1>6, <2>2, SeqEqual
<1>8. ASSUME NEW i \in 1..Len(a), t[i].kind = "=yend"
      PROVE  form # "text" /\ Checksum(t[i]) = CrcGiven(content, form)
  <2>1. a[i] \in Good
    BY <1>1, ElementOfSeq
  <2>2. t[i].kind = a[i].kind /\ Checksum(t[i]) = Checksum(a[i])
    BY <1>5, <1>6
  <2>3. QED BY <1>8, <2>1, <2>2 DEF Good
<1>9. k = Len(a)
  BY DEF k
<1>10. QED BY <1>2, <1>6, <1>7, <1>8, <1>9 DEF a, t, l

(* No line of a posted article ends in a line end.                         *)
LEMMA EncodesEnds ==
  ASSUME NEW s \in Seq(Bytes)
  PROVE  ~Ends(Encodes(s))
<1>1. CASE s = <<>>
  BY <1>1, EncodesEmpty DEF Ends
<1>2. CASE s # <<>>
  <2> DEFINE n == Len(s)
             r == SubSeq(s, 1, n - 1)
  <2>1. n \in Nat \ {0} /\ s[n] \in Bytes
    BY <1>2, EmptySeq, ElementOfSeq
  <2>2. r \in Seq(Bytes) /\ s = Append(r, s[n])
    <3> DEFINE k == n - 1
    <3>1. k \in Nat /\ k + 1 = n /\ \A i \in 1..k : s[i] \in Bytes
      BY <2>1, ElementOfSeq
    <3> HIDE DEF k
    <3>2. /\ SubSeq(s, 1, k) \in Seq(Bytes) /\ Len(SubSeq(s, 1, k)) = k
          /\ \A i \in 1..k : SubSeq(s, 1, k)[i] = s[i]
      <4>1. /\ SubSeq(s, 1, k) \in Seq(Bytes)
            /\ Len(SubSeq(s, 1, k)) = IF 1 <= k THEN k - 1 + 1 ELSE 0
            /\ \A i \in 1..k - 1 + 1 : SubSeq(s, 1, k)[i] = s[1 + i - 1]
        BY ONLY <3>1, SubSeqProperties
      <4>2. QED BY ONLY <3>1, <4>1
    <3>3. r = SubSeq(s, 1, k)
      BY DEF k
    <3> HIDE DEF r
    <3>4. /\ Append(r, s[n]) \in Seq(Bytes) /\ Len(Append(r, s[n])) = k + 1
          /\ \A i \in 1..k + 1 : Append(r, s[n])[i] = s[i]
      <4>1. r \in Seq(Bytes) /\ Len(r) = k /\ \A i \in 1..k : r[i] = s[i]
        BY <3>2, <3>3
      <4>2. QED BY <2>1, <3>1, <4>1, AppendProperties
    <3>5. s = Append(r, s[n])
      BY <3>1, <3>4, SeqEqual
    <3>6. QED BY <3>2, <3>3, <3>5
  <2>3. PICK b \in Bytes : b = s[n]
    BY <2>1
  <2> HIDE DEF r
  <2>4. Joins(Encodes(s), Encodes(r), Encoded(b))
    BY <2>2, <2>3, EncodesAppends
  <2>5. Encodes(r) \in Seq(Bytes)
    BY <2>2, EncodingUndone DEF Undone
  <2>6. /\ Encoded(b) \in Seq(Bytes) /\ Len(Encoded(b)) \in Nat \ {0}
        /\ Encoded(b)[Len(Encoded(b))] \notin LineEnds
    BY EncodedEnds, EncodedType
  <2> DEFINE t == Encodes(r)
             e == Encoded(b)
  <2>7. Encodes(s) = t \o e /\ t \in Seq(Bytes) /\ e \in Seq(Bytes)
    BY <2>4, <2>5, <2>6 DEF Joins
  <2>8. Len(e) \in Nat \ {0} /\ e[Len(e)] \notin LineEnds
    BY <2>6
  <2> HIDE DEF t, e
  <2>9. Len(t) \in Nat
    BY <2>7, LenProperties
  <2>10. Len(t \o e) = Len(t) + Len(e) /\ (t \o e)[Len(t) + Len(e)] = e[Len(e)]
    BY <2>7, <2>8, <2>9, ConcatProperties
  <2>11. QED BY <2>7, <2>8, <2>10 DEF Ends
<1>3. QED BY <1>1, <1>2

LEMMA PostedEnds ==
  ASSUME IsPosted, NEW j \in 1..Len(Article(content, form))
  PROVE  ~Ends(Article(content, form)[j].bytes)
<1> DEFINE a == Article(content, form)
           m == NumLines(content)
           h == Lead(form)
<1>1. CASE form = "text"
  <2>1. Len(a) = m /\ \A i \in 1..m : a[i] = Data(Piece(content, i))
    BY <1>1, TextShape DEF IsPosted
  <2> HIDE DEF a
  <2>2. j \in 1..m /\ a[j].bytes = Piece(content, j)
    BY <2>1, LineKinds DEF a
  <2>3. \A i \in 1..Len(content) : content[i] \notin LineEnds
    BY <1>1, LenProperties DEF IsPosted, MayBePosted
  <2>4. ~Ends(Piece(content, j))
    BY <2>2, <2>3, PieceEnds DEF IsPosted, Ends, LineEnds
  <2>5. QED BY <2>2, <2>4 DEF a
<1>2. CASE form # "text"
  <2>1. /\ m \in Nat \ {0} /\ Len(a) = h + m + 1
        /\ \E n \in Nat : n >= Len(content) /\ a[1] = Begin(n)
        /\ form = "part" => a[2] = Part
        /\ \A i \in h + 1..h + m : a[i] = Data(Encodes(Piece(content, i - h)))
        /\ a[h + m + 1] = Trailer(content, form)
    BY <1>2, ArticleShape DEF IsPosted, Shape
  <2>2. h \in {1, 2} /\ (h = 2 => form = "part")
    BY DEF Lead
  <2>3. j \in 1..Len(a)
    OBVIOUS
  <2>4. \A i \in 1..m : Piece(content, i) \in Seq(Bytes)
    BY PieceJoins DEF IsPosted
  <2> HIDE DEF a, h, m
  <2>5. CASE j \in h + 1..h + m
    <3>1. j - h \in 1..m
      BY <2>1, <2>2, <2>5
    <3>2. a[j].bytes = Encodes(Piece(content, j - h))
      BY <2>1, <2>5, LineKinds
    <3>3. QED BY <2>4, <3>1, <3>2, EncodesEnds DEF a
  <2>6. CASE ~(j \in h + 1..h + m)
    <3>1. j = 1 \/ (j = 2 /\ h = 2) \/ j = h + m + 1
      BY <2>1, <2>2, <2>3, <2>6
    <3>2. a[h + m + 1].bytes = <<Escape, 121, 101>>
      BY <1>2, <2>1, TrailerIs DEF IsPosted
    <3>3. a[1].bytes = <<Escape, 121, 98>> /\ (h = 2 => a[2].bytes = <<Escape, 121, 112>>)
      BY <2>1, <2>2, LineKinds
    <3>4. \E x \in {98, 101, 112} : a[j].bytes = <<Escape, 121, x>>
      BY <3>1, <3>2, <3>3
    <3>5. \A x \in {98, 101, 112} : ~Ends(<<Escape, 121, x>>)
      BY DEF Ends, LineEnds
    <3>6. QED BY <3>4, <3>5 DEF a
  <2>7. QED BY <2>5, <2>6
<1>3. QED BY <1>1, <1>2

LEMMA TrailedEnds ==
  ASSUME IsPosted, NEW n \in Int, NEW j \in 1..Len(Article(content, form))
  PROVE  ~Ends(Trailed(n)[j].bytes)
<1> DEFINE a == Article(content, form)
<1>1. a \in Seq(Lines) /\ a[j] \in Lines
  BY ArticleGood, ElementOfSeq
<1>2. Trailed(n)[j] = a[j] \/ Trailed(n)[j] = [a[j] EXCEPT !.size = n]
  BY TrailedIs
<1> HIDE DEF a
<1>3. Trailed(n)[j].bytes = a[j].bytes
  BY <1>1, <1>2 DEF Lines
<1>4. QED BY <1>3, PostedEnds DEF a

LEMMA SentSays ==
  ASSUME NEW b \in Seq(Lines), NEW i \in 1..Len(Sent(b)), Sent(b)[i].kind = "=yend"
  PROVE  i \in 1..Len(b) /\ b[i].kind = "=yend" /\ Sent(b)[i].size = b[i].size /\ Checksum(Sent(b)[i]) = Checksum(b[i])
<1> DEFINE w == Sent(b)
<1>1. /\ Len(w) = Len(b) + 1 /\ Len(b) \in Nat
      /\ \A j \in 1..Len(b) : w[j] = Stuffed(b[j])
      /\ w[Len(b) + 1] = Data(<<Dot>>)
  BY SentIs, LenProperties
<1> HIDE DEF w
<1>2. i # Len(b) + 1
  BY <1>1, LineKinds DEF w
<1>3. i \in 1..Len(b)
  BY <1>1, <1>2 DEF w
<1>4. w[i] = Stuffed(b[i]) /\ b[i] \in Lines
  BY <1>1, <1>3, ElementOfSeq
<1>5. QED BY <1>3, <1>4, Stuffs DEF w

LEMMA InitArticle ==
  ASSUME Init
  PROVE  IsPosted /\ \E b \in Seq(Lines) :
           /\ wire = Sent(b)
           /\ whole = (Article(content, form) = b)
           /\ b \in Seq(Good) \/ \E n \in Int : b = Trailed(n)
<1> DEFINE a == Article(content, form)
<1>1. IsPosted
  BY ConstantsAssumption DEF Init, IsPosted
<1>2. PICK b \in {a} \cup Damaged(a) : whole = (a = b) /\ wire = Sent(b)
  BY DEF Init
<1>3. a \in Seq(Good)
  BY <1>1, ArticleGood
<1>4. b \in Seq(Good) \/ \E n \in Int : b = Trailed(n)
  BY <1>1, <1>2, <1>3, DamagedGood
<1>5. b \in Seq(Lines)
  <2>1. CASE b \in Seq(Good)
    <3>1. Good \subseteq Lines
      BY DEF Good
    <3>2. QED BY <2>1, <3>1, SeqMonotonic
  <2>2. CASE \E n \in Int : b = Trailed(n)
    BY <1>1, <2>2, TrailedIs
  <2>3. QED BY <1>4, <2>1, <2>2
<1>6. QED BY <1>1, <1>2, <1>4, <1>5

LEMMA InitTypes == Init => TypeInv /\ HandedInv /\ FinishedInv
<1> SUFFICES ASSUME Init PROVE TypeInv /\ HandedInv /\ FinishedInv
  OBVIOUS
<1>1. PICK b \in Seq(Lines) : wire = Sent(b)
  BY InitArticle
<1>2. IsPosted /\ whole \in BOOLEAN
  <2>1. IsPosted
    BY InitArticle
  <2>2. whole \in BOOLEAN
    BY InitArticle, Zenon
  <2>3. QED BY <2>1, <2>2
<1>3. wire \in Seq(Lines) /\ wire # <<>> /\ wire[Len(wire)].bytes = <<Dot>>
  <2>1. /\ Len(b) \in Nat /\ wire \in Seq(Lines) /\ Len(wire) = Len(b) + 1
        /\ wire[Len(b) + 1] = Data(<<Dot>>) /\ Data(<<Dot>>).bytes = <<Dot>>
    BY <1>1, SentIs, LenProperties
  <2>2. QED BY <2>1, EmptySeq
<1>4. <<>> \in Seq(Bytes)
  BY EmptySeq
<1>5. TypeInv
  <2>1. /\ pc = "connect" /\ outcome = "none" /\ mode = "none" /\ finished = FALSE /\ expected = 0
        /\ decoded = <<>> /\ output = <<>> /\ handed = <<>>
    BY DEF Init
  <2>2. /\ content \in Seq(Bytes) \ {<<>>} /\ form \in {"single", "part", "bare", "text"}
        /\ MayBePosted(content, form)
    BY <1>2 DEF IsPosted
  <2>3. outcome = "none" <=> pc \notin {"close", "ended"}
    BY <2>1
  <2>4. decoded \in Seq(Bytes) /\ output \in Seq(Bytes) /\ handed \in Seq(Bytes)
    BY <1>4, <2>1
  <2>5. mode \in {"none", "plain", "yenc"} /\ expected \in Int /\ finished \in BOOLEAN
    <3>1. finished \in BOOLEAN
      BY ONLY <2>1, Zenon
    <3>2. QED BY ONLY <2>1, <3>1
  <2>6. /\ pc \in {"connect", "greeting", "user", "pass", "body", "lines", "close", "ended"}
        /\ outcome \in {"none", "temporary", "failed", "unavailable", "refused", "abandoned", "done"}
    BY <2>1
  <2>7. QED BY ONLY <1>2, <1>3, <2>2, <2>3, <2>4, <2>5, <2>6, Zenon DEF TypeInv
<1>6. HandedInv /\ FinishedInv
  BY DEF HandedInv, FinishedInv, Init
<1>7. QED BY <1>5, <1>6

LEMMA InitStream == Init => CrcInv /\ (CleanInv \/ (~whole /\ SizeInv))
<1> SUFFICES ASSUME Init PROVE CrcInv /\ (CleanInv \/ (~whole /\ SizeInv))
  OBVIOUS
<1> DEFINE a == Article(content, form)
<1>1. PICK b \in Seq(Lines) :
        /\ wire = Sent(b)
        /\ whole = (a = b)
        /\ b \in Seq(Good) \/ \E n \in Int : b = Trailed(n)
  BY InitArticle
<1>2. IsPosted /\ a \in Seq(Lines) /\ a \in Seq(Good) /\ Len(a) \in Nat \ {0}
  BY InitArticle, ArticleGood
<1>3. \A i \in 1..Len(wire) :
        wire[i].kind = "=yend" => /\ i \in 1..Len(b) /\ b[i].kind = "=yend"
                                  /\ wire[i].size = b[i].size /\ Checksum(wire[i]) = Checksum(b[i])
  BY <1>1, SentSays
<1>4. Len(wire) = Len(b) + 1 /\ Len(b) \in Nat /\ wire \in Seq(Lines)
  BY <1>1, SentIs, LenProperties
<1> HIDE DEF a
<1>5. ASSUME NEW n \in Int, b = Trailed(n), whole => n = a[Len(a)].size PROVE CleanInv
  <2>1. Len(b) = Len(a)
    BY <1>2, <1>5, TrailedIs DEF a
  <2>2. OnWire(b)
    <3>1. \A i \in 1..Len(wire) : Len(b) + 1 - Len(wire) + i = i
      BY <1>4
    <3>2. QED BY <1>1, <1>4, <3>1 DEF OnWire
  <2>3. Read(a) = 0
    BY <1>4, <2>1, EmptySeq DEF Read
  <2>4. CleanState(0)
    <3>1. 0 \in 0..Len(a)
      BY <1>2
    <3>2. Yields(content, form, 0) = <<>>
      BY <1>2, <3>1, YieldsType DEF IsPosted, a
    <3>3. <<>> \o <<>> = <<>>
      BY EmptySeq, ConcatEmptySeq
    <3>4. 0 # Len(a)
      BY <1>2
    <3>5. /\ mode = "none" /\ finished = FALSE /\ handed = <<>> /\ output = <<>>
      BY DEF Init
    <3>6. handed \o output = Yields(content, form, 0)
      BY <3>2, <3>3, <3>5
    <3>7. finished = (form # "text" /\ 0 = Len(Article(content, form)))
      BY <3>4, <3>5 DEF a
    <3>8. mode = IF 0 = 0 THEN "none" ELSE IF form = "text" THEN "plain" ELSE "yenc"
      BY <3>5
    <3>9. ~(0 > 0)
      OBVIOUS
    <3>10. QED BY <3>6, <3>7, <3>8, <3>9, Zenon DEF CleanState
  <2>5. outcome = "none"
    BY DEF Init
  <2>6. QED BY <1>5, <2>2, <2>3, <2>4, <2>5 DEF CleanInv, a
<1>6. CASE b = a
  <2> DEFINE n == a[Len(a)].size
  <2>1. n \in Int
    <3>1. a[Len(a)] \in Lines
      BY <1>2, ElementOfSeq
    <3>2. QED BY <3>1 DEF Lines
  <2>2. Trailed(n) = a
    BY <1>2, <2>1, TrailedIs DEF a
  <2>3. CleanInv
    BY <1>5, <1>6, <2>1, <2>2
  <2>4. \A i \in 1..Len(a) : a[i].kind = "=yend" => form # "text" /\ Checksum(a[i]) = CrcGiven(content, form)
    BY <1>2, ElementOfSeq DEF Good
  <2>5. CrcInv
    BY <1>3, <1>6, <2>4 DEF CrcInv, CrcGiven
  <2>6. QED BY <2>3, <2>5
<1>7. CASE b # a /\ b \in Seq(Good)
  <2>1. ~whole
    BY <1>1, <1>7
  <2>2. \A i \in 1..Len(b) :
          b[i].kind = "=yend" => form # "text" /\ b[i].size = Len(content) /\ Checksum(b[i]) = CrcGiven(content, form)
    BY <1>7, ElementOfSeq DEF Good
  <2>3. CrcInv /\ SizeInv
    BY <1>3, <2>2 DEF CrcInv, SizeInv, CrcGiven
  <2>4. QED BY <2>1, <2>3
<1>8. CASE b # a /\ \E n \in Int : b = Trailed(n)
  <2>1. ~whole
    BY <1>1, <1>8
  <2>2. PICK n \in Int : b = Trailed(n)
    BY <1>8
  <2>3. CleanInv
    BY <1>5, <2>1, <2>2
  <2>4. Len(b) = Len(a) /\ \A i \in 1..Len(a) :
          b[i].kind = "=yend" => form # "text" /\ Checksum(b[i]) = CrcGiven(content, form)
    BY <1>2, <2>2, TrailedIs DEF a
  <2>5. CrcInv
    BY <1>3, <2>4 DEF CrcInv, CrcGiven
  <2>6. QED BY <2>3, <2>5
<1>9. QED BY <1>1, <1>6, <1>7, <1>8

-----------------------------------------------------------------------------
(* The steps around the decoder: a command and its reply, a failure, the   *)
(* closing.                                                                *)
Over == {"close", "ended"}
Pcs == {"connect", "greeting", "user", "pass", "body", "lines", "close", "ended"}

Moves ==
  \/ pc \notin Over /\ pc' \in Pcs \ Over /\ outcome' = outcome
  \/ pc \notin Over /\ pc' = "close" /\ outcome' \in {"temporary", "failed", "unavailable", "abandoned"}
  \/ pc = "close" /\ pc' = "ended" /\ outcome' = outcome

Aside ==
  \/ Connects \/ NotConnected \/ Greets \/ AuthenticatesUser \/ AuthenticatesPass \/ AsksBody
  \/ ReadFails \/ Closes \/ Abandons

LEMMA RefusedRaises ==
  ASSUME NEW code, NEW auth, NEW body, Refused(code, auth, body)
  PROVE  pc' = "close" /\ outcome' \in {"temporary", "failed", "unavailable", "abandoned"}
<1>1. RaisedFor(code, auth, body) \in {"nothing", "unavailable", "failed", "temporary"}
  BY DEF RaisedFor
<1> DEFINE what == RaisedFor(code, auth, body)
<1>2. Raises(IF what = "nothing" THEN "failed" ELSE what)
  BY DEF Refused
<1> HIDE DEF what
<1>3. QED BY <1>1, <1>2 DEF Raises, what

LEMMA AsideMoves == Aside => Moves /\ UNCHANGED <<article, wire, decoder>>
<1> SUFFICES ASSUME Aside PROVE Moves /\ UNCHANGED <<article, wire, decoder>>
  OBVIOUS
<1> USE DEF Moves, Over, Pcs, Goto, Raises
<1>1. CASE Connects
  BY <1>1 DEF Connects
<1>2. CASE NotConnected
  BY <1>2 DEF NotConnected
<1>3. CASE Greets
  BY <1>3 DEF Greets
<1>4. CASE AuthenticatesUser
  BY <1>4, RefusedRaises DEF AuthenticatesUser
<1>5. CASE AuthenticatesPass
  BY <1>5, RefusedRaises DEF AuthenticatesPass
<1>6. CASE AsksBody
  BY <1>6, RefusedRaises DEF AsksBody
<1>7. CASE ReadFails
  BY <1>7 DEF ReadFails
<1>8. CASE Closes
  BY <1>8 DEF Closes
<1>9. CASE Abandons
  BY <1>9 DEF Abandons
<1>10. QED BY <1>1, <1>2, <1>3, <1>4, <1>5, <1>6, <1>7, <1>8, <1>9 DEF Aside

(* The invariant is of the article, the wire and the decoder, and of how   *)
(* the stream ended if that is for a reason of the decoder.                *)
LEMMA StreamKept ==
  ASSUME StreamInv, UNCHANGED <<article, wire, decoder>>, TypeInv',
         outcome' = outcome \/ outcome' \notin {"refused", "done"}
  PROVE  StreamInv'
<1>0. /\ content' = content /\ form' = form /\ whole' = whole /\ login' = login /\ wire' = wire
      /\ mode' = mode /\ finished' = finished /\ expected' = expected /\ decoded' = decoded
      /\ output' = output /\ handed' = handed
  BY DEF article, decoder
<1>1. HandedInv'
  BY <1>0 DEF StreamInv, HandedInv
<1>2. CrcInv'
  BY <1>0 DEF StreamInv, CrcInv
<1>3. FinishedInv'
  BY <1>0 DEF StreamInv, FinishedInv
<1>4. SizeInv => SizeInv'
  BY <1>0 DEF SizeInv
<1>5. ASSUME CleanInv PROVE CleanInv'
  <2> DEFINE a == Article(content, form)
  <2>1. PICK n \in Int :
          /\ OnWire(Trailed(n))
          /\ whole => n = a[Len(a)].size /\ outcome # "refused"
          /\ Read(a) < Len(a) \/ whole => CleanState(Read(a))
          /\ whole /\ outcome = "done" => Read(a) = Len(a)
    BY <1>5 DEF CleanInv
  <2>2. /\ Trailed(n)' = Trailed(n) /\ Article(content, form)' = a
        /\ (Read(a))' = Read(a)
    BY <1>0 DEF Trailed, Read
  <2>3. OnWire(Trailed(n))'
    BY <1>0, <2>1 DEF OnWire, Trailed
  <2>4. \A k : CleanState(k) => CleanState(k)'
    BY <1>0, Zenon DEF CleanState
  <2>5. QED BY <1>0, <2>1, <2>2, <2>3, <2>4 DEF CleanInv
<1>6. QED BY <1>0, <1>1, <1>2, <1>3, <1>4, <1>5 DEF StreamInv

LEMMA AsideKeeps ==
  ASSUME StreamInv, Aside
  PROVE  StreamInv'
<1>1. Moves /\ UNCHANGED <<article, wire, decoder>>
  BY AsideMoves
<1>2. TypeInv'
  <2>1. TypeInv
    BY DEF StreamInv
  <2>2. /\ pc' \in Pcs
        /\ outcome' \in {"none", "temporary", "failed", "unavailable", "refused", "abandoned", "done"}
        /\ outcome' = "none" <=> pc' \notin Over
        /\ pc' \notin Over => pc \notin Over
    BY <1>1, <2>1 DEF Moves, TypeInv, Over, Pcs
  <2>3. QED BY <1>1, <2>1, <2>2 DEF TypeInv, article, decoder, Over, Pcs
<1>3. outcome' = outcome \/ outcome' \notin {"refused", "done"}
  BY <1>1 DEF Moves
<1>4. QED BY <1>1, <1>2, <1>3, StreamKept

-----------------------------------------------------------------------------
(* The steps of the decoder.                                               *)

LineStep(line) ==
  \/ BeginsYenc(line) \/ PassesPlain(line) \/ SkipsPart(line) \/ DecodesData(line)
  \/ EndsYenc(line) \/ RefusesLine(line)

LEMMA WireTail ==
  ASSUME TypeInv, pc = "lines"
  PROVE  /\ wire \in Seq(Lines) /\ Len(wire) \in Nat \ {0} /\ wire[1] \in Lines /\ Received(wire[1]) \in Lines
         /\ Tail(wire) \in Seq(Lines) /\ Len(Tail(wire)) = Len(wire) - 1
         /\ \A i \in 1..Len(wire) - 1 : Tail(wire)[i] = wire[i + 1]
         /\ Stripped(wire[1].bytes) # <<Dot>> =>
              Len(wire) > 1 /\ Tail(wire) # <<>> /\ Tail(wire)[Len(Tail(wire))].bytes = <<Dot>>
<1>1. wire \in Seq(Lines) /\ wire # <<>> /\ wire[Len(wire)].bytes = <<Dot>>
  BY DEF TypeInv
<1>2. Len(wire) \in Nat \ {0}
  BY <1>1, EmptySeq
<1>3. wire[1] \in Lines
  BY <1>1, <1>2, ElementOfSeq
<1>4. Received(wire[1]) \in Lines
  <2> DEFINE raw == Stripped(wire[1].bytes)
  <2>1. raw \in Seq(Bytes)
    BY <1>3, StripsEnds DEF Lines
  <2> HIDE DEF raw
  <2>2. Unstuffed(raw) \in Seq(Bytes)
    <3>1. CASE Len(raw) > 1 /\ raw[1] = Dot /\ raw[2] = Dot
      <4>1. raw # <<>>
        BY <3>1, EmptySeq
      <4>2. Tail(raw) \in Seq(Bytes)
        BY <2>1, <4>1, HeadTailProperties
      <4>3. QED BY <3>1, <4>2 DEF Unstuffed
    <3>2. CASE ~(Len(raw) > 1 /\ raw[1] = Dot /\ raw[2] = Dot)
      BY <2>1, <3>2 DEF Unstuffed
    <3>3. QED BY <3>1, <3>2
  <2>3. Received(wire[1]) = [wire[1] EXCEPT !.bytes = Unstuffed(raw)]
    BY DEF Received, raw
  <2>4. QED BY <1>3, <2>2, <2>3 DEF Lines
<1>5. /\ Tail(wire) \in Seq(Lines) /\ Len(Tail(wire)) = Len(wire) - 1
      /\ \A i \in 1..Len(wire) - 1 : Tail(wire)[i] = wire[i + 1]
  BY <1>1, HeadTailProperties
<1>6. ASSUME Stripped(wire[1].bytes) # <<Dot>>
      PROVE  Len(wire) > 1 /\ Tail(wire) # <<>> /\ Tail(wire)[Len(Tail(wire))].bytes = <<Dot>>
  <2>1. Len(wire) # 1
    BY <1>1, <1>6, DotIsNoEnd
  <2>2. Len(wire) > 1
    BY ONLY <1>2, <2>1
  <2>3. Tail(wire) # <<>>
    <3>1. Len(Tail(wire)) # 0
      BY ONLY <1>2, <1>5, <2>2
    <3>2. QED BY ONLY <3>1, EmptySeq
  <2>4. Tail(wire)[Len(wire) - 1] = wire[Len(wire) - 1 + 1]
    BY <1>2, <1>5, <2>2
  <2>5. Len(wire) - 1 + 1 = Len(wire)
    BY <1>2
  <2>6. QED BY <1>1, <1>5, <2>2, <2>3, <2>4, <2>5
<1>7. QED BY <1>1, <1>2, <1>3, <1>4, <1>5, <1>6

LEMMA ReadsLineIs ==
  ASSUME ReadsLine
  PROVE  /\ pc = "lines" /\ Stripped(wire[1].bytes) # <<Dot>> /\ LineStep(Received(wire[1]))
         /\ wire' = Tail(wire) /\ UNCHANGED <<article, open>>
  BY DEF ReadsLine, LineStep, Received

DecoderType ==
  /\ mode \in {"none", "plain", "yenc"} /\ finished \in BOOLEAN /\ expected \in Int
  /\ decoded \in Seq(Bytes) /\ output \in Seq(Bytes) /\ handed \in Seq(Bytes)

(* What is handed and what waits, after a flush.                           *)
LEMMA FlushesMore ==
  ASSUME DecoderType, NEW s \in Seq(Bytes), NEW force \in BOOLEAN, NEW x \in Seq(Bytes), Joins(s, output, x),
         Flushes(s, force)
  PROVE  /\ handed' \in Seq(Bytes) /\ output' \in Seq(Bytes)
         /\ Joins(handed' \o output', handed \o output, x)
         /\ force => output' = <<>>
<1>1. handed \in Seq(Bytes) /\ output \in Seq(Bytes)
  BY DEF DecoderType
<1>2. /\ handed' \in Seq(Bytes) /\ output' \in Seq(Bytes)
      /\ Joins(handed' \o output', handed, s)
      /\ force => output' = <<>>
  BY <1>1, FlushKeeps
<1>3. handed \o (output \o x) = (handed \o output) \o x
  BY <1>1, ConcatAssociative, SMTT(60)
<1>4. Joins(handed' \o output', handed \o output, x)
  BY <1>2, <1>3, Zenon DEF Joins
<1>5. QED BY <1>2, <1>4

LEMMA CrlfType == CRLF \in Seq(Bytes)
  BY DEF CRLF, Bytes

(* What each does to what was handed over, and what waits.                 *)
LEMMA PlainHands ==
  ASSUME DecoderType, NEW line \in Lines, PassesPlain(line)
  PROVE  DecoderType' /\ Joins(handed' \o output', handed \o output, line.bytes \o CRLF)
<1>1. output \in Seq(Bytes) /\ line.bytes \in Seq(Bytes) /\ CRLF \in Seq(Bytes)
  BY CrlfType DEF DecoderType, Lines
<1> DEFINE x == line.bytes \o CRLF
           s == output \o line.bytes \o CRLF
<1>2. x \in Seq(Bytes) /\ output \o x \in Seq(Bytes) /\ s = output \o x
  <2>1. x \in Seq(Bytes)
    BY ONLY <1>1, ConcatProperties
  <2>2. output \o x \in Seq(Bytes)
    BY ONLY <1>1, <2>1, ConcatProperties
  <2>3. (output \o line.bytes) \o CRLF = output \o (line.bytes \o CRLF)
    <3> DEFINE b == line.bytes
    <3>1. b \in Seq(Bytes)
      BY <1>1
    <3> HIDE DEF b
    <3>2. (output \o b) \o CRLF = output \o (b \o CRLF)
      BY <1>1, <3>1, ConcatAssociative, SMTT(60)
    <3>3. QED BY <3>2 DEF b
  <2>4. QED BY <2>1, <2>2, <2>3
<1>3. Flushes(s, FALSE) /\ mode' = "plain" /\ UNCHANGED <<finished, expected, decoded>>
  BY DEF PassesPlain
<1> HIDE DEF x, s
<1>4. s \in Seq(Bytes) /\ Joins(s, output, x) /\ FALSE \in BOOLEAN
  BY <1>2 DEF Joins
<1>5. /\ handed' \in Seq(Bytes) /\ output' \in Seq(Bytes)
      /\ Joins(handed' \o output', handed \o output, x)
  BY ONLY DecoderType, <1>2, <1>3, <1>4, FlushesMore
<1>6. DecoderType'
  BY <1>3, <1>5 DEF DecoderType
<1>7. QED BY <1>5, <1>6 DEF x

LEMMA DataHands ==
  ASSUME DecoderType, NEW line \in Lines, DecodesData(line)
  PROVE  /\ DecoderType' /\ Joins(handed' \o output', handed \o output, Decoded(line.bytes))
         /\ Joins(decoded', decoded, Decoded(line.bytes))
<1> DEFINE x == Decoded(line.bytes)
           s == output \o x
<1>1. output \in Seq(Bytes) /\ decoded \in Seq(Bytes) /\ x \in Seq(Bytes)
  BY DecodedType DEF DecoderType, Lines
<1>2. Flushes(s, FALSE) /\ decoded' = decoded \o x /\ UNCHANGED <<mode, finished, expected>>
  BY DEF DecodesData
<1> HIDE DEF x
<1>3. s \in Seq(Bytes) /\ decoded \o x \in Seq(Bytes)
  BY <1>1, ConcatProperties
<1>4. Joins(s, output, x)
  BY DEF Joins
<1> HIDE DEF s
<1>5. FALSE \in BOOLEAN
  OBVIOUS
<1>6. /\ handed' \in Seq(Bytes) /\ output' \in Seq(Bytes)
      /\ Joins(handed' \o output', handed \o output, x)
  BY ONLY DecoderType, <1>1, <1>2, <1>3, <1>4, <1>5, FlushesMore
<1>7. DecoderType'
  BY <1>2, <1>3, <1>6 DEF DecoderType
<1>8. QED BY <1>2, <1>6, <1>7, Zenon DEF x, Joins

LEMMA ForceHands ==
  ASSUME DecoderType, Flushes(output, TRUE)
  PROVE  /\ handed' \in Seq(Bytes) /\ output' = <<>> /\ output' \in Seq(Bytes)
         /\ handed' \o output' = handed \o output
<1>1. output \in Seq(Bytes) /\ handed \in Seq(Bytes) /\ TRUE \in BOOLEAN
  BY DEF DecoderType
<1>2. /\ handed' \in Seq(Bytes) /\ output' \in Seq(Bytes)
      /\ Joins(handed' \o output', handed, output)
      /\ TRUE => output' = <<>>
  BY ONLY <1>1, Flushes(output, TRUE), FlushKeeps
<1>3. QED BY <1>2, Zenon DEF Joins

LEMMA EndHands ==
  ASSUME DecoderType, NEW line, EndsYenc(line)
  PROVE  DecoderType' /\ output' = <<>> /\ handed' \o output' = handed \o output
<1>1. Flushes(output, TRUE) /\ finished' = TRUE /\ UNCHANGED <<mode, expected, decoded>>
  BY DEF EndsYenc
<1>2. /\ handed' \in Seq(Bytes) /\ output' = <<>> /\ output' \in Seq(Bytes)
      /\ handed' \o output' = handed \o output
  BY <1>1, ForceHands
<1>3. finished' \in BOOLEAN
  BY <1>1, Zenon
<1>4. QED BY <1>1, <1>2, <1>3, Zenon DEF DecoderType

LEMMA LineOutcome ==
  ASSUME NEW line, LineStep(line)
  PROVE  \/ pc' = pc /\ outcome' = outcome
         \/ RefusesLine(line) /\ pc' = "close" /\ outcome' = "refused"
  BY DEF LineStep, BeginsYenc, PassesPlain, SkipsPart, DecodesData, EndsYenc, RefusesLine, Raises

LEMMA LineHands ==
  ASSUME DecoderType, HandedInv, outcome = "none", NEW line \in Lines, LineStep(line)
  PROVE  DecoderType' /\ HandedInv'
<1>1. outcome' # "done"
  BY LineOutcome
<1>2. /\ mode = "none" => handed = <<>> /\ output = <<>> /\ decoded = <<>> /\ ~finished
      /\ mode = "yenc" => handed \o output = decoded
      /\ finished => mode = "yenc" /\ output = <<>>
  BY DEF HandedInv
<1>3. CASE BeginsYenc(line)
  <2>1. /\ mode = "none" /\ mode' = "yenc" /\ expected' = line.size
        /\ UNCHANGED <<finished, decoded, output, handed>>
    BY <1>3 DEF BeginsYenc
  <2>2. <<>> \o <<>> = <<>>
    BY EmptySeq, ConcatEmptySeq
  <2>3. line.size \in Int
    BY DEF Lines
  <2>4. DecoderType'
    BY <2>1, <2>3 DEF DecoderType
  <2>5. HandedInv'
    BY <1>1, <1>2, <2>1, <2>2, Zenon DEF HandedInv
  <2>6. QED BY <2>4, <2>5
<1>4. CASE PassesPlain(line)
  <2>1. DecoderType'
    BY <1>4, PlainHands
  <2>2. mode \in {"none", "plain"} /\ mode' = "plain" /\ finished' = finished
    BY <1>4 DEF PassesPlain
  <2>3. ~finished
    BY <1>2, <2>2
  <2>4. HandedInv'
    BY <1>1, <2>2, <2>3 DEF HandedInv
  <2>5. QED BY <2>1, <2>4
<1>5. CASE SkipsPart(line) \/ RefusesLine(line)
  <2>1. UNCHANGED decoder
    BY <1>5 DEF SkipsPart, RefusesLine
  <2>2. QED BY <1>1, <1>2, <2>1 DEF decoder, DecoderType, HandedInv
<1>6. CASE DecodesData(line)
  <2>1. /\ DecoderType' /\ Joins(handed' \o output', handed \o output, Decoded(line.bytes))
        /\ Joins(decoded', decoded, Decoded(line.bytes))
    BY <1>6, DataHands
  <2>2. mode = "yenc" /\ ~finished /\ mode' = "yenc" /\ finished' = finished
    BY <1>6 DEF DecodesData
  <2>3. handed' \o output' = decoded'
    BY <1>2, <2>1, <2>2, Zenon DEF Joins
  <2>4. HandedInv'
    BY <1>1, <2>2, <2>3, Zenon DEF HandedInv
  <2>5. QED BY <2>1, <2>4
<1>7. CASE EndsYenc(line)
  <2>1. DecoderType' /\ output' = <<>> /\ handed' \o output' = handed \o output
    BY <1>7, EndHands
  <2>2. mode = "yenc" /\ mode' = "yenc" /\ decoded' = decoded
    BY <1>7 DEF EndsYenc
  <2>3. HandedInv'
    BY <1>1, <1>2, <2>1, <2>2 DEF HandedInv
  <2>4. QED BY <2>1, <2>3
<1>8. QED BY <1>3, <1>4, <1>5, <1>6, <1>7 DEF LineStep

(* A trailer that passes is of the content that was posted.                *)
LEMMA LineFinishes ==
  ASSUME HandedInv, FinishedInv, content # <<>>, content' = content, form' = form, NEW line, LineStep(line),
         line.kind = "=yend" => Checksum(line) = CrcGiven(content, form),
         EndsYenc(line) => line.size = Len(content) \/ decoded = content
  PROVE  FinishedInv'
<1>1. CASE EndsYenc(line)
  <2>1. /\ line.kind = "=yend" /\ line.size = Len(decoded) /\ decoded' = decoded
        /\ Checksum(line) # NoCrc => Checksum(line) = Crc(decoded)
    BY <1>1 DEF EndsYenc, Checked
  <2>2. Len(decoded) = Len(content)
    BY <1>1, <2>1
  <2>3. form # "bare" => decoded = content
    BY <2>1 DEF CrcGiven, Crc, NoCrc
  <2>4. QED BY <2>1, <2>2, <2>3 DEF FinishedInv
<1>2. CASE DecodesData(line)
  <2>1. ~finished /\ finished' = finished
    BY <1>2 DEF DecodesData
  <2>2. QED BY <2>1 DEF FinishedInv
<1>3. CASE ~EndsYenc(line) /\ ~DecodesData(line)
  <2>1. finished' = finished /\ decoded' = decoded
    BY <1>3 DEF LineStep, BeginsYenc, PassesPlain, SkipsPart, RefusesLine, decoder
  <2>2. QED BY <2>1 DEF FinishedInv
<1>4. QED BY <1>1, <1>2, <1>3

-----------------------------------------------------------------------------
(* An undamaged line.                                                      *)

LEMMA PostedLine ==
  ASSUME IsPosted, NEW j \in 1..Len(Article(content, form))
  PROVE  LET a == Article(content, form)
             l == a[j]
         IN IF form = "text" THEN l.kind = "data"
            ELSE \/ j = 1 /\ j < Len(a) /\ l.kind = "=ybegin" /\ l.size \in Nat /\ l.size >= Len(content)
                 \/ j > 1 /\ j < Len(a) /\ (l.kind = "=ypart" \/ (l.kind = "data" /\ ~Dangling(l.bytes)))
                 \/ j > 1 /\ j = Len(a) /\ l.kind = "=yend" /\ l.size = Len(content)
                    /\ Checksum(l) = CrcGiven(content, form)
<1> DEFINE a == Article(content, form)
<1>1. CASE form = "text"
  <2>1. Len(a) = NumLines(content) /\ \A i \in 1..NumLines(content) : a[i] = Data(Piece(content, i))
    BY <1>1, TextShape DEF IsPosted
  <2> HIDE DEF a
  <2>2. a[j].kind = "data"
    BY <2>1, LineKinds DEF a
  <2>3. QED BY <1>1, <2>2 DEF a
<1>2. CASE form # "text"
  <2> DEFINE h == Lead(form)
             m == NumLines(content)
  <2>1. /\ m \in Nat \ {0} /\ Len(a) = h + m + 1
        /\ \E n \in Nat : n >= Len(content) /\ a[1] = Begin(n)
        /\ form = "part" => a[2] = Part
        /\ \A i \in h + 1..h + m : a[i] = Data(Encodes(Piece(content, i - h)))
        /\ a[h + m + 1] = Trailer(content, form)
    BY <1>2, ArticleShape DEF IsPosted, Shape
  <2>2. h \in {1, 2} /\ (h = 2 => form = "part")
    BY DEF Lead
  <2>3. \A i \in 1..m : ~Dangling(Encodes(Piece(content, i)))
    BY PieceJoins, EncodingUndone DEF IsPosted, Undone
  <2>4. j \in 1..Len(a)
    OBVIOUS
  <2> HIDE DEF a, h, m
  <2>5. CASE j = 1
    <3>1. a[1].kind = "=ybegin" /\ a[1].size \in Nat /\ a[1].size >= Len(content)
      BY <2>1, LineKinds
    <3>2. j < Len(a)
      BY <2>1, <2>2, <2>5
    <3>3. QED BY <1>2, <2>5, <3>1, <3>2 DEF a
  <2>6. CASE j = 2 /\ h = 2
    <3>1. a[2].kind = "=ypart"
      BY <2>1, <2>2, <2>6, LineKinds
    <3>2. j > 1 /\ j < Len(a)
      BY <2>1, <2>2, <2>6
    <3>3. QED BY <1>2, <2>6, <3>1, <3>2 DEF a
  <2>7. CASE j \in h + 1..h + m
    <3>1. j > 1 /\ j < Len(a) /\ j - h \in 1..m
      BY <2>1, <2>2, <2>7
    <3>2. a[j] = Data(Encodes(Piece(content, j - h)))
      BY <2>1, <2>7
    <3>3. a[j].kind = "data" /\ a[j].bytes = Encodes(Piece(content, j - h))
      BY <3>2, LineKinds
    <3>4. ~Dangling(a[j].bytes)
      BY <2>3, <3>1, <3>3
    <3>5. QED BY <1>2, <3>1, <3>3, <3>4 DEF a
  <2>8. CASE j = h + m + 1
    <3>1. j > 1 /\ j = Len(a)
      BY <2>1, <2>2, <2>8
    <3>2. a[j].kind = "=yend" /\ a[j].size = Len(content) /\ Checksum(a[j]) = CrcGiven(content, form)
      <4>1. a[j] = Trailer(content, form)
        BY <2>1, <2>8
      <4>2. QED BY <1>2, <4>1, TrailerIs DEF IsPosted
    <3>3. QED BY <1>2, <3>1, <3>2 DEF a
  <2>9. j = 1 \/ (j = 2 /\ h = 2) \/ j \in h + 1..h + m \/ j = h + m + 1
    BY <2>1, <2>2, <2>4
  <2>10. QED BY <2>5, <2>6, <2>7, <2>8, <2>9
<1>3. QED BY <1>1, <1>2

(* The same line of the article with its trailer changed.                  *)
LEMMA TrailedLine ==
  ASSUME IsPosted, NEW n \in Int, NEW j \in 1..Len(Article(content, form)), NEW line, line = Trailed(n)[j]
  PROVE  LET a == Article(content, form)
         IN /\ line \in Lines /\ a[j] \in Lines
            /\ line.kind = a[j].kind /\ line.bytes = a[j].bytes /\ Checksum(line) = Checksum(a[j])
            /\ j # Len(a) \/ n = a[Len(a)].size => line = a[j]
<1> DEFINE a == Article(content, form)
<1>1. /\ Trailed(n) \in Seq(Lines) /\ Len(Trailed(n)) = Len(a)
      /\ \A i \in 1..Len(a) : i # Len(a) => Trailed(n)[i] = a[i]
      /\ Trailed(n)[Len(a)] = [a[Len(a)] EXCEPT !.size = n]
      /\ n = a[Len(a)].size => Trailed(n) = a
  BY TrailedIs
<1>2. a \in Seq(Lines) /\ j \in 1..Len(a)
  BY ArticleGood
<1> HIDE DEF a
<1>3. line \in Lines /\ a[j] \in Lines
  BY <1>1, <1>2, ElementOfSeq
<1>4. CASE j # Len(a)
  BY <1>1, <1>2, <1>3, <1>4 DEF a
<1>5. CASE j = Len(a)
  <2>1. line = [a[j] EXCEPT !.size = n]
    BY <1>1, <1>5
  <2>2. line.kind = a[j].kind /\ line.bytes = a[j].bytes /\ Checksum(line) = Checksum(a[j])
    BY <1>3, <2>1 DEF Lines, Checksum
  <2>3. n = a[Len(a)].size => line = a[j]
    BY <1>1
  <2>4. QED BY <1>3, <1>5, <2>2, <2>3 DEF a
<1>6. QED BY <1>4, <1>5

LEMMA CleanNext ==
  ASSUME content' = content, form' = form, NEW j \in Nat \ {0},
         mode' = IF form = "text" THEN "plain" ELSE "yenc",
         finished' = (form # "text" /\ j = Len(Article(content, form))),
         form # "text" => expected' = Article(content, form)[1].size,
         handed' \o output' = Yields(content, form, j)
  PROVE  CleanState(j)'
<1>1. j # 0
  OBVIOUS
<1>2. mode' = IF j = 0 THEN "none" ELSE IF form' = "text" THEN "plain" ELSE "yenc"
  BY <1>1
<1>3. QED BY <1>2, Zenon DEF CleanState

LEMMA CleanText ==
  ASSUME IsPosted, DecoderType, form = "text", NEW k \in Nat, k < Len(Article(content, form)), CleanState(k),
         NEW line \in Lines, line.kind = "data", line.bytes = Article(content, form)[k + 1].bytes, LineStep(line),
         content' = content, form' = form
  PROVE  CleanState(k + 1)' /\ outcome' = outcome /\ ~EndsYenc(line)
<1> DEFINE a == Article(content, form)
<1>1. mode \in {"none", "plain"} /\ finished = FALSE /\ handed \o output = Yields(content, form, k)
  BY DEF CleanState
<1>2. PassesPlain(line)
  BY <1>1 DEF LineStep, BeginsYenc, SkipsPart, DecodesData, EndsYenc, RefusesLine
<1>3. mode' = "plain" /\ finished' = finished /\ outcome' = outcome
  BY <1>2 DEF PassesPlain
<1>4. Joins(handed' \o output', handed \o output, line.bytes \o CRLF)
  BY <1>2, PlainHands
<1>5. Yield(a[k + 1], form) = line.bytes \o CRLF
  BY Zenon DEF Yield
<1>6. Joins(Yields(content, form, k + 1), Yields(content, form, k), Yield(a[k + 1], form))
  BY YieldsAppends DEF IsPosted
<1>7. handed' \o output' = Yields(content, form, k + 1)
  BY <1>1, <1>4, <1>5, <1>6, Zenon DEF Joins
<1>8. finished' = (form # "text" /\ k + 1 = Len(a))
  BY <1>1, <1>3, Zenon
<1>9. k + 1 \in Nat \ {0} /\ mode' = IF form = "text" THEN "plain" ELSE "yenc"
  BY <1>3
<1>10. CleanState(k + 1)'
  <2> DEFINE j == k + 1
  <2> HIDE DEF j
  <2>1. QED BY <1>7, <1>8, <1>9, CleanNext DEF j
<1>11. ~EndsYenc(line)
  BY DEF EndsYenc
<1>12. QED BY <1>3, <1>10, <1>11

(* A line that adds nothing to what is yielded.                            *)
LEMMA YieldsNothing ==
  ASSUME IsPosted, form # "text", NEW k \in Nat, k < Len(Article(content, form)),
         Article(content, form)[k + 1].kind # "data"
  PROVE  Yields(content, form, k + 1) = Yields(content, form, k)
<1> DEFINE a == Article(content, form)
<1>1. Yield(a[k + 1], form) = <<>>
  BY Zenon DEF Yield
<1>2. Joins(Yields(content, form, k + 1), Yields(content, form, k), Yield(a[k + 1], form))
  BY YieldsAppends DEF IsPosted
<1>3. Yields(content, form, k) \in Seq(Bytes)
  <2>1. k \in 0..Len(a)
    BY ArticleGood
  <2>2. QED BY <2>1, YieldsType DEF IsPosted
<1>4. Yields(content, form, k + 1) = Yields(content, form, k) \o <<>>
  BY <1>1, <1>2, Zenon DEF Joins
<1>5. QED BY <1>3, <1>4, ConcatEmptySeq

LEMMA CleanHeader ==
  ASSUME IsPosted, form # "text", CleanState(0), NEW line, line = Article(content, form)[1],
         0 + 1 < Len(Article(content, form)), line.kind = "=ybegin", line.size \in Nat, LineStep(line),
         content' = content, form' = form
  PROVE  CleanState(0 + 1)' /\ outcome' = outcome /\ ~EndsYenc(line)
<1> DEFINE a == Article(content, form)
<1>1. mode = "none" /\ finished = (form # "text" /\ 0 = Len(a)) /\ handed \o output = Yields(content, form, 0)
  BY DEF CleanState
<1>2. line.size # -1
  OBVIOUS
<1>3. BeginsYenc(line)
  BY <1>1, <1>2 DEF LineStep, PassesPlain, SkipsPart, DecodesData, EndsYenc, RefusesLine
<1>4. /\ mode' = "yenc" /\ expected' = line.size /\ finished' = finished /\ outcome' = outcome
      /\ handed' = handed /\ output' = output
  BY <1>3 DEF BeginsYenc
<1>5. Len(a) \in Nat /\ 0 + 1 = 1
  BY ArticleGood
<1>6. Yields(content, form, 0 + 1) = Yields(content, form, 0)
  <2>1. 0 < Len(a) /\ 0 \in Nat
    BY <1>5
  <2>2. a[0 + 1].kind # "data"
    BY <1>5
  <2> HIDE DEF a
  <2>3. QED BY ONLY IsPosted, form # "text", <2>1, <2>2, YieldsNothing DEF a
<1>7. handed' \o output' = Yields(content, form, 1)
  BY <1>1, <1>4, <1>5, <1>6
<1>8. finished' = (form # "text" /\ 1 = Len(a))
  <2>1. 1 < Len(a)
    BY <1>5
  <2> HIDE DEF a
  <2>2. 1 # Len(a) /\ 0 # Len(a)
    <3>1. \A x \in Nat : 1 < x => 1 # x /\ 0 # x
      OBVIOUS
    <3>2. QED BY ONLY <1>5, <2>1, <3>1, Zenon
  <2>3. QED BY <1>1, <1>4, <2>2
<1>9. CleanState(1)'
  <2>1. 1 \in Nat \ {0} /\ mode' = IF form = "text" THEN "plain" ELSE "yenc"
    BY <1>4
  <2>2. form # "text" => expected' = a[1].size
    BY <1>4
  <2>3. QED BY <1>7, <1>8, <2>1, <2>2, CleanNext
<1>10. ~EndsYenc(line)
  BY DEF EndsYenc
<1>11. QED BY <1>4, <1>5, <1>9, <1>10

LEMMA CleanMiddle ==
  ASSUME IsPosted, DecoderType, form # "text", NEW k \in Nat \ {0}, NEW j, j = k + 1,
         j < Len(Article(content, form)), CleanState(k),
         NEW line \in Lines, line = Article(content, form)[j],
         line.kind = "=ypart" \/ (line.kind = "data" /\ ~Dangling(line.bytes)), LineStep(line),
         content' = content, form' = form
  PROVE  CleanState(j)' /\ outcome' = outcome /\ ~EndsYenc(line)
<1> DEFINE a == Article(content, form)
<1>0. Len(a) \in Nat /\ k < Len(a) /\ k # Len(a) /\ j # Len(a) /\ j \in Nat \ {0} /\ k > 0
  BY ArticleGood
<1>1. /\ mode = "yenc" /\ finished = FALSE /\ handed \o output = Yields(content, form, k)
      /\ expected = a[1].size
  BY <1>0 DEF CleanState
<1>2. Joins(Yields(content, form, j), Yields(content, form, k), Yield(line, form))
  BY <1>0, YieldsAppends DEF IsPosted
<1>3. CASE line.kind = "=ypart"
  <2>1. SkipsPart(line)
    BY <1>1, <1>3 DEF LineStep, BeginsYenc, PassesPlain, DecodesData, EndsYenc, RefusesLine
  <2>2. mode' = mode /\ finished' = finished /\ expected' = expected /\ outcome' = outcome
        /\ handed' = handed /\ output' = output
    BY <2>1 DEF SkipsPart, decoder
  <2>3. Yields(content, form, j) = Yields(content, form, k)
    BY <1>0, <1>3, YieldsNothing
  <2>4. handed' \o output' = Yields(content, form, j)
    BY <1>1, <2>2, <2>3
  <2>5. ~EndsYenc(line)
    BY <1>3 DEF EndsYenc
  <2>6. finished' = (form # "text" /\ j = Len(a)) /\ mode' = IF form = "text" THEN "plain" ELSE "yenc"
    <3>1. finished' = (form # "text" /\ j = Len(a))
      BY <1>0, <1>1, <2>2, Zenon
    <3>2. QED BY <1>1, <2>2, <3>1
  <2>7. CleanState(j)'
    BY <1>0, <1>1, <2>2, <2>4, <2>6, CleanNext
  <2>8. QED BY <2>2, <2>5, <2>7
<1>4. CASE line.kind = "data" /\ ~Dangling(line.bytes)
  <2>1. DecodesData(line)
    BY <1>1, <1>4 DEF LineStep, BeginsYenc, PassesPlain, SkipsPart, EndsYenc, RefusesLine
  <2>2. mode' = mode /\ finished' = finished /\ expected' = expected /\ outcome' = outcome
    BY <2>1 DEF DecodesData
  <2>3. Joins(handed' \o output', handed \o output, Decoded(line.bytes))
    BY <2>1, DataHands
  <2>4. Yield(line, form) = Decoded(line.bytes)
    BY <1>4, Zenon DEF Yield
  <2>5. handed' \o output' = Yields(content, form, j)
    BY <1>1, <1>2, <2>3, <2>4, Zenon DEF Joins
  <2>6. ~EndsYenc(line)
    BY <1>4 DEF EndsYenc
  <2>7. finished' = (form # "text" /\ j = Len(a)) /\ mode' = IF form = "text" THEN "plain" ELSE "yenc"
    <3>1. finished' = (form # "text" /\ j = Len(a))
      BY <1>0, <1>1, <2>2, Zenon
    <3>2. QED BY <1>1, <2>2, <3>1
  <2>8. CleanState(j)'
    BY <1>0, <1>1, <2>2, <2>5, <2>7, CleanNext
  <2>9. QED BY <2>2, <2>6, <2>8
<1>5. QED BY <1>3, <1>4

LEMMA CleanTrailer ==
  ASSUME IsPosted, DecoderType, HandedInv, form # "text", NEW k \in Nat \ {0}, NEW j, j = k + 1,
         j = Len(Article(content, form)), CleanState(k), NEW line, line.kind = "=yend",
         Checksum(line) = CrcGiven(content, form), LineStep(line), content' = content, form' = form
  PROVE  /\ line.size = Len(content) => CleanState(j)' /\ outcome' = outcome
         /\ decoded = content
<1> DEFINE a == Article(content, form)
<1>0. Len(a) \in Nat /\ k < Len(a) /\ k # Len(a) /\ j \in Nat \ {0} /\ k > 0 /\ k = Len(a) - 1
  BY ArticleGood
<1>1. /\ mode = "yenc" /\ finished = FALSE /\ handed \o output = Yields(content, form, k)
      /\ expected = a[1].size
  BY <1>0 DEF CleanState
<1>2. Yields(content, form, j) = content /\ Yields(content, form, k) = content
  BY <1>0, YieldsContent DEF IsPosted
<1>3. decoded = content
  BY <1>1, <1>2 DEF HandedInv
<1>4. a[1].size >= Len(content)
  <2>1. 1 \in 1..Len(a) /\ 1 # Len(a)
    BY <1>0
  <2>2. QED BY <2>1, PostedLine
<1>5. ASSUME line.size = Len(content) PROVE CleanState(j)' /\ outcome' = outcome
  <2>1. Checked(line)
    <3>1. line.size = Len(decoded) /\ line.size <= expected
      BY <1>1, <1>3, <1>4, <1>5
    <3>2. Checksum(line) # NoCrc => Checksum(line) = Crc(decoded)
      BY <1>3 DEF CrcGiven
    <3>3. QED BY <3>1, <3>2 DEF Checked
  <2>2. EndsYenc(line)
    BY <1>1, <2>1 DEF LineStep, BeginsYenc, PassesPlain, SkipsPart, DecodesData, RefusesLine
  <2>3. finished' = TRUE /\ mode' = mode /\ expected' = expected /\ outcome' = outcome
    BY <2>2 DEF EndsYenc
  <2>4. handed' \o output' = handed \o output
    BY <2>2, EndHands
  <2>5. handed' \o output' = Yields(content, form, j)
    BY <1>1, <1>2, <2>4
  <2>6. finished' = (form # "text" /\ j = Len(a)) /\ mode' = IF form = "text" THEN "plain" ELSE "yenc"
    BY <1>1, <2>3
  <2>7. CleanState(j)'
    BY <1>0, <1>1, <2>3, <2>5, <2>6, CleanNext
  <2>8. QED BY <2>3, <2>7
<1>6. QED BY <1>3, <1>5

LEMMA CleanStep ==
  ASSUME IsPosted, DecoderType, HandedInv, NEW n \in Int, NEW k \in Nat, NEW j, j = k + 1,
         k < Len(Article(content, form)), CleanState(k), NEW line, line = Trailed(n)[j], LineStep(line),
         content' = content, form' = form
  PROVE  LET a == Article(content, form)
         IN /\ j < Len(a) \/ n = a[Len(a)].size => CleanState(j)' /\ outcome' = outcome
            /\ EndsYenc(line) => decoded = content
<1> DEFINE a == Article(content, form)
<1>0. Len(a) \in Nat /\ j \in Nat /\ j \in 1..Len(a)
  BY ArticleGood
<1>1. /\ line \in Lines /\ a[j] \in Lines
      /\ line.kind = a[j].kind /\ line.bytes = a[j].bytes /\ Checksum(line) = Checksum(a[j])
      /\ j # Len(a) \/ n = a[Len(a)].size => line = a[j]
  BY <1>0, TrailedLine
<1>2. IF form = "text" THEN a[j].kind = "data"
      ELSE \/ j = 1 /\ j < Len(a) /\ a[j].kind = "=ybegin" /\ a[j].size \in Nat
           \/ j > 1 /\ j < Len(a) /\ (a[j].kind = "=ypart" \/ (a[j].kind = "data" /\ ~Dangling(a[j].bytes)))
           \/ j > 1 /\ j = Len(a) /\ a[j].kind = "=yend" /\ a[j].size = Len(content)
              /\ Checksum(a[j]) = CrcGiven(content, form)
  BY <1>0, PostedLine
<1>3. CASE form = "text"
  <2>1. CleanState(k + 1)' /\ outcome' = outcome /\ ~EndsYenc(line)
    BY <1>1, <1>2, <1>3, CleanText
  <2>2. QED BY <2>1, Zenon
<1>4. CASE form # "text" /\ j = 1 /\ j < Len(a) /\ a[j].kind = "=ybegin" /\ a[j].size \in Nat
  <2>1. line = a[1] /\ k = 0 /\ 0 + 1 < Len(a) /\ j = 0 + 1
    BY <1>0, <1>1, <1>4
  <2>2. CleanState(0)
    BY <2>1, Zenon
  <2>3. CleanState(0 + 1)' /\ outcome' = outcome /\ ~EndsYenc(line)
    BY <1>4, <2>1, <2>2, CleanHeader
  <2>4. QED BY <2>1, <2>3, Zenon
<1>5. CASE /\ form # "text" /\ j > 1 /\ j < Len(a)
           /\ a[j].kind = "=ypart" \/ (a[j].kind = "data" /\ ~Dangling(a[j].bytes))
  <2>1. line = a[j] /\ k \in Nat \ {0}
    BY <1>0, <1>1, <1>5
  <2>2. CleanState(j)' /\ outcome' = outcome /\ ~EndsYenc(line)
    BY <1>1, <1>5, <2>1, CleanMiddle
  <2>3. QED BY <2>2
<1>6. CASE /\ form # "text" /\ j > 1 /\ j = Len(a) /\ a[j].kind = "=yend" /\ a[j].size = Len(content)
           /\ Checksum(a[j]) = CrcGiven(content, form)
  <2>1. k \in Nat \ {0}
    BY <1>6
  <2>2. /\ line.size = Len(content) => CleanState(j)' /\ outcome' = outcome
        /\ decoded = content
    BY <1>1, <1>6, <2>1, CleanTrailer
  <2>3. j < Len(a) \/ n = a[Len(a)].size => line.size = Len(content)
    BY <1>0, <1>1, <1>6
  <2>4. QED BY <2>2, <2>3
<1>7. QED BY <1>2, <1>3, <1>4, <1>5, <1>6

-----------------------------------------------------------------------------
(* The steps.                                                              *)

LEMMA Posting ==
  ASSUME TypeInv
  PROVE  IsPosted /\ DecoderType
  BY DEF TypeInv, IsPosted, DecoderType

LEMMA WirePosition ==
  ASSUME TypeInv, pc = "lines", NEW n \in Int, OnWire(Trailed(n)), NEW k, k = Read(Article(content, form))
  PROVE  LET a == Article(content, form)
         IN /\ k \in 0..Len(a) /\ Len(a) \in Nat \ {0} /\ Len(wire) = Len(a) + 1 - k
            /\ Stripped(wire[1].bytes) # <<Dot>> => k < Len(a) /\ Received(wire[1]) = Trailed(n)[k + 1]
            /\ Stripped(wire[1].bytes) = <<Dot>> => k = Len(a)
<1> DEFINE a == Article(content, form)
           b == Trailed(n)
<1>1. Len(a) \in Nat \ {0} /\ b \in Seq(Lines) /\ Len(b) = Len(a)
  BY Posting, ArticleGood, TrailedIs
<1>2. wire # <<>> /\ Len(wire) \in Nat \ {0}
  BY WireTail DEF TypeInv
<1>3. Len(wire) <= Len(b) + 1 /\ \A i \in 1..Len(wire) : wire[i] = Sent(b)[Len(b) + 1 - Len(wire) + i]
  BY DEF OnWire
<1>4. /\ \A i \in 1..Len(b) : Sent(b)[i] = Stuffed(b[i])
      /\ Sent(b)[Len(b) + 1].bytes = <<Dot>>
  BY <1>1, SentIs
<1> HIDE DEF a, b
<1>5. k = Len(a) + 1 - Len(wire)
  BY <1>2 DEF Read, a
<1>6. k \in 0..Len(a) /\ Len(wire) = Len(a) + 1 - k
  BY <1>1, <1>2, <1>3, <1>5
<1>7. wire[1] = Sent(b)[k + 1]
  <2>1. 1 \in 1..Len(wire) /\ Len(b) + 1 - Len(wire) + 1 = k + 1
    BY <1>1, <1>2, <1>5
  <2>2. wire[1] = Sent(b)[Len(b) + 1 - Len(wire) + 1]
    BY <1>3, <2>1
  <2>3. QED BY <2>1, <2>2
<1>8. ASSUME k < Len(a) PROVE Stripped(wire[1].bytes) # <<Dot>> /\ Received(wire[1]) = b[k + 1]
  <2>1. k + 1 \in 1..Len(b)
    BY <1>1, <1>6, <1>8
  <2>2. b[k + 1] \in Lines
    BY <1>1, <2>1, ElementOfSeq
  <2>3. wire[1] = Stuffed(b[k + 1])
    BY <1>4, <1>7, <2>1
  <2>4. ~Ends(b[k + 1].bytes)
    <3>1. k + 1 \in 1..Len(a)
      BY <1>1, <2>1
    <3>2. QED BY <3>1, Posting, TrailedEnds DEF a, b
  <2>5. QED BY <2>2, <2>3, <2>4, Unstuffs
<1>9. ASSUME k = Len(a) PROVE Stripped(wire[1].bytes) = <<Dot>>
  BY <1>1, <1>4, <1>7, <1>9, DotIsNoEnd
<1>10. k < Len(a) \/ k = Len(a)
  BY <1>1, <1>6
<1>11. QED BY <1>1, <1>6, <1>8, <1>9, <1>10 DEF a, b

LEMMA OnWireTail ==
  ASSUME TypeInv, pc = "lines", NEW b, Len(b) \in Nat, OnWire(b)
  PROVE  /\ Len(Tail(wire)) <= Len(b) + 1
         /\ \A i \in 1..Len(Tail(wire)) : Tail(wire)[i] = Sent(b)[Len(b) + 1 - Len(Tail(wire)) + i]
<1>1. /\ Len(wire) \in Nat \ {0} /\ Len(Tail(wire)) = Len(wire) - 1
      /\ \A i \in 1..Len(wire) - 1 : Tail(wire)[i] = wire[i + 1]
  BY WireTail
<1>2. Len(wire) <= Len(b) + 1 /\ \A i \in 1..Len(wire) : wire[i] = Sent(b)[Len(b) + 1 - Len(wire) + i]
  BY DEF OnWire
<1>3. ASSUME NEW i \in 1..Len(Tail(wire))
      PROVE  Tail(wire)[i] = Sent(b)[Len(b) + 1 - Len(Tail(wire)) + i]
  <2> DEFINE m == i + 1
  <2>1. m \in 1..Len(wire) /\ i \in 1..Len(wire) - 1
    BY <1>1
  <2>2. Tail(wire)[i] = wire[m]
    BY <1>1, <2>1
  <2>3. Len(b) + 1 - Len(wire) + m = Len(b) + 1 - Len(Tail(wire)) + i
    BY <1>1
  <2> HIDE DEF m
  <2>4. wire[m] = Sent(b)[Len(b) + 1 - Len(wire) + m]
    BY <1>2, <2>1
  <2>5. QED BY <2>2, <2>3, <2>4
<1>4. QED BY <1>1, <1>2, <1>3

(* The trailers still to come are among those that were.                   *)
LEMMA TrailersKept ==
  ASSUME TypeInv, pc = "lines", wire' = Tail(wire), content' = content, form' = form
  PROVE  (CrcInv => CrcInv') /\ (SizeInv => SizeInv')
<1>1. /\ Len(wire) \in Nat \ {0} /\ Len(Tail(wire)) = Len(wire) - 1
      /\ \A i \in 1..Len(wire) - 1 : Tail(wire)[i] = wire[i + 1]
  BY WireTail
<1>2. \A i \in 1..Len(wire') : i + 1 \in 1..Len(wire) /\ wire'[i] = wire[i + 1]
  BY <1>1
<1>3. CrcInv => CrcInv'
  BY <1>2 DEF CrcInv
<1>4. SizeInv => SizeInv'
  BY <1>2 DEF SizeInv
<1>5. QED BY <1>3, <1>4

LEMMA FirstTrailer ==
  ASSUME TypeInv, pc = "lines", CrcInv, NEW line, line = Received(wire[1]), line.kind = "=yend"
  PROVE  Checksum(line) = CrcGiven(content, form) /\ (SizeInv => line.size = Len(content))
<1>1. Len(wire) \in Nat \ {0} /\ wire[1] \in Lines
  BY WireTail
<1>2. line.kind = wire[1].kind /\ Checksum(line) = Checksum(wire[1]) /\ line.size = wire[1].size
  BY <1>1 DEF Received, Lines, Checksum
<1>3. 1 \in 1..Len(wire)
  BY <1>1
<1>4. QED BY <1>2, <1>3 DEF CrcInv, SizeInv, CrcGiven

LEMMA ReadsTypes ==
  ASSUME TypeInv, HandedInv, ReadsLine
  PROVE  TypeInv' /\ HandedInv' /\ outcome = "none" /\ outcome' \in {"none", "refused"}
<1> DEFINE line == Received(wire[1])
<1>1. /\ pc = "lines" /\ Stripped(wire[1].bytes) # <<Dot>> /\ LineStep(line)
      /\ wire' = Tail(wire) /\ UNCHANGED article
  BY ReadsLineIs
<1>2. /\ line \in Lines /\ Tail(wire) \in Seq(Lines)
      /\ Tail(wire) # <<>> /\ Tail(wire)[Len(Tail(wire))].bytes = <<Dot>>
  BY <1>1, WireTail
<1> HIDE DEF line
<1>3. outcome = "none"
  BY <1>1 DEF TypeInv
<1>4. DecoderType' /\ HandedInv'
  BY <1>1, <1>2, <1>3, Posting, LineHands
<1>5. (pc' = "lines" /\ outcome' = "none") \/ (pc' = "close" /\ outcome' = "refused")
  BY <1>1, <1>3, LineOutcome
<1>6. content' = content /\ form' = form /\ whole' = whole
  BY <1>1 DEF article
<1>7. TypeInv'
  <2>1. /\ pc' \in {"connect", "greeting", "user", "pass", "body", "lines", "close", "ended"}
        /\ outcome' \in {"none", "temporary", "failed", "unavailable", "refused", "abandoned", "done"}
        /\ outcome' = "none" <=> pc' \notin {"close", "ended"}
    BY <1>5
  <2>2. wire' \in Seq(Lines) /\ wire' # <<>> /\ wire'[Len(wire')].bytes = <<Dot>>
    BY <1>1, <1>2
  <2>3. QED BY <1>4, <1>6, <2>1, <2>2 DEF TypeInv, DecoderType
<1>8. QED BY <1>3, <1>4, <1>5, <1>7

LEMMA ReadsClean ==
  ASSUME StreamInv, CleanInv, ReadsLine
  PROVE  CleanInv' /\ FinishedInv'
<1> DEFINE a == Article(content, form)
<1>0. PICK k, line : k = Read(a) /\ line = Received(wire[1])
  OBVIOUS
<1> DEFINE j == k + 1
<1>1. TypeInv /\ HandedInv /\ CrcInv /\ FinishedInv
  BY DEF StreamInv
<1>2. /\ pc = "lines" /\ Stripped(wire[1].bytes) # <<Dot>> /\ LineStep(line)
      /\ wire' = Tail(wire) /\ UNCHANGED article
  BY <1>0, ReadsLineIs
<1>3. content' = content /\ form' = form /\ whole' = whole
  BY <1>2 DEF article
<1>4. PICK n \in Int :
        /\ OnWire(Trailed(n))
        /\ whole => n = a[Len(a)].size /\ outcome # "refused"
        /\ k < Len(a) \/ whole => CleanState(k)
        /\ whole /\ outcome = "done" => k = Len(a)
  BY <1>0 DEF CleanInv
<1>5. /\ k \in 0..Len(a) /\ Len(a) \in Nat \ {0} /\ Len(wire) = Len(a) + 1 - k
      /\ k < Len(a) /\ line = Trailed(n)[k + 1]
  BY <1>0, <1>1, <1>2, <1>4, WirePosition
<1>6. /\ Len(Tail(wire)) = Len(wire) - 1 /\ Tail(wire) # <<>>
  BY <1>1, <1>2, WireTail
<1>7. IsPosted /\ DecoderType
  BY <1>1, Posting
<1>8. outcome = "none" /\ outcome' \in {"none", "refused"}
  BY <1>1, ReadsTypes
<1> HIDE DEF a, j
<1>9. CleanState(k)
  BY <1>4, <1>5
<1>10. k \in Nat /\ j = k + 1 /\ line = Trailed(n)[j]
  BY <1>5 DEF j
<1>11. /\ j < Len(a) \/ n = a[Len(a)].size => CleanState(j)' /\ outcome' = outcome
       /\ EndsYenc(line) => decoded = content
  BY <1>1, <1>2, <1>3, <1>5, <1>7, <1>9, <1>10, CleanStep DEF a
<1>12. FinishedInv'
  <2>1. line.kind = "=yend" => Checksum(line) = CrcGiven(content, form)
    BY <1>0, <1>1, <1>2, FirstTrailer
  <2>2. content # <<>>
    BY <1>7 DEF IsPosted
  <2>3. EndsYenc(line) => line.size = Len(content) \/ decoded = content
    BY <1>11
  <2>4. QED BY ONLY <1>1, <1>2, <1>3, <2>1, <2>2, <2>3, LineFinishes
<1>13. CleanInv'
  <2>1. Article(content, form)' = a /\ Trailed(n)' = Trailed(n)
    BY <1>3 DEF a, Trailed
  <2>2. OnWire(Trailed(n))'
    <3>1. Len(Trailed(n)) \in Nat
      BY <1>5, <1>7, TrailedIs DEF a
    <3>2. /\ Len(Tail(wire)) <= Len(Trailed(n)) + 1
          /\ \A i \in 1..Len(Tail(wire)) :
               Tail(wire)[i] = Sent(Trailed(n))[Len(Trailed(n)) + 1 - Len(Tail(wire)) + i]
      BY <1>1, <1>2, <1>4, <3>1, OnWireTail
    <3>3. QED BY <1>2, <2>1, <3>2 DEF OnWire
  <2>3. (Read(Article(content, form)))' = j
    <3>1. Len(a) + 1 - Len(Tail(wire)) = j
      <4>1. \A x \in Int, y \in Int : x + 1 - (x + 1 - y - 1) = y + 1
        OBVIOUS
      <4>2. Len(Tail(wire)) = Len(a) + 1 - k - 1 /\ Len(a) \in Int /\ k \in Int
        BY <1>5, <1>6
      <4>3. QED BY ONLY <1>10, <4>1, <4>2, Zenon
    <3>2. QED BY <1>2, <1>6, <2>1, <3>1 DEF Read
  <2>4. whole' => n = a[Len(a)].size /\ outcome' # "refused"
    BY <1>3, <1>4, <1>8, <1>11
  <2>5. j < Len(a) \/ whole' => CleanState(j)'
    BY <1>3, <1>4, <1>11
  <2>6. outcome' # "done"
    BY <1>8
  <2>7. QED BY <2>1, <2>2, <2>3, <2>4, <2>5, <2>6 DEF CleanInv
<1>14. QED BY <1>12, <1>13

LEMMA ReadsSize ==
  ASSUME StreamInv, SizeInv, ReadsLine
  PROVE  SizeInv' /\ FinishedInv'
<1> DEFINE line == Received(wire[1])
<1>1. TypeInv /\ HandedInv /\ CrcInv /\ FinishedInv /\ content # <<>>
  BY DEF StreamInv, TypeInv
<1>2. /\ pc = "lines" /\ LineStep(line) /\ wire' = Tail(wire) /\ UNCHANGED article
  BY ReadsLineIs
<1>3. content' = content /\ form' = form
  BY <1>2 DEF article
<1>4. line.kind = "=yend" => Checksum(line) = CrcGiven(content, form) /\ line.size = Len(content)
  BY <1>1, <1>2, FirstTrailer
<1>5. EndsYenc(line) => line.size = Len(content) \/ decoded = content
  BY <1>4 DEF EndsYenc
<1> HIDE DEF line
<1>6. FinishedInv'
  BY ONLY <1>1, <1>2, <1>3, <1>4, <1>5, LineFinishes
<1>7. SizeInv'
  BY <1>1, <1>2, <1>3, TrailersKept
<1>8. QED BY <1>6, <1>7

LEMMA ReadsKeeps ==
  ASSUME StreamInv, ReadsLine
  PROVE  StreamInv'
<1>1. TypeInv /\ HandedInv /\ CrcInv /\ (CleanInv \/ (~whole /\ SizeInv))
  BY DEF StreamInv
<1>2. pc = "lines" /\ wire' = Tail(wire) /\ content' = content /\ form' = form /\ whole' = whole
  BY ReadsLineIs DEF article
<1>3. TypeInv' /\ HandedInv'
  BY <1>1, ReadsTypes
<1>4. CrcInv'
  BY <1>1, <1>2, TrailersKept
<1>5. CleanInv => CleanInv' /\ FinishedInv'
  BY ReadsClean
<1>6. SizeInv => SizeInv' /\ FinishedInv'
  BY ReadsSize
<1>7. QED BY <1>1, <1>2, <1>3, <1>4, <1>5, <1>6 DEF StreamInv

LEMMA FinishesIs ==
  ASSUME Finishes
  PROVE  /\ pc = "lines" /\ Stripped(wire[1].bytes) = <<Dot>> /\ pc' = "close"
         /\ wire' = Tail(wire) /\ UNCHANGED article
         /\ \/ mode = "yenc" /\ ~finished /\ outcome' = "refused" /\ UNCHANGED decoder
            \/ ~(mode = "yenc" /\ ~finished) /\ outcome' = "done" /\ Flushes(output, TRUE)
               /\ UNCHANGED <<mode, finished, expected, decoded>>
  BY DEF Finishes, Raises

LEMMA FinishesHands ==
  ASSUME DecoderType, HandedInv, FinishedInv, Finishes
  PROVE  /\ DecoderType' /\ HandedInv' /\ FinishedInv'
         /\ UNCHANGED <<mode, finished, expected>> /\ handed' \o output' = handed \o output
<1>1. content' = content /\ form' = form /\ outcome' \in {"refused", "done"}
  BY FinishesIs DEF article
<1>2. CASE mode = "yenc" /\ ~finished /\ outcome' = "refused" /\ UNCHANGED decoder
  BY <1>1, <1>2 DEF DecoderType, HandedInv, FinishedInv, decoder
<1>3. CASE /\ ~(mode = "yenc" /\ ~finished) /\ outcome' = "done" /\ Flushes(output, TRUE)
           /\ UNCHANGED <<mode, finished, expected, decoded>>
  <2>1. /\ handed' \in Seq(Bytes) /\ output' = <<>> /\ output' \in Seq(Bytes)
        /\ handed' \o output' = handed \o output
    BY <1>3, ForceHands
  <2>2. DecoderType'
    BY <1>3, <2>1 DEF DecoderType
  <2>3. HandedInv'
    <3>1. /\ mode = "none" => handed = <<>> /\ output = <<>> /\ decoded = <<>> /\ ~finished
          /\ mode = "yenc" => handed \o output = decoded
          /\ finished => mode = "yenc"
      BY DEF HandedInv
    <3>2. mode = "none" => handed' = <<>>
      <4>1. handed' \o output' = handed'
        BY <2>1, ConcatEmptySeq
      <4>2. mode = "none" => handed \o output = <<>>
        BY <3>1, EmptySeq, ConcatEmptySeq
      <4>3. QED BY <2>1, <4>1, <4>2
    <3>3. mode' = mode /\ finished' = finished /\ decoded' = decoded /\ (mode = "yenc" => finished)
      BY <1>3
    <3>4. QED BY <2>1, <3>1, <3>2, <3>3, Zenon DEF HandedInv
  <2>4. FinishedInv'
    BY <1>1, <1>3 DEF FinishedInv
  <2>5. QED BY <1>3, <2>1, <2>2, <2>3, <2>4
<1>4. QED BY <1>2, <1>3, FinishesIs

LEMMA FinishesClean ==
  ASSUME StreamInv, CleanInv, Finishes
  PROVE  CleanInv'
<1> DEFINE a == Article(content, form)
<1>1. TypeInv /\ HandedInv /\ FinishedInv
  BY DEF StreamInv
<1>2. /\ pc = "lines" /\ Stripped(wire[1].bytes) = <<Dot>> /\ wire' = Tail(wire)
      /\ content' = content /\ form' = form /\ whole' = whole
  BY FinishesIs DEF article
<1>3. IsPosted /\ DecoderType
  BY <1>1, Posting
<1>4. /\ UNCHANGED <<mode, finished, expected>> /\ handed' \o output' = handed \o output
  BY <1>1, <1>3, FinishesHands
<1>5. PICK k : k = Read(a)
  OBVIOUS
<1>6. PICK n \in Int :
        /\ OnWire(Trailed(n))
        /\ whole => n = a[Len(a)].size /\ outcome # "refused"
        /\ k < Len(a) \/ whole => CleanState(k)
  BY <1>5 DEF CleanInv
<1>7. Len(a) \in Nat \ {0} /\ Len(wire) = Len(a) + 1 - k /\ k = Len(a)
  BY <1>1, <1>2, <1>5, <1>6, WirePosition
<1>8. Len(Tail(wire)) = Len(wire) - 1 /\ Tail(wire) \in Seq(Lines)
  BY <1>1, <1>2, WireTail
<1> HIDE DEF a
<1>9. Tail(wire) = <<>>
  <2>1. Len(Tail(wire)) = 0
    BY <1>7, <1>8
  <2>2. QED BY <1>8, <2>1, EmptySeq
<1>10. Article(content, form)' = a /\ Trailed(n)' = Trailed(n)
  BY <1>2 DEF a, Trailed
<1>11. OnWire(Trailed(n))'
  <2>1. Len(Trailed(n)) \in Nat
    BY <1>3, <1>7, TrailedIs DEF a
  <2>2. /\ Len(Tail(wire)) <= Len(Trailed(n)) + 1
        /\ \A i \in 1..Len(Tail(wire)) :
             Tail(wire)[i] = Sent(Trailed(n))[Len(Trailed(n)) + 1 - Len(Tail(wire)) + i]
    BY <1>1, <1>2, <1>6, <2>1, OnWireTail
  <2>3. QED BY <1>2, <1>10, <2>2 DEF OnWire
<1>12. (Read(Article(content, form)))' = k
  BY <1>2, <1>7, <1>9, <1>10 DEF Read
<1>13. ASSUME whole PROVE outcome' = "done" /\ CleanState(k)'
  <2>1. CleanState(k)
    BY <1>6, <1>13
  <2>2. CleanState(k)'
    BY <1>2, <1>4, <2>1, Zenon DEF CleanState
  <2>3. ~(mode = "yenc" /\ ~finished)
    BY <1>7, <2>1 DEF CleanState, a
  <2>4. QED BY <2>2, <2>3, FinishesIs
<1>14. k < Len(a) \/ whole' => CleanState(k)'
  BY <1>2, <1>7, <1>13
<1>15. whole' => n = a[Len(a)].size /\ outcome' # "refused"
  BY <1>2, <1>6, <1>13
<1>16. QED BY <1>7, <1>10, <1>11, <1>12, <1>14, <1>15 DEF CleanInv

LEMMA FinishesKeeps ==
  ASSUME StreamInv, Finishes
  PROVE  StreamInv'
<1>1. TypeInv /\ HandedInv /\ CrcInv /\ FinishedInv /\ (CleanInv \/ (~whole /\ SizeInv))
  BY DEF StreamInv
<1>2. /\ pc = "lines" /\ pc' = "close" /\ wire' = Tail(wire)
      /\ content' = content /\ form' = form /\ whole' = whole
      /\ outcome' \in {"refused", "done"}
  BY FinishesIs DEF article
<1>3. DecoderType' /\ HandedInv' /\ FinishedInv'
  BY <1>1, Posting, FinishesHands
<1>4. TypeInv'
  <2>1. wire' \in Seq(Lines)
    BY <1>1, <1>2, WireTail
  <2>2. QED BY <1>1, <1>2, <1>3, <2>1 DEF TypeInv, DecoderType
<1>5. (CrcInv => CrcInv') /\ (SizeInv => SizeInv')
  BY <1>1, <1>2, TrailersKept
<1>6. CleanInv => CleanInv'
  BY FinishesClean
<1>7. QED BY <1>1, <1>2, <1>3, <1>4, <1>5, <1>6 DEF StreamInv

LEMMA StreamStep == StreamInv /\ [Next]_vars => StreamInv'
<1> SUFFICES ASSUME StreamInv, [Next]_vars PROVE StreamInv'
  OBVIOUS
<1>1. CASE Aside
  BY <1>1, AsideKeeps
<1>2. CASE ReadsLine
  BY <1>2, ReadsKeeps
<1>3. CASE Finishes
  BY <1>3, FinishesKeeps
<1>4. CASE UNCHANGED vars
  <2>1. UNCHANGED <<article, wire, decoder>> /\ outcome' = outcome
    BY <1>4 DEF vars
  <2>2. TypeInv'
    BY <1>4 DEF StreamInv, TypeInv, vars, article, decoder
  <2>3. QED BY <2>1, <2>2, StreamKept
<1>5. QED BY <1>1, <1>2, <1>3, <1>4 DEF Next, Aside

(* The invariant the two properties follow from, of every step of every    *)
(* stream.                                                                 *)
THEOREM StreamHolds == Spec => []StreamInv
<1>1. Init => StreamInv
  BY InitTypes, InitStream DEF StreamInv
<1>2. QED BY <1>1, StreamStep, PTL DEF Spec

-----------------------------------------------------------------------------
(* What the invariant says of a stream.                                    *)

LEMMA DeliveredNow == StreamInv => DeliveredIsPosted
<1> SUFFICES ASSUME StreamInv, outcome = "done", mode = "yenc"
             PROVE  Len(handed) = Len(content) /\ (form # "bare" => handed = content)
  BY DEF DeliveredIsPosted
<1>1. output = <<>> /\ finished /\ handed \o output = decoded
  BY DEF StreamInv, HandedInv
<1>2. handed \o <<>> = handed
  BY ConcatEmptySeq DEF StreamInv, TypeInv
<1>3. handed = decoded
  BY <1>1, <1>2
<1>4. QED BY <1>1, <1>3 DEF StreamInv, FinishedInv

LEMMA WholeNow == StreamInv => WholeIsAccepted
<1> SUFFICES ASSUME StreamInv, whole
             PROVE  outcome # "refused" /\ IsPrefix(handed, Posted) /\ (outcome = "done" => handed = Posted)
  BY DEF WholeIsAccepted
<1> DEFINE a == Article(content, form)
<1>1. TypeInv /\ HandedInv /\ CleanInv
  BY DEF StreamInv
<1>2. IsPosted /\ DecoderType
  BY <1>1, Posting
<1>3. PICK k : k = Read(a)
  OBVIOUS
<1>4. PICK n \in Int :
        /\ OnWire(Trailed(n))
        /\ outcome # "refused"
        /\ CleanState(k)
        /\ outcome = "done" => k = Len(a)
  BY <1>1, <1>3 DEF CleanInv
<1>5. k \in 0..Len(a)
  <2>1. Len(a) \in Nat /\ Len(Trailed(n)) = Len(a)
    BY <1>2, ArticleGood, TrailedIs
  <2>2. Len(wire) <= Len(a) + 1
    BY <1>4, <2>1 DEF OnWire
  <2>3. wire # <<>> => Len(wire) \in Nat \ {0}
    BY <1>1, EmptySeq DEF TypeInv
  <2>4. k = IF wire = <<>> THEN Len(a) ELSE Len(a) + 1 - Len(wire)
    BY <1>3 DEF Read
  <2> HIDE DEF a
  <2>5. QED BY <2>1, <2>2, <2>3, <2>4
<1> DEFINE y == Yields(content, form, k)
<1>6. y \in Seq(Bytes) /\ Posted \in Seq(Bytes) /\ Yields(content, form, Len(a)) = Posted
  BY <1>2, <1>5, YieldsType, YieldsPosted DEF IsPosted
<1>7. Starts(y, Posted)
  BY <1>2, <1>5, <1>6, YieldsStarts DEF IsPosted
<1>8. handed \in Seq(Bytes) /\ output \in Seq(Bytes) /\ y = handed \o output
  BY <1>2, <1>4 DEF DecoderType, CleanState
<1>9. IsPrefix(handed, Posted)
  <2> HIDE DEF y
  <2>1. /\ Len(y) = Len(handed) + Len(output)
        /\ \A i \in 1..Len(handed) + Len(output) :
             y[i] = IF i <= Len(handed) THEN handed[i] ELSE output[i - Len(handed)]
    BY <1>8, ConcatProperties
  <2>2. Len(handed) \in Nat /\ Len(output) \in Nat /\ Len(Posted) \in Nat
    BY <1>6, <1>8, LenProperties
  <2>3. Len(y) <= Len(Posted) /\ \A i \in 1..Len(y) : y[i] = Posted[i]
    BY <1>7 DEF Starts
  <2>4. Starts(handed, Posted)
    BY ONLY <2>1, <2>2, <2>3 DEF Starts
  <2>5. QED BY <1>6, <1>8, <2>4, StartsPrefix
<1>10. ASSUME outcome = "done" PROVE handed = Posted
  <2>1. output = <<>> /\ k = Len(a)
    BY <1>1, <1>4, <1>10 DEF HandedInv
  <2>2. handed \o <<>> = handed
    BY <1>8, ConcatEmptySeq
  <2>3. QED BY <1>6, <1>8, <2>1, <2>2
<1>11. QED BY <1>4, <1>9, <1>10

(* Whatever the server does to a yEnc article, a stream of it that ends    *)
(* well has yielded as many bytes as were posted, and those bytes if the   *)
(* poster gave a checksum: of contents of any length, cut into lines and   *)
(* chunks of any.                                                          *)
THEOREM DeliveredMatchesPosted == Spec => []DeliveredIsPosted
  BY StreamHolds, DeliveredNow, PTL

(* An article the server has undamaged is never refused for what it says,  *)
(* and comes through the wire and the decoder as it was posted, whatever   *)
(* its bytes and its form: the decoder undoes the poster's encoding line   *)
(* by line.                                                                *)
THEOREM WholeGetsAccepted == Spec => []WholeIsAccepted
  BY StreamHolds, WholeNow, PTL

(* yEnc, of any bytes: what the poster's encoding of a line is decoded to  *)
(* is the line, and its last byte is no escape.                            *)
THEOREM DecodingUndoesEncoding ==
  ASSUME NEW s \in Seq(Bytes)
  PROVE  Decoded(Encodes(s)) = s /\ ~Dangling(Encodes(s))
  BY EncodingUndone DEF Undone

=============================================================================

-------------------------- MODULE Pipeline_proofs ---------------------------
(***************************************************************************)
(* Pipeline hands every edge of the file to the structure, once and in     *)
(* file order, and the vertices of the structure are 0 .. num_nodes - 1.   *)
(*                                                                         *)
(* The edges in the system (applied, popped, queued, being read) are one   *)
(* sequence that no step but reading a line changes; the invariant says    *)
(* what that sequence is: the lines read so far, by ID, with flags that    *)
(* count the IDs given out.                                                *)
(***************************************************************************)
EXTENDS Pipeline, SequenceTheorems, FiniteSetTheorems, WellFoundedInduction, TLAPS

(* Induction on natural numbers, for a set instead of a predicate.         *)
Less == {p \in Nat \X Nat : p[1] < p[2]}

LEMMA LeastNatural ==
    ASSUME NEW S \in SUBSET Nat, S # {}
    PROVE  \E m \in S : \A n \in S : m <= n
<1>1. IsWellFoundedOn(Less, Nat)
  BY Zenon, NatLessThanWellFounded DEF OpToRel, Less
<1>2. PICK m \in S : \A n \in S : <<n, m>> \notin Less
  BY <1>1, WFMin
<1>3. \A n \in S : n \in Nat /\ m \in Nat /\ ~(n < m)
  BY <1>2 DEF Less
<1> QED
  BY <1>3

LEMMA SetInduction ==
    ASSUME NEW S, 0 \in S, \A n \in Nat : n \in S => n + 1 \in S
    PROVE  Nat \subseteq S
<1> DEFINE T == Nat \ S
<1>1. SUFFICES ASSUME T # {} PROVE FALSE
  OBVIOUS
<1>2. PICK m \in T : \A n \in T : m <= n
  BY <1>1, LeastNatural
<1>3. m # 0 /\ m - 1 \in Nat /\ m = (m - 1) + 1
  OBVIOUS
<1>4. m - 1 \notin T
  BY <1>2, <1>3
<1> QED
  BY <1>3, <1>4

-----------------------------------------------------------------------------
(* A sequence of sequences, joined.                                        *)

Glue(a, b) == a \o b

(* Q is a set of sequences that joining does not leave.                    *)
Glueable(Q) ==
    /\ <<>> \in Q
    /\ \A a, b \in Q : Glue(a, b) \in Q
    /\ \A a \in Q : Glue(<<>>, a) = a /\ Glue(a, <<>>) = a
    /\ \A a, b, c \in Q : Glue(Glue(a, b), c) = Glue(a, Glue(b, c))

LEMMA SeqGlueable == ASSUME NEW S PROVE Glueable(Seq(S))
<1>1. <<>> \in Seq(S) /\ \A a, b \in Seq(S) : a \o b \in Seq(S)
  BY EmptySeq, ConcatProperties
<1>2. \A a \in Seq(S) : <<>> \o a = a /\ a \o <<>> = a
  BY ConcatEmptySeq
<1>3. \A a, b, c \in Seq(S) : (a \o b) \o c = a \o (b \o c)
  BY ConcatAssociative
<1> QED
  BY Zenon, <1>1, <1>2, <1>3 DEF Glueable, Glue

LEMMA GlueAssociative ==
    ASSUME NEW Q, Glueable(Q), NEW a \in Q, NEW b \in Q, NEW c \in Q
    PROVE  Glue(Glue(a, b), c) = Glue(a, Glue(b, c))
BY DEF Glueable

(* What has been joined after each of n of them.                           *)
Glued(f, Q, n, seqs) ==
    /\ f \in [0 .. n -> Q]
    /\ f[0] = <<>>
    /\ \A i \in 1 .. n : f[i] = Glue(f[i - 1], seqs[i])

LEMMA GluedExist ==
    ASSUME NEW Q, Glueable(Q), NEW n \in Nat, NEW seqs, \A i \in 1 .. n : seqs[i] \in Q
    PROVE  \E f : Glued(f, Q, n, seqs)
<1> DEFINE T == {m \in Nat : m <= n => \E f : Glued(f, Q, m, seqs)}
<1>1. 0 \in T
  <2>1. PICK e \in Q : e = <<>>
    BY DEF Glueable
  <2> DEFINE f == [i \in 0 .. 0 |-> e]
  <2>2. f \in [0 .. 0 -> Q] /\ f[0] = <<>> /\ 1 .. 0 = {}
    BY <2>1
  <2>3. Glued(f, Q, 0, seqs)
    BY <2>2 DEF Glued
  <2> QED
    BY <2>3
<1>2. ASSUME NEW m \in Nat, m \in T PROVE m + 1 \in T
  <2> SUFFICES ASSUME m + 1 <= n PROVE \E f : Glued(f, Q, m + 1, seqs)
    OBVIOUS
  <2>1. PICK f : Glued(f, Q, m, seqs)
    BY <1>2
  <2>2. /\ f \in [0 .. m -> Q] /\ f[0] = <<>>
        /\ \A i \in 1 .. m : f[i] = Glue(f[i - 1], seqs[i])
    BY <2>1 DEF Glued
  <2>3. PICK next \in Q : next = Glue(f[m], seqs[m + 1])
    <3>1. f[m] \in Q /\ seqs[m + 1] \in Q
      BY <2>2
    <3> QED
      BY <3>1 DEF Glueable
  <2> DEFINE g == [i \in 0 .. m + 1 |-> IF i <= m THEN f[i] ELSE next]
  <2>4. g \in [0 .. m + 1 -> Q] /\ g[0] = <<>>
    BY <2>2, <2>3
  <2>5. ASSUME NEW i \in 1 .. m + 1 PROVE g[i] = Glue(g[i - 1], seqs[i])
    <3>1. CASE i <= m
      <4>1. i \in 1 .. m /\ g[i] = f[i] /\ g[i - 1] = f[i - 1]
        BY <3>1
      <4> QED
        BY <2>2, <4>1
    <3>2. CASE i = m + 1
      <4>1. g[i] = next /\ g[i - 1] = f[m]
        BY <3>2
      <4> QED
        BY <2>3, <3>2, <4>1
    <3> QED
      BY <3>1, <3>2
  <2> HIDE DEF g
  <2> QED
    BY <2>4, <2>5 DEF Glued
<1>3. Nat \subseteq T
  <2> HIDE DEF T
  <2> QED
    BY <1>1, <1>2, SetInduction
<1> QED
  BY <1>3

(* They are determined by the sequences.                                   *)
LEMMA GluedAgree ==
    ASSUME NEW Q, NEW n \in Nat, NEW k \in 0 .. n, NEW f, NEW g, NEW r, NEW s,
           Glued(f, Q, n, r), Glued(g, Q, k, s), \A i \in 1 .. k : r[i] = s[i]
    PROVE  f[k] = g[k]
<1> DEFINE T == {i \in Nat : i <= k => f[i] = g[i]}
<1>1. 0 \in T
  BY DEF Glued
<1>2. ASSUME NEW i \in Nat, i \in T PROVE i + 1 \in T
  <2> SUFFICES ASSUME i + 1 <= k PROVE f[i + 1] = g[i + 1]
    OBVIOUS
  <2>1. i + 1 \in 1 .. k /\ i + 1 \in 1 .. n /\ (i + 1) - 1 = i /\ f[i] = g[i]
    BY <1>2
  <2>2. f[i + 1] = Glue(f[i], r[i + 1]) /\ g[i + 1] = Glue(g[i], s[i + 1])
    BY <2>1 DEF Glued
  <2> QED
    BY <2>1, <2>2
<1>3. Nat \subseteq T
  <2> HIDE DEF T
  <2> QED
    BY <1>1, <1>2, SetInduction
<1> QED
  BY <1>3

(* FlattenSeq computes the last of them.                                   *)
LEMMA FlattenIsLast ==
    ASSUME NEW S, NEW seqs \in Seq(Seq(S)), NEW n \in Nat, n = Len(seqs),
           NEW f, Glued(f, Seq(S), n, seqs)
    PROVE  FlattenSeq(seqs) = f[n]
<1>1. CASE n = 0
  BY <1>1, EmptySeq DEF FlattenSeq, Glued
<1>2. CASE n # 0
  <2> DEFINE R(g) == g = [i \in 1 .. n |-> IF i = 1 THEN seqs[i] ELSE g[i - 1] \o seqs[i]]
  <2>1. PICK Q : Q = Seq(S) /\ Glueable(Q)
    BY SeqGlueable
  <2>2. \A i \in 1 .. n : seqs[i] \in Q
    BY <2>1
  <2>3. f[0] = <<>> /\ \A i \in 1 .. n : f[i] = Glue(f[i - 1], seqs[i])
    BY DEF Glued
  <2>4. PICK h : h = [i \in 1 .. n |-> f[i]]
    OBVIOUS
  <2>5. \A i \in 1 .. n : h[i] = IF i = 1 THEN seqs[i] ELSE Glue(h[i - 1], seqs[i])
    <3> SUFFICES ASSUME NEW i \in 1 .. n
                 PROVE  h[i] = IF i = 1 THEN seqs[i] ELSE Glue(h[i - 1], seqs[i])
      OBVIOUS
    <3>1. CASE i = 1
      <4>1. f[1] = Glue(<<>>, seqs[1]) /\ seqs[1] \in Q /\ h[1] = f[1]
        <5>1. 1 \in 1 .. n /\ 1 - 1 = 0
          BY <3>1
        <5> QED
          BY <2>2, <2>3, <2>4, <5>1
      <4> QED
        BY <2>1, <3>1, <4>1 DEF Glueable
    <3>2. CASE i # 1
      <4>1. i - 1 \in 1 .. n
        BY <3>2
      <4> QED
        BY <2>3, <2>4, <3>2, <4>1
    <3> QED
      BY <3>1, <3>2
  <2>6. R(h)
    <3>1. h = [i \in 1 .. n |-> h[i]]
      BY <2>4
    <3> QED
      BY Zenon, <2>5, <3>1 DEF Glue
  <2>7. ASSUME NEW g, R(g) PROVE g[n] = h[n]
    <3>1. \A i \in 1 .. n : g[i] = IF i = 1 THEN seqs[i] ELSE g[i - 1] \o seqs[i]
      BY Zenon, <2>7
    <3>2. \A i \in 1 .. n : g[i] = IF i = 1 THEN seqs[i] ELSE Glue(g[i - 1], seqs[i])
      BY Zenon, <3>1 DEF Glue
    <3> DEFINE T == {i \in Nat : i \in 1 .. n => g[i] = h[i]}
    <3>3. 0 \in T
      OBVIOUS
    <3>4. ASSUME NEW i \in Nat, i \in T PROVE i + 1 \in T
      <4> SUFFICES ASSUME i + 1 \in 1 .. n PROVE g[i + 1] = h[i + 1]
        OBVIOUS
      <4>1. CASE i = 0
        BY <2>5, <3>2, <4>1
      <4>2. CASE i # 0
        <5>1. i \in 1 .. n /\ g[i] = h[i] /\ i + 1 # 1 /\ (i + 1) - 1 = i
          BY <3>4, <4>2
        <5> QED
          BY <2>5, <3>2, <5>1
      <4> QED
        BY <4>1, <4>2
    <3>5. Nat \subseteq T
      <4> HIDE DEF T
      <4> QED
        BY <3>3, <3>4, SetInduction
    <3>6. n \in 1 .. n
      BY <1>2
    <3> QED
      BY <3>5, <3>6
  <2>8. FlattenSeq(seqs) = (CHOOSE g : R(g))[n]
    BY <1>2 DEF FlattenSeq
  <2>9. h[n] = f[n]
    BY <1>2, <2>4
  <2> HIDE DEF R
  <2>10. R(CHOOSE g : R(g))
    BY <2>6
  <2> QED
    BY <2>7, <2>8, <2>9, <2>10
<1> QED
  BY <1>1, <1>2

(* The joins of a sequence of sequences, with what is known of them.       *)
LEMMA FlattenSteps ==
    ASSUME NEW S, NEW seqs \in Seq(Seq(S)), NEW n \in Nat, n = Len(seqs)
    PROVE  \E f : Glued(f, Seq(S), n, seqs) /\ FlattenSeq(seqs) = f[n]
<1>1. \A i \in 1 .. n : seqs[i] \in Seq(S)
  OBVIOUS
<1>2. \E f : Glued(f, Seq(S), n, seqs)
  BY <1>1, SeqGlueable, GluedExist
<1> QED
  BY <1>2, FlattenIsLast

LEMMA FlattenTyped ==
    ASSUME NEW S, NEW seqs \in Seq(Seq(S))
    PROVE  FlattenSeq(seqs) \in Seq(S)
<1>1. PICK n \in Nat : n = Len(seqs)
  OBVIOUS
<1>2. PICK f : Glued(f, Seq(S), n, seqs) /\ FlattenSeq(seqs) = f[n]
  BY <1>1, FlattenSteps
<1> QED
  BY <1>2 DEF Glued

LEMMA FlattenEmpty == FlattenSeq(<<>>) = <<>>
BY EmptySeq DEF FlattenSeq

(* What is appended comes last.                                            *)
LEMMA FlattenAppend ==
    ASSUME NEW S, NEW seqs \in Seq(Seq(S)), NEW s \in Seq(S)
    PROVE  FlattenSeq(Append(seqs, s)) = FlattenSeq(seqs) \o s
<1>1. PICK n \in Nat : n = Len(seqs)
  OBVIOUS
<1>2. PICK new \in Seq(Seq(S)) : new = Append(seqs, s)
  BY AppendProperties
<1>3. Len(new) = n + 1 /\ new[n + 1] = s /\ \A i \in 1 .. n : new[i] = seqs[i]
  BY <1>1, <1>2, AppendProperties
<1>4. PICK f : Glued(f, Seq(S), n, seqs) /\ FlattenSeq(seqs) = f[n]
  BY <1>1, FlattenSteps
<1>5. PICK g : Glued(g, Seq(S), n + 1, new) /\ FlattenSeq(new) = g[n + 1]
  BY <1>3, FlattenSteps
<1>6. g[n] = f[n]
  <2>1. n \in 0 .. n + 1 /\ n + 1 \in Nat
    OBVIOUS
  <2> QED
    BY <1>3, <1>4, <1>5, <2>1, GluedAgree
<1>7. g[n + 1] = Glue(g[n], s)
  <2>1. n + 1 \in 1 .. n + 1 /\ (n + 1) - 1 = n
    OBVIOUS
  <2>2. \A i \in 1 .. n + 1 : g[i] = Glue(g[i - 1], new[i])
    BY <1>5 DEF Glued
  <2> QED
    BY <1>3, <2>1, <2>2
<1> QED
  BY Zenon, <1>2, <1>4, <1>5, <1>6, <1>7 DEF Glue

(* What comes first may be taken apart.                                    *)
LEMMA FlattenHead ==
    ASSUME NEW S, NEW seqs \in Seq(Seq(S)), seqs # <<>>
    PROVE  /\ Head(seqs) \in Seq(S) /\ Tail(seqs) \in Seq(Seq(S))
           /\ FlattenSeq(seqs) = Head(seqs) \o FlattenSeq(Tail(seqs))
<1>1. PICK Q : Q = Seq(S) /\ Glueable(Q)
  BY SeqGlueable
<1>2. Tail(seqs) \in Seq(Seq(S)) /\ Head(seqs) \in Seq(S)
  BY HeadTailProperties
<1>3. PICK rest \in Seq(Q), s \in Q : rest = Tail(seqs) /\ s = Head(seqs)
  BY Zenon, <1>1, <1>2
<1>4. PICK n \in Nat : n = Len(rest)
  OBVIOUS
<1>5. /\ Len(seqs) = n + 1 /\ seqs[1] = s
      /\ \A i \in 1 .. n : rest[i] = seqs[i + 1] /\ rest[i] \in Q
  <2>1. /\ Len(seqs) \in Nat \ {0} /\ Head(seqs) = seqs[1]
        /\ Len(rest) = Len(seqs) - 1
        /\ \A i \in 1 .. Len(seqs) - 1 : rest[i] = seqs[i + 1]
    BY <1>3, HeadTailProperties, LenProperties, EmptySeq
  <2>2. \A i \in 1 .. n : rest[i] \in Q
    BY <1>4
  <2> QED
    BY <1>3, <1>4, <2>1, <2>2
<1>6. PICK f : Glued(f, Q, n + 1, seqs) /\ FlattenSeq(seqs) = f[n + 1]
  <2>1. n + 1 \in Nat
    OBVIOUS
  <2> QED
    BY ZenonT(30), <1>1, <1>5, <2>1, FlattenSteps
<1>7. PICK g : Glued(g, Q, n, rest) /\ FlattenSeq(rest) = g[n]
  BY <1>1, <1>4, FlattenSteps
<1>8. /\ f[0] = <<>> /\ \A i \in 1 .. n + 1 : f[i] = Glue(f[i - 1], seqs[i])
      /\ g \in [0 .. n -> Q] /\ g[0] = <<>>
      /\ \A i \in 1 .. n : g[i] = Glue(g[i - 1], rest[i])
  BY <1>6, <1>7 DEF Glued
<1> DEFINE T == {i \in Nat : i <= n => f[i + 1] = Glue(s, g[i])}
<1>9. 0 \in T
  <2>1. f[0 + 1] = Glue(<<>>, s)
    <3>1. 1 \in 1 .. n + 1 /\ 1 - 1 = 0 /\ 0 + 1 = 1
      OBVIOUS
    <3> QED
      BY <1>5, <1>8, <3>1
  <2>2. Glue(<<>>, s) = s /\ Glue(s, <<>>) = s
    BY <1>1 DEF Glueable
  <2> QED
    BY <1>8, <2>1, <2>2
<1>10. ASSUME NEW i \in Nat, i \in T PROVE i + 1 \in T
  <2> SUFFICES ASSUME i + 1 <= n PROVE f[(i + 1) + 1] = Glue(s, g[i + 1])
    OBVIOUS
  <2>1. /\ i + 1 \in 1 .. n /\ (i + 1) + 1 \in 1 .. n + 1 /\ i \in 0 .. n
        /\ (i + 1) - 1 = i /\ ((i + 1) + 1) - 1 = i + 1
    OBVIOUS
  <2>2. f[(i + 1) + 1] = Glue(f[i + 1], seqs[(i + 1) + 1]) /\ f[i + 1] = Glue(s, g[i])
    BY <1>8, <1>10, <2>1
  <2>3. g[i + 1] = Glue(g[i], rest[i + 1]) /\ rest[i + 1] = seqs[(i + 1) + 1]
    BY <1>5, <1>8, <2>1
  <2>4. g[i] \in Q /\ rest[i + 1] \in Q
    BY <1>5, <1>8, <2>1
  <2>5. Glue(Glue(s, g[i]), rest[i + 1]) = Glue(s, Glue(g[i], rest[i + 1]))
    BY <1>1, <2>4, GlueAssociative
  <2> QED
    BY <2>2, <2>3, <2>5
<1>11. Nat \subseteq T
  <2> HIDE DEF T
  <2> QED
    BY <1>9, <1>10, SetInduction
<1>12. f[n + 1] = Glue(s, g[n])
  BY <1>11
<1> QED
  BY Zenon, <1>2, <1>3, <1>6, <1>7, <1>12 DEF Glue

(* Joining the first few gives a beginning of the whole.                   *)
LEMMA FlattenPrefix ==
    ASSUME NEW S, NEW seqs \in Seq(Seq(S)), NEW first \in Seq(Seq(S)),
           Len(first) <= Len(seqs), \A i \in 1 .. Len(first) : first[i] = seqs[i]
    PROVE  \E rest \in Seq(S) : FlattenSeq(seqs) = FlattenSeq(first) \o rest
<1>1. PICK Q : Q = Seq(S) /\ Glueable(Q)
  BY SeqGlueable
<1>2. PICK n \in Nat : n = Len(seqs)
  OBVIOUS
<1>3. PICK k \in 0 .. n : k = Len(first)
  BY <1>2
<1>4. \A i \in 1 .. n : seqs[i] \in Q
  BY <1>1, <1>2
<1>5. PICK f : Glued(f, Q, n, seqs) /\ FlattenSeq(seqs) = f[n]
  BY <1>1, <1>2, FlattenSteps
<1>6. PICK g : Glued(g, Q, k, first) /\ FlattenSeq(first) = g[k]
  BY <1>1, <1>3, FlattenSteps
<1>7. g[k] = f[k]
  <2>1. \A i \in 1 .. k : seqs[i] = first[i]
    BY <1>3
  <2> QED
    BY <1>5, <1>6, <2>1, GluedAgree
<1>8. f \in [0 .. n -> Q] /\ \A i \in 1 .. n : f[i] = Glue(f[i - 1], seqs[i])
  BY <1>5 DEF Glued
<1> DEFINE T == {i \in Nat : k + i <= n => \E rest \in Q : f[k + i] = Glue(f[k], rest)}
<1>9. 0 \in T
  <2>1. f[k] \in Q /\ k + 0 = k
    BY <1>8
  <2>2. <<>> \in Q /\ Glue(f[k], <<>>) = f[k]
    BY <1>1, <2>1 DEF Glueable
  <2> QED
    BY <2>1, <2>2
<1>10. ASSUME NEW i \in Nat, i \in T PROVE i + 1 \in T
  <2> SUFFICES ASSUME k + (i + 1) <= n
               PROVE  \E rest \in Q : f[k + (i + 1)] = Glue(f[k], rest)
    OBVIOUS
  <2>1. PICK rest \in Q : f[k + i] = Glue(f[k], rest)
    BY <1>10
  <2>2. PICK s \in Q : f[k + (i + 1)] = Glue(f[k + i], s)
    <3>1. k + (i + 1) \in 1 .. n /\ (k + (i + 1)) - 1 = k + i
      OBVIOUS
    <3> QED
      BY <1>4, <1>8, <3>1
  <2>3. Glue(rest, s) \in Q
    BY <1>1 DEF Glueable
  <2>4. Glue(Glue(f[k], rest), s) = Glue(f[k], Glue(rest, s))
    <3>1. f[k] \in Q
      BY <1>8
    <3> QED
      BY <1>1, <3>1, GlueAssociative
  <2> QED
    BY <2>1, <2>2, <2>3, <2>4
<1>11. Nat \subseteq T
  <2> HIDE DEF T
  <2> QED
    BY <1>9, <1>10, SetInduction
<1>12. PICK rest \in Q : f[n] = Glue(f[k], rest)
  <2>1. PICK i \in Nat : k + i = n
    <3>1. n - k \in Nat /\ k + (n - k) = n
      OBVIOUS
    <3> QED
      BY <3>1
  <2>2. i \in T
    <3> HIDE DEF T
    <3> QED
      BY <1>11
  <2> QED
    BY <2>1, <2>2
<1> QED
  BY Zenon, <1>1, <1>5, <1>6, <1>7, <1>12 DEF Glue

-----------------------------------------------------------------------------
(* The edges among the lines of a text.                                    *)

PerLine(text) ==
    [i \in DOMAIN text |-> IF text[i] = <<Blank>> THEN <<>> ELSE <<text[i]>>]
EdgeLine == Names \X Names

LEMMA PerLineTyped ==
    ASSUME NEW text \in Seq(Lines)
    PROVE  /\ PerLine(text) \in Seq(Seq(EdgeLine))
           /\ Len(PerLine(text)) = Len(text)
           /\ \A i \in 1 .. Len(text) :
                PerLine(text)[i] = IF text[i] = <<Blank>> THEN <<>> ELSE <<text[i]>>
<1>1. PICK n \in Nat : n = Len(text) /\ DOMAIN text = 1 .. n
  BY LenProperties
<1>2. ASSUME NEW i \in 1 .. n
      PROVE  (IF text[i] = <<Blank>> THEN <<>> ELSE <<text[i]>>) \in Seq(EdgeLine)
  <2>1. text[i] \in Lines
    BY <1>1
  <2>2. CASE text[i] = <<Blank>>
    BY <2>2, EmptySeq
  <2>3. CASE text[i] # <<Blank>>
    <3>1. PICK line \in EdgeLine : line = text[i]
      BY <2>1, <2>3 DEF Lines, EdgeLine
    <3>2. <<line>> \in Seq(EdgeLine)
      OBVIOUS
    <3> QED
      BY <2>3, <3>1, <3>2
  <2> QED
    BY <2>2, <2>3
<1>3. PICK Q : Q = Seq(EdgeLine)
  OBVIOUS
<1>4. PICK s : s = PerLine(text)
  OBVIOUS
<1>5. /\ s \in [1 .. n -> Q]
      /\ \A i \in 1 .. n : s[i] = IF text[i] = <<Blank>> THEN <<>> ELSE <<text[i]>>
  BY <1>1, <1>2, <1>3, <1>4 DEF PerLine
<1>6. s \in Seq(Q) /\ Len(s) = n
  BY <1>5, IsASeq
<1> QED
  BY <1>1, <1>3, <1>4, <1>5, <1>6

LEMMA EdgeLinesTyped ==
    ASSUME NEW text \in Seq(Lines)
    PROVE  EdgeLines(text) \in Seq(EdgeLine)
BY PerLineTyped, FlattenTyped DEF EdgeLines, PerLine

LEMMA EdgeLinesAppend ==
    ASSUME NEW text \in Seq(Lines), NEW line \in Lines
    PROVE  /\ line = <<Blank>> => EdgeLines(Append(text, line)) = EdgeLines(text)
           /\ line # <<Blank>> => /\ line \in EdgeLine
                                  /\ EdgeLines(Append(text, line)) = Append(EdgeLines(text), line)
<1>1. PICK new \in Seq(Lines) : new = Append(text, line)
  BY AppendProperties
<1>2. PICK n \in Nat : n = Len(text)
  OBVIOUS
<1>3. Len(new) = n + 1 /\ new[n + 1] = line /\ \A i \in 1 .. n : new[i] = text[i]
  BY <1>1, <1>2, AppendProperties
<1>4. PICK one \in Seq(EdgeLine) : one = IF line = <<Blank>> THEN <<>> ELSE <<line>>
  <2>1. CASE line = <<Blank>>
    BY <2>1, EmptySeq
  <2>2. CASE line # <<Blank>>
    <3>1. line \in EdgeLine
      BY <2>2 DEF Lines, EdgeLine
    <3>2. <<line>> \in Seq(EdgeLine)
      BY <3>1
    <3> QED
      BY <2>2, <3>2
  <2> QED
    BY <2>1, <2>2
<1>5. PICK Q : Q = Seq(EdgeLine)
  OBVIOUS
<1>6. PICK old \in Seq(Q) :
        /\ old = PerLine(text) /\ Len(old) = n
        /\ \A i \in 1 .. n : old[i] = IF text[i] = <<Blank>> THEN <<>> ELSE <<text[i]>>
  BY <1>2, <1>5, PerLineTyped
<1>7. PICK long \in Seq(Q) :
        /\ long = PerLine(new) /\ Len(long) = n + 1
        /\ \A i \in 1 .. n + 1 : long[i] = IF new[i] = <<Blank>> THEN <<>> ELSE <<new[i]>>
  BY <1>3, <1>5, PerLineTyped
<1>8. long = Append(old, one)
  <2>1. Append(old, one) \in Seq(Q) /\ Len(Append(old, one)) = n + 1
    BY <1>4, <1>5, <1>6, AppendProperties
  <2>2. ASSUME NEW i \in 1 .. n + 1 PROVE long[i] = Append(old, one)[i]
    <3>1. CASE i = n + 1
      <4>1. Append(old, one)[n + 1] = one
        BY <1>4, <1>5, <1>6, AppendProperties
      <4>2. long[n + 1] = one
        BY <1>3, <1>4, <1>7, <3>1
      <4> QED
        BY <3>1, <4>1, <4>2
    <3>2. CASE i # n + 1
      <4>1. i \in 1 .. n
        BY <3>2
      <4>2. Append(old, one)[i] = old[i]
        BY <1>4, <1>5, <1>6, <4>1, AppendProperties
      <4>3. long[i] = old[i]
        BY <1>3, <1>6, <1>7, <4>1
      <4> QED
        BY <4>2, <4>3
    <3> QED
      BY <3>1, <3>2
  <2> QED
    BY <1>7, <2>1, <2>2, SeqEqual
<1>9. EdgeLines(new) = EdgeLines(text) \o one
  <2>1. FlattenSeq(Append(old, one)) = FlattenSeq(old) \o one
    BY <1>5, FlattenAppend
  <2>2. EdgeLines(new) = FlattenSeq(long) /\ EdgeLines(text) = FlattenSeq(old)
    BY <1>6, <1>7 DEF EdgeLines, PerLine
  <2> QED
    BY Zenon, <1>8, <2>1, <2>2
<1>10. PICK e \in Seq(EdgeLine) : e = EdgeLines(text)
  BY EdgeLinesTyped
<1>11. CASE line = <<Blank>>
  <2>1. e \o <<>> = e
    BY ConcatEmptySeq
  <2> QED
    BY <1>1, <1>4, <1>9, <1>10, <1>11, <2>1
<1>12. CASE line # <<Blank>>
  <2>1. line \in EdgeLine
    BY <1>12 DEF Lines, EdgeLine
  <2>2. Append(e, line) = e \o <<line>>
    BY <2>1, AppendIsConcat
  <2> QED
    BY <1>1, <1>4, <1>9, <1>10, <1>12, <2>1, <2>2
<1> QED
  BY <1>11, <1>12

(* The edges among the first lines come first.                             *)
LEMMA EdgeLinesPrefix ==
    ASSUME NEW text \in Seq(Lines), NEW k \in 0 .. Len(text)
    PROVE  /\ SubSeq(text, 1, k) \in Seq(Lines)
           /\ \E rest \in Seq(EdgeLine) :
                 EdgeLines(text) = EdgeLines(SubSeq(text, 1, k)) \o rest
<1>1. PICK n \in Nat : n = Len(text)
  OBVIOUS
<1>2. /\ SubSeq(text, 1, k) \in Seq(Lines) /\ Len(SubSeq(text, 1, k)) = k
      /\ \A i \in 1 .. k : SubSeq(text, 1, k)[i] = text[i]
  OBVIOUS
<1>3. PICK first \in Seq(Lines) : first = SubSeq(text, 1, k)
  BY Zenon, <1>2
<1>4. Len(first) = k /\ \A i \in 1 .. k : first[i] = text[i]
  BY Zenon, <1>2, <1>3
<1>5. PICK Q : Q = Seq(EdgeLine)
  OBVIOUS
<1>6. PICK all \in Seq(Q) :
        /\ all = PerLine(text) /\ Len(all) = n
        /\ \A i \in 1 .. n : all[i] = IF text[i] = <<Blank>> THEN <<>> ELSE <<text[i]>>
  BY <1>1, <1>5, PerLineTyped
<1>7. PICK some \in Seq(Q) :
        /\ some = PerLine(first) /\ Len(some) = k
        /\ \A i \in 1 .. k : some[i] = IF first[i] = <<Blank>> THEN <<>> ELSE <<first[i]>>
  BY <1>4, <1>5, PerLineTyped
<1>8. Len(some) <= Len(all) /\ \A i \in 1 .. Len(some) : some[i] = all[i]
  <2>1. k <= n
    BY <1>1
  <2>2. ASSUME NEW i \in 1 .. k PROVE some[i] = all[i]
    <3>1. i \in 1 .. n
      BY <2>1
    <3> QED
      BY <1>4, <1>6, <1>7, <3>1
  <2> QED
    BY <1>6, <1>7, <2>1, <2>2
<1>9. \E rest \in Seq(EdgeLine) : FlattenSeq(all) = FlattenSeq(some) \o rest
  BY <1>5, <1>8, FlattenPrefix
<1> QED
  BY <1>2, <1>3, <1>6, <1>7, <1>9 DEF EdgeLines, PerLine

-----------------------------------------------------------------------------
(* How many IDs the first i edges of s have given out.                     *)
Known(s, i) ==
    Cardinality({j \in 1 .. i : ~s[j].sourceExists})
        + Cardinality({j \in 1 .. i : ~s[j].destExists})
Given(exists) == IF exists THEN 0 ELSE 1

LEMMA KnownSteps ==
    ASSUME NEW s, NEW i \in Nat
    PROVE  /\ Known(s, i) \in Nat
           /\ Known(s, i + 1) = (Known(s, i) + Given(s[i + 1].sourceExists))
                                   + Given(s[i + 1].destExists)
<1>1. IsFiniteSet(1 .. i)
  BY FS_Interval
<1> DEFINE From(k) == {j \in 1 .. k : ~s[j].sourceExists}
           To(k) == {j \in 1 .. k : ~s[j].destExists}
<1>2. /\ IsFiniteSet(From(i)) /\ IsFiniteSet(To(i))
      /\ Cardinality(From(i)) \in Nat /\ Cardinality(To(i)) \in Nat
  <2>1. From(i) \subseteq 1 .. i /\ To(i) \subseteq 1 .. i
    OBVIOUS
  <2> QED
    BY <1>1, <2>1, FS_Subset, FS_CardinalityType
<1>3. Cardinality(From(i + 1)) = Cardinality(From(i)) + Given(s[i + 1].sourceExists)
  <2>1. CASE s[i + 1].sourceExists
    <3> Given(s[i + 1].sourceExists) = 0
      BY <2>1 DEF Given
    <3>1. From(i + 1) = From(i)
      BY <2>1
    <3>2. Cardinality(From(i + 1)) = Cardinality(From(i))
      BY Zenon, <3>1
    <3> HIDE DEF From
    <3> QED
      BY <1>2, <3>2
  <2>2. CASE ~s[i + 1].sourceExists
    <3> Given(s[i + 1].sourceExists) = 1
      BY <2>2 DEF Given
    <3>1. From(i + 1) = From(i) \cup {i + 1} /\ i + 1 \notin From(i)
      BY <2>2
    <3> QED
      BY <1>2, <3>1, FS_AddElement
  <2> QED
    BY <2>1, <2>2
<1>4. Cardinality(To(i + 1)) = Cardinality(To(i)) + Given(s[i + 1].destExists)
  <2>1. CASE s[i + 1].destExists
    <3> Given(s[i + 1].destExists) = 0
      BY <2>1 DEF Given
    <3>1. To(i + 1) = To(i)
      BY <2>1
    <3>2. Cardinality(To(i + 1)) = Cardinality(To(i))
      BY Zenon, <3>1
    <3> HIDE DEF To
    <3> QED
      BY <1>2, <3>2
  <2>2. CASE ~s[i + 1].destExists
    <3> Given(s[i + 1].destExists) = 1
      BY <2>2 DEF Given
    <3>1. To(i + 1) = To(i) \cup {i + 1} /\ i + 1 \notin To(i)
      BY <2>2
    <3> QED
      BY <1>2, <3>1, FS_AddElement
  <2> QED
    BY <2>1, <2>2
<1>5. Given(s[i + 1].sourceExists) \in 0 .. 1 /\ Given(s[i + 1].destExists) \in 0 .. 1
  BY DEF Given
<1>6. Known(s, i) = Cardinality(From(i)) + Cardinality(To(i))
  BY DEF Known
<1>7. Known(s, i + 1) = Cardinality(From(i + 1)) + Cardinality(To(i + 1))
  BY DEF Known
<1> HIDE DEF From, To
<1> QED
  BY <1>2, <1>3, <1>4, <1>5, <1>6, <1>7

LEMMA KnownNone == ASSUME NEW s PROVE Known(s, 0) = 0
<1>1. {j \in 1 .. 0 : ~s[j].sourceExists} = {} /\ {j \in 1 .. 0 : ~s[j].destExists} = {}
  OBVIOUS
<1> QED
  BY <1>1, FS_EmptySet DEF Known

(* It depends on these edges alone.                                        *)
LEMMA KnownAlike ==
    ASSUME NEW s, NEW t, NEW i \in Nat, \A j \in 1 .. i : s[j] = t[j]
    PROVE  Known(s, i) = Known(t, i)
<1>1. /\ {j \in 1 .. i : ~s[j].sourceExists} = {j \in 1 .. i : ~t[j].sourceExists}
      /\ {j \in 1 .. i : ~s[j].destExists} = {j \in 1 .. i : ~t[j].destExists}
  OBVIOUS
<1> QED
  BY <1>1 DEF Known

(* update() counts what its batch adds.                                    *)
LEMMA KnownConcat ==
    ASSUME NEW S, NEW a \in Seq(S), NEW b \in Seq(S)
    PROVE  Known(a \o b, Len(a \o b)) = Known(a, Len(a)) + NewVertices(b)
<1> PICK c : c = a \o b
  OBVIOUS
<1>1. PICK m \in Nat, n \in Nat :
        /\ m = Len(a) /\ n = Len(b) /\ Len(c) = m + n
        /\ \A i \in 1 .. m : c[i] = a[i]
        /\ \A i \in 1 .. n : c[m + i] = b[i]
  <2>1. /\ Len(a) \in Nat /\ Len(b) \in Nat /\ Len(a \o b) = Len(a) + Len(b)
        /\ \A i \in 1 .. Len(a) : (a \o b)[i] = a[i]
        /\ \A i \in 1 .. Len(b) : (a \o b)[Len(a) + i] = b[i]
    BY ConcatProperties, LenProperties
  <2> QED
    BY Zenon, <2>1
<1> DEFINE T == {i \in Nat : i <= n => Known(c, m + i) = Known(a, m) + Known(b, i)}
<1>2. 0 \in T
  <2>1. Known(c, m) = Known(a, m)
    BY <1>1, KnownAlike
  <2>2. Known(a, m) \in Nat /\ Known(b, 0) = 0 /\ m + 0 = m
    BY SMTT(30), KnownSteps, KnownNone
  <2> QED
    BY <2>1, <2>2
<1>3. ASSUME NEW i \in Nat, i \in T PROVE i + 1 \in T
  <2> SUFFICES ASSUME i + 1 <= n
               PROVE  Known(c, m + (i + 1)) = Known(a, m) + Known(b, i + 1)
    OBVIOUS
  <2>1. Known(c, m + i) = Known(a, m) + Known(b, i)
    BY <1>3
  <2>2. PICK k \in Nat : m + i = k /\ m + (i + 1) = k + 1 /\ c[k + 1] = b[i + 1]
    <3>1. m + (i + 1) = (m + i) + 1 /\ m + i \in Nat /\ i + 1 \in 1 .. n
      OBVIOUS
    <3>2. c[m + (i + 1)] = b[i + 1]
      BY <1>1, <3>1
    <3> QED
      BY <3>1, <3>2
  <2>3. PICK x, y : x = Given(b[i + 1].sourceExists) /\ y = Given(b[i + 1].destExists)
    OBVIOUS
  <2>4. Known(c, m + (i + 1)) = (Known(c, m + i) + x) + y
    <3>1. Known(c, k + 1) = (Known(c, k) + x) + y
      <4>1. x = Given(c[k + 1].sourceExists) /\ y = Given(c[k + 1].destExists)
        BY Zenon, <2>2, <2>3
      <4> QED
        BY Zenon, <4>1, KnownSteps
    <3> QED
      BY <2>2, <3>1
  <2>5. Known(b, i + 1) = (Known(b, i) + x) + y
    BY <2>3, KnownSteps
  <2>6. x \in Nat /\ y \in Nat /\ Known(a, m) \in Nat /\ Known(b, i) \in Nat
    BY <2>3, KnownSteps DEF Given
  <2> QED
    BY <2>1, <2>4, <2>5, <2>6
<1>4. Nat \subseteq T
  <2> HIDE DEF T
  <2> QED
    BY <1>2, <1>3, SetInduction
<1>5. Known(c, m + n) = Known(a, m) + Known(b, n)
  BY <1>4
<1>6. NewVertices(b) = Known(b, n)
  BY <1>1, LenProperties DEF NewVertices, Known
<1> QED
  BY <1>1, <1>5, <1>6

-----------------------------------------------------------------------------
(* The invariant.                                                          *)

(* The edges read so far, as they stand in the file.                       *)
LinesRead == EdgeLines(SubSeq(file, 1, pos - 1))

Reading ==
    /\ pos <= Len(file) + 1 /\ Len(file) <= MaxLines
    /\ eof => pos = Len(file) + 1

(* The edges in the system have the IDs of the names in the lines read.    *)
Numbered(s, lines, map) ==
    /\ Len(s) = Len(lines)
    /\ \A i \in DOMAIN s :
         /\ lines[i][1] \in DOMAIN map /\ s[i].source = map[lines[i][1]]
         /\ lines[i][2] \in DOMAIN map /\ s[i].destination = map[lines[i][2]]

(* An edge may have IDs given out before, or the next.                     *)
After(known, n) == IF n = known THEN known + 1 ELSE known
Shape(e, known) ==
    /\ e.source <= known /\ (e.sourceExists <=> e.source < known)
    /\ e.destination <= After(known, e.source)
    /\ e.destExists <=> e.destination < After(known, e.source)
Shaped(s) == \A i \in DOMAIN s : Shape(s[i], Known(s, i - 1))

(* Each name has an ID, and as many IDs have been given out.               *)
WellMapped(map, last) ==
    /\ map \in [DOMAIN map -> ID] /\ last \in ID \cup {-1}
    /\ \A n \in DOMAIN map : map[n] <= last
    /\ IsFiniteSet(DOMAIN map) /\ Cardinality(DOMAIN map) = last + 1

Counted == num_nodes = Known(applied, Len(applied))

(* What the control points of the two threads say of what they share.      *)
Control ==
    /\ builder # "update" => taken = <<>>
    /\ builder # "perform" => computed = Len(applied)
    /\ main \in {"poll", "stop", "join", "print", "end"} =>
         el = <<>> /\ pos = Len(file) + 1
    /\ main \in {"stop", "join", "print", "end"} => queue = <<>>
    /\ ~still_reading => main \in {"join", "print", "end"}
    /\ builder = "exit" => ~still_reading
    /\ main \in {"print", "end"} => builder = "exit"

Assigning(s, lines, map, last) ==
    /\ Numbered(s, lines, map) /\ Shaped(s) /\ WellMapped(map, last)
    /\ Known(s, Len(s)) = last + 1

IInv ==
    /\ TypeOK /\ Reading /\ Control /\ Counted
    /\ Assigning(InSystem, LinesRead, VMap, lastAssignedLogicalID)

-----------------------------------------------------------------------------
(* A name that is looked up has its ID for good.                           *)
Looked(map, last, name, new, after) ==
    /\ WellMapped(new, after) /\ DOMAIN new = DOMAIN map \cup {name}
    /\ after \in ID /\ after = last + Given(IsMapped(name, map))
    /\ \A n \in DOMAIN map : new[n] = map[n]
    /\ IsMapped(name, map) => new[name] <= last
    /\ ~IsMapped(name, map) => new[name] = last + 1

LEMMA AssignedOne ==
    ASSUME NEW map, NEW last, WellMapped(map, last), NEW name
    PROVE  Looked(map, last, name, Assigned(name, map, last), LastAfter(name, map, last))
<1> PICK new, after : new = Assigned(name, map, last) /\ after = LastAfter(name, map, last)
  OBVIOUS
<1> /\ map \in [DOMAIN map -> ID] /\ last \in ID \cup {-1}
    /\ \A n \in DOMAIN map : map[n] <= last
    /\ IsFiniteSet(DOMAIN map) /\ Cardinality(DOMAIN map) = last + 1
  BY DEF WellMapped
<1> SUFFICES Looked(map, last, name, new, after)
  OBVIOUS
<1>1. CASE name \in DOMAIN map
  <2>1. new = map /\ after = last /\ IsMapped(name, map) /\ Given(IsMapped(name, map)) = 0
    BY <1>1 DEF Assigned, LastAfter, IsMapped, Given
  <2>2. map[name] \in ID /\ map[name] <= last
    BY <1>1
  <2>3. last \in ID
    BY <2>2 DEF ID
  <2>4. DOMAIN map = DOMAIN map \cup {name}
    BY <1>1
  <2>5. last = last + 0
    BY <2>3 DEF ID
  <2> QED
    BY <2>1, <2>2, <2>3, <2>4, <2>5 DEF Looked, WellMapped
<1>2. CASE name \notin DOMAIN map
  <2>1. /\ new = [n \in DOMAIN map \cup {name} |-> IF n = name THEN last + 1 ELSE map[n]]
        /\ after = last + 1 /\ ~IsMapped(name, map) /\ Given(IsMapped(name, map)) = 1
    BY <1>2 DEF Assigned, LastAfter, IsMapped, Given
  <2>2. DOMAIN new = DOMAIN map \cup {name} /\ new[name] = last + 1 /\ last + 1 \in ID
    BY <2>1 DEF ID
  <2>3. \A n \in DOMAIN map : new[n] = map[n] /\ map[n] \in ID
    BY <1>2, <2>1
  <2>4. ASSUME NEW n \in DOMAIN new PROVE new[n] \in ID /\ new[n] <= after
    <3>1. CASE n = name
      BY <2>1, <2>2, <3>1 DEF ID
    <3>2. CASE n # name
      <4>1. n \in DOMAIN map /\ new[n] = map[n] /\ map[n] \in ID /\ map[n] <= last
        BY <2>2, <2>3, <3>2
      <4> QED
        BY <2>1, <4>1 DEF ID
    <3> QED
      BY <3>1, <3>2
  <2>5. new \in [DOMAIN new -> ID]
    <3>1. new = [n \in DOMAIN new |-> new[n]]
      BY <2>1
    <3> QED
      BY <2>4, <3>1
  <2>6. IsFiniteSet(DOMAIN new) /\ Cardinality(DOMAIN new) = (last + 1) + 1
    BY <1>2, <2>2, FS_AddElement
  <2> QED
    BY <2>1, <2>2, <2>3, <2>4, <2>5, <2>6 DEF Looked, WellMapped
<1> QED
  BY <1>1, <1>2

(* e is the edge of the line, withBoth and end what its two names make of  *)
(* the map and of the last ID.                                             *)
ReadAs(line, map, last, withBoth, end, e) ==
    \E withSource, mid :
        /\ withSource = Assigned(line[1], map, last)
        /\ mid = LastAfter(line[1], map, last)
        /\ withBoth = Assigned(line[2], withSource, mid)
        /\ end = LastAfter(line[2], withSource, mid)
        /\ e = [source |-> withBoth[line[1]], destination |-> withBoth[line[2]],
                sourceExists |-> IsMapped(line[1], map),
                destExists |-> IsMapped(line[2], withSource)]

BothMapped(line, map, new) == DOMAIN new = DOMAIN map \cup {line[1], line[2]}

(* One more line keeps the numbering.                                      *)
LEMMA EdgeAssigned ==
    ASSUME NEW s \in Seq(BatchEdge), NEW lines \in Seq(EdgeLine), NEW line \in EdgeLine,
           NEW map, NEW last, Assigning(s, lines, map, last),
           NEW withBoth, NEW end, NEW e, ReadAs(line, map, last, withBoth, end, e)
    PROVE  /\ e \in BatchEdge /\ BothMapped(line, map, withBoth)
           /\ Assigning(Append(s, e), Append(lines, line), withBoth, end)
<1> PICK withSource, mid :
        /\ withSource = Assigned(line[1], map, last)
        /\ mid = LastAfter(line[1], map, last)
        /\ withBoth = Assigned(line[2], withSource, mid)
        /\ end = LastAfter(line[2], withSource, mid)
        /\ e = [source |-> withBoth[line[1]], destination |-> withBoth[line[2]],
                sourceExists |-> IsMapped(line[1], map),
                destExists |-> IsMapped(line[2], withSource)]
  BY DEF ReadAs
<1>1. /\ Numbered(s, lines, map) /\ Shaped(s) /\ Known(s, Len(s)) = last + 1
      /\ WellMapped(map, last)
  BY DEF Assigning
<1>0. last \in Int
  BY <1>1 DEF WellMapped, ID
<1>2. PICK x, y : x = IsMapped(line[1], map) /\ y = IsMapped(line[2], withSource)
  OBVIOUS
<1>3. x \in BOOLEAN /\ y \in BOOLEAN
  BY <1>2 DEF IsMapped
<1>4. /\ DOMAIN withSource = DOMAIN map \cup {line[1]}
      /\ WellMapped(withSource, mid) /\ mid \in ID /\ mid = last + Given(x)
      /\ \A n \in DOMAIN map : withSource[n] = map[n]
      /\ x => withSource[line[1]] <= last
      /\ ~x => withSource[line[1]] = last + 1
  <2>1. Looked(map, last, line[1], withSource, mid)
    BY <1>1, AssignedOne
  <2> QED
    BY Zenon, <1>2, <2>1 DEF Looked
<1>5. /\ DOMAIN withBoth = DOMAIN withSource \cup {line[2]}
      /\ WellMapped(withBoth, end) /\ end \in ID /\ end = mid + Given(y)
      /\ \A n \in DOMAIN withSource : withBoth[n] = withSource[n]
      /\ y => withBoth[line[2]] <= mid
      /\ ~y => withBoth[line[2]] = mid + 1
  <2>1. Looked(withSource, mid, line[2], withBoth, end)
    BY <1>4, AssignedOne
  <2> QED
    BY Zenon, <1>2, <2>1 DEF Looked
<1>6. DOMAIN withBoth = DOMAIN map \cup {line[1], line[2]}
  BY <1>4, <1>5
<1>7. PICK from \in ID, to \in ID :
        /\ from = withBoth[line[1]] /\ to = withBoth[line[2]]
        /\ x => from <= last
        /\ ~x => from = last + 1
        /\ y => to <= mid
        /\ ~y => to = mid + 1
        /\ mid = last + Given(x) /\ end = mid + Given(y)
  <2>1. line[1] \in DOMAIN withSource /\ line[1] \in DOMAIN withBoth /\ line[2] \in DOMAIN withBoth
    BY <1>4, <1>5
  <2>2. withBoth[line[1]] \in ID /\ withBoth[line[2]] \in ID
    BY <1>5, <2>1 DEF WellMapped
  <2>3. withBoth[line[1]] = withSource[line[1]]
    BY <1>5, <2>1
  <2> QED
    BY <1>2, <1>4, <1>5, <2>2, <2>3
<1>8. e = [source |-> from, destination |-> to, sourceExists |-> x, destExists |-> y]
  BY <1>2, <1>7
<1>9. /\ e \in BatchEdge /\ e.source = from /\ e.destination = to
      /\ e.sourceExists = x /\ e.destExists = y
  BY <1>3, <1>8 DEF BatchEdge
<1>10. PICK n \in Nat : n = Len(s) /\ DOMAIN s = 1 .. n /\ n = Len(lines)
  BY <1>1, LenProperties DEF Numbered
<1>11. PICK t \in Seq(BatchEdge) :
         /\ t = Append(s, e) /\ Len(t) = n + 1 /\ DOMAIN t = 1 .. n + 1
         /\ t[n + 1] = e /\ \A i \in 1 .. n : t[i] = s[i]
  <2>1. PICK t : t = Append(s, e)
    OBVIOUS
  <2>2. /\ t \in Seq(BatchEdge) /\ Len(t) = n + 1 /\ DOMAIN t = 1 .. n + 1
        /\ t[n + 1] = e /\ \A i \in 1 .. n : t[i] = s[i]
    BY <1>9, <1>10, <2>1, AppendProperties, LenProperties
  <2> QED
    BY Zenon, <2>1, <2>2
<1>12. PICK more \in Seq(EdgeLine) :
         /\ more = Append(lines, line) /\ Len(more) = n + 1
         /\ more[n + 1] = line /\ \A i \in 1 .. n : more[i] = lines[i]
  <2>1. PICK more : more = Append(lines, line)
    OBVIOUS
  <2>2. /\ more \in Seq(EdgeLine) /\ Len(more) = n + 1
        /\ more[n + 1] = line /\ \A i \in 1 .. n : more[i] = lines[i]
    BY <1>10, <2>1, AppendProperties
  <2> QED
    BY Zenon, <2>1, <2>2
<1>13. Numbered(t, more, withBoth)
  <2>1. ASSUME NEW i \in 1 .. n + 1
        PROVE  /\ more[i][1] \in DOMAIN withBoth /\ t[i].source = withBoth[more[i][1]]
               /\ more[i][2] \in DOMAIN withBoth /\ t[i].destination = withBoth[more[i][2]]
    <3>1. CASE i = n + 1
      BY <1>6, <1>7, <1>9, <1>11, <1>12, <3>1
    <3>2. CASE i # n + 1
      <4>1. i \in 1 .. n /\ i \in DOMAIN s
        BY <1>10, <3>2
      <4>2. /\ lines[i][1] \in DOMAIN map /\ s[i].source = map[lines[i][1]]
            /\ lines[i][2] \in DOMAIN map /\ s[i].destination = map[lines[i][2]]
        BY <1>1, <4>1 DEF Numbered
      <4>3. \A m \in DOMAIN map : m \in DOMAIN withBoth /\ withBoth[m] = map[m]
        BY <1>4, <1>5
      <4>4. t[i] = s[i] /\ more[i] = lines[i]
        BY <1>11, <1>12, <4>1
      <4> QED
        BY <4>2, <4>3, <4>4
    <3> QED
      BY <3>1, <3>2
  <2> QED
    BY SMTT(30), <1>11, <1>12, <2>1 DEF Numbered
<1>14. Known(t, n) = last + 1
  <2>1. \A j \in 1 .. n : t[j] = s[j]
    BY <1>11
  <2>2. Known(t, n) = Known(s, n)
    BY <2>1, KnownAlike
  <2> QED
    BY Zenon, <1>1, <1>10, <2>2
<1>15. Shaped(t)
  <2>1. ASSUME NEW i \in 1 .. n + 1 PROVE Shape(t[i], Known(t, i - 1))
    <3>1. CASE i = n + 1
      <4>1. i - 1 = n
        BY <3>1
      <4>2. /\ from <= last + 1 /\ (x <=> from < last + 1)
            /\ After(last + 1, from) = mid + 1
        <5>1. CASE x
          BY SMTT(30), <1>0, <1>7, <5>1 DEF After, Given, ID
        <5>2. CASE ~x
          BY <1>0, <1>3, <1>7, <5>2 DEF After, Given, ID
        <5> QED
          BY <5>1, <5>2
      <4>3. to <= mid + 1 /\ (y <=> to < mid + 1)
        <5>1. mid \in Int /\ to \in Int
          BY <1>4 DEF ID
        <5>2. CASE y
          BY <1>7, <5>1, <5>2
        <5>3. CASE ~y
          BY <1>3, <1>7, <5>1, <5>3
        <5> QED
          BY <5>2, <5>3
      <4>4. Shape(e, last + 1)
        BY Zenon, <1>9, <4>2, <4>3 DEF Shape
      <4> QED
        BY <1>11, <1>14, <3>1, <4>1, <4>4
    <3>2. CASE i # n + 1
      <4>1. i \in DOMAIN s /\ i - 1 \in Nat /\ t[i] = s[i] /\ \A j \in 1 .. i - 1 : t[j] = s[j]
        BY <1>10, <1>11, <3>2
      <4>2. Known(t, i - 1) = Known(s, i - 1)
        BY <4>1, KnownAlike
      <4> QED
        BY <1>1, <4>1, <4>2 DEF Shaped
    <3> QED
      BY <3>1, <3>2
  <2> QED
    BY <1>11, <2>1 DEF Shaped
<1>16. Known(t, n + 1) = end + 1
  <2>1. Known(t, n + 1) = (Known(t, n) + Given(x)) + Given(y)
    <3>1. t[n + 1].sourceExists = x /\ t[n + 1].destExists = y
      BY <1>9, <1>11
    <3> QED
      BY Zenon, <3>1, KnownSteps
  <2>2. PICK gx \in Nat, gy \in Nat : gx = Given(x) /\ gy = Given(y)
    BY DEF Given
  <2>3. mid = last + gx /\ end = mid + gy /\ Known(t, n + 1) = (Known(t, n) + gx) + gy
    BY Zenon, <1>7, <2>1, <2>2
  <2> QED
    BY <1>0, <1>14, <2>3
<1> QED
  BY <1>5, <1>6, <1>9, <1>11, <1>12, <1>13, <1>15, <1>16 DEF Assigning, BothMapped

-----------------------------------------------------------------------------
(* The steps.                                                              *)

LEMMA ConcatAppend ==
    ASSUME NEW S, NEW s \in Seq(S), NEW t \in Seq(S), NEW e \in S
    PROVE  s \o Append(t, e) = Append(s \o t, e)
<1>1. Append(t, e) = t \o <<e>>
  BY AppendIsConcat
<1>2. s \o t \in Seq(S) /\ <<e>> \in Seq(S)
  BY ConcatProperties
<1>3. s \o (t \o <<e>>) = (s \o t) \o <<e>>
  BY <1>2, ConcatAssociative
<1>4. Append(s \o t, e) = (s \o t) \o <<e>>
  BY <1>2, AppendIsConcat
<1> QED
  BY <1>1, <1>3, <1>4

LEMMA SystemTyped ==
    ASSUME TypeOK
    PROVE  /\ FlattenSeq(queue) \in Seq(BatchEdge)
           /\ (applied \o taken) \o FlattenSeq(queue) \in Seq(BatchEdge)
           /\ InSystem \in Seq(BatchEdge)
<1>1. /\ applied \in Seq(BatchEdge) /\ taken \in Seq(BatchEdge) /\ el \in Seq(BatchEdge)
      /\ queue \in Seq(Seq(BatchEdge))
  BY DEF TypeOK
<1>2. PICK f : f = FlattenSeq(queue) /\ f \in Seq(BatchEdge)
  BY <1>1, FlattenTyped
<1>3. applied \o taken \in Seq(BatchEdge)
  BY <1>1, ConcatProperties
<1>4. (applied \o taken) \o f \in Seq(BatchEdge)
  BY <1>2, <1>3, ConcatProperties
<1>5. ((applied \o taken) \o f) \o el \in Seq(BatchEdge)
  BY <1>1, <1>4, ConcatProperties
<1> QED
  BY Zenon, <1>2, <1>4, <1>5 DEF InSystem

LEMMA Associative ==
    ASSUME NEW S, NEW a \in Seq(S), NEW b \in Seq(S), NEW c \in Seq(S)
    PROVE  (a \o b) \o c = a \o (b \o c) /\ a \o (b \o c) \in Seq(S)
<1>1. PICK Q : Q = Seq(S) /\ Glueable(Q)
  BY SeqGlueable
<1>2. Glue(b, c) \in Q
  BY <1>1 DEF Glueable
<1>3. Glue(a, Glue(b, c)) \in Q
  BY <1>1, <1>2 DEF Glueable
<1>4. Glue(Glue(a, b), c) = Glue(a, Glue(b, c))
  BY <1>1, GlueAssociative
<1> QED
  BY Zenon, <1>1, <1>3, <1>4 DEF Glue

(* Edges change hands, but stay in the system, in order.                   *)
LEMMA InSystemKept ==
    ASSUME IInv, Push \/ Pop \/ Update
    PROVE  InSystem' = InSystem
<1>1. /\ applied \in Seq(BatchEdge) /\ taken \in Seq(BatchEdge) /\ el \in Seq(BatchEdge)
      /\ queue \in Seq(Seq(BatchEdge))
  BY DEF IInv, TypeOK
<1>2. PICK f \in Seq(BatchEdge) : f = FlattenSeq(queue)
  BY <1>1, FlattenTyped
<1>3. InSystem = ((applied \o taken) \o f) \o el
  BY <1>2 DEF InSystem
<1>4. PICK a \in Seq(BatchEdge) : a = applied \o taken
  BY <1>1, ConcatProperties
<1>5. CASE Push
  <2>1. queue' = Append(queue, el) /\ el' = <<>> /\ UNCHANGED <<applied, taken>>
    BY <1>5 DEF Push, graph
  <2>2. FlattenSeq(Append(queue, el)) = f \o el
    BY <1>1, <1>2, FlattenAppend
  <2>3. InSystem' = ((applied \o taken) \o (f \o el)) \o <<>>
    BY Zenon, <2>1, <2>2 DEF InSystem
  <2>4. (a \o f) \o el = a \o (f \o el) /\ a \o (f \o el) \in Seq(BatchEdge)
    BY Zenon, <1>1, Associative
  <2>5. (a \o (f \o el)) \o <<>> = a \o (f \o el)
    BY <2>4, ConcatEmptySeq
  <2> QED
    BY Zenon, <1>3, <1>4, <2>3, <2>4, <2>5
<1>6. CASE Pop
  <2>1. /\ queue # <<>> /\ taken = <<>> /\ taken' = Head(queue) /\ queue' = Tail(queue)
        /\ UNCHANGED <<applied, el>>
    BY <1>6 DEF Pop, graph, IInv, Control
  <2>2. PICK h \in Seq(BatchEdge), q \in Seq(Seq(BatchEdge)) :
          h = Head(queue) /\ q = Tail(queue) /\ f = h \o FlattenSeq(q)
    <3>1. /\ Head(queue) \in Seq(BatchEdge) /\ Tail(queue) \in Seq(Seq(BatchEdge))
          /\ f = Head(queue) \o FlattenSeq(Tail(queue))
      BY Zenon, <1>1, <1>2, <2>1, FlattenHead
    <3> QED
      BY Zenon, <3>1
  <2>3. PICK g \in Seq(BatchEdge) : g = FlattenSeq(q)
    BY FlattenTyped
  <2>4. InSystem' = ((applied \o h) \o g) \o el
    BY Zenon, <2>1, <2>2, <2>3 DEF InSystem
  <2>5. applied \o <<>> = applied
    BY <1>1, ConcatEmptySeq
  <2>6. (applied \o h) \o g = applied \o (h \o g)
    <3>1. applied \in Seq(BatchEdge)
      BY <1>1
    <3>2. /\ (applied \o h) \o g = applied \o (h \o g)
          /\ applied \o (h \o g) \in Seq(BatchEdge)
      BY Zenon, <3>1, Associative
    <3> QED
      BY <3>2
  <2>7. applied \o taken = applied /\ f = h \o g
    BY Zenon, <2>1, <2>2, <2>3, <2>5
  <2>8. InSystem = (applied \o (h \o g)) \o el
    BY Zenon, <1>3, <2>7
  <2> QED
    BY Zenon, <2>4, <2>6, <2>8
<1>7. CASE Update
  <2>1. applied' = applied \o taken /\ taken' = <<>> /\ UNCHANGED <<queue, el>>
    BY <1>7 DEF Update, shared
  <2>2. InSystem' = (((applied \o taken) \o <<>>) \o f) \o el
    BY Zenon, <1>2, <2>1 DEF InSystem
  <2>3. a \o <<>> = a
    BY ConcatEmptySeq
  <2> QED
    BY Zenon, <1>3, <1>4, <2>2, <2>3
<1> QED
  BY <1>5, <1>6, <1>7

LEMMA AssigningKept ==
    ASSUME IInv, InSystem' = InSystem, UNCHANGED <<file, pos, VMap, lastAssignedLogicalID>>
    PROVE  Assigning(InSystem, LinesRead, VMap, lastAssignedLogicalID)'
<1>1. LinesRead' = LinesRead
  BY DEF LinesRead
<1> QED
  BY <1>1 DEF IInv, Assigning, Numbered, Shaped, WellMapped

LEMMA Initially == ASSUME Init PROVE IInv
<1>1. /\ pos = 1 /\ eof = FALSE /\ VMap = [n \in {} |-> 0] /\ lastAssignedLogicalID = -1
      /\ el = <<>> /\ queue = <<>> /\ mutex = "free" /\ still_reading = TRUE
      /\ main = "read" /\ builder = "lock" /\ taken = <<>>
      /\ num_nodes = 0 /\ applied = <<>> /\ computed = 0
      /\ newlineAtEnd \in BOOLEAN
  BY DEF Init
<1>2. file \in Seq(Lines) /\ Len(file) \in 0 .. MaxLines
  <2>1. PICK n \in 0 .. MaxLines : file \in [1 .. n -> Lines]
    BY DEF Init
  <2> QED
    BY <2>1, MaxLinesAssumption, IsASeq
<1>3. PICK b \in Seq(BatchEdge) : b = <<>>
  BY EmptySeq
<1>4. PICK qq \in Seq(Seq(BatchEdge)) : qq = <<>>
  BY EmptySeq
<1>5. TypeOK
  <2>1. VMap \in [DOMAIN VMap -> ID] /\ DOMAIN VMap = {}
    BY <1>1
  <2>2. pos \in 1 .. MaxLines + 1
    BY <1>1, MaxLinesAssumption
  <2> QED
    BY <1>1, <1>2, <1>3, <1>4, <2>1, <2>2 DEF TypeOK, ID
<1>6. Reading
  BY <1>1, <1>2, MaxLinesAssumption DEF Reading
<1>7. Control
  BY <1>1, EmptySeq DEF Control
<1>8. Len(<<>>) = 0
  BY EmptySeq
<1>9. Counted
  BY <1>1, <1>8, KnownNone DEF Counted
<1>10. InSystem = <<>>
  <2>1. b \o b = b
    BY <1>3, ConcatEmptySeq
  <2>2. FlattenSeq(<<>>) = b
    BY <1>3, FlattenEmpty
  <2> QED
    BY Zenon, <1>1, <1>3, <2>1, <2>2 DEF InSystem
<1>11. LinesRead = <<>>
  <2>1. SubSeq(file, 1, pos - 1) = <<>>
    BY <1>1, <1>2
  <2>2. LinesRead = EdgeLines(<<>>)
    BY <2>1 DEF LinesRead
  <2>3. PICK none \in Seq(Lines) : none = <<>>
    BY EmptySeq
  <2>4. PerLine(none) \in Seq(Seq(EdgeLine)) /\ Len(PerLine(none)) = 0
    BY <1>8, <2>3, PerLineTyped
  <2>5. PerLine(none) = <<>>
    BY <2>4, EmptySeq
  <2> QED
    BY Zenon, <2>2, <2>3, <2>5, FlattenEmpty DEF EdgeLines, PerLine
<1>12. Assigning(<<>>, <<>>, VMap, lastAssignedLogicalID)
  <2>1. DOMAIN b = {}
    BY <1>3
  <2>2. Numbered(<<>>, <<>>, VMap) /\ Shaped(<<>>)
    BY Zenon, <1>3, <2>1 DEF Numbered, Shaped
  <2>3. WellMapped(VMap, lastAssignedLogicalID)
    <3>1. DOMAIN VMap = {} /\ VMap \in [DOMAIN VMap -> ID]
      BY <1>1
    <3>2. IsFiniteSet({}) /\ Cardinality({}) = 0
      BY FS_EmptySet
    <3> QED
      BY <1>1, <3>1, <3>2 DEF WellMapped
  <2>4. Known(<<>>, Len(<<>>)) = -1 + 1
    BY <1>8, KnownNone
  <2> QED
    BY <1>1, <2>2, <2>3, <2>4 DEF Assigning
<1> QED
  BY <1>5, <1>6, <1>7, <1>9, <1>10, <1>11, <1>12 DEF IInv

(* What the file's next line adds to the lines read.                       *)
LEMMA LinesReadLater ==
    ASSUME IInv, ReadLine
    PROVE  /\ pos \in 1 .. Len(file) /\ Len(file) \in Nat /\ file[pos] \in Lines
           /\ LinesRead \in Seq(EdgeLine)
           /\ file[pos] = <<Blank>> => LinesRead' = LinesRead
           /\ file[pos] # <<Blank>> => /\ file[pos] \in EdgeLine
                                       /\ LinesRead' = Append(LinesRead, file[pos])
<1>1. /\ file \in Seq(Lines) /\ pos \in 1 .. Len(file) /\ Len(file) \in Nat
      /\ pos' = pos + 1 /\ file' = file
  <2>1. file \in Seq(Lines) /\ pos \in Nat /\ 1 <= pos
    BY MaxLinesAssumption DEF IInv, TypeOK
  <2> QED
    BY <2>1, LenProperties DEF ReadLine, GetLine
<1>2. PICK line \in Lines : line = file[pos]
  BY <1>1
<1>3. PICK read \in Seq(Lines) :
        /\ read = SubSeq(file, 1, pos - 1) /\ Len(read) = pos - 1
        /\ \A i \in 1 .. pos - 1 : read[i] = file[i]
  <2>1. PICK read : read = SubSeq(file, 1, pos - 1)
    OBVIOUS
  <2>2. /\ read \in Seq(Lines) /\ Len(read) = pos - 1
        /\ \A i \in 1 .. pos - 1 : read[i] = file[i]
    BY <1>1, <2>1
  <2> QED
    BY Zenon, <2>1, <2>2
<1>4. SubSeq(file, 1, pos) = Append(read, line)
  <2>1. PICK next : next = SubSeq(file, 1, pos)
    OBVIOUS
  <2>2. /\ next \in Seq(Lines) /\ Len(next) = pos
        /\ \A i \in 1 .. pos : next[i] = file[i]
    BY <1>1, <2>1
  <2>3. PICK long : long = Append(read, line)
    OBVIOUS
  <2>4. /\ long \in Seq(Lines) /\ Len(long) = pos /\ long[pos] = line
        /\ \A i \in 1 .. pos - 1 : long[i] = read[i]
    <3>1. Len(read) + 1 = pos
      BY <1>1, <1>3
    <3> QED
      BY <1>3, <2>3, <3>1, AppendProperties
  <2>5. ASSUME NEW i \in 1 .. pos PROVE next[i] = long[i]
    <3>1. CASE i = pos
      BY <1>2, <2>2, <2>4, <3>1
    <3>2. CASE i # pos
      <4>1. i \in 1 .. pos - 1
        BY <1>1, <3>2
      <4> QED
        BY <1>3, <2>2, <2>4, <4>1
    <3> QED
      BY <3>1, <3>2
  <2> QED
    BY <2>1, <2>2, <2>3, <2>4, <2>5, SeqEqual
<1>5. LinesRead = EdgeLines(read) /\ LinesRead' = EdgeLines(Append(read, line))
  <2>1. pos' - 1 = pos
    BY <1>1
  <2> QED
    BY Zenon, <1>1, <1>3, <1>4, <2>1 DEF LinesRead
<1>6. EdgeLines(read) \in Seq(EdgeLine)
  BY EdgeLinesTyped
<1> QED
  BY <1>1, <1>2, <1>5, <1>6, EdgeLinesAppend

LEMMA ReadLineStep == ASSUME IInv, ReadLine PROVE IInv'
<1>1. /\ main = "read" /\ pos <= Len(file) /\ GetLine(file[pos])
      /\ UNCHANGED <<file, newlineAtEnd, queue, mutex, still_reading, builder, taken,
                     num_nodes, applied, computed>>
  BY DEF ReadLine, shared, graph
<1>2. PICK line \in Lines : line = file[pos]
  BY LinesReadLater
<1>3. pos' = pos + 1 /\ eof' = (pos = Len(file) /\ ~newlineAtEnd)
  BY <1>1 DEF GetLine
<1>4. /\ TypeOK /\ Reading /\ Control /\ Counted
      /\ Assigning(InSystem, LinesRead, VMap, lastAssignedLogicalID)
  BY DEF IInv
<1>5. Reading' /\ pos' \in 1 .. MaxLines + 1 /\ eof' \in BOOLEAN
  <2>1. pos \in 1 .. Len(file) /\ Len(file) \in Nat /\ Len(file) <= MaxLines
    BY <1>4, LinesReadLater DEF Reading
  <2> QED
    <3>1. eof' \in BOOLEAN /\ (eof' => pos = Len(file))
      BY <1>3
    <3>2. pos' = pos + 1 /\ file' = file
      BY <1>1, <1>3
    <3> QED
      BY <2>1, <3>1, <3>2, MaxLinesAssumption DEF Reading
<1>6. /\ builder # "update" => taken = <<>>
      /\ builder # "perform" => computed = Len(applied)
      /\ still_reading /\ builder # "exit"
  BY <1>1, <1>4 DEF Control, TypeOK
<1>7. PICK s \in Seq(BatchEdge) : s = InSystem
  BY <1>4, SystemTyped
<1>8. PICK lines \in Seq(EdgeLine) : lines = LinesRead
  BY LinesReadLater
<1>9. CASE line = <<Blank>>
  <2>1. UNCHANGED <<VMap, lastAssignedLogicalID, el, main>>
    BY <1>1, <1>2, <1>9 DEF GetLine
  <2>2. LinesRead' = lines /\ InSystem' = s
    BY <1>1, <1>2, <1>7, <1>8, <1>9, <2>1, LinesReadLater DEF InSystem
  <2>3. TypeOK'
    BY <1>1, <1>4, <1>5, <2>1 DEF TypeOK
  <2>4. Control'
    BY <1>1, <1>6, <2>1 DEF Control
  <2>5. Counted'
    BY <1>1, <1>4 DEF Counted
  <2> QED
    BY <1>4, <1>5, <1>7, <1>8, <2>1, <2>2, <2>3, <2>4, <2>5 DEF IInv
<1>10. CASE line # <<Blank>>
  <2>1. PICK withBoth, end, e :
          /\ VMap' = withBoth /\ lastAssignedLogicalID' = end /\ el' = Append(el, e)
          /\ ReadAs(line, VMap, lastAssignedLogicalID, withBoth, end, e)
    BY Zenon, <1>1, <1>2, <1>10 DEF GetLine, ReadAs
  <2>2. main' = IF Len(el) + 1 = BatchSize THEN "push" ELSE "read"
    BY Zenon, <1>1, <1>2, <1>10 DEF GetLine
  <2>5. line \in EdgeLine /\ LinesRead' = Append(lines, line)
    BY <1>2, <1>8, <1>10, LinesReadLater
  <2>6. /\ e \in BatchEdge /\ BothMapped(line, VMap, withBoth)
        /\ Assigning(Append(s, e), Append(lines, line), withBoth, end)
    <3>1. Assigning(s, lines, VMap, lastAssignedLogicalID)
      BY Zenon, <1>4, <1>7, <1>8
    <3>2. ReadAs(line, VMap, lastAssignedLogicalID, withBoth, end, e)
      BY <2>1
    <3>3. line \in EdgeLine
      BY <2>5
    <3> QED
      BY Zenon, <3>1, <3>2, <3>3, EdgeAssigned
  <2>7. InSystem' = Append(s, e)
    <3>1. PICK b \in Seq(BatchEdge) : b = (applied \o taken) \o FlattenSeq(queue)
      BY <1>4, SystemTyped
    <3>2. InSystem = b \o el /\ InSystem' = b \o Append(el, e)
      BY Zenon, <1>1, <2>1, <3>1 DEF InSystem
    <3>3. el \in Seq(BatchEdge)
      BY <1>4 DEF TypeOK
    <3>4. b \o Append(el, e) = Append(b \o el, e)
      BY <2>6, <3>3, ConcatAppend
    <3> QED
      BY Zenon, <1>7, <3>2, <3>4
  <2>8. main' \in {"read", "push"}
    BY <2>2
  <2>9. TypeOK'
    <3>1. WellMapped(withBoth, end)
      BY <2>6 DEF Assigning
    <3>2. withBoth \in [DOMAIN withBoth -> ID] /\ end \in ID \cup {-1}
      BY <3>1 DEF WellMapped
    <3>3. DOMAIN withBoth \subseteq Names
      BY <1>4, <2>5, <2>6 DEF TypeOK, EdgeLine, BothMapped
    <3>4. Append(el, e) \in Seq(BatchEdge)
      BY <1>4, <2>6, AppendProperties DEF TypeOK
    <3> QED
      BY <1>1, <1>4, <1>5, <2>1, <2>8, <3>2, <3>3, <3>4 DEF TypeOK
  <2>10. Control'
    BY <1>1, <1>6, <2>8 DEF Control
  <2>11. Counted'
    BY <1>1, <1>4 DEF Counted
  <2> QED
    BY <1>5, <2>1, <2>5, <2>6, <2>7, <2>9, <2>10, <2>11 DEF IInv
<1> QED
  BY <1>9, <1>10

LEMMA PushStep == ASSUME IInv, Push PROVE IInv'
<1>1. /\ main = "push" /\ queue' = Append(queue, el) /\ el' = <<>>
      /\ main' = IF eof THEN "poll" ELSE "read"
      /\ UNCHANGED <<file, newlineAtEnd, pos, eof, VMap, lastAssignedLogicalID, mutex,
                     still_reading, builder, taken, num_nodes, applied, computed>>
  BY DEF Push, stream, graph
<1>2. TypeOK /\ Reading /\ Control /\ Counted
  BY DEF IInv
<1>3. TypeOK'
  <2>1. el' \in Seq(BatchEdge)
    BY <1>1, EmptySeq
  <2>2. queue' \in Seq(Seq(BatchEdge))
    BY <1>1, <1>2, AppendProperties DEF TypeOK
  <2>3. main' \in {"poll", "read"}
    BY <1>1
  <2> QED
    BY <1>1, <1>2, <2>1, <2>2, <2>3 DEF TypeOK
<1>4. Reading' /\ Counted'
  BY <1>1, <1>2 DEF Reading, Counted
<1>5. Control'
  BY <1>1, <1>2 DEF Control, Reading
<1>6. Assigning(InSystem, LinesRead, VMap, lastAssignedLogicalID)'
  BY <1>1, InSystemKept, AssigningKept
<1> QED
  BY <1>3, <1>4, <1>5, <1>6 DEF IInv

(* The main thread's other steps leave the edges where they are.           *)
LEMMA MainStep ==
    ASSUME IInv, ReadPastEnd \/ Poll \/ Stop \/ Join \/ PrintResult
    PROVE  IInv'
<1>1. TypeOK /\ Reading /\ Control /\ Counted
  BY DEF IInv
<1>2. UNCHANGED <<file, newlineAtEnd, pos, VMap, lastAssignedLogicalID, el, queue, mutex,
                  builder, taken, num_nodes, applied, computed>>
  BY DEF ReadPastEnd, Poll, Stop, Join, PrintResult, stream, shared, graph
<1>3. Assigning(InSystem, LinesRead, VMap, lastAssignedLogicalID)'
  <2>1. InSystem' = InSystem
    BY <1>2 DEF InSystem
  <2> QED
    BY <1>2, <2>1, AssigningKept
<1>4. Counted'
  BY <1>1, <1>2 DEF Counted
<1>5. file \in Seq(Lines) /\ pos \in Nat /\ Len(file) \in Nat
  BY <1>1, LenProperties, MaxLinesAssumption DEF TypeOK
<1>6. CASE ReadPastEnd
  <2>1. /\ main = "read" /\ pos > Len(file) /\ eof' = TRUE /\ main' = "push"
        /\ still_reading' = still_reading
    BY <1>6 DEF ReadPastEnd, shared
  <2>2. TypeOK'
    BY <1>1, <1>2, <2>1 DEF TypeOK
  <2>3. Reading'
    BY <1>1, <1>2, <1>5, <2>1 DEF Reading
  <2>4. Control'
    BY <1>1, <1>2, <2>1 DEF Control
  <2> QED
    BY <1>3, <1>4, <2>2, <2>3, <2>4 DEF IInv
<1>7. CASE Poll \/ Stop \/ Join \/ PrintResult
  <2>1. /\ eof' = eof
        /\ \/ main = "poll" /\ main' = (IF queue = <<>> THEN "stop" ELSE "poll")
                            /\ still_reading' = still_reading
           \/ main = "stop" /\ main' = "join" /\ still_reading' = FALSE
           \/ main = "join" /\ main' = "print" /\ builder = "exit"
                            /\ still_reading' = still_reading
           \/ main = "print" /\ main' = "end" /\ still_reading' = still_reading
    BY <1>7 DEF Poll, Stop, Join, PrintResult, stream, shared
  <2>2. TypeOK'
    BY <1>1, <1>2, <2>1 DEF TypeOK
  <2>3. Reading'
    BY <1>1, <1>2, <2>1 DEF Reading
  <2>4. Control'
    BY <1>1, <1>2, <2>1 DEF Control
  <2> QED
    BY <1>3, <1>4, <2>2, <2>3, <2>4 DEF IInv
<1> QED
  BY <1>6, <1>7

LEMMA PopStep == ASSUME IInv, Pop PROVE IInv'
<1>1. /\ builder = "test" /\ queue # <<>> /\ taken' = Head(queue) /\ queue' = Tail(queue)
      /\ mutex' = "free" /\ builder' = "update"
      /\ UNCHANGED <<file, newlineAtEnd, pos, eof, VMap, lastAssignedLogicalID, el,
                     still_reading, main, num_nodes, applied, computed>>
  BY DEF Pop, stream, graph
<1>2. TypeOK /\ Reading /\ Control /\ Counted
  BY DEF IInv
<1>3. TypeOK'
  <2>1. Head(queue) \in Seq(BatchEdge) /\ Tail(queue) \in Seq(Seq(BatchEdge))
    BY <1>1, <1>2, FlattenHead DEF TypeOK
  <2> QED
    BY <1>1, <1>2, <2>1 DEF TypeOK
<1>4. Reading' /\ Counted'
  BY <1>1, <1>2 DEF Reading, Counted
<1>5. Control'
  BY <1>1, <1>2 DEF Control
<1>6. Assigning(InSystem, LinesRead, VMap, lastAssignedLogicalID)'
  BY <1>1, InSystemKept, AssigningKept
<1> QED
  BY <1>3, <1>4, <1>5, <1>6 DEF IInv

LEMMA UpdateStep == ASSUME IInv, Update PROVE IInv'
<1>1. /\ builder = "update" /\ num_nodes' = num_nodes + NewVertices(taken)
      /\ applied' = applied \o taken /\ taken' = <<>> /\ builder' = "perform"
      /\ UNCHANGED <<file, newlineAtEnd, pos, eof, VMap, lastAssignedLogicalID, el,
                     queue, mutex, still_reading, main, computed>>
  BY DEF Update, stream, shared
<1>2. TypeOK /\ Reading /\ Control /\ Counted
  BY DEF IInv
<1>3. applied \in Seq(BatchEdge) /\ taken \in Seq(BatchEdge)
  BY <1>2 DEF TypeOK
<1>4. applied' \in Seq(BatchEdge) /\ taken' \in Seq(BatchEdge)
  BY <1>1, <1>3, ConcatProperties, EmptySeq
<1>5. Counted'
  <2>1. Known(applied \o taken, Len(applied \o taken))
           = Known(applied, Len(applied)) + NewVertices(taken)
    BY <1>3, KnownConcat
  <2> QED
    BY Zenon, <1>1, <1>2, <2>1 DEF Counted
<1>6. TypeOK'
  <2>1. num_nodes' \in Nat
    BY <1>4, <1>5, KnownSteps, LenProperties DEF Counted
  <2> QED
    BY <1>1, <1>2, <1>4, <2>1 DEF TypeOK
<1>7. Reading'
  BY <1>1, <1>2 DEF Reading
<1>8. Control'
  BY <1>1, <1>2 DEF Control
<1>9. Assigning(InSystem, LinesRead, VMap, lastAssignedLogicalID)'
  BY <1>1, InSystemKept, AssigningKept
<1> QED
  BY <1>5, <1>6, <1>7, <1>8, <1>9 DEF IInv

(* The builder's other steps leave the edges where they are.               *)
LEMMA BuilderStep ==
    ASSUME IInv, Lock \/ Sleep \/ PerformAlg \/ Exit
    PROVE  IInv'
<1>1. TypeOK /\ Reading /\ Control /\ Counted
  BY DEF IInv
<1>2. UNCHANGED <<file, newlineAtEnd, pos, eof, VMap, lastAssignedLogicalID, el, queue,
                  still_reading, main, taken, num_nodes, applied>>
  BY DEF Lock, Sleep, PerformAlg, Exit, stream, shared, graph
<1>3. Assigning(InSystem, LinesRead, VMap, lastAssignedLogicalID)'
  <2>1. InSystem' = InSystem
    BY <1>2 DEF InSystem
  <2> QED
    BY <1>2, <2>1, AssigningKept
<1>4. Counted' /\ Reading'
  BY <1>1, <1>2 DEF Counted, Reading
<1>5. \/ builder = "lock" /\ builder' = "test" /\ computed' = computed /\ mutex' = "builder"
      \/ builder = "test" /\ builder' = "lock" /\ computed' = computed /\ mutex' = "free"
      \/ builder = "perform" /\ builder' = "lock" /\ computed' = Len(applied) /\ mutex' = mutex
      \/ /\ builder = "test" /\ builder' = "exit" /\ computed' = computed /\ mutex' = "free"
         /\ ~still_reading
  BY DEF Lock, Sleep, PerformAlg, Exit, Continues, shared, graph
<1>6. TypeOK'
  <2>1. Len(applied) \in Nat
    BY <1>1, LenProperties DEF TypeOK
  <2> QED
    BY <1>1, <1>2, <1>5, <2>1 DEF TypeOK
<1>7. Control'
  BY <1>1, <1>2, <1>5 DEF Control
<1> QED
  BY <1>3, <1>4, <1>6, <1>7 DEF IInv

LEMMA Stuttering == ASSUME IInv, UNCHANGED vars PROVE IInv'
<1>1. UNCHANGED <<file, newlineAtEnd, pos, eof, VMap, lastAssignedLogicalID, el, queue,
                  mutex, still_reading, main, builder, taken, num_nodes, applied, computed>>
  BY DEF vars, stream, shared, graph
<1>2. InSystem' = InSystem
  BY <1>1 DEF InSystem
<1>3. Assigning(InSystem, LinesRead, VMap, lastAssignedLogicalID)'
  BY <1>1, <1>2, AssigningKept
<1>4. (TypeOK /\ Reading /\ Control /\ Counted)'
  BY <1>1 DEF IInv, TypeOK, Reading, Control, Counted
<1> QED
  BY <1>3, <1>4 DEF IInv

THEOREM InductiveInvariant == Spec => []IInv
<1>1. ASSUME IInv, [Next]_vars PROVE IInv'
  <2>1. CASE MainThread
    BY <1>1, <2>1, ReadLineStep, PushStep, MainStep DEF MainThread
  <2>2. CASE BuilderThread
    BY <1>1, <2>2, PopStep, UpdateStep, BuilderStep DEF BuilderThread
  <2>3. CASE UNCHANGED vars
    BY <1>1, <2>3, Stuttering
  <2> QED
    BY <1>1, <2>1, <2>2, <2>3 DEF Next, Terminated
<1> QED
  BY <1>1, Initially, PTL DEF Spec

-----------------------------------------------------------------------------
(* What the invariant means.                                               *)

(* The variables have the types declared for them.                         *)
THEOREM TypeCorrect == Spec => []TypeOK
BY InductiveInvariant, PTL DEF IInv

(* The edges applied, popped, queued and being read are the lines read so  *)
(* far, in file order, with the IDs their names have for good, for every   *)
(* file, batch size and interleaving of the two threads.                   *)
THEOREM OrderKept == Spec => []FileOrderKept
<1>1. ASSUME IInv PROVE FileOrderKept
  <2>1. /\ file \in Seq(Lines) /\ pos - 1 \in 0 .. Len(file)
    BY <1>1, MaxLinesAssumption, LenProperties DEF IInv, TypeOK, Reading
  <2>2. PICK rest \in Seq(EdgeLine) : NonBlank = LinesRead \o rest
    BY <2>1, EdgeLinesPrefix DEF NonBlank, LinesRead
  <2>3. SubSeq(file, 1, pos - 1) \in Seq(Lines)
    BY <2>1, EdgeLinesPrefix
  <2>4. PICK lines \in Seq(EdgeLine) : lines = LinesRead
    BY <2>3, EdgeLinesTyped DEF LinesRead
  <2>5. PICK all : all = NonBlank
    OBVIOUS
  <2>6. /\ Len(all) = Len(lines) + Len(rest) /\ Len(lines) \in Nat /\ Len(rest) \in Nat
        /\ \A i \in 1 .. Len(lines) : all[i] = lines[i]
    BY <2>2, <2>4, <2>5, ConcatProperties, LenProperties
  <2>7. PICK s \in Seq(BatchEdge) : s = InSystem
    BY <1>1, SystemTyped DEF IInv
  <2>8. Numbered(s, lines, VMap)
    BY Zenon, <1>1, <2>4, <2>7 DEF IInv, Assigning
  <2>9. Len(s) = Len(lines) /\ DOMAIN s = 1 .. Len(lines)
    BY <2>8, LenProperties DEF Numbered
  <2>10. ASSUME NEW i \in DOMAIN s
         PROVE  s[i].source = VMap[all[i][1]] /\ s[i].destination = VMap[all[i][2]]
    BY <2>6, <2>8, <2>9 DEF Numbered
  <2>11. Len(s) <= Len(all)
    BY <2>6, <2>9
  <2> QED
    BY Zenon, <2>5, <2>7, <2>10, <2>11 DEF FileOrderKept
<1> QED
  BY <1>1, InductiveInvariant, PTL

-----------------------------------------------------------------------------
(* The IDs 0 .. k - 1 with one that is among them or the next.             *)
LEMMA OneMore ==
    ASSUME NEW k \in Nat, NEW x \in Nat, NEW exists \in BOOLEAN,
           x <= k, exists <=> x < k
    PROVE  /\ (0 .. k - 1) \cup {x} = 0 .. (k + Given(exists)) - 1
           /\ After(k, x) = k + Given(exists)
           /\ k + Given(exists) \in Nat
<1>1. CASE exists
  BY <1>1 DEF After, Given
<1>2. CASE ~exists
  <2>1. x = k
    BY <1>2
  <2>2. (0 .. k - 1) \cup {k} = 0 .. k
    OBVIOUS
  <2> QED
    BY <1>2, <2>1, <2>2 DEF After, Given
<1> QED
  BY <1>1, <1>2

Endpoints(s, n) == {s[i].source : i \in 1 .. n} \cup {s[i].destination : i \in 1 .. n}

(* The endpoints of the first edges are the IDs given out by then.         *)
LEMMA EndpointsDense ==
    ASSUME NEW s \in Seq(BatchEdge), Shaped(s)
    PROVE  Endpoints(s, Len(s)) = 0 .. Known(s, Len(s)) - 1
<1>1. PICK n \in Nat : n = Len(s) /\ DOMAIN s = 1 .. n
  BY LenProperties
<1> DEFINE T == {i \in Nat : i <= n => Endpoints(s, i) = 0 .. Known(s, i) - 1}
<1>2. 0 \in T
  <2>1. Endpoints(s, 0) = {}
    BY DEF Endpoints
  <2>2. Known(s, 0) = 0
    BY KnownNone
  <2>3. 0 .. 0 - 1 = {}
    OBVIOUS
  <2>4. Endpoints(s, 0) = 0 .. Known(s, 0) - 1
    BY Zenon, <2>1, <2>2, <2>3
  <2> QED
    BY <2>4
<1>3. ASSUME NEW i \in Nat, i \in T PROVE i + 1 \in T
  <2> SUFFICES ASSUME i + 1 <= n PROVE Endpoints(s, i + 1) = 0 .. Known(s, i + 1) - 1
    OBVIOUS
  <2>1. PICK k \in Nat : k = Known(s, i)
    BY KnownSteps
  <2>2. PICK e \in BatchEdge : e = s[i + 1]
    BY <1>1
  <2>3. PICK x \in Nat, y \in Nat, new \in BOOLEAN, fresh \in BOOLEAN :
          x = e.source /\ y = e.destination /\ new = e.sourceExists /\ fresh = e.destExists
    BY DEF BatchEdge, ID
  <2>4. Shape(e, k)
    <3>1. i + 1 \in DOMAIN s /\ (i + 1) - 1 = i
      BY <1>1
    <3>2. Shape(s[i + 1], Known(s, (i + 1) - 1))
      BY <3>1 DEF Shaped
    <3> QED
      BY <2>1, <2>2, <3>1, <3>2
  <2>5. x <= k /\ (new <=> x < k) /\ y <= After(k, x) /\ (fresh <=> y < After(k, x))
    BY <2>3, <2>4 DEF Shape
  <2>6. /\ (0 .. k - 1) \cup {x} = 0 .. (k + Given(new)) - 1
         /\ After(k, x) = k + Given(new)
         /\ k + Given(new) \in Nat
    BY <2>5, OneMore
  <2>7. PICK m \in Nat : m = k + Given(new)
    BY <2>6
  <2>8. m = After(k, x) /\ (0 .. k - 1) \cup {x} = 0 .. m - 1
    BY Zenon, <2>6, <2>7
  <2>9. (0 .. m - 1) \cup {y} = 0 .. (m + Given(fresh)) - 1
    BY <2>5, <2>8, OneMore
  <2>10. Known(s, i + 1) = m + Given(fresh)
    <3>1. Known(s, i + 1) = (k + Given(new)) + Given(fresh)
      BY Zenon, <2>1, <2>2, <2>3, KnownSteps
    <3> QED
      BY Zenon, <2>7, <3>1
  <2>11. Endpoints(s, i + 1) = (Endpoints(s, i) \cup {x}) \cup {y}
    <3>1. 1 .. i + 1 = (1 .. i) \cup {i + 1}
      OBVIOUS
    <3> QED
      BY <2>2, <2>3, <3>1 DEF Endpoints
  <2>12. Endpoints(s, i) = 0 .. k - 1
    BY <1>3, <2>1
  <2> QED
    BY <2>8, <2>9, <2>10, <2>11, <2>12
<1>4. Nat \subseteq T
  <2> HIDE DEF T
  <2> QED
    BY <1>2, <1>3, SetInduction
<1> QED
  BY <1>1, <1>4

LEMMA ShapedPrefix ==
    ASSUME NEW a \in Seq(BatchEdge), NEW b \in Seq(BatchEdge), Shaped(a \o b)
    PROVE  Shaped(a)
<1>1. PICK c : c = a \o b
  OBVIOUS
<1>2. PICK m \in Nat, n \in Nat : m = Len(a) /\ n = Len(b) /\ DOMAIN a = 1 .. m
  BY LenProperties
<1>3. DOMAIN c = 1 .. m + n /\ \A i \in 1 .. m : c[i] = a[i]
  BY <1>1, <1>2, ConcatProperties, LenProperties
<1>4. ASSUME NEW i \in 1 .. m PROVE Shape(a[i], Known(a, i - 1))
  <2>1. i \in DOMAIN c /\ c[i] = a[i] /\ i - 1 \in Nat /\ \A j \in 1 .. i - 1 : c[j] = a[j]
    BY <1>2, <1>3
  <2>2. Known(c, i - 1) = Known(a, i - 1)
    BY <2>1, KnownAlike
  <2> QED
    BY <1>1, <2>1, <2>2 DEF Shaped
<1> QED
  BY <1>2, <1>4 DEF Shaped

(* The vertices of the structure are numbered 0 .. num_nodes - 1 without a *)
(* gap, num_nodes counted from the flags of the edges, after every batch.  *)
THEOREM VerticesCounted == Spec => []NodesCounted
<1>1. ASSUME IInv PROVE NodesCounted
  <2>1. /\ applied \in Seq(BatchEdge) /\ taken \in Seq(BatchEdge) /\ el \in Seq(BatchEdge)
        /\ queue \in Seq(Seq(BatchEdge))
    BY <1>1 DEF IInv, TypeOK
  <2>2. PICK f \in Seq(BatchEdge) : f = FlattenSeq(queue)
    BY <2>1, FlattenTyped
  <2>3. Shaped(((applied \o taken) \o f) \o el)
    BY Zenon, <1>1, <2>2 DEF IInv, Assigning, InSystem
  <2>4. PICK a \in Seq(BatchEdge) : a = applied \o taken
    BY <2>1, ConcatProperties
  <2>5. PICK b \in Seq(BatchEdge) : b = a \o f
    BY ConcatProperties
  <2>6. Shaped(b \o el)
    BY Zenon, <2>3, <2>4, <2>5
  <2>7. Shaped(a \o f)
    BY Zenon, <2>1, <2>5, <2>6, ShapedPrefix
  <2>8. Shaped(applied \o taken)
    BY Zenon, <2>4, <2>7, ShapedPrefix
  <2>9. Shaped(applied)
    BY Zenon, <2>1, <2>8, ShapedPrefix
  <2>10. Endpoints(applied, Len(applied)) = 0 .. Known(applied, Len(applied)) - 1
    BY <2>1, <2>9, EndpointsDense
  <2>11. num_nodes = Known(applied, Len(applied))
    BY <1>1 DEF IInv, Counted
  <2>12. DOMAIN applied = 1 .. Len(applied)
    BY <2>1, LenProperties
  <2> QED
    BY Zenon, <2>10, <2>11, <2>12 DEF NodesCounted, Endpoints
<1> QED
  BY <1>1, InductiveInvariant, PTL

(* main prints only when the whole file is in the structure and the        *)
(* algorithm has run on it.                                                *)
THEOREM PrintedComplete == Spec => []PrintedWhenComplete
<1>1. ASSUME IInv PROVE PrintedWhenComplete
  <2> SUFFICES ASSUME main \in {"print", "end"}
               PROVE  /\ Len(applied) = Len(NonBlank) /\ computed = Len(applied)
                      /\ builder = "exit"
    BY DEF PrintedWhenComplete
  <2>1. /\ builder = "exit" /\ computed = Len(applied) /\ taken = <<>>
        /\ el = <<>> /\ queue = <<>> /\ pos = Len(file) + 1
    BY <1>1 DEF IInv, Control
  <2>2. applied \in Seq(BatchEdge) /\ file \in Seq(Lines)
    BY <1>1 DEF IInv, TypeOK
  <2>3. applied \o <<>> = applied
    BY <2>2, ConcatEmptySeq
  <2>4. InSystem = applied
    BY Zenon, <2>1, <2>3, FlattenEmpty DEF InSystem
  <2>5. LinesRead = NonBlank
    <3>1. pos - 1 = Len(file) /\ Len(file) \in Nat
      BY <2>1, <2>2, LenProperties
    <3>2. SubSeq(file, 1, Len(file)) = file
      BY <2>2, SubSeqFull
    <3> QED
      BY Zenon, <3>1, <3>2 DEF LinesRead, NonBlank
  <2>6. Len(InSystem) = Len(LinesRead)
    BY <1>1 DEF IInv, Assigning, Numbered
  <2> QED
    BY Zenon, <2>1, <2>4, <2>5, <2>6
<1> QED
  BY <1>1, InductiveInvariant, PTL

(* What EdgeStream says a structure receives, for the names of the file.   *)
Stream == INSTANCE EdgeStream WITH NumNodes <- Cardinality(Names), Weights <- {"w"}

(* An edge is one that EdgeStream lets be submitted, but for the weight.   *)
Accepted(edge, known) ==
    \E e \in Stream!Submittable(known) :
        edge = [f \in {"source", "destination", "sourceExists", "destExists"} |-> e[f]]
AllAccepted(s) == \A i \in DOMAIN s : Accepted(s[i], Known(s, i - 1))
Submitted == AllAccepted(InSystem)

(* The edges that the models of the structures are given, one by one, are  *)
(* the ones the reader emits: an ID below the number of names, and flags   *)
(* that say what has been given out before.                                *)
THEOREM EdgesSubmittable ==
    ASSUME IsFiniteSet(Names)
    PROVE  Spec => []Submitted
<1>1. ASSUME IInv PROVE Submitted
  <2>1. PICK s \in Seq(BatchEdge) : s = InSystem
    BY <1>1, SystemTyped DEF IInv
  <2>2. PICK lines : lines = LinesRead
    OBVIOUS
  <2>3. Numbered(s, lines, VMap) /\ Shaped(s) /\ WellMapped(VMap, lastAssignedLogicalID)
    BY Zenon, <1>1, <2>1, <2>2 DEF IInv, Assigning
  <2>4. PICK n \in Nat : n = Cardinality(Names)
    BY <1>1, FS_CardinalityType
  <2>5. \A m \in DOMAIN VMap : VMap[m] \in 0 .. n - 1
    <3>1. DOMAIN VMap \subseteq Names
      BY <1>1 DEF IInv, TypeOK
    <3>2. Cardinality(DOMAIN VMap) <= n
      BY <1>1, <2>4, <3>1, FS_Subset
    <3>3. /\ \A m \in DOMAIN VMap : VMap[m] \in Nat /\ VMap[m] <= lastAssignedLogicalID
          /\ Cardinality(DOMAIN VMap) = lastAssignedLogicalID + 1
          /\ lastAssignedLogicalID \in Int
      BY <2>3 DEF WellMapped, ID
    <3> QED
      BY <3>2, <3>3
  <2>6. ASSUME NEW i \in DOMAIN s
        PROVE  Accepted(s[i], Known(s, i - 1))
    <3>1. PICK k \in Nat : k = Known(s, i - 1)
      <4>1. i - 1 \in Nat
        BY LenProperties
      <4> QED
        BY <4>1, KnownSteps
    <3>2. PICK from \in Nat, to \in Nat, x \in BOOLEAN, y \in BOOLEAN :
            s[i] = [source |-> from, destination |-> to, sourceExists |-> x, destExists |-> y]
      <4>1. s[i] \in BatchEdge
        OBVIOUS
      <4>2. /\ s[i].source \in Nat /\ s[i].destination \in Nat
            /\ s[i].sourceExists \in BOOLEAN /\ s[i].destExists \in BOOLEAN
            /\ s[i] = [source |-> s[i].source, destination |-> s[i].destination,
                       sourceExists |-> s[i].sourceExists, destExists |-> s[i].destExists]
        BY <4>1 DEF BatchEdge, ID
      <4> QED
        BY Zenon, <4>2
    <3>3. from \in 0 .. n - 1 /\ to \in 0 .. n - 1
      <4>1. /\ lines[i][1] \in DOMAIN VMap /\ s[i].source = VMap[lines[i][1]]
            /\ lines[i][2] \in DOMAIN VMap /\ s[i].destination = VMap[lines[i][2]]
        BY <2>3 DEF Numbered
      <4>2. s[i].source = from /\ s[i].destination = to
        BY <3>2
      <4> QED
        BY <2>5, <4>1, <4>2
    <3>4. Shape(s[i], k)
      BY <2>3, <3>1 DEF Shaped
    <3>5. from <= k /\ (x <=> from < k) /\ to <= After(k, from) /\ (y <=> to < After(k, from))
      BY <3>2, <3>4 DEF Shape
    <3>6. After(k, from) = Stream!KnownAfter(k, from)
      BY DEF After, Stream!KnownAfter
    <3>7. PICK e : e = Stream!EdgeOf(k, from, to, "w")
      OBVIOUS
    <3>8. e \in Stream!Submittable(k)
      <4>1. from \in Stream!NodeID /\ to \in Stream!NodeID
        BY <2>4, <3>3 DEF Stream!NodeID
      <4>2. <<from, to>> \in {p \in Stream!NodeID \X Stream!NodeID :
                                p[1] <= k /\ p[2] <= Stream!KnownAfter(k, p[1])}
        BY <3>5, <3>6, <4>1
      <4>3. e = Stream!EdgeOf(k, <<from, to>>[1], <<from, to>>[2], "w") /\ "w" \in {"w"}
        BY <3>7
      <4> QED
        BY <4>2, <4>3 DEF Stream!Submittable
    <3>9. /\ e.source = from /\ e.destination = to /\ e.sourceExists = x /\ e.destExists = y
      <4>1. e = [source |-> from, destination |-> to, weight |-> "w",
                 sourceExists |-> from < k, destExists |-> to < After(k, from)]
        BY <3>6, <3>7 DEF Stream!EdgeOf
      <4> QED
        BY <3>5, <4>1
    <3>10. s[i] = [f \in {"source", "destination", "sourceExists", "destExists"} |-> e[f]]
      BY <3>2, <3>9
    <3> QED
      BY Zenon, <3>1, <3>8, <3>10 DEF Accepted
  <2>7. AllAccepted(s)
    BY <2>6 DEF AllAccepted
  <2> QED
    BY Zenon, <2>1, <2>7 DEF Submitted
<1> QED
  BY <1>1, InductiveInvariant, PTL
=============================================================================

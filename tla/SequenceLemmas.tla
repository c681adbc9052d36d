--------------------------- MODULE SequenceLemmas ---------------------------
(***************************************************************************)
(* Facts about sequences and recursion that the proofs about texts share   *)
(* (LiqParserProofs, and EmbeddedDatabaseProofs for the snapshot file).    *)
(*                                                                         *)
(* A recursive function is one that CHOOSE picks: RecursionExists shows    *)
(* that there is one to pick.  Induction has the form of InductionTo, with *)
(* a set in the place of a predicate.                                      *)
(***************************************************************************)
EXTENDS Integers, SequencesExt, SequenceTheorems, WellFoundedInduction, TLAPS

-----------------------------------------------------------------------------
(* Recursion up to a bound.                                                *)

\* A set that has 0, and each place up to n whose predecessor it has, has them all.
LEMMA InductionTo ==
  ASSUME NEW n \in Nat, NEW P, 0 \in P, \A k \in 1..n : k - 1 \in P => k \in P
  PROVE  0..n \subseteq P
<1>. DEFINE bad == 0..n \ P
<1>. SUFFICES ASSUME bad # {} PROVE FALSE
  OBVIOUS
<1>1. IsWellFoundedOn(OpToRel(<, Nat), Nat)
  BY NatLessThanWellFounded
<1>2. bad \subseteq Nat
  OBVIOUS
<1>. HIDE DEF bad
<1>3. PICK k \in bad : \A j \in bad : ~ (<<j, k>> \in OpToRel(<, Nat))
  BY <1>1, <1>2, WFMin
<1>4. \A j \in bad : ~ (j < k)
  BY <1>2, <1>3 DEF OpToRel
<1>. USE DEF bad
<1>5. k \in 1..n /\ k - 1 \in 0..n /\ k - 1 < k
  OBVIOUS
<1>6. k - 1 \in P
  BY <1>4, <1>5
<1>. QED
  BY <1>5, <1>6

\* A recursion that starts with `base` and goes on with `step` ...
IsStep(n, S, step) == step \in [(1..n) \X S -> S]
Recurses(n, S, base, step) ==
  \E f \in [0..n -> S] : f[0] = base /\ \A k \in 1..n : f[k] = step[<<k, f[k - 1]>>]

\* ... defines a function.
LEMMA RecursionExists ==
  ASSUME NEW n \in Nat, NEW S, NEW base \in S, NEW step, IsStep(n, S, step)
  PROVE  Recurses(n, S, base, step)
<1>. USE DEF IsStep
<1>. DEFINE Upto(m, f) == f \in [0..m -> S] /\ f[0] = base /\ \A k \in 1..m : f[k] = step[<<k, f[k - 1]>>]
            P == {m \in 0..n : \E f \in [0..m -> S] : Upto(m, f)}
<1>1. 0 \in P
  <2>. DEFINE f == [i \in 0..0 |-> base]
  <2>1. f \in [0..0 -> S] /\ Upto(0, f)
    OBVIOUS
  <2>. HIDE DEF f, Upto
  <2>. QED
    BY <2>1
<1>2. ASSUME NEW k \in 1..n, k - 1 \in P PROVE k \in P
  <2>1. PICK f \in [0..(k - 1) -> S] : Upto(k - 1, f)
    BY <1>2
  <2>. DEFINE last == f[k - 1]
              new == step[<<k, last>>]
              g == [i \in 0..k |-> IF i = k THEN new ELSE f[i]]
  <2>2. last \in S /\ k \in 1..n /\ k - 1 \in Nat
    OBVIOUS
  <2>3. new \in S
    <3>. HIDE DEF last
    <3>. QED
      BY <2>2
  <2>. HIDE DEF new
  <2>4. g \in [0..k -> S]
    BY <2>3
  <2>5. \A i \in 0..(k - 1) : g[i] = f[i]
    BY <2>2
  <2>6. g[k] = new
    BY <2>2
  <2>. HIDE DEF g
  <2>7. g[0] = base
    BY <2>1, <2>2, <2>5
  <2>8. ASSUME NEW j \in 1..k PROVE g[j] = step[<<j, g[j - 1]>>]
    <3>1. CASE j = k
      <4>1. g[j - 1] = last
        BY <3>1, <2>2, <2>5
      <4>. QED
        BY <3>1, <4>1, <2>6 DEF new
    <3>2. CASE j # k
      <4>1. j \in 1..(k - 1) /\ j \in 0..(k - 1) /\ j - 1 \in 0..(k - 1)
        BY <3>2
      <4>2. g[j] = f[j] /\ g[j - 1] = f[j - 1]
        BY <4>1, <2>5
      <4>. QED
        BY <4>1, <4>2, <2>1
    <3>. QED
      BY <3>1, <3>2
  <2>9. Upto(k, g)
    BY <2>4, <2>7, <2>8
  <2>10. k \in 0..n
    OBVIOUS
  <2>. HIDE DEF Upto
  <2>. QED
    BY <2>4, <2>9, <2>10
<1>. HIDE DEF P
<1>3. 0..n \subseteq P
  BY <1>1, <1>2, InductionTo
<1>4. n \in P
  BY <1>3
<1>. QED
  BY <1>4 DEF P, Recurses

-----------------------------------------------------------------------------
(* Places in sequences.                                                    *)

\* A set of places that is not empty has a least one.
LEMMA FirstPlace ==
  ASSUME NEW places, places \subseteq Nat, places # {}
  PROVE  \E i \in places : \A j \in places : i <= j
<1>1. IsWellFoundedOn(OpToRel(<, Nat), Nat)
  BY NatLessThanWellFounded
<1>2. PICK i \in places : \A j \in places : ~ (<<j, i>> \in OpToRel(<, Nat))
  BY <1>1, WFMin
<1>3. \A j \in places : ~ (j < i)
  BY <1>2 DEF OpToRel
<1>. QED
  BY <1>3

\* The first place of x, or 0.
FirstOf(seq, x) == SelectInSeq(seq, LAMBDA y : y = x)

\* It is x that is there, and nowhere before.
LEMMA FirstIsFirst ==
  ASSUME NEW seq, Len(seq) \in Nat, NEW x
  PROVE  /\ FirstOf(seq, x) \in 0..Len(seq)
         /\ FirstOf(seq, x) = 0 => \A k \in 1..Len(seq) : seq[k] # x
         /\ FirstOf(seq, x) # 0 => /\ seq[FirstOf(seq, x)] = x
                                   /\ \A k \in 1..(FirstOf(seq, x) - 1) : seq[k] # x
<1>. DEFINE places == {i \in 1..Len(seq) : seq[i] = x}
<1>1. FirstOf(seq, x) = IF places # {} THEN Min(places) ELSE 0
  BY DEF FirstOf, SelectInSeq
<1>2. \A i \in 1..Len(seq) : i \in places <=> seq[i] = x
  OBVIOUS
<1>3. places \subseteq 1..Len(seq)
  OBVIOUS
<1>. HIDE DEF places
<1>4. CASE places = {}
  BY <1>1, <1>2, <1>4
<1>5. CASE places # {}
  <2>1. \E i \in places : \A j \in places : i <= j
    <3>1. places \subseteq Nat
      BY <1>3
    <3>. QED
      BY <3>1, <1>5, FirstPlace
  <2>2. Min(places) \in places /\ \A j \in places : Min(places) <= j
    BY <2>1 DEF Min
  <2>3. FirstOf(seq, x) = Min(places)
    BY <1>1, <1>5
  <2>. DEFINE p == FirstOf(seq, x)
  <2>4. p \in places /\ \A j \in places : p <= j
    BY <2>2, <2>3
  <2>. HIDE DEF Min, p
  <2>5. p \in 1..Len(seq) /\ seq[p] = x
    BY <1>2, <1>3, <2>4
  <2>6. \A k \in 1..(p - 1) : k \notin places /\ k \in 1..Len(seq)
    BY <1>3, <2>4, <2>5
  <2>7. \A k \in 1..(p - 1) : seq[k] # x
    BY <1>2, <2>6
  <2>8. p # 0 /\ p \in 0..Len(seq)
    BY <2>5
  <2>. QED
    BY <2>5, <2>7, <2>8 DEF p
<1>. QED
  BY <1>4, <1>5

\* The set of one element in a sequence of one.
LEMMA SingletonSet ==
  ASSUME NEW x
  PROVE  ToSet(<<x>>) = {x}
BY DEF ToSet

\* The prefixes of a sequence, each by an element longer than the one before.
LEMMA PrefixGrows ==
  ASSUME NEW S, NEW s \in Seq(S)
  PROVE  /\ SubSeq(s, 1, 0) = << >> /\ SubSeq(s, 1, Len(s)) = s
         /\ \A k \in 0..Len(s) : SubSeq(s, 1, k) \in Seq(S) /\ Len(SubSeq(s, 1, k)) = k
         /\ \A k \in 1..Len(s) : s[k] \in S /\ SubSeq(s, 1, k) = Append(SubSeq(s, 1, k - 1), s[k])
<1>1. SubSeq(s, 1, 0) = << >> /\ SubSeq(s, 1, Len(s)) = s
  OBVIOUS
<1>2. \A k \in 0..Len(s) : SubSeq(s, 1, k) \in Seq(S) /\ Len(SubSeq(s, 1, k)) = k
  OBVIOUS
<1>3. ASSUME NEW k \in 1..Len(s) PROVE s[k] \in S /\ SubSeq(s, 1, k) = Append(SubSeq(s, 1, k - 1), s[k])
  OBVIOUS
<1>. QED
  BY <1>1, <1>2, <1>3

\* An element more at the end of two sequences.
LEMMA ConcatAppend ==
  ASSUME NEW S, NEW a \in Seq(S), NEW b \in Seq(S), NEW x \in S
  PROVE  a \o Append(b, x) = Append(a \o b, x) /\ a \o b \in Seq(S)
OBVIOUS

\* Three sequences, from the right and from the left.
LEMMA Regroup ==
  ASSUME NEW S, NEW a \in Seq(S), NEW b \in Seq(S), NEW c \in Seq(S)
  PROVE  a \o (b \o c) = (a \o b) \o c
BY ConcatAssociative

-----------------------------------------------------------------------------
(* FlattenSeq, by the length of its argument.                              *)

\* FlattenSeq is the last value of a recursion, ...
LEMMA FlattenRecursion ==
  ASSUME NEW S, NEW seqs \in Seq(Seq(S))
  PROVE  \E f \in [0..Len(seqs) -> Seq(S)] :
           /\ FlattenSeq(seqs) = f[Len(seqs)]
           /\ f[0] = << >>
           /\ \A k \in 1..Len(seqs) : f[k] = f[k - 1] \o seqs[k]
<1>. DEFINE n == Len(seqs)
            step == [x \in (1..n) \X Seq(S) |-> x[2] \o seqs[x[1]]]
            Fits(g) == g = [i \in 1..n |-> IF i = 1 THEN seqs[i] ELSE g[i - 1] \o seqs[i]]
            g == CHOOSE g : Fits(g)
<1>1. n \in Nat /\ \A k \in 1..n : seqs[k] \in Seq(S)
  OBVIOUS
<1>2. n # 0 => FlattenSeq(seqs) = g[n]
  BY DEF FlattenSeq
<1>3. n = 0 => FlattenSeq(seqs) = << >>
  BY DEF FlattenSeq
<1>. HIDE DEF n
<1>4. \A k \in 1..n : \A before \in Seq(S) : before \o seqs[k] \in Seq(S)
  BY <1>1
<1>5. step \in [(1..n) \X Seq(S) -> Seq(S)] /\ \A k \in 1..n : \A before \in Seq(S) : step[<<k, before>>] = before \o seqs[k]
  BY <1>4
<1>. HIDE DEF step
<1>6. << >> \in Seq(S) /\ IsStep(n, Seq(S), step)
  BY <1>5 DEF IsStep
<1>7. PICK f \in [0..n -> Seq(S)] : f[0] = << >> /\ \A k \in 1..n : f[k] = step[<<k, f[k - 1]>>]
  <2>1. Recurses(n, Seq(S), << >>, step)
    BY <1>1, <1>6, RecursionExists
  <2>. QED
    BY <2>1 DEF Recurses
<1>8. \A k \in 1..n : f[k] = f[k - 1] \o seqs[k]
  <2>1. \A k \in 1..n : k - 1 \in 0..n /\ f[k - 1] \in Seq(S)
    BY <1>1
  <2>. QED
    BY <1>5, <1>7, <2>1
<1>9. 1 \in 1..n => f[1] = seqs[1]
  <2>1. 1 \in 1..n => seqs[1] \in Seq(S) /\ << >> \o seqs[1] = seqs[1]
    BY <1>1
  <2>2. 1 \in 1..n => f[1] = f[1 - 1] \o seqs[1]
    BY <1>8
  <2>3. 1 - 1 = 0
    OBVIOUS
  <2>. QED
    BY <1>7, <2>1, <2>2, <2>3
<1>10. Fits(g)
  <2>. DEFINE h == [i \in 1..n |-> f[i]]
  <2>1. \A i \in 1..n : h[i] = f[i]
    OBVIOUS
  <2>2. \A i \in 1..n : i # 1 => i - 1 \in 1..n
    BY <1>1
  <2>3. \A i \in 1..n : h[i] = IF i = 1 THEN seqs[i] ELSE h[i - 1] \o seqs[i]
    BY <1>8, <1>9, <2>1, <2>2
  <2>4. h = [i \in 1..n |-> IF i = 1 THEN seqs[i] ELSE h[i - 1] \o seqs[i]]
    BY <2>3
  <2>5. Fits(h)
    BY <2>4
  <2>. HIDE DEF Fits
  <2>. QED
    BY <2>5
<1>. HIDE DEF g
<1>11. \A i \in 1..n : g[i] = IF i = 1 THEN seqs[i] ELSE g[i - 1] \o seqs[i]
  BY <1>10
<1>. DEFINE P == {k \in 0..n : k = 0 \/ g[k] = f[k]}
<1>12. 0 \in P
  BY <1>1
<1>13. ASSUME NEW k \in 1..n, k - 1 \in P PROVE k \in P
  <2>1. CASE k = 1
    BY <1>9, <1>11, <1>13, <2>1
  <2>2. CASE k # 1
    <3>1. k - 1 # 0 /\ k \in 0..n
      BY <1>1, <2>2
    <3>2. g[k - 1] = f[k - 1]
      BY <1>13, <3>1
    <3>3. g[k] = f[k]
      BY <1>8, <1>11, <2>2, <3>2
    <3>. QED
      BY <3>1, <3>3
  <2>. QED
    BY <2>1, <2>2
<1>14. n \in P
  <2>. HIDE DEF P
  <2>1. 0..n \subseteq P
    BY <1>1, <1>12, <1>13, InductionTo
  <2>. QED
    BY <1>1, <2>1
<1>15. FlattenSeq(seqs) = f[n]
  BY <1>1, <1>2, <1>3, <1>7, <1>14
<1>. QED
  BY <1>7, <1>8, <1>15 DEF n

\* ... is over the same elements, ...
LEMMA FlattenTyped ==
  ASSUME NEW S, NEW seqs \in Seq(Seq(S))
  PROVE  FlattenSeq(seqs) \in Seq(S)
<1>1. PICK f \in [0..Len(seqs) -> Seq(S)] : FlattenSeq(seqs) = f[Len(seqs)]
  BY FlattenRecursion
<1>2. Len(seqs) \in 0..Len(seqs)
  OBVIOUS
<1>. QED
  BY <1>1, <1>2

\* ... is empty of nothing, ...
LEMMA FlattenEmpty == FlattenSeq(<< >>) = << >>
BY DEF FlattenSeq

\* ... and goes on with the next sequence.
LEMMA FlattenAppend ==
  ASSUME NEW S, NEW seqs \in Seq(Seq(S)), NEW x \in Seq(S)
  PROVE  FlattenSeq(Append(seqs, x)) = FlattenSeq(seqs) \o x
<1>. DEFINE n == Len(seqs)
            b == Append(seqs, x)
<1>1. n \in Nat /\ b \in Seq(Seq(S)) /\ Len(b) = n + 1 /\ b[n + 1] = x /\ \A k \in 1..n : b[k] = seqs[k]
  OBVIOUS
<1>2. PICK f \in [0..n -> Seq(S)] :
        FlattenSeq(seqs) = f[n] /\ f[0] = << >> /\ \A k \in 1..n : f[k] = f[k - 1] \o seqs[k]
  BY FlattenRecursion
<1>. HIDE DEF n, b
<1>3. PICK g \in [0..Len(b) -> Seq(S)] :
        FlattenSeq(b) = g[Len(b)] /\ g[0] = << >> /\ \A k \in 1..Len(b) : g[k] = g[k - 1] \o b[k]
  BY <1>1, FlattenRecursion
<1>. DEFINE P == {k \in 0..n : g[k] = f[k]}
<1>4. 0 \in P
  BY <1>1, <1>2, <1>3
<1>5. ASSUME NEW k \in 1..n, k - 1 \in P PROVE k \in P
  <2>1. k \in 1..Len(b) /\ b[k] = seqs[k] /\ g[k - 1] = f[k - 1] /\ k \in 0..n
    BY <1>1, <1>5
  <2>. QED
    BY <1>2, <1>3, <2>1
<1>6. n \in P
  <2>. HIDE DEF P
  <2>1. 0..n \subseteq P
    BY <1>1, <1>4, <1>5, InductionTo
  <2>. QED
    BY <1>1, <2>1
<1>7. g[n + 1] = g[n] \o x
  <2>1. n + 1 \in 1..Len(b) /\ (n + 1) - 1 = n
    BY <1>1
  <2>. QED
    BY <1>1, <1>3, <2>1
<1>. QED
  BY <1>1, <1>2, <1>3, <1>6, <1>7 DEF b

\* FlattenSeq of two lists put together is that of each.
LEMMA FlattenConcat ==
  ASSUME NEW S, NEW a \in Seq(Seq(S)), NEW b \in Seq(Seq(S))
  PROVE  FlattenSeq(a \o b) = FlattenSeq(a) \o FlattenSeq(b)
<1>. DEFINE B(k) == SubSeq(b, 1, k)
            P == {k \in 0..Len(b) : FlattenSeq(a \o B(k)) = FlattenSeq(a) \o FlattenSeq(B(k))}
<1>1. /\ Len(b) \in Nat /\ B(0) = << >> /\ B(Len(b)) = b
      /\ \A k \in 0..Len(b) : B(k) \in Seq(Seq(S))
      /\ \A k \in 1..Len(b) : b[k] \in Seq(S) /\ B(k) = Append(B(k - 1), b[k])
  BY PrefixGrows
<1>. HIDE DEF B
<1>2. 0 \in P
  <2>1. a \o << >> = a /\ FlattenSeq(a) \in Seq(S) /\ 0 \in 0..Len(b)
    BY <1>1, FlattenTyped
  <2>2. FlattenSeq(a) \o << >> = FlattenSeq(a)
    BY <2>1
  <2>. QED
    BY <1>1, <2>1, <2>2, FlattenEmpty
<1>3. ASSUME NEW k \in 1..Len(b), k - 1 \in P PROVE k \in P
  <2>. DEFINE c == B(k - 1)
              x == b[k]
  <2>0. k \in 0..Len(b) /\ k - 1 \in 0..Len(b)
    BY <1>1
  <2>1. c \in Seq(Seq(S)) /\ x \in Seq(S) /\ B(k) = Append(c, x) /\ k \in 0..Len(b)
    BY <1>1, <2>0
  <2>2. FlattenSeq(a \o c) = FlattenSeq(a) \o FlattenSeq(c)
    BY <1>3
  <2>. HIDE DEF c, x
  <2>3. a \o Append(c, x) = Append(a \o c, x) /\ a \o c \in Seq(Seq(S))
    BY <2>1, ConcatAppend
  <2>4. FlattenSeq(a) \in Seq(S) /\ FlattenSeq(c) \in Seq(S)
    BY <2>1, FlattenTyped
  <2>5. FlattenSeq(Append(c, x)) = FlattenSeq(c) \o x
    BY <2>1, FlattenAppend
  <2>6. FlattenSeq(Append(a \o c, x)) = FlattenSeq(a \o c) \o x
    BY <2>1, <2>3, FlattenAppend
  <2>7. (FlattenSeq(a) \o FlattenSeq(c)) \o x = FlattenSeq(a) \o (FlattenSeq(c) \o x)
    <3>. DEFINE u == FlattenSeq(a)
                v == FlattenSeq(c)
    <3>1. u \in Seq(S) /\ v \in Seq(S) /\ x \in Seq(S)
      BY <2>1, <2>4
    <3>. HIDE DEF u, v
    <3>2. (u \o v) \o x = u \o (v \o x)
      BY <3>1, Regroup
    <3>. QED
      BY <3>2 DEF u, v
  <2>8. FlattenSeq(a \o Append(c, x)) = FlattenSeq(a) \o FlattenSeq(Append(c, x))
    BY <2>2, <2>3, <2>5, <2>6, <2>7
  <2>. QED
    BY <2>1, <2>8
<1>4. Len(b) \in P
  <2>. HIDE DEF P
  <2>1. Len(b) \in Nat
    BY <1>1
  <2>2. 0..Len(b) \subseteq P
    BY <1>2, <1>3, <2>1, InductionTo
  <2>. QED
    BY <2>1, <2>2
<1>. QED
  BY <1>1, <1>4

=============================================================================

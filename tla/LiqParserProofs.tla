-------------------------- MODULE LiqParserProofs ---------------------------
(***************************************************************************)
(* What the parser does with every text, of whatever length and atoms:     *)
(* what it reads are clauses, what it writes is what the text says, and a  *)
(* sentence of the grammar is read as it was meant.                        *)
(*                                                                         *)
(* All are about recursive definitions (Parts, Plain, ClauseEnds, Atoms),  *)
(* which SequenceLemmas lets us unfold.                                    *)
(***************************************************************************)
EXTENDS LiqParser, SequenceLemmas

-----------------------------------------------------------------------------
(* Where a sequence of clauses may end.                                    *)

\* ClauseEnds is the last value of a recursion.
LEMMA EndsRecursion ==
  ASSUME NEW toks, Len(toks) \in Nat, Len(toks) >= 2
  PROVE  \E f \in [0..(Len(toks) - 2) -> SUBSET Nat] :
           /\ ClauseEnds(toks) = f[Len(toks) - 2]
           /\ f[0] = {2}
           /\ \A k \in 1..(Len(toks) - 2) :
                f[k] = f[k - 1] \cup {j \in {k + 2} : \E i \in f[k - 1] : IsClause(toks, i, j)}
<1>. DEFINE n == Len(toks) - 2
            More(k, before) == before \cup {j \in {k + 2} : \E i \in before : IsClause(toks, i, j)}
            step == [x \in (1..n) \X SUBSET Nat |-> More(x[1], x[2])]
<1>. HIDE DEF More
<1>1. n \in Nat
  OBVIOUS
<1>. HIDE DEF n
<1>2. \A k \in 1..n : \A before \in SUBSET Nat : More(k, before) \in SUBSET Nat
  <2>. SUFFICES ASSUME NEW k \in 1..n, NEW before \in SUBSET Nat PROVE More(k, before) \subseteq Nat
    OBVIOUS
  <2>1. k + 2 \in Nat
    BY <1>1
  <2>. QED
    BY <2>1 DEF More
<1>3. step \in [(1..n) \X SUBSET Nat -> SUBSET Nat]
  BY <1>2
<1>4. \A k \in 1..n : \A before \in SUBSET Nat : step[<<k, before>>] = More(k, before)
  OBVIOUS
<1>. HIDE DEF step
<1>5. {2} \in SUBSET Nat
  OBVIOUS
<1>6. PICK f \in [0..n -> SUBSET Nat] : f[0] = {2} /\ \A k \in 1..n : f[k] = step[<<k, f[k - 1]>>]
  <2>1. IsStep(n, SUBSET Nat, step)
    BY <1>3 DEF IsStep
  <2>2. Recurses(n, SUBSET Nat, {2}, step)
    BY <1>1, <1>5, <2>1, RecursionExists
  <2>. QED
    BY <2>2 DEF Recurses
<1>7. \A k \in 1..n : k - 1 \in 0..n /\ f[k - 1] \in SUBSET Nat
  BY <1>1
<1>8. \A k \in 1..n : f[k] = More(k, f[k - 1])
  BY <1>4, <1>6, <1>7
<1>9. f = [k \in 0..n |-> IF k = 0 THEN {2} ELSE More(k, f[k - 1])]
  BY <1>1, <1>6, <1>8
<1>. DEFINE Fits(g) == g = [k \in 0..n |-> IF k = 0 THEN {2} ELSE More(k, g[k - 1])]
            g == CHOOSE g : Fits(g)
<1>10. ClauseEnds(toks) = g[n]
  BY DEF ClauseEnds, More, n
<1>11. Fits(g)
  <2>1. Fits(f)
    BY <1>9
  <2>. HIDE DEF Fits
  <2>. QED
    BY <2>1
<1>. HIDE DEF g
<1>12. g[0] = {2} /\ \A k \in 1..n : g[k] = More(k, g[k - 1])
  <2>1. 0 \in 0..n /\ \A k \in 1..n : k \in 0..n /\ k # 0
    BY <1>1
  <2>. DEFINE Value(k) == IF k = 0 THEN {2} ELSE More(k, g[k - 1])
  <2>2. \A k \in 0..n : g[k] = Value(k)
    BY <1>11
  <2>. QED
    BY <2>1, <2>2
<1>. DEFINE P == {k \in 0..n : g[k] = f[k]}
<1>13. 0 \in P
  <2>1. 0 \in 0..n
    BY <1>1
  <2>. QED
    BY <2>1, <1>6, <1>12
<1>14. \A k \in 1..n : k - 1 \in P => k \in P
  BY <1>1, <1>8, <1>12
<1>. HIDE DEF P
<1>15. n \in P
  <2>1. 0..n \subseteq P
    BY <1>1, <1>13, <1>14, InductionTo
  <2>. QED
    BY <2>1, <1>1
<1>16. ClauseEnds(toks) = f[n]
  BY <1>10, <1>15 DEF P
<1>. QED
  BY <1>6, <1>8, <1>16 DEF More, n

\* What ClauseEnds has: 2, and every end of a clause that starts where one may.
LEMMA EndsMeans ==
  ASSUME NEW toks, Len(toks) \in Nat, Len(toks) >= 2
  PROVE  /\ ClauseEnds(toks) \subseteq 2..Len(toks)
         /\ 2 \in ClauseEnds(toks)
         /\ \A j \in 3..Len(toks) :
              j \in ClauseEnds(toks) <=> \E i \in ClauseEnds(toks) : i < j /\ IsClause(toks, i, j)
<1>. DEFINE n == Len(toks) - 2
<1>1. n \in Nat
  OBVIOUS
<1>2. PICK f \in [0..n -> SUBSET Nat] :
        /\ ClauseEnds(toks) = f[n]
        /\ f[0] = {2}
        /\ \A k \in 1..n : f[k] = f[k - 1] \cup {j \in {k + 2} : \E i \in f[k - 1] : IsClause(toks, i, j)}
  BY EndsRecursion
<1>3. Len(toks) = n + 2
  OBVIOUS
<1>. HIDE DEF n
<1>4. \A k \in 1..n : \A j : j \in f[k] <=> j \in f[k - 1] \/ (j = k + 2 /\ \E i \in f[k - 1] : IsClause(toks, i, j))
  BY <1>2
<1>. DEFINE Grown(k) == /\ f[k] \subseteq 2..(k + 2) /\ 2 \in f[k]
                        /\ \A m \in 0..k : \A j \in f[k] : j <= m + 2 => j \in f[m]
                        /\ \A m \in 0..k : f[m] \subseteq f[k]
            P == {k \in 0..n : Grown(k)}
<1>5. 0 \in P
  BY <1>1, <1>2
<1>6. ASSUME NEW k \in 1..n, k - 1 \in P PROVE k \in P
  <2>1. Grown(k - 1) /\ k \in 0..n /\ k \in Nat
    BY <1>1, <1>6
  <2>2. f[k] \subseteq 2..(k + 2) /\ 2 \in f[k]
    BY <1>4, <2>1
  <2>3. f[k - 1] \subseteq f[k] /\ \A j \in f[k] : j <= k + 1 => j \in f[k - 1]
    BY <1>4, <2>1
  <2>4. ASSUME NEW m \in 0..k, NEW j \in f[k], j <= m + 2 PROVE j \in f[m]
    <3>1. CASE m = k
      BY <3>1, <2>4
    <3>2. CASE m \in 0..(k - 1)
      BY <3>2, <2>1, <2>2, <2>3, <2>4
    <3>. QED
      BY <3>1, <3>2, <2>1
  <2>5. \A m \in 0..k : f[m] \subseteq f[k]
    <3>. SUFFICES ASSUME NEW m \in 0..(k - 1) PROVE f[m] \subseteq f[k]
      BY <2>1
    <3>. QED
      BY <2>1, <2>3
  <2>. QED
    BY <2>1, <2>2, <2>4, <2>5
<1>. HIDE DEF P
<1>7. 0..n \subseteq P
  BY <1>1, <1>5, <1>6, InductionTo
<1>8. \A k \in 0..n : Grown(k)
  BY <1>7 DEF P
<1>9. Grown(n)
  BY <1>1, <1>8
<1>10. ASSUME NEW j \in 3..Len(toks)
       PROVE  j \in f[n] <=> \E i \in f[n] : i < j /\ IsClause(toks, i, j)
  <2>. DEFINE k == j - 2
  <2>1. k \in 1..n /\ k \in 0..n /\ k - 1 \in 0..n /\ j = k + 2
    BY <1>1, <1>3
  <2>. HIDE DEF k
  <2>2. Grown(k - 1)
    BY <1>8, <2>1
  <2>3. j \in f[n] <=> j \in f[k]
    BY <1>9, <2>1
  <2>4. j \notin f[k - 1]
    BY <2>1, <2>2
  <2>5. \A i : i \in f[k - 1] <=> i \in f[n] /\ i < j
    <3>1. \A i \in f[k - 1] : i \in f[n] /\ i < j
      BY <1>9, <2>1, <2>2
    <3>2. \A i \in f[n] : i < j => i <= (k - 1) + 2
      BY <1>9, <2>1
    <3>. QED
      BY <1>9, <2>1, <3>1, <3>2
  <2>6. j \in f[k] <=> \E i \in f[k - 1] : IsClause(toks, i, j)
    BY <1>4, <2>1, <2>4
  <2>. QED
    BY <2>3, <2>5, <2>6
<1>. QED
  BY <1>2, <1>3, <1>9, <1>10

\* A set of places that is bounded and not empty has a greatest.
LEMMA LatestExists ==
  ASSUME NEW n \in Nat, NEW places, places \subseteq 0..n, places # {}
  PROVE  \E i \in places : Latest(places) = {i}
<1>. DEFINE back == {n - i : i \in places}
<1>1. back \subseteq Nat /\ back # {}
  <2>1. \A i \in places : n - i \in Nat
    OBVIOUS
  <2>2. back # {}
    OBVIOUS
  <2>. QED
    BY <2>1, <2>2
<1>2. \A i \in places : n - i \in back
  OBVIOUS
<1>3. \A b \in back : \E i \in places : b = n - i
  OBVIOUS
<1>. HIDE DEF back
<1>4. PICK b \in back : \A a \in back : b <= a
  BY <1>1, FirstPlace
<1>5. PICK i \in places : b = n - i
  BY <1>3
<1>6. \A j \in places : n - i <= n - j
  BY <1>2, <1>4, <1>5
<1>7. \A j \in places : j <= i
  BY <1>6
<1>8. \A k \in places : (\A j \in places : j <= k) => k = i
  BY <1>7
<1>. QED
  BY <1>7, <1>8 DEF Latest

\* Clauses may end at n, and none that starts before n ends after it.
Settled(toks, n) ==
  /\ n \in ClauseEnds(toks)
  /\ \A i \in ClauseEnds(toks) : i < n => \A j \in (n + 1)..Len(toks) : ~ IsClause(toks, i, j)

\* The first end after a settled one is that of a clause that starts there.
LEMMA FirstEndAfter ==
  ASSUME NEW toks, Len(toks) \in Nat, Len(toks) >= 2, NEW n, Settled(toks, n),
         NEW m \in ClauseEnds(toks), n < m
  PROVE  \E j \in ClauseEnds(toks) : n < j /\ j <= m /\ IsClause(toks, n, j)
<1>. DEFINE E == ClauseEnds(toks)
            later == {j \in E : n < j}
<1>1. E \subseteq 2..Len(toks) /\ n \in E /\ n \in Nat
  BY EndsMeans DEF Settled
<1>2. later \subseteq Nat /\ m \in later
  BY <1>1
<1>3. PICK j \in later : \A i \in later : j <= i
  <2>. HIDE DEF later
  <2>. QED
    BY <1>2, FirstPlace
<1>4. j \in 3..Len(toks)
  BY <1>1
<1>5. PICK i \in E : i < j /\ IsClause(toks, i, j)
  BY <1>4, EndsMeans
<1>6. ~ (n < i)
  BY <1>3, <1>5, <1>1
<1>7. ~ (i < n)
  <2>1. j \in (n + 1)..Len(toks)
    BY <1>1, <1>4
  <2>. QED
    BY <2>1, <1>5 DEF Settled
<1>8. i = n
  BY <1>1, <1>6, <1>7
<1>. QED
  BY <1>2, <1>3, <1>5, <1>8

\* The direction of an order, which is a clause with it and one without.
HasDirection(toks, n) ==
  n + 3 <= Len(toks) /\ toks[n + 1] = <<"order">> /\ toks[n + 3] \in {<<"asc">>, <<"desc">>}

\* The marks are other atoms than the words.
LEMMA BracesAreNoWords ==
  /\ LBrace \notin {"where", "order", "limit", "asc", "desc"}
  /\ RBrace \notin {"where", "order", "limit", "asc", "desc"}
  /\ LBrace # RBrace
BY DEF LBrace, RBrace

\* A direction is not the first token of a clause.
LEMMA DirectionsStartNothing ==
  ASSUME NEW toks, NEW i, NEW j, toks[i + 1] \in {<<"asc">>, <<"desc">>}
  PROVE  ~ IsClause(toks, i, j)
<1>1. toks[i + 1] \notin {<<LBrace>>, <<"where">>, <<"order">>, <<"limit">>}
  BY BracesAreNoWords
<1>. QED
  BY <1>1 DEF IsClause

\* m ends the only clause that starts at the settled place n, or the longer of two.
Passes(toks, n, m) ==
  /\ Settled(toks, n)
  /\ m \in (n + 1)..Len(toks) /\ IsClause(toks, n, m)
  /\ \A j \in (n + 1)..Len(toks) :
       IsClause(toks, n, j) => j = m \/ (j = n + 2 /\ m = n + 3 /\ HasDirection(toks, n))

\* Then m is the next settled place, and between the two no clause starts.
LEMMA ClauseIsPassed ==
  ASSUME NEW toks, Len(toks) \in Nat, Len(toks) >= 2, NEW n, NEW m, Passes(toks, n, m)
  PROVE  /\ Settled(toks, m)
         /\ \A i \in ClauseEnds(toks) : n < i /\ i < m => i = n + 2 /\ m = n + 3 /\ HasDirection(toks, n)
<1>. USE DEF Passes
<1>. DEFINE E == ClauseEnds(toks)
<1>1. E \subseteq 2..Len(toks) /\ n \in E /\ n \in Nat /\ m \in Nat
  BY EndsMeans DEF Settled
<1>2. m \in E
  BY <1>1, EndsMeans
<1>3. ASSUME NEW i \in E, n < i, i < m PROVE i = n + 2 /\ m = n + 3 /\ HasDirection(toks, n)
  <2>1. PICK j \in E : n < j /\ j <= i /\ IsClause(toks, n, j)
    BY <1>3, FirstEndAfter
  <2>2. j \in (n + 1)..Len(toks) /\ j # m
    BY <1>1, <1>3, <2>1
  <2>. QED
    BY <1>1, <1>3, <2>1, <2>2
<1>4. ASSUME NEW i \in E, i < m, NEW j \in (m + 1)..Len(toks), IsClause(toks, i, j) PROVE FALSE
  <2>1. j \in (n + 1)..Len(toks) /\ j # m /\ ~ (j = n + 2 /\ m = n + 3)
    BY <1>1, <1>4
  <2>2. CASE i < n
    BY <2>1, <2>2, <1>4 DEF Settled
  <2>3. CASE i = n
    BY <2>1, <2>3, <1>4, <1>1
  <2>4. CASE n < i
    <3>1. i = n + 2 /\ HasDirection(toks, n)
      BY <1>3, <1>4, <2>4
    <3>2. toks[i + 1] \in {<<"asc">>, <<"desc">>}
      BY <3>1, <1>1 DEF HasDirection
    <3>. QED
      BY <3>2, <1>4, DirectionsStartNothing
  <2>. QED
    BY <2>2, <2>3, <2>4, <1>1
<1>. QED
  BY <1>2, <1>3, <1>4 DEF Settled

\* Where no clause starts, the text goes on and is no sequence of clauses.
LEMMA DeadEnd ==
  ASSUME NEW toks, Len(toks) \in Nat, Len(toks) >= 2, NEW n, Settled(toks, n), n < Len(toks),
         \A j \in (n + 1)..Len(toks) : ~ IsClause(toks, n, j)
  PROVE  Len(toks) \notin ClauseEnds(toks)
<1>1. ClauseEnds(toks) \subseteq 2..Len(toks) /\ n \in Nat
  BY EndsMeans DEF Settled
<1>. QED
  BY <1>1, FirstEndAfter

-----------------------------------------------------------------------------
(* The clauses of each kind, and the latest.                               *)

\* The atoms that start a clause.
ClauseWords == {LBrace, "where", "order", "limit"}

\* A clause passed is added to the starts of its kind ...
LEMMA StartsGrow ==
  ASSUME NEW toks, Len(toks) \in Nat, Len(toks) >= 2, NEW n, NEW m, Passes(toks, n, m), NEW word \in ClauseWords
  PROVE  Starts(toks, m, word) = Starts(toks, n, word) \cup {i \in {n} : toks[n + 1] = <<word>>}
<1>1. n \in ClauseEnds(toks) /\ ClauseEnds(toks) \subseteq Nat /\ m \in Nat /\ n < m
  BY EndsMeans DEF Passes, Settled
<1>2. ASSUME NEW i \in ClauseEnds(toks), n < i, i < m PROVE toks[i + 1] # <<word>>
  <2>1. i = n + 2 /\ HasDirection(toks, n)
    BY <1>2, ClauseIsPassed
  <2>2. toks[i + 1] \in {<<"asc">>, <<"desc">>}
    BY <2>1, <1>1 DEF HasDirection
  <2>3. word # "asc" /\ word # "desc"
    BY BracesAreNoWords DEF ClauseWords
  <2>. QED
    BY <2>2, <2>3
<1>3. \A i \in ClauseEnds(toks) : i < m /\ toks[i + 1] = <<word>> <=> (i < n \/ i = n) /\ toks[i + 1] = <<word>>
  BY <1>1, <1>2
<1>. QED
  BY <1>1, <1>3 DEF Starts

\* The latest of some places and one after them is that one.
LEMMA LatestAdded ==
  ASSUME NEW places, places \subseteq Nat, NEW n \in Nat, \A i \in places : i < n
  PROVE  Latest(places \cup {n}) = {n}
<1>. DEFINE all == places \cup {n}
<1>1. \A i \in all : i = n \/ (i \in places /\ i < n /\ i \in Nat)
  OBVIOUS
<1>2. n \in all /\ \A k \in all : k <= n
  BY <1>1
<1>. HIDE DEF all
<1>3. \A i \in all : (\A k \in all : k <= i) <=> i = n
  BY <1>1, <1>2
<1>4. Latest(all) = {n}
  BY <1>2, <1>3 DEF Latest
<1>. QED
  BY <1>4 DEF all

\* ... becomes the latest of its kind ...
LEMMA LatestMoves ==
  ASSUME NEW toks, Len(toks) \in Nat, Len(toks) >= 2, NEW n, NEW m, Passes(toks, n, m), NEW word \in ClauseWords
  PROVE  Latest(Starts(toks, m, word)) = IF toks[n + 1] = <<word>> THEN {n} ELSE Latest(Starts(toks, n, word))
<1>1. Starts(toks, m, word) = Starts(toks, n, word) \cup {i \in {n} : toks[n + 1] = <<word>>}
  BY StartsGrow
<1>2. n \in Nat /\ Starts(toks, n, word) \subseteq Nat /\ \A i \in Starts(toks, n, word) : i < n
  BY EndsMeans DEF Passes, Settled, Starts
<1>3. CASE toks[n + 1] = <<word>>
  <2>1. Starts(toks, m, word) = Starts(toks, n, word) \cup {n}
    BY <1>1, <1>3
  <2>. QED
    BY <1>2, <1>3, <2>1, LatestAdded
<1>4. CASE toks[n + 1] # <<word>>
  <2>1. Starts(toks, m, word) = Starts(toks, n, word)
    BY <1>1, <1>4
  <2>. QED
    BY <1>4, <2>1
<1>. QED
  BY <1>3, <1>4

\* ... and, with a direction, the latest that has one.
LEMMA DirectionMoves ==
  ASSUME NEW toks, Len(toks) \in Nat, Len(toks) >= 2, NEW n, NEW m, Passes(toks, n, m),
         HasDirection(toks, n) => m = n + 3
  PROVE  Latest(Directed(toks, m)) = IF HasDirection(toks, n) THEN {n} ELSE Latest(Directed(toks, n))
<1>1. n \in ClauseEnds(toks) /\ ClauseEnds(toks) \subseteq Nat /\ n \in Nat /\ m \in (n + 1)..Len(toks)
  BY EndsMeans DEF Passes, Settled
<1>. DEFINE Word(i) == toks[i + 3] \in {<<"asc">>, <<"desc">>}
            before == Starts(toks, n, "order")
<1>2. \A i : i \in Starts(toks, m, "order") <=> i \in before \/ (i = n /\ toks[n + 1] = <<"order">>)
  <2>1. "order" \in ClauseWords
    BY DEF ClauseWords
  <2>2. Starts(toks, m, "order") = before \cup {i \in {n} : toks[n + 1] = <<"order">>}
    BY <2>1, StartsGrow
  <2>. QED
    BY <2>2
<1>3. \A i \in before : i \in Nat /\ i < n /\ i \in ClauseEnds(toks) /\ toks[i + 1] = <<"order">>
  BY <1>1 DEF Starts
<1>4. ASSUME NEW i \in before, i + 2 < m, Word(i) PROVE i + 2 < n
  <2>1. ~ IsClause(toks, i, n + 1)
    BY <1>1, <1>3 DEF Passes, Settled
  <2>2. n + 1 # i + 2 /\ n + 1 # i + 3
    BY <1>1, <1>3, <1>4, <2>1 DEF IsClause
  <2>. QED
    BY <1>1, <1>3, <2>2
<1>. HIDE DEF before
<1>5. \A i \in before : i + 2 < n => i + 2 < m
  BY <1>1, <1>3
<1>6. toks[n + 1] = <<"order">> /\ n + 2 < m /\ Word(n) <=> HasDirection(toks, n)
  BY <1>1 DEF HasDirection
<1>. HIDE DEF Word
<1>7. \A i : i \in Directed(toks, m) <=> i \in Directed(toks, n) \/ (i = n /\ HasDirection(toks, n))
  <2>1. \A i : i \in Directed(toks, m) <=> i \in Starts(toks, m, "order") /\ i + 2 < m /\ Word(i)
    BY DEF Directed, Word
  <2>2. \A i : i \in Directed(toks, n) <=> i \in before /\ i + 2 < n /\ Word(i)
    BY DEF Directed, Word, before
  <2>. QED
    BY <2>1, <2>2, <1>2, <1>4, <1>5, <1>6
<1>8. Directed(toks, n) \subseteq Nat /\ \A i \in Directed(toks, n) : i < n
  BY <1>3 DEF Directed, before
<1>9. CASE HasDirection(toks, n)
  <2>1. Directed(toks, m) = Directed(toks, n) \cup {n}
    BY <1>7, <1>9
  <2>. QED
    BY <1>1, <1>8, <1>9, <2>1, LatestAdded
<1>10. CASE ~ HasDirection(toks, n)
  <2>1. Directed(toks, m) = Directed(toks, n)
    BY <1>7, <1>10
  <2>. QED
    BY <1>10, <2>1
<1>. QED
  BY <1>9, <1>10

-----------------------------------------------------------------------------
(* The parts of a read, clause by clause.                                  *)

\* The types: a token, what is assigned or compared, a statement.
Token == Seq(AtomsUsed)
Assigned == [column : Token, rhs : Token]
Statements == [verb : Verbs \cup {"none"}, table : Token, columns : Seq(Token), bindings : Seq(Assigned),
               where : Seq(Assigned), order : Seq([column : Token, desc : BOOLEAN]), limit : Token]

\* A part whose kind is not that of the clause passed stays that of the latest.
LEMMA OtherParts ==
  ASSUME NEW toks, Len(toks) \in Nat, Len(toks) >= 2, NEW n, NEW m, Passes(toks, n, m),
         NEW word \in ClauseWords, NEW other \in ClauseWords \ {word}, toks[n + 1] = <<word>>
  PROVE  /\ Latest(Starts(toks, m, word)) = {n}
         /\ Latest(Starts(toks, m, other)) = Latest(Starts(toks, n, other))
<1>1. toks[n + 1] # <<other>>
  OBVIOUS
<1>. QED
  BY <1>1, LatestMoves

\* The kinds of clauses that are words.
LEMMA KindsDiffer ==
  /\ {"where", "order", "limit"} \subseteq ClauseWords \ {LBrace}
  /\ LBrace \in ClauseWords
BY BracesAreNoWords DEF ClauseWords

\* A clause that is passed gives the statement its part: a predicate, ...
LEMMA WherePart ==
  ASSUME NEW toks, Len(toks) \in Nat, Len(toks) >= 2, NEW n, NEW m, Passes(toks, n, m),
         NEW s \in Statements, HasParts(toks, n, s), toks[n + 1] = <<"where">>
  PROVE  HasParts(toks, m, [s EXCEPT !.where = <<Binding(toks[n + 2], toks[n + 4])>>])
<1>. DEFINE b == Binding(toks[n + 2], toks[n + 4])
            new == [s EXCEPT !.where = <<b>>]
            L(k, word) == Latest(Starts(toks, k, word))
            D(k) == Latest(Directed(toks, k))
<1>1. L(m, "where") = {n}
  BY KindsDiffer, OtherParts
<1>2. L(m, "order") = L(n, "order") /\ L(m, "limit") = L(n, "limit") /\ L(m, LBrace) = L(n, LBrace)
  BY KindsDiffer, OtherParts
<1>3. D(m) = D(n)
  <2>1. ~ HasDirection(toks, n)
    BY DEF HasDirection
  <2>. QED
    BY <2>1, DirectionMoves
<1>4. /\ new.where = <<b>> /\ new.limit = s.limit /\ new.order = s.order /\ new.columns = s.columns
  BY DEF Statements
<1>. HIDE DEF new, L, D
<1>5. ToSet(new.where) = {Binding(toks[i + 2], toks[i + 4]) : i \in L(m, "where")}
  BY <1>1, <1>4, SingletonSet
<1>6. HasParts(toks, m, new)
  BY <1>2, <1>3, <1>4, <1>5 DEF HasParts, L, D
<1>. QED
  BY <1>6 DEF new

\* ... a limit, ...
LEMMA LimitPart ==
  ASSUME NEW toks, Len(toks) \in Nat, Len(toks) >= 2, NEW n, NEW m, Passes(toks, n, m),
         NEW s \in Statements, HasParts(toks, n, s), toks[n + 1] = <<"limit">>, NEW x, toks[n + 2] = <<x>>
  PROVE  HasParts(toks, m, [s EXCEPT !.limit = toks[n + 2]])
<1>. DEFINE new == [s EXCEPT !.limit = toks[n + 2]]
            L(k, word) == Latest(Starts(toks, k, word))
            D(k) == Latest(Directed(toks, k))
<1>1. L(m, "limit") = {n}
  BY KindsDiffer, OtherParts
<1>2. L(m, "order") = L(n, "order") /\ L(m, "where") = L(n, "where") /\ L(m, LBrace) = L(n, LBrace)
  BY KindsDiffer, OtherParts
<1>3. D(m) = D(n)
  <2>1. ~ HasDirection(toks, n)
    BY DEF HasDirection
  <2>. QED
    BY <2>1, DirectionMoves
<1>4. /\ new.limit = <<x>> /\ new.where = s.where /\ new.order = s.order /\ new.columns = s.columns
  BY DEF Statements
<1>. HIDE DEF new, L, D
<1>5. ToSet(new.limit) = {toks[i + 2][1] : i \in L(m, "limit")}
  <2>1. toks[n + 2][1] = x
    OBVIOUS
  <2>. QED
    BY <1>1, <1>4, <2>1, SingletonSet
<1>6. HasParts(toks, m, new)
  BY <1>2, <1>3, <1>4, <1>5 DEF HasParts, L, D
<1>. QED
  BY <1>6 DEF new

\* ... a projection.
LEMMA ColumnsPart ==
  ASSUME NEW toks, Len(toks) \in Nat, Len(toks) >= 2, NEW n, NEW m, Passes(toks, n, m),
         NEW s \in Statements, HasParts(toks, n, s), toks[n + 1] = <<LBrace>>, toks[m] = <<RBrace>>,
         NEW columns \in Seq(Token), n + 2 + Len(columns) = m,
         \A k \in DOMAIN columns : columns[k] = NoComma(toks[n + 1 + k])
  PROVE  HasParts(toks, m, [s EXCEPT !.columns = columns])
<1>. DEFINE new == [s EXCEPT !.columns = columns]
            L(k, word) == Latest(Starts(toks, k, word))
            D(k) == Latest(Directed(toks, k))
<1>1. L(m, LBrace) = {n}
  BY KindsDiffer, OtherParts
<1>2. L(m, "order") = L(n, "order") /\ L(m, "where") = L(n, "where") /\ L(m, "limit") = L(n, "limit")
  BY KindsDiffer, OtherParts
<1>3. D(m) = D(n)
  <2>1. ~ HasDirection(toks, n)
    BY BracesAreNoWords DEF HasDirection
  <2>. QED
    BY <2>1, DirectionMoves
<1>4. /\ new.columns = columns /\ new.where = s.where /\ new.order = s.order /\ new.limit = s.limit
  BY DEF Statements
<1>. HIDE DEF new, L, D
<1>5. HasParts(toks, m, new)
  <2>1. L(m, LBrace) # {}
    BY <1>1
  <2>2. \A i \in L(m, LBrace) : i = n
    BY <1>1
  <2>3. \A i \in L(m, LBrace) : /\ toks[i + 2 + Len(new.columns)] = <<RBrace>>
                               /\ \A k \in DOMAIN new.columns : new.columns[k] = NoComma(toks[i + 1 + k])
    BY <1>4, <2>2
  <2>. QED
    BY <1>2, <1>3, <1>4, <2>1, <2>3 DEF HasParts, L, D
<1>. QED
  BY <1>5 DEF new

\* The direction of an order is its own, or else that of the latest order that has one.
LEMMA OrderPart ==
  ASSUME NEW toks, Len(toks) \in Nat, Len(toks) >= 2, NEW n, NEW m, Passes(toks, n, m),
         NEW s \in Statements, HasParts(toks, n, s), toks[n + 1] = <<"order">>,
         HasDirection(toks, n) => m = n + 3,
         NEW desc, HasDirection(toks, n) => desc = (toks[n + 3] = <<"desc">>),
         ~ HasDirection(toks, n) => desc = (s.order # << >> /\ s.order[1].desc)
  PROVE  HasParts(toks, m, [s EXCEPT !.order = <<[column |-> toks[n + 2], desc |-> desc]>>])
<1>. DEFINE x == [column |-> toks[n + 2], desc |-> desc]
            new == [s EXCEPT !.order = <<x>>]
            L(k, word) == Latest(Starts(toks, k, word))
            D(k) == Latest(Directed(toks, k))
            Descends(k) == \E i \in D(k) : toks[i + 3] = <<"desc">>
<1>1. L(m, "order") = {n}
  BY KindsDiffer, OtherParts
<1>2. L(m, "where") = L(n, "where") /\ L(m, "limit") = L(n, "limit") /\ L(m, LBrace) = L(n, LBrace)
  BY KindsDiffer, OtherParts
<1>3. desc = Descends(m)
  <2>1. CASE HasDirection(toks, n)
    <3>1. D(m) = {n}
      BY <2>1, DirectionMoves
    <3>. HIDE DEF D
    <3>. QED
      BY <2>1, <3>1
  <2>2. CASE ~ HasDirection(toks, n)
    <3>1. D(m) = D(n)
      BY <2>2, DirectionMoves
    <3>2. ToSet(s.order) = {[column |-> toks[i + 2], desc |-> Descends(n)] : i \in L(n, "order")}
      BY DEF HasParts
    <3>. HIDE DEF L
    <3>3. CASE s.order = << >>
      <4>1. L(n, "order") = {}
        <5>1. ToSet(s.order) = {}
          BY <3>3 DEF ToSet
        <5>. QED
          BY <3>2, <5>1
      <4>2. Starts(toks, n, "order") = {}
        <5>1. Starts(toks, n, "order") \subseteq 0..Len(toks)
          BY EndsMeans DEF Starts
        <5>. QED
          BY <4>1, <5>1, LatestExists DEF L
      <4>3. D(n) = {}
        BY <4>2 DEF Directed, Latest
      <4>. HIDE DEF D
      <4>. QED
        BY <2>2, <3>1, <3>3, <4>3
    <3>4. CASE s.order # << >>
      <4>1. s.order[1] \in ToSet(s.order)
        BY <3>4 DEF Statements, ToSet
      <4>. HIDE DEF Descends
      <4>2. s.order[1].desc = Descends(n)
        BY <3>2, <4>1
      <4>3. Descends(m) = Descends(n)
        BY <3>1 DEF Descends
      <4>4. desc = (s.order # << >> /\ s.order[1].desc)
        BY <2>2
      <4>5. (s.order # << >> /\ Descends(n)) = Descends(n)
        BY <3>4 DEF Descends
      <4>. QED
        BY <4>2, <4>3, <4>4, <4>5
    <3>. QED
      BY <3>3, <3>4
  <2>. QED
    BY <2>1, <2>2
<1>4. /\ new.order = <<x>> /\ new.where = s.where /\ new.columns = s.columns /\ new.limit = s.limit
  <2>. HIDE DEF x
  <2>. QED
    BY DEF Statements
<1>5. ToSet(new.order) = {[column |-> toks[i + 2], desc |-> Descends(m)] : i \in L(m, "order")}
  <2>1. x = [column |-> toks[n + 2], desc |-> Descends(m)]
    BY <1>3
  <2>. HIDE DEF x, Descends, L, new
  <2>2. ToSet(new.order) = {x}
    BY <1>4, SingletonSet
  <2>. QED
    BY <1>1, <2>1, <2>2
<1>. HIDE DEF new, L, D
<1>6. HasParts(toks, m, new)
  BY <1>2, <1>4, <1>5 DEF HasParts, L, D
<1>. QED
  BY <1>6 DEF new

-----------------------------------------------------------------------------
(* The clauses by their first word.                                        *)

\* What a clause is, by the word it starts with; with another word it is none.
LEMMA ClauseByWord ==
  ASSUME NEW toks, NEW i, NEW j
  PROVE  /\ toks[i + 1] = <<"where">> =>
              (IsClause(toks, i, j) <=> j = i + 4 /\ toks[i + 3] = <<Equals>> /\ IsRhs(toks[j]))
         /\ toks[i + 1] = <<"order">> =>
              (IsClause(toks, i, j) <=> j = i + 2 \/ (j = i + 3 /\ toks[j] \in {<<"asc">>, <<"desc">>}))
         /\ toks[i + 1] = <<"limit">> =>
              (IsClause(toks, i, j) <=> j = i + 2 /\ \E x \in Numbers : toks[j] = <<x>>)
         /\ toks[i + 1] = <<LBrace>> =>
              (IsClause(toks, i, j) <=> /\ i + 1 < j /\ toks[j] = <<RBrace>>
                                        /\ \A k \in (i + 2)..(j - 1) : toks[k] # <<RBrace>>)
         /\ (\A word \in ClauseWords : toks[i + 1] # <<word>>) => ~ IsClause(toks, i, j)
<1>1. <<LBrace>> \notin {<<"where">>, <<"order">>, <<"limit">>}
  BY BracesAreNoWords
<1>. QED
  BY <1>1 DEF IsClause, ClauseWords

\* PlaceOf is the first place of an element, or 0 if there is none.
LEMMA PlaceOfIsFirst ==
  ASSUME NEW seq, Len(seq) \in Nat, NEW x
  PROVE  /\ PlaceOf(seq, x) \in 0..Len(seq)
         /\ PlaceOf(seq, x) = 0 => \A k \in 1..Len(seq) : seq[k] # x
         /\ PlaceOf(seq, x) # 0 => /\ seq[PlaceOf(seq, x)] = x
                                   /\ \A k \in 1..(PlaceOf(seq, x) - 1) : seq[k] # x
BY FirstIsFirst DEF PlaceOf, FirstOf

\* NoComma keeps the atoms up to the last that is no comma.
LEMMA NoCommaMeans ==
  ASSUME NEW S, NEW tok \in Seq(S)
  PROVE  \E n \in 0..Len(tok) :
           /\ NoComma(tok) = SubSeq(tok, 1, n)
           /\ \A k \in (n + 1)..Len(tok) : tok[k] = Comma
           /\ n > 0 => tok[n] # Comma
<1>. DEFINE places == {i \in 1..Len(tok) : tok[i] # Comma}
            n == SelectLastInSeq(tok, LAMBDA x : x # Comma)
<1>1. n = IF places # {} THEN Max(places) ELSE 0
  BY DEF SelectLastInSeq
<1>2. \A i \in 1..Len(tok) : i \in places <=> tok[i] # Comma
  OBVIOUS
<1>3. places \subseteq 1..Len(tok)
  OBVIOUS
<1>4. Len(tok) \in Nat
  OBVIOUS
<1>5. NoComma(tok) = SubSeq(tok, 1, n)
  BY DEF NoComma
<1>. HIDE DEF places, n
<1>6. CASE places = {}
  BY <1>1, <1>2, <1>4, <1>5, <1>6
<1>7. CASE places # {}
  <2>1. \E i \in places : Latest(places) = {i}
    <3>1. places \subseteq 0..Len(tok)
      BY <1>3
    <3>. QED
      BY <3>1, <1>4, <1>7, LatestExists
  <2>2. \E i \in places : \A j \in places : j <= i
    BY <2>1 DEF Latest
  <2>3. Max(places) \in places /\ \A j \in places : j <= Max(places)
    BY <2>2 DEF Max
  <2>4. n = Max(places)
    BY <1>1, <1>7
  <2>. HIDE DEF Max
  <2>5. n \in places /\ \A j \in places : j <= n
    BY <2>3, <2>4
  <2>6. n \in 1..Len(tok) /\ tok[n] # Comma
    BY <1>2, <1>3, <2>5
  <2>7. \A k \in (n + 1)..Len(tok) : k \notin places /\ k \in 1..Len(tok)
    BY <1>3, <1>4, <2>5, <2>6
  <2>8. \A k \in (n + 1)..Len(tok) : tok[k] = Comma
    BY <1>2, <2>7
  <2>9. n \in 0..Len(tok)
    BY <2>6
  <2>. QED
    BY <1>5, <2>6, <2>8, <2>9
<1>. QED
  BY <1>6, <1>7

\* What is left of a token is over the same atoms.
LEMMA NoCommaTyped ==
  ASSUME NEW S, NEW tok \in Seq(S)
  PROVE  NoComma(tok) \in Seq(S)
<1>1. PICK n \in 0..Len(tok) : NoComma(tok) = SubSeq(tok, 1, n)
  BY NoCommaMeans
<1>. QED
  BY <1>1

-----------------------------------------------------------------------------
(* The invariants.                                                         *)

\* Where the parser may be.
Places == {"parse", "read", "bindings", "set", "tail", "parsed", "error", "compiled", "refused"}

\* The types of the variables.
Typed ==
  /\ source \in Sources /\ pc \in Places
  /\ next \in 0..Tokens /\ parts \in Seq(Token \ {<< >>}) /\ stmt \in Statements

\* What is known of a text before its clauses are read.
ReadHead == Legal /\ Tokens >= 2 /\ Lower(At(0)) = <<"read">> /\ IsIdent(At(1))

\* Before the end of a read, clauses end at `next`, no other sequence of clauses passes
\* it by, and the statement has the parts of those passed; at the end, all are passed,
\* or none can be.
ReadInv ==
  /\ pc = "read" => ReadHead /\ Settled(text, next) /\ HasParts(text, next, stmt)
  /\ pc \in {"set", "tail", "bindings"} => Lower(At(0)) # <<"read">>
  /\ pc = "parsed" /\ ReadHead => Tokens \in ClauseEnds(text) /\ HasParts(text, Tokens, stmt)
  /\ pc = "error" /\ ReadHead => Tokens \notin ClauseEnds(text)

\* What the types say of a text.
LEMMA TextTyped ==
  ASSUME Typed
  PROVE  /\ text \in Seq(Token \ {<< >>}) /\ text \in Seq(Token) /\ Tokens = Len(text) /\ Tokens \in Nat
         /\ \A i \in 1..Tokens : text[i] \in Token /\ text[i] # << >> /\ text[i] \in Seq(AtomsUsed)
<1>1. text \in Seq(Token \ {<< >>})
  BY SourcesAreTexts DEF Typed, text, Token
<1>2. text \in Seq(Token)
  BY <1>1
<1>. QED
  BY <1>1, <1>2 DEF Tokens, Token

\* The source never changes, nor does what is said of it.
LEMMA TextStays ==
  ASSUME source' = source
  PROVE  /\ text' = text /\ Tokens' = Tokens /\ ReadHead' = ReadHead
         /\ At(0)' = At(0) /\ Lower(At(0))' = Lower(At(0))
<1>1. text' = text
  BY DEF text
<1>2. Tokens' = Tokens
  BY <1>1 DEF Tokens
<1>3. At(0)' = At(0) /\ At(1)' = At(1)
  BY <1>1 DEF At
<1>4. Legal' = Legal
  BY <1>1, <1>2 DEF Legal
<1>5. Lower(At(0))' = Lower(At(0))
  BY <1>3 DEF Lower
<1>6. IsIdent(At(1))' = IsIdent(At(1))
  BY <1>3 DEF IsIdent
<1>. QED
  BY <1>1, <1>2, <1>3, <1>4, <1>5, <1>6 DEF ReadHead

\* A clause is passed ...
LEMMA ReadOn ==
  ASSUME Typed, ReadInv, pc = "read", source' = source, pc' = "read",
         Passes(text, next, next'), HasParts(text, next', stmt')
  PROVE  ReadInv'
<1>1. text' = text /\ Tokens' = Tokens /\ ReadHead' = ReadHead
  BY TextStays
<1>2. ReadHead
  BY DEF ReadInv
<1>3. Len(text) \in Nat /\ Len(text) >= 2
  BY <1>2, TextTyped DEF ReadHead
<1>4. Settled(text, next')
  BY <1>3, ClauseIsPassed
<1>. QED
  BY <1>1, <1>2, <1>4 DEF ReadInv

\* ... or none starts here.
LEMMA ReadFails ==
  ASSUME Typed, ReadInv, pc = "read", Fail, next < Tokens,
         \A j \in (next + 1)..Len(text) : ~ IsClause(text, next, j)
  PROVE  ReadInv'
<1>1. source' = source /\ pc' = "error"
  BY DEF Fail
<1>2. text' = text /\ Tokens' = Tokens /\ ReadHead' = ReadHead
  BY <1>1, TextStays
<1>3. ReadHead /\ Settled(text, next)
  BY DEF ReadInv
<1>4. Len(text) \in Nat /\ Len(text) >= 2 /\ next < Len(text) /\ Tokens = Len(text)
  BY <1>3, TextTyped DEF ReadHead
<1>5. Len(text) \notin ClauseEnds(text)
  BY <1>3, <1>4, DeadEnd
<1>. QED
  BY <1>1, <1>2, <1>4, <1>5 DEF ReadInv

\* The other statements.
LEMMA NoRead ==
  ASSUME source' = source, Lower(At(0)) # <<"read">>, pc' # "read"
  PROVE  ReadInv'
<1>1. Lower(At(0))' # <<"read">> /\ ReadHead' = ReadHead
  BY TextStays
<1>2. ~ ReadHead
  BY DEF ReadHead
<1>. QED
  BY <1>1, <1>2 DEF ReadInv

\* A predicate of a read, ...
LEMMA WhereOfRead ==
  ASSUME Typed, ReadInv, Where, pc = "read"
  PROVE  ReadInv'
<1>. DEFINE s == [stmt EXCEPT !.where = <<Binding(text[next + 2], text[next + 4])>>]
<1>1. /\ next \in Nat /\ Tokens = Len(text) /\ Len(text) \in Nat /\ Len(text) >= 2 /\ next < Len(text)
      /\ Settled(text, next) /\ HasParts(text, next, stmt)
  BY TextTyped DEF Typed, ReadInv, ReadHead, Where, InClauses
<1>2. text[next + 1] = <<"where">>
  BY DEF Where, Is, At
<1>3. At(next + 1) = text[next + 2] /\ At(next + 3) = text[next + 4] /\ IsRhs(At(next + 1 + 2)) = IsRhs(text[next + 4])
  BY <1>1 DEF At
<1>4. PredicateAt(next + 1) <=> next + 4 <= Len(text) /\ text[next + 3] = <<Equals>> /\ IsRhs(text[next + 4])
  BY <1>1, <1>3 DEF PredicateAt, Is, At
<1>5. \A j : IsClause(text, next, j) <=> j = next + 4 /\ text[next + 3] = <<Equals>> /\ IsRhs(text[j])
  BY <1>2, ClauseByWord
<1>6. CASE PredicateAt(next + 1)
  <2>1. source' = source /\ pc' = "read" /\ next' = next + 4 /\ stmt' = s
    BY <1>3, <1>6 DEF Where, Check, Goto
  <2>2. Passes(text, next, next + 4)
    BY <1>1, <1>4, <1>5, <1>6 DEF Passes
  <2>. HIDE DEF s
  <2>3. HasParts(text, next + 4, s)
    BY <1>1, <1>2, <2>2, WherePart DEF Typed, s
  <2>. QED
    BY <2>1, <2>2, <2>3, ReadOn
<1>7. CASE ~ PredicateAt(next + 1)
  <2>1. Fail
    BY <1>7 DEF Where, Check
  <2>2. \A j \in (next + 1)..Len(text) : ~ IsClause(text, next, j)
    BY <1>1, <1>4, <1>5, <1>7
  <2>. QED
    BY <1>1, <2>1, <2>2, ReadFails
<1>. QED
  BY <1>6, <1>7

\* ... a limit, ...
LEMMA LimitOfRead ==
  ASSUME Typed, ReadInv, ReadLimit
  PROVE  ReadInv'
<1>. DEFINE s == [stmt EXCEPT !.limit = text[next + 2]]
            test == \E x \in Numbers : Is(next + 1, x)
<1>1. /\ next \in Nat /\ Tokens = Len(text) /\ Len(text) \in Nat /\ Len(text) >= 2 /\ next < Len(text)
      /\ Settled(text, next) /\ HasParts(text, next, stmt) /\ pc = "read"
  BY TextTyped DEF Typed, ReadInv, ReadHead, ReadLimit, InClauses
<1>2. text[next + 1] = <<"limit">>
  BY DEF ReadLimit, Is, At
<1>3. At(next + 1) = text[next + 2]
  BY <1>1 DEF At
<1>4. test <=> next + 2 <= Len(text) /\ \E x \in Numbers : text[next + 2] = <<x>>
  BY <1>1, <1>3 DEF Is
<1>5. \A j : IsClause(text, next, j) <=> j = next + 2 /\ \E x \in Numbers : text[j] = <<x>>
  BY <1>2, ClauseByWord
<1>6. CASE test
  <2>1. source' = source /\ pc' = "read" /\ next' = next + 2 /\ stmt' = s
    BY <1>3, <1>6 DEF ReadLimit, Check, Goto
  <2>2. Passes(text, next, next + 2)
    BY <1>1, <1>4, <1>5, <1>6 DEF Passes
  <2>3. PICK x \in Numbers : text[next + 2] = <<x>>
    BY <1>4, <1>6
  <2>. HIDE DEF s
  <2>4. HasParts(text, next + 2, s)
    BY <1>1, <1>2, <2>2, <2>3, LimitPart DEF Typed, s
  <2>. QED
    BY <1>1, <2>1, <2>2, <2>4, ReadOn
<1>7. CASE ~ test
  <2>1. Fail
    BY <1>7 DEF ReadLimit, Check
  <2>2. \A j \in (next + 1)..Len(text) : ~ IsClause(text, next, j)
    BY <1>1, <1>4, <1>5, <1>7
  <2>. QED
    BY <1>1, <2>1, <2>2, ReadFails
<1>. QED
  BY <1>6, <1>7

\* ... an order, with a direction or without, ...
LEMMA OrderOfRead ==
  ASSUME Typed, ReadInv, ReadOrder
  PROVE  ReadInv'
<1>. DEFINE directed == Is(next + 2, "asc") \/ Is(next + 2, "desc")
            desc == IF directed THEN Is(next + 2, "desc") ELSE stmt.order # << >> /\ stmt.order[1].desc
            m == next + (IF directed THEN 3 ELSE 2)
            s == [stmt EXCEPT !.order = <<[column |-> text[next + 2], desc |-> desc]>>]
<1>1. /\ next \in Nat /\ Tokens = Len(text) /\ Len(text) \in Nat /\ Len(text) >= 2 /\ next < Len(text)
      /\ Settled(text, next) /\ HasParts(text, next, stmt) /\ pc = "read"
  BY TextTyped DEF Typed, ReadInv, ReadHead, ReadOrder, InClauses
<1>2. text[next + 1] = <<"order">>
  BY DEF ReadOrder, Is, At
<1>3. At(next + 1) = text[next + 2] /\ At(next + 2) = text[next + 3]
  BY <1>1 DEF At
<1>4. directed <=> HasDirection(text, next)
  BY <1>1, <1>2, <1>3 DEF Is, HasDirection
<1>5. Is(next + 2, "desc") <=> next + 3 <= Len(text) /\ text[next + 3] = <<"desc">>
  <2>1. next + 2 < Tokens <=> next + 3 <= Len(text)
    BY <1>1
  <2>2. Is(next + 2, "desc") <=> next + 2 < Tokens /\ At(next + 2) = <<"desc">>
    BY DEF Is
  <2>. QED
    BY <1>3, <2>1, <2>2
<1>6. \A j : IsClause(text, next, j) <=> j = next + 2 \/ (j = next + 3 /\ text[j] \in {<<"asc">>, <<"desc">>})
  BY <1>2, ClauseByWord
<1>7. CASE next + 1 < Tokens
  <2>1. source' = source /\ pc' = "read" /\ next' = m /\ stmt' = s
    BY <1>3, <1>7 DEF ReadOrder, Check, Goto
  <2>2. HasDirection(text, next) => m = next + 3
    BY <1>1, <1>4
  <2>3. ~ HasDirection(text, next) => m = next + 2
    BY <1>1, <1>4
  <2>4. HasDirection(text, next) => desc = (text[next + 3] = <<"desc">>)
    <3>1. HasDirection(text, next) => next + 3 <= Len(text)
      BY DEF HasDirection
    <3>2. HasDirection(text, next) => desc = Is(next + 2, "desc")
      BY <1>4
    <3>. QED
      BY <1>5, <3>1, <3>2 DEF Is
  <2>5. ~ HasDirection(text, next) => desc = (stmt.order # << >> /\ stmt.order[1].desc)
    BY <1>4
  <2>. HIDE DEF m, desc
  <2>6. Passes(text, next, m)
    <3>1. CASE HasDirection(text, next)
      <4>1. next + 3 <= Len(text) /\ text[next + 3] \in {<<"asc">>, <<"desc">>}
        BY <3>1 DEF HasDirection
      <4>. QED
        BY <1>1, <1>6, <2>2, <3>1, <4>1 DEF Passes
    <3>2. CASE ~ HasDirection(text, next)
      <4>1. \A j \in (next + 1)..Len(text) : IsClause(text, next, j) => j = next + 2
        BY <1>1, <1>2, <1>6, <3>2 DEF HasDirection
      <4>. QED
        BY <1>1, <1>6, <1>7, <2>3, <3>2, <4>1 DEF Passes
    <3>. QED
      BY <3>1, <3>2
  <2>7. stmt \in Statements
    BY DEF Typed
  <2>8. HasParts(text, m, s)
    BY <1>1, <1>2, <2>2, <2>4, <2>5, <2>6, <2>7, OrderPart
  <2>. HIDE DEF s
  <2>. QED
    BY <1>1, <2>1, <2>6, <2>8, ReadOn
<1>8. CASE ~ (next + 1 < Tokens)
  <2>1. Fail
    BY <1>8 DEF ReadOrder, Check
  <2>2. \A j \in (next + 1)..Len(text) : ~ IsClause(text, next, j)
    BY <1>1, <1>6, <1>8
  <2>. QED
    BY <1>1, <2>1, <2>2, ReadFails
<1>. QED
  BY <1>7, <1>8

\* ... a projection: each is the only clause that starts here, or there is none.
LEMMA ProjectionOfRead ==
  ASSUME Typed, ReadInv, ReadProjection
  PROVE  ReadInv'
<1>. DEFINE rest == SubSeq(text, next + 1, Tokens)
            place == PlaceOf(rest, <<RBrace>>)
            close == next + place - 1
            columns == [k \in 1..(close - next - 1) |-> NoComma(At(next + k))]
            s == [stmt EXCEPT !.columns = columns]
<1>1. /\ next \in Nat /\ Tokens = Len(text) /\ Len(text) \in Nat /\ Len(text) >= 2 /\ next < Len(text)
      /\ Settled(text, next) /\ HasParts(text, next, stmt) /\ pc = "read"
  BY TextTyped DEF Typed, ReadInv, ReadHead, ReadProjection, InClauses
<1>2. text[next + 1] = <<LBrace>>
  BY DEF ReadProjection, Is, At
<1>3. text \in Seq(Token)
  BY TextTyped
<1>4. rest \in Seq(Token) /\ Len(rest) = Len(text) - next /\ \A k \in 1..(Len(text) - next) : rest[k] = text[next + k]
  BY <1>1, <1>3
<1>. HIDE DEF rest
<1>5. /\ place \in 0..(Len(text) - next)
      /\ place = 0 => \A k \in 1..(Len(text) - next) : rest[k] # <<RBrace>>
      /\ place # 0 => rest[place] = <<RBrace>> /\ \A k \in 1..(place - 1) : rest[k] # <<RBrace>>
  <2>1. Len(rest) \in Nat
    BY <1>4
  <2>. QED
    BY <1>4, <2>1, PlaceOfIsFirst
<1>. HIDE DEF place
<1>6. \A j : IsClause(text, next, j) <=> /\ next + 1 < j /\ text[j] = <<RBrace>>
                                         /\ \A k \in (next + 2)..(j - 1) : text[k] # <<RBrace>>
  BY <1>2, ClauseByWord
<1>7. CASE place # 0
  <2>1. close >= next
    BY <1>1, <1>5, <1>7
  <2>2. source' = source /\ pc' = "read" /\ next' = close + 1 /\ stmt' = s
    BY <2>1 DEF ReadProjection, Check, Goto, rest, place
  <2>3. text[next + place] = <<RBrace>> /\ \A k \in (next + 1)..(next + place - 1) : text[k] # <<RBrace>>
    <3>1. \A k \in (next + 1)..(next + place - 1) : k - next \in 1..(place - 1) /\ next + (k - next) = k
      BY <1>1, <1>5
    <3>2. \A k \in 1..(place - 1) : k \in 1..(Len(text) - next)
      BY <1>1, <1>5
    <3>3. \A k \in 1..(place - 1) : text[next + k] # <<RBrace>>
      BY <1>4, <1>5, <1>7, <3>2
    <3>4. text[next + place] = <<RBrace>>
      BY <1>1, <1>4, <1>5, <1>7
    <3>. QED
      BY <3>1, <3>3, <3>4
  <2>4. next + place # next + 1
    BY <1>2, <2>3, BracesAreNoWords
  <2>5. Passes(text, next, next + place)
    <3>1. next + place \in (next + 1)..Len(text) /\ next + 1 < next + place
      BY <1>1, <1>5, <1>7, <2>4
    <3>2. IsClause(text, next, next + place)
      <4>1. \A k \in (next + 2)..(next + place - 1) : k \in (next + 1)..(next + place - 1)
        BY <1>1
      <4>2. \A k \in (next + 2)..(next + place - 1) : text[k] # <<RBrace>>
        BY <2>3, <4>1
      <4>3. next + 1 < next + place /\ text[next + place] = <<RBrace>>
        BY <2>3, <3>1
      <4>4. next \in Nat /\ place \in Nat
        BY <1>1, <1>5
      <4>. QED
        BY <1>6, <4>2, <4>3, <4>4
    <3>3. ASSUME NEW j \in (next + 1)..Len(text), IsClause(text, next, j) PROVE j = next + place
      <4>1. next + 1 < j /\ text[j] = <<RBrace>> /\ \A k \in (next + 2)..(j - 1) : text[k] # <<RBrace>>
        BY <1>6, <3>3
      <4>2. ~ (j < next + place)
        BY <1>1, <1>5, <2>3, <3>3, <4>1
      <4>3. ~ (j > next + place)
        BY <1>1, <1>5, <2>3, <3>1, <3>3, <4>1
      <4>. QED
        BY <1>1, <1>5, <3>3, <4>2, <4>3
    <3>. QED
      BY <1>1, <3>1, <3>2, <3>3 DEF Passes
  <2>6. columns \in Seq(Token) /\ Len(columns) = place - 2
    <3>1. close - next - 1 = place - 2 /\ place - 2 \in Nat
      BY <1>1, <1>5, <1>7, <2>4
    <3>2. ASSUME NEW k \in 1..(place - 2) PROVE NoComma(At(next + k)) \in Token
      <4>1. next + k + 1 \in 1..Len(text)
        BY <1>1, <1>5, <3>1
      <4>2. At(next + k) \in Token
        BY <1>3, <4>1 DEF At
      <4>. QED
        BY <4>2, NoCommaTyped DEF Token
    <3>. DEFINE c == [k \in 1..(place - 2) |-> NoComma(At(next + k))]
    <3>3. columns = c
      BY <3>1
    <3>4. c \in [1..(place - 2) -> Token]
      BY <3>2
    <3>. HIDE DEF c
    <3>5. c \in Seq(Token) /\ Len(c) = place - 2
      BY <3>1, <3>4
    <3>. QED
      BY <3>3, <3>5
  <2>7. ASSUME NEW k \in DOMAIN columns PROVE columns[k] = NoComma(text[next + 1 + k])
    <3>1. next \in Nat /\ k \in Int
      BY <1>1, <2>6, <2>7
    <3>2. next + k + 1 = next + 1 + k
      BY <3>1
    <3>. QED
      BY <2>7, <3>2 DEF At
  <2>. HIDE DEF columns
  <2>8. next + 2 + Len(columns) = next + place /\ close + 1 = next + place
    BY <1>1, <1>5, <2>6
  <2>9. HasParts(text, next + place, s)
    <3>1. stmt \in Statements
      BY DEF Typed
    <3>. QED
      BY <1>1, <1>2, <2>3, <2>5, <2>6, <2>7, <2>8, <3>1, ColumnsPart
  <2>. HIDE DEF s, close
  <2>. QED
    BY <1>1, <2>2, <2>5, <2>8, <2>9, ReadOn
<1>8. CASE place = 0
  <2>1. ~ (close >= next)
    BY <1>1, <1>8
  <2>2. Fail
    BY <2>1 DEF ReadProjection, Check, rest, place
  <2>3. ASSUME NEW j \in (next + 1)..Len(text) PROVE text[j] # <<RBrace>>
    <3>1. j - next \in 1..(Len(text) - next) /\ next + (j - next) = j
      BY <1>1
    <3>. QED
      BY <1>4, <1>5, <1>8, <3>1
  <2>4. \A j \in (next + 1)..Len(text) : ~ IsClause(text, next, j)
    BY <1>6, <2>3
  <2>. QED
    BY <1>1, <2>2, <2>4, ReadFails
<1>. QED
  BY <1>5, <1>7, <1>8

\* A token that starts no clause ends no sequence of clauses.
LEMMA UnexpectedInRead ==
  ASSUME Typed, ReadInv, Unexpected, pc = "read"
  PROVE  ReadInv'
<1>1. next \in Nat /\ next < Tokens
  BY TextTyped DEF Typed, Unexpected, InClauses
<1>2. \A word \in ClauseWords : text[next + 1] # <<word>>
  BY <1>1 DEF Unexpected, Starters, ClauseWords, Is, At
<1>3. \A j : ~ IsClause(text, next, j)
  BY <1>2, ClauseByWord
<1>4. Fail
  BY DEF Unexpected
<1>. QED
  BY <1>1, <1>3, <1>4, ReadFails

\* The end of the text is the end of its clauses.
LEMMA EndOfRead ==
  ASSUME Typed, ReadInv, EndOfText, pc = "read"
  PROVE  ReadInv'
<1>1. source' = source /\ pc' = "parsed" /\ stmt' = stmt
  BY DEF EndOfText, Check, Goto
<1>2. text' = text /\ Tokens' = Tokens
  BY <1>1, TextStays
<1>3. next = Tokens
  BY TextTyped DEF EndOfText, Typed
<1>4. next \in ClauseEnds(text) /\ HasParts(text, next, stmt)
  BY DEF ReadInv, Settled
<1>. QED
  BY <1>1, <1>2, <1>3, <1>4 DEF ReadInv

\* A read starts with no clause.
LEMMA NothingPassed ==
  ASSUME NEW toks, Len(toks) \in Nat, Len(toks) >= 2, NEW table
  PROVE  Settled(toks, 2) /\ HasParts(toks, 2, NewStmt("read", table))
<1>1. 2 \in ClauseEnds(toks) /\ ClauseEnds(toks) \subseteq 2..Len(toks)
  BY EndsMeans
<1>2. \A word : Starts(toks, 2, word) = {}
  BY <1>1 DEF Starts
<1>3. Directed(toks, 2) = {}
  BY <1>2 DEF Directed
<1>4. Latest({}) = {}
  BY DEF Latest
<1>5. ToSet(<< >>) = {}
  BY DEF ToSet
<1>. DEFINE s == NewStmt("read", table)
<1>6. s.where = << >> /\ s.limit = << >> /\ s.order = << >> /\ s.columns = << >>
  BY DEF NewStmt
<1>. HIDE DEF s
<1>7. HasParts(toks, 2, s)
  BY <1>2, <1>3, <1>4, <1>5, <1>6 DEF HasParts
<1>8. Settled(toks, 2)
  BY <1>1 DEF Settled
<1>. QED
  BY <1>7, <1>8 DEF s

\* The first step of a read.
LEMMA ReadStarts ==
  ASSUME Typed, StartRead
  PROVE  ReadInv'
<1>. DEFINE test == Tokens >= 2 /\ IsIdent(At(1))
            s == NewStmt("read", At(1))
<1>1. source' = source
  BY DEF StartRead, Check, Goto, Fail
<1>2. text' = text /\ Tokens' = Tokens /\ ReadHead' = ReadHead
  BY <1>1, TextStays
<1>3. Legal /\ Lower(At(0)) = <<"read">>
  BY DEF StartRead, Dispatch
<1>4. ReadHead <=> test
  BY <1>3 DEF ReadHead
<1>5. CASE test
  <2>1. pc' = "read" /\ next' = 2 /\ stmt' = s
    BY <1>5 DEF StartRead, Check, Goto
  <2>2. Len(text) \in Nat /\ Len(text) >= 2
    BY <1>5, TextTyped
  <2>. HIDE DEF test, s
  <2>3. Settled(text, 2) /\ HasParts(text, 2, s)
    BY <2>2, NothingPassed DEF s
  <2>. QED
    BY <1>2, <1>4, <1>5, <2>1, <2>3 DEF ReadInv
<1>6. CASE ~ test
  <2>1. pc' = "error"
    BY <1>6 DEF StartRead, Check, Fail
  <2>. HIDE DEF test
  <2>. QED
    BY <1>2, <1>4, <1>6, <2>1 DEF ReadInv
<1>. QED
  BY <1>5, <1>6

\* Every step keeps the invariant.
LEMMA ReadStep ==
  ASSUME Typed, ReadInv, [Next]_vars
  PROVE  ReadInv'
<1>1. CASE Unsupported
  <2>1. source' = source /\ pc' = "error"
    BY <1>1 DEF Unsupported, Fail
  <2>2. ~ ReadHead
    BY <1>1 DEF Unsupported, ReadHead, Verbs
  <2>3. ReadHead' = ReadHead
    BY <2>1, TextStays
  <2>. QED
    BY <2>1, <2>2, <2>3 DEF ReadInv
<1>2. CASE StartRead
  BY <1>2, ReadStarts
<1>3. CASE StartInsert
  <2>1. source' = source /\ pc' # "read"
    BY <1>3 DEF StartInsert, Goto, Fail
  <2>2. Lower(At(0)) # <<"read">>
    BY <1>3 DEF StartInsert, Dispatch
  <2>. QED
    BY <2>1, <2>2, NoRead
<1>4. CASE StartUpdate
  <2>1. source' = source /\ pc' # "read"
    BY <1>4 DEF StartUpdate, Check, Goto, Fail
  <2>2. Lower(At(0)) # <<"read">>
    BY <1>4 DEF StartUpdate, Dispatch
  <2>. QED
    BY <2>1, <2>2, NoRead
<1>5. CASE ParseDelete
  <2>1. source' = source /\ pc' # "read"
    BY <1>5 DEF ParseDelete, Check, Goto, Fail
  <2>2. Lower(At(0)) # <<"read">>
    BY <1>5 DEF ParseDelete, Dispatch
  <2>. QED
    BY <2>1, <2>2, NoRead
<1>6. ASSUME pc \in {"set", "tail", "bindings"}, source' = source, pc' # "read" PROVE ReadInv'
  <2>1. Lower(At(0)) # <<"read">>
    BY <1>6 DEF ReadInv
  <2>. QED
    BY <1>6, <2>1, NoRead
<1>7. CASE ReadProjection
  BY <1>7, ProjectionOfRead
<1>8. CASE Where
  <2>1. CASE pc = "read"
    BY <1>8, <2>1, WhereOfRead
  <2>2. CASE pc = "tail"
    <3>1. source' = source /\ pc' # "read"
      BY <1>8, <2>2 DEF Where, Check, Goto, Fail
    <3>. QED
      BY <1>6, <2>2, <3>1
  <2>. QED
    BY <1>8, <2>1, <2>2 DEF Where, InClauses
<1>9. CASE ReadOrder
  BY <1>9, OrderOfRead
<1>10. CASE ReadLimit
  BY <1>10, LimitOfRead
<1>11. CASE Returning
  <2>1. pc = "tail" /\ source' = source /\ pc' # "read"
    BY <1>11 DEF Returning, Goto
  <2>. QED
    BY <1>6, <2>1
<1>12. CASE Unexpected
  <2>1. CASE pc = "read"
    BY <1>12, <2>1, UnexpectedInRead
  <2>2. CASE pc = "tail"
    <3>1. source' = source /\ pc' # "read"
      BY <1>12 DEF Unexpected, Fail
    <3>. QED
      BY <1>6, <2>2, <3>1
  <2>. QED
    BY <1>12, <2>1, <2>2 DEF Unexpected, InClauses
<1>13. CASE EndOfText
  <2>1. CASE pc = "read"
    BY <1>13, <2>1, EndOfRead
  <2>2. CASE pc = "tail"
    <3>1. source' = source /\ pc' # "read"
      BY <1>13 DEF EndOfText, Check, Goto, Fail
    <3>. QED
      BY <1>6, <2>2, <3>1
  <2>. QED
    BY <1>13, <2>1, <2>2 DEF EndOfText
<1>14. CASE SetBinding
  <2>1. pc = "set" /\ source' = source /\ pc' # "read"
    BY <1>14 DEF SetBinding, Check, Goto, Fail
  <2>. QED
    BY <1>6, <2>1
<1>15. CASE SetDone
  <2>1. pc = "set" /\ source' = source /\ pc' # "read"
    BY <1>15 DEF SetDone, Check, Goto, Fail
  <2>. QED
    BY <1>6, <2>1
<1>16. CASE InsertBinding
  <2>1. pc = "bindings" /\ source' = source /\ pc' # "read"
    BY <1>16 DEF InsertBinding, Goto, Fail
  <2>. QED
    BY <1>6, <2>1
<1>17. CASE InsertDone
  <2>1. pc = "bindings" /\ source' = source /\ pc' # "read"
    BY <1>17 DEF InsertDone, Check, Goto, Fail
  <2>. QED
    BY <1>6, <2>1
<1>18. CASE Compile
  <2>1. pc' \in {"compiled", "refused"}
    BY <1>18 DEF Compile, Check, Goto
  <2>. QED
    BY <2>1 DEF ReadInv
<1>19. CASE UNCHANGED vars
  <2>1. source' = source /\ pc' = pc /\ next' = next /\ stmt' = stmt
    BY <1>19 DEF vars
  <2>2. text' = text /\ Tokens' = Tokens /\ ReadHead' = ReadHead /\ Lower(At(0))' = Lower(At(0))
    BY <2>1, TextStays
  <2>. QED
    BY <2>1, <2>2 DEF ReadInv
<1>. QED
  BY <1>1, <1>2, <1>3, <1>4, <1>5, <1>7, <1>8, <1>9, <1>10, <1>11, <1>12, <1>13, <1>14, <1>15, <1>16, <1>17, <1>18, <1>19
     DEF Next

-----------------------------------------------------------------------------
(* Plain, by the length of its argument.                                   *)

\* The atoms that Plain drops.
Dropped == {Comma, "from", "returning"}

\* Plain is the last value of a recursion, ...
LEMMA PlainRecursion ==
  ASSUME NEW S, NEW a \in Seq(S)
  PROVE  \E f \in [0..Len(a) -> Seq(S)] :
           /\ Plain(a) = f[Len(a)]
           /\ f[0] = << >>
           /\ \A k \in 1..Len(a) : f[k] = IF a[k] \in Dropped THEN f[k - 1] ELSE Append(f[k - 1], a[k])
<1>. DEFINE n == Len(a)
            More(k, before) == IF a[k] \in Dropped THEN before ELSE Append(before, a[k])
            step == [x \in (1..n) \X Seq(S) |-> More(x[1], x[2])]
            Fits(g) == g = [k \in 0..n |-> IF k = 0 THEN << >> ELSE More(k, g[k - 1])]
            g == CHOOSE g : Fits(g)
<1>1. n \in Nat /\ \A k \in 1..n : a[k] \in S
  OBVIOUS
<1>2. Plain(a) = g[n]
  BY DEF Plain, Dropped
<1>. HIDE DEF n
<1>3. \A k \in 1..n : \A before \in Seq(S) : More(k, before) \in Seq(S)
  BY <1>1
<1>. HIDE DEF More
<1>4. step \in [(1..n) \X Seq(S) -> Seq(S)] /\ \A k \in 1..n : \A before \in Seq(S) : step[<<k, before>>] = More(k, before)
  BY <1>3
<1>. HIDE DEF step
<1>5. << >> \in Seq(S) /\ IsStep(n, Seq(S), step)
  BY <1>4 DEF IsStep
<1>6. PICK f \in [0..n -> Seq(S)] : f[0] = << >> /\ \A k \in 1..n : f[k] = step[<<k, f[k - 1]>>]
  <2>1. Recurses(n, Seq(S), << >>, step)
    BY <1>1, <1>5, RecursionExists
  <2>. QED
    BY <2>1 DEF Recurses
<1>7. \A k \in 1..n : f[k] = More(k, f[k - 1])
  <2>1. \A k \in 1..n : k - 1 \in 0..n /\ f[k - 1] \in Seq(S)
    BY <1>1
  <2>. QED
    BY <1>4, <1>6, <2>1
<1>8. Fits(g)
  <2>1. Fits(f)
    BY <1>1, <1>6, <1>7
  <2>. HIDE DEF Fits
  <2>. QED
    BY <2>1
<1>. HIDE DEF g
<1>9. g[0] = << >> /\ \A k \in 1..n : g[k] = More(k, g[k - 1])
  <2>1. 0 \in 0..n /\ \A k \in 1..n : k \in 0..n /\ k # 0
    BY <1>1
  <2>. QED
    BY <2>1, <1>8
<1>. DEFINE P == {k \in 0..n : g[k] = f[k]}
<1>10. 0 \in P /\ \A k \in 1..n : k - 1 \in P => k \in P
  BY <1>1, <1>6, <1>7, <1>9
<1>11. n \in P
  <2>. HIDE DEF P
  <2>1. 0..n \subseteq P
    BY <1>1, <1>10, InductionTo
  <2>. QED
    BY <1>1, <2>1
<1>. QED
  BY <1>2, <1>6, <1>7, <1>11 DEF More, n

\* ... is over the same atoms, ...
LEMMA PlainTyped ==
  ASSUME NEW S, NEW a \in Seq(S)
  PROVE  Plain(a) \in Seq(S)
<1>1. PICK f \in [0..Len(a) -> Seq(S)] : Plain(a) = f[Len(a)]
  BY PlainRecursion
<1>2. Len(a) \in 0..Len(a)
  OBVIOUS
<1>. QED
  BY <1>1, <1>2

\* ... is empty of nothing, ...
LEMMA PlainEmpty == Plain(<< >>) = << >>
<1>1. << >> \in Seq({}) /\ Len(<< >>) = 0
  OBVIOUS
<1>. QED
  BY <1>1, PlainRecursion

\* ... and goes on with an atom more, or not.
LEMMA PlainAppend ==
  ASSUME NEW S, NEW a \in Seq(S), NEW x \in S
  PROVE  Plain(Append(a, x)) = IF x \in Dropped THEN Plain(a) ELSE Append(Plain(a), x)
<1>. DEFINE n == Len(a)
            b == Append(a, x)
<1>1. n \in Nat /\ b \in Seq(S) /\ Len(b) = n + 1 /\ b[n + 1] = x /\ \A k \in 1..n : b[k] = a[k]
  OBVIOUS
<1>2. PICK f \in [0..n -> Seq(S)] :
        /\ Plain(a) = f[n] /\ f[0] = << >>
        /\ \A k \in 1..n : f[k] = IF a[k] \in Dropped THEN f[k - 1] ELSE Append(f[k - 1], a[k])
  BY PlainRecursion
<1>. HIDE DEF n, b
<1>3. PICK g \in [0..Len(b) -> Seq(S)] :
        /\ Plain(b) = g[Len(b)] /\ g[0] = << >>
        /\ \A k \in 1..Len(b) : g[k] = IF b[k] \in Dropped THEN g[k - 1] ELSE Append(g[k - 1], b[k])
  BY <1>1, PlainRecursion
<1>. DEFINE P == {k \in 0..n : g[k] = f[k]}
<1>4. 0 \in P
  BY <1>1, <1>2, <1>3
<1>5. ASSUME NEW k \in 1..n, k - 1 \in P PROVE k \in P
  <2>1. k \in 1..Len(b) /\ b[k] = a[k] /\ g[k - 1] = f[k - 1] /\ k \in 0..n
    BY <1>1, <1>5
  <2>. QED
    BY <1>2, <1>3, <2>1
<1>6. n \in P
  <2>. HIDE DEF P
  <2>1. 0..n \subseteq P
    BY <1>1, <1>4, <1>5, InductionTo
  <2>. QED
    BY <1>1, <2>1
<1>7. g[n + 1] = IF x \in Dropped THEN g[n] ELSE Append(g[n], x)
  <2>1. n + 1 \in 1..Len(b) /\ (n + 1) - 1 = n
    BY <1>1
  <2>. QED
    BY <1>1, <1>3, <2>1
<1>. QED
  BY <1>1, <1>2, <1>3, <1>6, <1>7 DEF b

-----------------------------------------------------------------------------
(* Parts, by the length of its argument.                                   *)

\* Parts are not empty; one more atom goes to the last of them.
PartsList(S) == Seq(Seq(S) \ {<< >>})
Extended(ps, x) == [ps EXCEPT ![Len(ps)] = Append(@, x)]

\* The last part is longer by an atom, the others are the same.
LEMMA ExtendedTyped ==
  ASSUME NEW S, NEW ps \in PartsList(S), NEW x \in S
  PROVE  /\ Extended(ps, x) \in PartsList(S)
         /\ ps # << >> => /\ Len(Extended(ps, x)) = Len(ps) /\ Len(ps) \in 1..Len(ps)
                          /\ Extended(ps, x)[Len(ps)] = Append(ps[Len(ps)], x)
                          /\ \A i \in 1..(Len(ps) - 1) : Extended(ps, x)[i] = ps[i]
<1>. USE DEF PartsList
<1>1. CASE ps = << >>
  <2>1. Extended(ps, x) = << >>
    BY <1>1 DEF Extended
  <2>. QED
    BY <1>1, <2>1
<1>2. CASE ps # << >>
  <2>. DEFINE n == Len(ps)
              new == Append(ps[n], x)
  <2>1. n \in 1..n /\ n \in Nat
    BY <1>2
  <2>2. ps[n] \in Seq(S)
    BY <2>1
  <2>3. new \in Seq(S) \ {<< >>}
    BY <2>2
  <2>4. Extended(ps, x) = [ps EXCEPT ![n] = new]
    BY DEF Extended
  <2>. HIDE DEF new
  <2>5. [ps EXCEPT ![n] = new] \in Seq(Seq(S) \ {<< >>}) /\ Len([ps EXCEPT ![n] = new]) = n
    BY <2>1, <2>3, ExceptSeq
  <2>6. [ps EXCEPT ![n] = new][n] = new /\ \A i \in 1..(n - 1) : [ps EXCEPT ![n] = new][i] = ps[i]
    BY <2>1, <2>3
  <2>. QED
    BY <1>2, <2>1, <2>4, <2>5, <2>6 DEF new
<1>. QED
  BY <1>1, <1>2

\* What the k-th atom makes of the parts before it.
MoreParts(a, k, before) ==
  IF a[k] = Comma THEN before
  ELSE IF k = 1 \/ a[k - 1] = Comma THEN Append(before, <<a[k]>>)
  ELSE Extended(before, a[k])

\* Parts is the last value of a recursion, ...
LEMMA PartsRecursion ==
  ASSUME NEW S, NEW a \in Seq(S)
  PROVE  \E f \in [0..Len(a) -> PartsList(S)] :
           Parts(a) = f[Len(a)] /\ f[0] = << >> /\ \A k \in 1..Len(a) : f[k] = MoreParts(a, k, f[k - 1])
<1>. DEFINE n == Len(a)
            R == PartsList(S)
            step == [x \in (1..n) \X R |-> MoreParts(a, x[1], x[2])]
            Fits(g) == g = [k \in 0..n |-> IF k = 0 THEN << >> ELSE MoreParts(a, k, g[k - 1])]
            g == CHOOSE g : Fits(g)
<1>1. n \in Nat /\ \A k \in 1..n : a[k] \in S
  OBVIOUS
<1>2. Parts(a) = g[n]
  BY DEF Parts, MoreParts, Extended
<1>3. << >> \in R
  BY DEF PartsList
<1>. HIDE DEF n, R
<1>4. ASSUME NEW k \in 1..n, NEW before \in R PROVE MoreParts(a, k, before) \in R
  <2>1. a[k] \in S
    BY <1>1
  <2>2. Extended(before, a[k]) \in R
    BY <2>1, ExtendedTyped DEF R
  <2>3. Append(before, <<a[k]>>) \in R
    BY <2>1 DEF R, PartsList
  <2>. QED
    BY <2>2, <2>3 DEF MoreParts
<1>5. step \in [(1..n) \X R -> R] /\ \A k \in 1..n : \A before \in R : step[<<k, before>>] = MoreParts(a, k, before)
  BY <1>4
<1>. HIDE DEF step
<1>6. IsStep(n, R, step)
  BY <1>5 DEF IsStep
<1>7. PICK f \in [0..n -> R] : f[0] = << >> /\ \A k \in 1..n : f[k] = step[<<k, f[k - 1]>>]
  <2>1. Recurses(n, R, << >>, step)
    BY <1>1, <1>3, <1>6, RecursionExists
  <2>. QED
    BY <2>1 DEF Recurses
<1>8. \A k \in 1..n : f[k] = MoreParts(a, k, f[k - 1])
  <2>1. \A k \in 1..n : k - 1 \in 0..n /\ f[k - 1] \in R
    BY <1>1
  <2>. QED
    BY <1>5, <1>7, <2>1
<1>9. Fits(g)
  <2>1. Fits(f)
    BY <1>1, <1>7, <1>8
  <2>. HIDE DEF Fits
  <2>. QED
    BY <2>1
<1>. HIDE DEF g
<1>10. g[0] = << >> /\ \A k \in 1..n : g[k] = MoreParts(a, k, g[k - 1])
  <2>1. 0 \in 0..n /\ \A k \in 1..n : k \in 0..n /\ k # 0
    BY <1>1
  <2>. QED
    BY <2>1, <1>9
<1>. DEFINE P == {k \in 0..n : g[k] = f[k]}
<1>11. 0 \in P /\ \A k \in 1..n : k - 1 \in P => k \in P
  BY <1>1, <1>7, <1>8, <1>10
<1>12. n \in P
  <2>. HIDE DEF P
  <2>1. 0..n \subseteq P
    BY <1>1, <1>11, InductionTo
  <2>. QED
    BY <1>1, <2>1
<1>. QED
  BY <1>2, <1>7, <1>8, <1>12 DEF n, R

\* ... and has no empty part.
LEMMA PartsTyped ==
  ASSUME NEW S, NEW a \in Seq(S)
  PROVE  Parts(a) \in PartsList(S)
<1>1. PICK f \in [0..Len(a) -> PartsList(S)] : Parts(a) = f[Len(a)]
  BY PartsRecursion
<1>2. Len(a) \in 0..Len(a)
  OBVIOUS
<1>. QED
  BY <1>1, <1>2

-----------------------------------------------------------------------------
(* Types.                                                                  *)

\* The statement at the start of its parsing.
LEMMA NewStmtTyped ==
  ASSUME NEW verb \in Verbs \cup {"none"}, NEW table \in Token
  PROVE  NewStmt(verb, table) \in Statements
BY DEF NewStmt, Statements, Token

\* A token of the text.
LEMMA AtTyped ==
  ASSUME Typed, NEW i \in Nat, i < Tokens
  PROVE  At(i) \in Token
<1>1. i + 1 \in 1..Tokens
  BY TextTyped
<1>2. text[i + 1] \in Token
  BY <1>1, TextTyped
<1>. QED
  BY <1>2 DEF At

\* A step that fails, or goes on with a statement.
LEMMA TypedOn ==
  ASSUME Typed, source' = source, pc' \in Places, next' \in 0..Tokens,
         parts' \in Seq(Token \ {<< >>}), stmt' \in Statements
  PROVE  Typed'
<1>1. Tokens' = Tokens
  BY TextStays
<1>. QED
  BY <1>1 DEF Typed

\* An error leaves the types alone.
LEMMA TypedFail ==
  ASSUME Typed, Fail
  PROVE  Typed'
BY TypedOn DEF Typed, Fail, Places

\* A condition or a binding more.
LEMMA ConditionTyped ==
  ASSUME NEW s \in Statements, NEW b \in Assigned
  PROVE  /\ [s EXCEPT !.where = <<b>>] \in Statements
         /\ [s EXCEPT !.bindings = Append(@, b)] \in Statements
<1>1. <<b>> \in Seq(Assigned)
  OBVIOUS
<1>2. [s EXCEPT !.where = <<b>>] \in Statements
  <2>. HIDE DEF Assigned
  <2>. QED
    BY <1>1 DEF Statements
<1>3. Append(s.bindings, b) \in Seq(Assigned)
  BY DEF Statements
<1>. DEFINE new == Append(s.bindings, b)
<1>4. [s EXCEPT !.bindings = Append(@, b)] = [s EXCEPT !.bindings = new]
  BY DEF Statements
<1>. HIDE DEF new
<1>5. new \in Seq(Assigned)
  BY <1>3 DEF new
<1>6. [s EXCEPT !.bindings = new] \in Statements
  BY <1>5 DEF Statements
<1>. QED
  BY <1>2, <1>4, <1>6

\* The tokens of a condition, or of a binding of an update.
LEMMA PredicateTyped ==
  ASSUME Typed, NEW i \in Nat, PredicateAt(i)
  PROVE  i + 3 \in 0..Tokens /\ Binding(At(i), At(i + 2)) \in Assigned
<1>1. i + 2 < Tokens /\ Tokens \in Nat
  BY TextTyped DEF PredicateAt
<1>2. At(i) \in Token /\ At(i + 2) \in Token
  BY <1>1, AtTyped
<1>. QED
  BY <1>1, <1>2 DEF Binding, Assigned

\* The columns of a projection or of a RETURNING.
LEMMA ListTyped ==
  ASSUME Typed, NEW i \in Nat, NEW n \in Int, i + n < Tokens
  PROVE  [k \in 1..n |-> NoComma(At(i + k))] \in Seq(Token)
<1>. DEFINE c == [k \in 1..n |-> NoComma(At(i + k))]
<1>1. ASSUME NEW k \in 1..n PROVE NoComma(At(i + k)) \in Token
  <2>1. i + k \in Nat /\ i + k < Tokens
    BY TextTyped
  <2>2. At(i + k) \in Token
    BY <2>1, AtTyped
  <2>. QED
    BY <2>2, NoCommaTyped DEF Token
<1>2. c \in [1..n -> Token]
  BY <1>1
<1>3. CASE n \in Nat
  <2>. HIDE DEF c
  <2>. QED
    BY <1>2, <1>3 DEF c
<1>4. CASE n \notin Nat
  <2>1. 1..n = {} /\ 1..0 = {} /\ 0 \in Nat
    BY <1>4
  <2>2. c \in [1..0 -> Token]
    BY <1>2, <2>1
  <2>. HIDE DEF c
  <2>3. c \in Seq(Token)
    BY <2>1, <2>2
  <2>. QED
    BY <2>3 DEF c
<1>. QED
  BY <1>3, <1>4

\* Nothing is parsed at first.
LEMMA InitTyped ==
  ASSUME Init
  PROVE  Typed
<1>1. stmt \in Statements
  <2>1. << >> \in Token
    BY DEF Token
  <2>2. NewStmt("none", << >>) \in Statements
    BY <2>1, NewStmtTyped
  <2>. QED
    BY <2>2 DEF Init, NoStmt
<1>2. Tokens \in Nat
  BY SourcesAreTexts DEF Init, Tokens, text
<1>. QED
  BY <1>1, <1>2 DEF Init, Typed, Places

\* Every step keeps the types.
LEMMA TypedStep ==
  ASSUME Typed, [Next]_vars
  PROVE  Typed'
<1>1. /\ next \in Nat /\ next <= Tokens /\ Tokens \in Nat /\ stmt \in Statements
      /\ parts \in Seq(Token \ {<< >>}) /\ pc \in Places
  BY TextTyped DEF Typed
<1>2. {"read", "set", "bindings", "tail", "parsed", "compiled", "refused"} \subseteq Places
  BY DEF Places
<1>3. CASE Unsupported
  BY <1>3, TypedFail DEF Unsupported
<1>4. CASE StartRead
  <2>1. CASE Tokens >= 2 /\ IsIdent(At(1))
    <3>1. source' = source /\ pc' = "read" /\ next' = 2 /\ stmt' = NewStmt("read", At(1)) /\ parts' = parts
      BY <1>4, <2>1 DEF StartRead, Check, Goto
    <3>2. NewStmt("read", At(1)) \in Statements
      BY <1>1, <2>1, AtTyped, NewStmtTyped DEF Verbs
    <3>3. 2 \in 0..Tokens
      BY <1>1, <2>1
    <3>. QED
      BY <1>1, <1>2, <3>1, <3>2, <3>3, TypedOn
  <2>. QED
    BY <1>4, <2>1, TypedFail DEF StartRead, Check
<1>5. CASE StartInsert
  <2>. DEFINE inner == SubSeq(text, 4, Tokens - 1)
  <2>1. CASE Tokens >= 4 /\ Is(2, LBrace) /\ IsIdent(At(1)) /\ Is(Tokens - 1, RBrace)
    <3>1. source' = source /\ pc' = "bindings" /\ next' = Tokens /\ stmt' = NewStmt("insert", At(1)) /\ parts' = Parts(FlattenSeq(inner))
      BY <1>5, <2>1 DEF StartInsert, Goto
    <3>2. NewStmt("insert", At(1)) \in Statements
      BY <1>1, <2>1, AtTyped, NewStmtTyped DEF Verbs
    <3>3. inner \in Seq(Seq(AtomsUsed))
      <4>1. text \in Seq(Seq(AtomsUsed)) /\ Tokens = Len(text)
        BY TextTyped DEF Token
      <4>. QED
        BY <4>1, <1>1
    <3>. HIDE DEF inner
    <3>4. Parts(FlattenSeq(inner)) \in Seq(Token \ {<< >>})
      BY <3>3, FlattenTyped, PartsTyped DEF PartsList, Token
    <3>5. Tokens \in 0..Tokens
      BY <1>1
    <3>. QED
      BY <1>1, <1>2, <3>1, <3>2, <3>4, <3>5, TypedOn
  <2>. QED
    BY <1>5, <2>1, TypedFail DEF StartInsert
<1>6. CASE StartUpdate
  <2>. DEFINE test == Tokens >= 5 /\ Is(0, "update") /\ Is(2, "set") /\ IsIdent(At(1))
  <2>1. CASE test
    <3>1. source' = source /\ pc' = "set" /\ next' = 3 /\ stmt' = NewStmt("update", At(1)) /\ parts' = parts
      BY <1>6, <2>1 DEF StartUpdate, Check, Goto
    <3>2. NewStmt("update", At(1)) \in Statements
      BY <1>1, <2>1, AtTyped, NewStmtTyped DEF Verbs
    <3>3. 3 \in 0..Tokens
      BY <1>1, <2>1
    <3>. QED
      BY <1>1, <1>2, <3>1, <3>2, <3>3, TypedOn
  <2>. QED
    BY <1>6, <2>1, TypedFail DEF StartUpdate, Check
<1>7. CASE ParseDelete
  <2>. DEFINE t == IF Is(1, "from") THEN 2 ELSE 1
              s == NewStmt("delete", At(t))
              deleted == [s EXCEPT !.where = <<Binding(At(t + 2), At(t + 4))>>]
  <2>1. t \in Nat
    OBVIOUS
  <2>2. CASE t >= Tokens \/ ~ IsIdent(At(t))
    BY <1>7, <2>2, TypedFail DEF ParseDelete
  <2>3. CASE t < Tokens /\ IsIdent(At(t)) /\ t + 1 = Tokens
    <3>1. source' = source /\ pc' = "parsed" /\ next' = Tokens /\ stmt' = s /\ parts' = parts
      BY <1>1, <1>7, <2>1, <2>3 DEF ParseDelete, Check, Goto
    <3>. HIDE DEF t
    <3>2. s \in Statements
      BY <2>1, <2>3, AtTyped, NewStmtTyped DEF Verbs
    <3>. HIDE DEF s
    <3>3. Tokens \in 0..Tokens
      BY <1>1
    <3>. QED
      BY <1>1, <1>2, <3>1, <3>2, <3>3, TypedOn
  <2>4. CASE t < Tokens /\ IsIdent(At(t)) /\ t + 1 # Tokens
    <3>1. Check(Is(t + 1, "where") /\ PredicateAt(t + 2), "parsed", Tokens, deleted)
      <4>1. ~ (t >= Tokens) /\ t + 2 + 2 = t + 4
        BY <1>1, <2>1, <2>4
      <4>. QED
        BY <1>7, <2>4, <4>1 DEF ParseDelete
    <3>. HIDE DEF t
    <3>2. s \in Statements
      BY <2>1, <2>4, AtTyped, NewStmtTyped DEF Verbs
    <3>. HIDE DEF s
    <3>3. CASE Is(t + 1, "where") /\ PredicateAt(t + 2)
      <4>1. source' = source /\ pc' = "parsed" /\ next' = Tokens /\ stmt' = deleted /\ parts' = parts
        BY <3>1, <3>3 DEF Check, Goto
      <4>2. t + 2 \in Nat /\ t + 2 + 2 = t + 4
        BY <2>1
      <4>3. Binding(At(t + 2), At(t + 2 + 2)) \in Assigned
        BY <4>2, <3>3, PredicateTyped
      <4>4. deleted \in Statements
        BY <3>2, <4>2, <4>3, ConditionTyped
      <4>. HIDE DEF deleted
      <4>5. Tokens \in 0..Tokens
        BY <1>1
      <4>. QED
        BY <1>1, <1>2, <4>1, <4>4, <4>5, TypedOn
    <3>. HIDE DEF deleted
    <3>. QED
      BY <3>1, <3>3, TypedFail DEF Check
  <2>. QED
    BY <1>1, <2>1, <2>2, <2>3, <2>4
<1>8. CASE ReadProjection
  <2>. DEFINE rest == SubSeq(text, next + 1, Tokens)
              place == PlaceOf(rest, <<RBrace>>)
              close == next + place - 1
              columns == [k \in 1..(close - next - 1) |-> NoComma(At(next + k))]
              s == [stmt EXCEPT !.columns = columns]
  <2>1. Check(close >= next, "read", close + 1, s)
    BY <1>8 DEF ReadProjection
  <2>2. place \in 0..(Tokens - next)
    <3>1. next < Tokens /\ text \in Seq(Token) /\ Tokens = Len(text)
      BY <1>8, TextTyped DEF ReadProjection, InClauses
    <3>2. Len(rest) = Tokens - next /\ Len(rest) \in Nat
      BY <1>1, <3>1
    <3>. HIDE DEF rest
    <3>. QED
      BY <3>2, PlaceOfIsFirst
  <2>. HIDE DEF place
  <2>3. CASE close >= next
    <3>1. source' = source /\ pc' = "read" /\ next' = close + 1 /\ stmt' = s /\ parts' = parts
      BY <2>1, <2>3 DEF Check, Goto
    <3>2. close - next - 1 \in Int /\ next + (close - next - 1) < Tokens /\ close + 1 \in 0..Tokens
      BY <1>1, <2>2, <2>3
    <3>3. columns \in Seq(Token)
      BY <1>1, <3>2, ListTyped
    <3>. HIDE DEF columns
    <3>4. s \in Statements
      BY <1>1, <3>3 DEF Statements
    <3>. HIDE DEF s, close
    <3>. QED
      BY <1>1, <1>2, <3>1, <3>2, <3>4, TypedOn
  <2>. HIDE DEF close, s
  <2>. QED
    BY <2>1, <2>3, TypedFail DEF Check
<1>9. CASE Where
  <2>. DEFINE s == [stmt EXCEPT !.where = <<Binding(At(next + 1), At(next + 3))>>]
  <2>1. Check(PredicateAt(next + 1), pc, next + 4, s)
    BY <1>9 DEF Where
  <2>2. CASE PredicateAt(next + 1)
    <3>1. source' = source /\ pc' = pc /\ next' = next + 4 /\ stmt' = s /\ parts' = parts
      BY <2>1, <2>2 DEF Check, Goto
    <3>2. next + 1 \in Nat /\ next + 1 + 2 = next + 3 /\ next + 1 + 3 = next + 4
      BY <1>1
    <3>3. next + 1 + 3 \in 0..Tokens /\ Binding(At(next + 1), At(next + 1 + 2)) \in Assigned
      BY <2>2, <3>2, PredicateTyped
    <3>4. s \in Statements
      BY <1>1, <3>2, <3>3, ConditionTyped
    <3>. HIDE DEF s
    <3>. QED
      BY <1>1, <3>1, <3>2, <3>3, <3>4, TypedOn
  <2>. HIDE DEF s
  <2>. QED
    BY <2>1, <2>2, TypedFail DEF Check
<1>10. CASE ReadOrder
  <2>. DEFINE directed == Is(next + 2, "asc") \/ Is(next + 2, "desc")
              desc == IF directed THEN Is(next + 2, "desc") ELSE stmt.order # << >> /\ stmt.order[1].desc
              m == next + (IF directed THEN 3 ELSE 2)
              order == <<[column |-> At(next + 1), desc |-> desc]>>
              s == [stmt EXCEPT !.order = order]
  <2>1. Check(next + 1 < Tokens, "read", m, s)
    BY <1>10 DEF ReadOrder
  <2>2. CASE next + 1 < Tokens
    <3>1. source' = source /\ pc' = "read" /\ next' = m /\ stmt' = s /\ parts' = parts
      BY <2>1, <2>2 DEF Check, Goto
    <3>2. m \in 0..Tokens
      <4>1. directed => next + 2 < Tokens
        BY DEF Is
      <4>. HIDE DEF directed
      <4>. QED
        BY <1>1, <2>2, <4>1
    <3>3. At(next + 1) \in Token
      BY <1>1, <2>2, AtTyped
    <3>4. desc \in BOOLEAN
      <4>1. CASE directed
        <5>1. desc = Is(next + 2, "desc")
          BY <4>1
        <5>. QED
          BY <5>1 DEF Is
      <4>2. CASE ~ directed
        <5>1. desc = (stmt.order # << >> /\ stmt.order[1].desc)
          BY <4>2
        <5>. QED
          BY <5>1
      <4>. QED
        BY <4>1, <4>2
    <3>. HIDE DEF desc, m
    <3>5. order \in Seq([column : Token, desc : BOOLEAN])
      BY <3>3, <3>4
    <3>. HIDE DEF order
    <3>6. s \in Statements
      BY <1>1, <3>5 DEF Statements
    <3>. HIDE DEF s
    <3>. QED
      BY <1>1, <1>2, <3>1, <3>2, <3>6, TypedOn
  <2>. HIDE DEF m, s
  <2>. QED
    BY <2>1, <2>2, TypedFail DEF Check
<1>11. CASE ReadLimit
  <2>. DEFINE s == [stmt EXCEPT !.limit = At(next + 1)]
              test == \E x \in Numbers : Is(next + 1, x)
  <2>1. Check(test, "read", next + 2, s)
    BY <1>11 DEF ReadLimit
  <2>2. CASE test
    <3>1. source' = source /\ pc' = "read" /\ next' = next + 2 /\ stmt' = s /\ parts' = parts
      BY <2>1, <2>2 DEF Check, Goto
    <3>2. next + 1 < Tokens
      BY <2>2 DEF Is
    <3>3. At(next + 1) \in Token /\ next + 2 \in 0..Tokens
      BY <1>1, <3>2, AtTyped
    <3>4. s \in Statements
      BY <1>1, <3>3 DEF Statements
    <3>. HIDE DEF s
    <3>. QED
      BY <1>1, <1>2, <3>1, <3>3, <3>4, TypedOn
  <2>. HIDE DEF s, test
  <2>. QED
    BY <2>1, <2>2, TypedFail DEF Check
<1>12. CASE Returning
  <2>. DEFINE columns == [k \in 1..(Tokens - next - 1) |-> NoComma(At(next + k))]
              s == [stmt EXCEPT !.columns = columns]
  <2>1. source' = source /\ pc' = "tail" /\ next' = Tokens /\ stmt' = s /\ parts' = parts
    BY <1>12 DEF Returning, Goto
  <2>2. Tokens - next - 1 \in Int /\ next + (Tokens - next - 1) < Tokens /\ Tokens \in 0..Tokens
    BY <1>1
  <2>3. columns \in Seq(Token)
    BY <1>1, <2>2, ListTyped
  <2>. HIDE DEF columns
  <2>4. s \in Statements
    BY <1>1, <2>3 DEF Statements
  <2>. HIDE DEF s
  <2>. QED
    BY <1>1, <1>2, <2>1, <2>2, <2>4, TypedOn
<1>13. CASE Unexpected
  BY <1>13, TypedFail DEF Unexpected
<1>14. CASE EndOfText
  <2>1. Fail \/ (source' = source /\ pc' = "parsed" /\ next' = next /\ stmt' = stmt /\ parts' = parts)
    BY <1>14 DEF EndOfText, Check, Goto
  <2>2. next \in 0..Tokens
    BY <1>1
  <2>. QED
    BY <1>1, <1>2, <2>1, <2>2, TypedFail, TypedOn
<1>15. CASE SetBinding
  <2>. DEFINE s == [stmt EXCEPT !.bindings = Append(@, Binding(At(next), At(next + 2)))]
  <2>1. Check(PredicateAt(next), "set", next + 3, s)
    BY <1>15 DEF SetBinding
  <2>2. CASE PredicateAt(next)
    <3>1. source' = source /\ pc' = "set" /\ next' = next + 3 /\ stmt' = s /\ parts' = parts
      BY <2>1, <2>2 DEF Check, Goto
    <3>2. next + 3 \in 0..Tokens /\ Binding(At(next), At(next + 2)) \in Assigned
      BY <1>1, <2>2, PredicateTyped
    <3>3. s \in Statements
      BY <1>1, <3>2, ConditionTyped
    <3>. HIDE DEF s
    <3>. QED
      BY <1>1, <1>2, <3>1, <3>2, <3>3, TypedOn
  <2>. HIDE DEF s
  <2>. QED
    BY <2>1, <2>2, TypedFail DEF Check
<1>16. CASE SetDone
  <2>1. source' = source /\ pc' = "tail" /\ next' = next /\ stmt' = stmt /\ parts' = parts
    BY <1>16 DEF SetDone, Check, Goto
  <2>2. next \in 0..Tokens
    BY <1>1
  <2>. QED
    BY <1>1, <1>2, <2>1, <2>2, TypedOn
<1>17. CASE InsertBinding
  <2>. DEFINE part == Head(parts)
              k == PlaceOf(part, Colon)
              column == SubSeq(part, 1, k - 1)
              value == SubSeq(part, k + 1, Len(part))
              s == [stmt EXCEPT !.bindings = Append(@, Binding(column, value))]
  <2>1. parts # << >>
    BY <1>17 DEF InsertBinding
  <2>2. Fail \/ (source' = source /\ pc' = "bindings" /\ next' = next /\ stmt' = s /\ parts' = Tail(parts))
    BY <1>17 DEF InsertBinding, Goto
  <2>3. part \in Token /\ Tail(parts) \in Seq(Token \ {<< >>})
    BY <1>1, <2>1
  <2>. HIDE DEF part
  <2>4. k \in 0..Len(part) /\ Len(part) \in Nat
    <3>1. Len(part) \in Nat
      BY <2>3 DEF Token
    <3>. QED
      BY <3>1, PlaceOfIsFirst
  <2>. HIDE DEF k
  <2>5. column \in Token /\ value \in Token
    BY <2>3, <2>4 DEF Token
  <2>. HIDE DEF column, value
  <2>6. Binding(column, value) \in Assigned
    BY <2>5 DEF Binding, Assigned
  <2>7. s \in Statements
    BY <1>1, <2>6, ConditionTyped
  <2>. HIDE DEF s
  <2>8. next \in 0..Tokens
    BY <1>1
  <2>. QED
    BY <1>2, <2>2, <2>3, <2>7, <2>8, TypedFail, TypedOn
<1>18. CASE InsertDone
  <2>1. source' = source /\ pc' = "parsed" /\ next' = next /\ stmt' = stmt /\ parts' = parts
    BY <1>18 DEF InsertDone, Check, Goto
  <2>2. next \in 0..Tokens
    BY <1>1
  <2>. QED
    BY <1>1, <1>2, <2>1, <2>2, TypedOn
<1>19. CASE Compile
  <2>1. source' = source /\ pc' \in {"compiled", "refused"} /\ next' = next /\ stmt' = stmt /\ parts' = parts
    BY <1>19 DEF Compile, Check, Goto
  <2>2. next \in 0..Tokens
    BY <1>1
  <2>. QED
    BY <1>1, <1>2, <2>1, <2>2, TypedOn
<1>20. CASE UNCHANGED vars
  <2>1. source' = source /\ pc' = pc /\ next' = next /\ stmt' = stmt /\ parts' = parts
    BY <1>20 DEF vars
  <2>2. next \in 0..Tokens
    BY <1>1
  <2>. QED
    BY <1>1, <2>1, <2>2, TypedOn
<1>. QED
  BY <1>3, <1>4, <1>5, <1>6, <1>7, <1>8, <1>9, <1>10, <1>11, <1>12, <1>13, <1>14, <1>15, <1>16, <1>17, <1>18, <1>19, <1>20
     DEF Next

(* The statement, the parts left and the position have their types at every*)
(* step of parse and compile, whatever the text is: the position never     *)
(* passes the end of the text, and no part of an insert is empty.          *)
THEOREM TypedHolds == Spec => []Typed
<1>1. Init => Typed
  BY InitTyped
<1>2. Typed /\ [Next]_vars => Typed'
  BY TypedStep
<1>. QED
  BY <1>1, <1>2, PTL DEF Spec

(* For every text, _parse_read accepts a read exactly when its text is a   *)
(* sequence of clauses, and each part of the statement is that of the last *)
(* clause of its kind.                                                     *)
THEOREM ReadsAreClausesHolds == Spec => []ReadsAreClauses
<1>1. Init => ReadInv
  BY DEF Init, ReadInv
<1>2. Typed /\ ReadInv /\ [Next]_vars => ReadInv'
  BY ReadStep
<1>3. ReadInv => ReadsAreClauses
  BY DEF ReadInv, ReadHead, ReadsAreClauses
<1>. QED
  BY <1>1, <1>2, <1>3, TypedHolds, PTL DEF Spec

-----------------------------------------------------------------------------
(* Plain of sequences that are put together.                               *)

\* Plain of two sequences put together is Plain of each.
LEMMA PlainConcat ==
  ASSUME NEW S, NEW a \in Seq(S), NEW b \in Seq(S)
  PROVE  Plain(a \o b) = Plain(a) \o Plain(b)
<1>. DEFINE B(k) == SubSeq(b, 1, k)
            P == {k \in 0..Len(b) : Plain(a \o B(k)) = Plain(a) \o Plain(B(k))}
<1>1. /\ Len(b) \in Nat /\ B(0) = << >> /\ B(Len(b)) = b
      /\ \A k \in 0..Len(b) : B(k) \in Seq(S)
      /\ \A k \in 1..Len(b) : b[k] \in S /\ B(k) = Append(B(k - 1), b[k])
  BY PrefixGrows
<1>. HIDE DEF B
<1>2. 0 \in P
  <2>1. a \o << >> = a /\ Plain(a) \in Seq(S) /\ 0 \in 0..Len(b)
    BY <1>1, PlainTyped
  <2>2. Plain(a) \o << >> = Plain(a)
    BY <2>1
  <2>. QED
    BY <1>1, <2>1, <2>2, PlainEmpty
<1>3. ASSUME NEW k \in 1..Len(b), k - 1 \in P PROVE k \in P
  <2>. DEFINE c == B(k - 1)
              x == b[k]
  <2>1. c \in Seq(S) /\ x \in S /\ B(k) = Append(c, x) /\ k \in 0..Len(b)
    BY <1>1
  <2>2. Plain(a \o c) = Plain(a) \o Plain(c)
    BY <1>3
  <2>. HIDE DEF c, x
  <2>3. a \o Append(c, x) = Append(a \o c, x) /\ a \o c \in Seq(S)
    BY <2>1, ConcatAppend
  <2>4. Plain(a) \in Seq(S) /\ Plain(c) \in Seq(S)
    BY <2>1, PlainTyped
  <2>5. Plain(a) \o Append(Plain(c), x) = Append(Plain(a) \o Plain(c), x)
    <3>. DEFINE u == Plain(a)
                v == Plain(c)
    <3>1. u \in Seq(S) /\ v \in Seq(S)
      BY <2>4
    <3>. HIDE DEF u, v
    <3>2. u \o Append(v, x) = Append(u \o v, x)
      BY <2>1, <3>1, ConcatAppend
    <3>. QED
      BY <3>2 DEF u, v
  <2>6. Plain(Append(c, x)) = IF x \in Dropped THEN Plain(c) ELSE Append(Plain(c), x)
    BY <2>1, PlainAppend
  <2>7. Plain(Append(a \o c, x)) = IF x \in Dropped THEN Plain(a \o c) ELSE Append(Plain(a \o c), x)
    BY <2>1, <2>3, PlainAppend
  <2>8. Plain(a \o Append(c, x)) = Plain(a) \o Plain(Append(c, x))
    BY <2>2, <2>3, <2>5, <2>6, <2>7
  <2>. QED
    BY <2>1, <2>8
<1>4. Len(b) \in P
  <2>. HIDE DEF P
  <2>1. Len(b) \in Nat
    BY <1>1
  <2>2. 0..Len(b) \subseteq P
    BY <1>2, <1>3, <2>1, InductionTo
  <2>. QED
    BY <2>1, <2>2
<1>. QED
  BY <1>1, <1>4

\* rstrip(",") drops commas only.
LEMMA PlainNoComma ==
  ASSUME NEW S, NEW tok \in Seq(S)
  PROVE  Plain(NoComma(tok)) = Plain(tok)
<1>1. PICK n \in 0..Len(tok) : NoComma(tok) = SubSeq(tok, 1, n) /\ \A k \in (n + 1)..Len(tok) : tok[k] = Comma
  BY NoCommaMeans
<1>. DEFINE T(k) == SubSeq(tok, 1, k)
            m == Len(tok) - n
            P == {k \in 0..m : Plain(T(n + k)) = Plain(T(n))}
<1>2. Len(tok) \in Nat /\ n \in Nat /\ m \in Nat /\ n + m = Len(tok)
  OBVIOUS
<1>3. /\ T(Len(tok)) = tok /\ \A k \in 0..Len(tok) : T(k) \in Seq(S)
      /\ \A k \in 1..Len(tok) : tok[k] \in S /\ T(k) = Append(T(k - 1), tok[k])
  BY PrefixGrows
<1>. HIDE DEF T, m
<1>4. 0 \in P
  BY <1>2
<1>5. ASSUME NEW k \in 1..m, k - 1 \in P PROVE k \in P
  <2>1. n + k \in 1..Len(tok) /\ n + k \in (n + 1)..Len(tok) /\ n + k - 1 \in 0..Len(tok) /\ k \in 0..m
        /\ n + k - 1 = n + (k - 1)
    BY <1>2
  <2>2. tok[n + k] = Comma
    BY <1>1, <2>1
  <2>. DEFINE j == n + k
  <2>3. j \in 1..Len(tok) /\ j - 1 \in 0..Len(tok) /\ j - 1 = n + (k - 1)
    BY <2>1
  <2>. HIDE DEF j
  <2>4. tok[j] \in S /\ T(j) = Append(T(j - 1), tok[j]) /\ T(j - 1) \in Seq(S)
    BY <1>3, <2>3
  <2>5. T(n + k) = Append(T(n + (k - 1)), Comma) /\ T(n + (k - 1)) \in Seq(S) /\ Comma \in S
    BY <2>2, <2>3, <2>4 DEF j
  <2>6. Plain(T(n + k)) = Plain(T(n + (k - 1)))
    BY <2>5, PlainAppend DEF Dropped
  <2>. QED
    BY <1>5, <2>1, <2>6
<1>6. m \in P
  <2>. HIDE DEF P
  <2>1. 0..m \subseteq P
    BY <1>2, <1>4, <1>5, InductionTo
  <2>. QED
    BY <1>2, <2>1
<1>. QED
  BY <1>1, <1>2, <1>3, <1>6 DEF T

\* A list loses its commas only.
LEMMA ListedAppend ==
  ASSUME NEW S, Comma \in S, NEW items \in Seq(Seq(S)), NEW x \in Seq(S)
  PROVE  Listed(Append(items, x)) = IF items = << >> THEN x ELSE (Listed(items) \o <<Comma>>) \o x
<1>. DEFINE n == Len(items)
            Item(is, i) == IF i % 2 = 0 THEN <<Comma>> ELSE is[(i + 1) \div 2]
            L(is, m) == [i \in 1..m |-> Item(is, i)]
            more == Append(items, x)
<1>1. n \in Nat /\ more \in Seq(Seq(S)) /\ Len(more) = n + 1 /\ more[n + 1] = x /\ \A i \in 1..n : more[i] = items[i] /\ items[i] \in Seq(S)
  OBVIOUS
<1>2. Listed(items) = FlattenSeq(L(items, 2 * n - 1)) /\ Listed(more) = FlattenSeq(L(more, 2 * n + 1))
  <2>1. 2 * Len(more) - 1 = 2 * n + 1
    BY <1>1
  <2>. HIDE DEF n
  <2>. QED
    BY <2>1 DEF Listed, n
<1>. HIDE DEF n, more
<1>3. CASE items = << >>
  <2>1. n = 0 /\ 2 * n + 1 = 1
    BY <1>3 DEF n
  <2>2. Item(more, 1) = x
    BY <1>1, <2>1
  <2>3. L(more, 2 * n + 1) = Append(<< >>, x)
    <3>1. L(more, 1) = [i \in 1..1 |-> x]
      BY <2>2
    <3>2. [i \in 1..1 |-> x] = <<x>>
      OBVIOUS
    <3>. QED
      BY <2>1, <3>1, <3>2
  <2>4. FlattenSeq(Append(<< >>, x)) = << >> \o x
    <3>1. << >> \in Seq(Seq(S))
      OBVIOUS
    <3>. QED
      BY <3>1, FlattenAppend, FlattenEmpty
  <2>5. << >> \o x = x
    OBVIOUS
  <2>. QED
    BY <1>2, <1>3, <2>3, <2>4, <2>5 DEF more
<1>4. CASE items # << >>
  <2>. DEFINE l == L(items, 2 * n - 1)
  <2>1. n \in Nat \ {0}
    BY <1>4 DEF n
  <2>2. ASSUME NEW i \in 1..(2 * n - 1) PROVE Item(items, i) \in Seq(S) /\ Item(more, i) = Item(items, i)
    <3>1. CASE i % 2 = 0
      BY <3>1
    <3>2. CASE i % 2 # 0
      <4>1. (i + 1) \div 2 \in 1..n
        BY <2>1, <3>2
      <4>. QED
        BY <1>1, <3>2, <4>1
    <3>. QED
      BY <3>1, <3>2
  <2>3. Item(more, 2 * n) = <<Comma>>
    <3>1. (2 * n) % 2 = 0
      BY <2>1
    <3>. QED
      BY <3>1
  <2>4. Item(more, 2 * n + 1) = x
    <3>1. (2 * n + 1) % 2 # 0 /\ (2 * n + 1 + 1) \div 2 = n + 1
      BY <2>1
    <3>. QED
      BY <1>1, <3>1
  <2>. HIDE DEF Item
  <2>5. l \in Seq(Seq(S)) /\ Len(l) = 2 * n - 1 /\ \A i \in 1..(2 * n - 1) : l[i] = Item(items, i)
    <3>. DEFINE m == 2 * n - 1
    <3>1. m \in Nat
      BY <2>1
    <3>. HIDE DEF m
    <3>2. L(items, m) \in [1..m -> Seq(S)]
      BY <2>2 DEF m
    <3>3. L(items, m) \in Seq(Seq(S)) /\ Len(L(items, m)) = m
      BY <3>1, <3>2
    <3>4. \A i \in 1..m : L(items, m)[i] = Item(items, i)
      OBVIOUS
    <3>. QED
      BY <3>3, <3>4 DEF m
  <2>. DEFINE whole == L(more, 2 * n + 1)
              glued == Append(Append(l, <<Comma>>), x)
  <2>6. <<Comma>> \in Seq(S)
    OBVIOUS
  <2>. HIDE DEF l
  <2>7. glued \in Seq(Seq(S)) /\ Len(glued) = 2 * n + 1 /\ glued[2 * n] = <<Comma>> /\ glued[2 * n + 1] = x
        /\ \A i \in 1..(2 * n - 1) : glued[i] = l[i]
    BY <2>1, <2>5, <2>6
  <2>8. \A i \in 1..(2 * n + 1) : glued[i] = Item(more, i)
    <3>. HIDE DEF glued
    <3>1. \A i \in 1..(2 * n + 1) : i \in 1..(2 * n - 1) \/ i = 2 * n \/ i = 2 * n + 1
      BY <2>1
    <3>. QED
      BY <2>2, <2>3, <2>4, <2>5, <2>7, <3>1
  <2>9. whole = glued
    <3>. HIDE DEF glued
    <3>1. glued = [i \in 1..(2 * n + 1) |-> glued[i]]
      BY <2>1, <2>7
    <3>. QED
      BY <2>8, <3>1
  <2>10. FlattenSeq(Append(l, <<Comma>>)) = FlattenSeq(l) \o <<Comma>> /\ Append(l, <<Comma>>) \in Seq(Seq(S))
    <3>. DEFINE comma == <<Comma>>
    <3>1. comma \in Seq(S) /\ l \in Seq(Seq(S))
      BY <2>5, <2>6
    <3>. HIDE DEF comma
    <3>2. Append(l, comma) \in Seq(Seq(S))
      BY <3>1
    <3>3. FlattenSeq(Append(l, comma)) = FlattenSeq(l) \o comma
      BY <3>1, FlattenAppend
    <3>. QED
      BY <3>2, <3>3 DEF comma
  <2>11. FlattenSeq(glued) = FlattenSeq(Append(l, <<Comma>>)) \o x
    BY <2>10, FlattenAppend
  <2>. HIDE DEF whole, glued
  <2>. QED
    BY <1>2, <1>4, <2>9, <2>10, <2>11 DEF l, whole, more
<1>. QED
  BY <1>3, <1>4 DEF more

\* The commas between the items of a list are dropped.
LEMMA PlainListed ==
  ASSUME NEW S, Comma \in S, NEW items \in Seq(Seq(S))
  PROVE  Listed(items) \in Seq(S) /\ Plain(Listed(items)) = Plain(FlattenSeq(items))
<1>. DEFINE B(k) == SubSeq(items, 1, k)
            P == {k \in 0..Len(items) : Listed(B(k)) \in Seq(S) /\ Plain(Listed(B(k))) = Plain(FlattenSeq(B(k)))}
<1>1. /\ Len(items) \in Nat /\ B(0) = << >> /\ B(Len(items)) = items
      /\ \A k \in 0..Len(items) : B(k) \in Seq(Seq(S))
      /\ \A k \in 1..Len(items) : items[k] \in Seq(S) /\ B(k) = Append(B(k - 1), items[k])
  BY PrefixGrows
<1>. HIDE DEF B
<1>2. Listed(<< >>) = << >>
  <2>1. Len(<< >>) = 0 /\ 2 * 0 - 1 = -1 /\ 1..(-1) = {}
    OBVIOUS
  <2>2. \A e : [i \in {} |-> e] = << >>
    OBVIOUS
  <2>3. [i \in 1..(2 * Len(<< >>) - 1) |-> IF i % 2 = 0 THEN <<Comma>> ELSE << >>[(i + 1) \div 2]] = << >>
    BY <2>1
  <2>. QED
    BY <2>3, FlattenEmpty DEF Listed
<1>3. 0 \in P
  <2>1. << >> \in Seq(S) /\ 0 \in 0..Len(items)
    BY <1>1
  <2>. QED
    BY <1>1, <1>2, <2>1, FlattenEmpty
<1>4. ASSUME NEW k \in 1..Len(items), k - 1 \in P PROVE k \in P
  <2>. DEFINE c == B(k - 1)
              x == items[k]
  <2>0. k \in 0..Len(items) /\ k - 1 \in 0..Len(items)
    BY <1>1
  <2>1. c \in Seq(Seq(S)) /\ x \in Seq(S) /\ B(k) = Append(c, x)
    BY <1>1, <2>0
  <2>2. Listed(c) \in Seq(S) /\ Plain(Listed(c)) = Plain(FlattenSeq(c))
    BY <1>4
  <2>. HIDE DEF c, x
  <2>3. Listed(Append(c, x)) = IF c = << >> THEN x ELSE (Listed(c) \o <<Comma>>) \o x
    BY <2>1, ListedAppend
  <2>4. FlattenSeq(Append(c, x)) = FlattenSeq(c) \o x /\ FlattenSeq(c) \in Seq(S)
    BY <2>1, FlattenAppend, FlattenTyped
  <2>5. Plain(FlattenSeq(Append(c, x))) = Plain(FlattenSeq(c)) \o Plain(x)
    <3>. DEFINE u == FlattenSeq(c)
    <3>. HIDE DEF u
    <3>1. u \in Seq(S)
      BY <2>4 DEF u
    <3>2. Plain(u \o x) = Plain(u) \o Plain(x)
      BY <2>1, <3>1, PlainConcat
    <3>. QED
      BY <2>4, <3>2 DEF u
  <2>6. CASE c = << >>
    <3>1. Plain(x) \in Seq(S)
      BY <2>1, PlainTyped
    <3>2. << >> \o Plain(x) = Plain(x)
      BY <3>1
    <3>3. Plain(FlattenSeq(Append(c, x))) = Plain(x)
      BY <2>5, <2>6, <3>2, FlattenEmpty, PlainEmpty
    <3>. QED
      BY <2>0, <2>1, <2>3, <2>6, <3>3
  <2>7. CASE c # << >>
    <3>. DEFINE l == Listed(c)
                lc == Append(l, Comma)
    <3>1. l \in Seq(S) /\ lc \in Seq(S) /\ l \o <<Comma>> = lc
      BY <2>2
    <3>. HIDE DEF l
    <3>2. Plain(lc) = Plain(l)
      BY <3>1, PlainAppend DEF Dropped
    <3>. HIDE DEF lc
    <3>3. Plain(lc \o x) = Plain(lc) \o Plain(x) /\ lc \o x \in Seq(S)
      <4>1. lc \in Seq(S) /\ x \in Seq(S)
        BY <2>1, <3>1
      <4>. QED
        BY <4>1, PlainConcat, ConcatProperties
    <3>4. Listed(Append(c, x)) = lc \o x
      BY <2>3, <2>7, <3>1 DEF l
    <3>. QED
      BY <2>0, <2>1, <2>2, <2>5, <3>2, <3>3, <3>4 DEF l
  <2>. QED
    BY <2>6, <2>7
<1>5. Len(items) \in P
  <2>. HIDE DEF P
  <2>1. Len(items) \in Nat
    BY <1>1
  <2>2. 0..Len(items) \subseteq P
    BY <1>3, <1>4, <2>1, InductionTo
  <2>. QED
    BY <2>1, <2>2
<1>. QED
  BY <1>1, <1>5

\* An atom more in the last part is an atom more.
LEMMA FlattenExtended ==
  ASSUME NEW S, NEW ps \in PartsList(S), ps # << >>, NEW x \in S
  PROVE  FlattenSeq(Extended(ps, x)) = FlattenSeq(ps) \o <<x>>
<1>. DEFINE n == Len(ps)
            front == SubSeq(ps, 1, n - 1)
            last == ps[n]
            longer == Append(last, x)
<1>1. ps \in Seq(Seq(S)) /\ n \in 1..n /\ n \in Nat
  BY DEF PartsList
<1>2. front \in Seq(Seq(S)) /\ ps = Append(front, last) /\ Len(front) = n - 1 /\ \A i \in 1..(n - 1) : front[i] = ps[i]
  <2>1. ps = SubSeq(ps, 1, n) /\ SubSeq(ps, 1, n) = Append(SubSeq(ps, 1, n - 1), ps[n])
    BY <1>1, PrefixGrows
  <2>2. front \in Seq(Seq(S)) /\ Len(front) = n - 1
    <3>1. n - 1 \in 0..Len(ps)
      BY <1>1
    <3>. QED
      BY <1>1, <3>1, PrefixGrows
  <2>3. \A i \in 1..(n - 1) : front[i] = ps[i]
    BY <1>1
  <2>. QED
    BY <2>1, <2>2, <2>3
<1>3. last \in Seq(S) /\ longer \in Seq(S)
  BY <1>1
<1>4. /\ Extended(ps, x) \in Seq(Seq(S)) /\ Len(Extended(ps, x)) = n /\ Extended(ps, x)[n] = longer
      /\ \A i \in 1..(n - 1) : Extended(ps, x)[i] = ps[i]
  <2>1. Extended(ps, x) \in Seq(Seq(S))
    <3>1. Extended(ps, x) \in PartsList(S)
      BY ExtendedTyped
    <3>. QED
      BY <3>1 DEF PartsList
  <2>. QED
    BY <2>1, ExtendedTyped
<1>. HIDE DEF n, front, last, longer
<1>5. Extended(ps, x) = Append(front, longer)
  <2>1. Append(front, longer) \in Seq(Seq(S)) /\ Len(Append(front, longer)) = n
        /\ Append(front, longer)[n] = longer /\ \A i \in 1..(n - 1) : Append(front, longer)[i] = front[i]
    BY <1>1, <1>2, <1>3
  <2>2. \A i \in 1..n : i = n \/ i \in 1..(n - 1)
    BY <1>1
  <2>. DEFINE e == Extended(ps, x)
              f == Append(front, longer)
  <2>. HIDE DEF e, f
  <2>3. e \in Seq(Seq(S)) /\ f \in Seq(Seq(S)) /\ Len(e) = n /\ Len(f) = n
    BY <1>4, <2>1 DEF e, f
  <2>4. \A i \in 1..n : e[i] = f[i]
    BY <1>2, <1>4, <2>1, <2>2 DEF e, f
  <2>5. e = f
    BY <2>3, <2>4, SeqEqual
  <2>. QED
    BY <2>5 DEF e, f
<1>6. FlattenSeq(ps) = FlattenSeq(front) \o last /\ FlattenSeq(Append(front, longer)) = FlattenSeq(front) \o longer
  BY <1>2, <1>3, FlattenAppend
<1>7. FlattenSeq(front) \in Seq(S)
  BY <1>2, FlattenTyped
<1>. DEFINE u == FlattenSeq(front)
<1>. HIDE DEF u
<1>8. u \o longer = (u \o last) \o <<x>>
  BY <1>3, <1>7 DEF u, longer
<1>. QED
  BY <1>5, <1>6, <1>8 DEF u

\* The parts of an insert have all its atoms but the commas.
LEMMA PlainParts ==
  ASSUME NEW S, NEW a \in Seq(S)
  PROVE  Plain(FlattenSeq(Parts(a))) = Plain(a)
<1>1. PICK f \in [0..Len(a) -> PartsList(S)] :
        Parts(a) = f[Len(a)] /\ f[0] = << >> /\ \A k \in 1..Len(a) : f[k] = MoreParts(a, k, f[k - 1])
  BY PartsRecursion
<1>. DEFINE A(k) == SubSeq(a, 1, k)
            P == {k \in 0..Len(a) : /\ Plain(FlattenSeq(f[k])) = Plain(A(k))
                                    /\ k > 0 /\ a[k] # Comma => f[k] # << >>}
<1>2. /\ Len(a) \in Nat /\ A(0) = << >> /\ A(Len(a)) = a
      /\ \A k \in 0..Len(a) : A(k) \in Seq(S)
      /\ \A k \in 1..Len(a) : a[k] \in S /\ A(k) = Append(A(k - 1), a[k])
  BY PrefixGrows
<1>. HIDE DEF A
<1>3. 0 \in P
  BY <1>1, <1>2, FlattenEmpty
<1>4. ASSUME NEW k \in 1..Len(a), k - 1 \in P PROVE k \in P
  <2>. DEFINE c == A(k - 1)
              x == a[k]
              ps == f[k - 1]
  <2>1. k \in 0..Len(a) /\ k - 1 \in 0..Len(a) /\ k > 0
    BY <1>2
  <2>2. c \in Seq(S) /\ x \in S /\ A(k) = Append(c, x) /\ ps \in PartsList(S)
    BY <1>2, <2>1
  <2>3. Plain(FlattenSeq(ps)) = Plain(c) /\ (k # 1 /\ a[k - 1] # Comma => ps # << >>)
    BY <1>4, <2>1
  <2>4. f[k] = MoreParts(a, k, ps)
    BY <1>1
  <2>. HIDE DEF c, ps
  <2>5. ps \in Seq(Seq(S)) /\ FlattenSeq(ps) \in Seq(S)
    <3>1. ps \in Seq(Seq(S))
      BY <2>2 DEF PartsList
    <3>. QED
      BY <3>1, FlattenTyped
  <2>6. CASE x = Comma
    <3>1. f[k] = ps
      BY <2>4, <2>6 DEF MoreParts
    <3>2. Plain(Append(c, x)) = Plain(c)
      BY <2>2, <2>6, PlainAppend DEF Dropped
    <3>. QED
      BY <2>1, <2>2, <2>3, <2>6, <3>1, <3>2
  <2>7. CASE x # Comma
    <3>1. FlattenSeq(f[k]) = FlattenSeq(ps) \o <<x>> /\ f[k] # << >>
      <4>1. CASE k = 1 \/ a[k - 1] = Comma
        <5>. DEFINE single == <<x>>
        <5>1. single \in Seq(S) /\ f[k] = Append(ps, single)
          BY <2>2, <2>4, <2>7, <4>1 DEF MoreParts
        <5>. HIDE DEF single
        <5>2. FlattenSeq(Append(ps, single)) = FlattenSeq(ps) \o single
          BY <2>5, <5>1, FlattenAppend
        <5>3. Append(ps, single) # << >>
          <6>1. ps \in Seq(Seq(S)) /\ single \in Seq(S)
            BY <2>5, <5>1
          <6>. QED
            BY <6>1, AppendProperties
        <5>. QED
          BY <5>1, <5>2, <5>3 DEF single
      <4>2. CASE ~ (k = 1 \/ a[k - 1] = Comma)
        <5>1. f[k] = Extended(ps, x)
          BY <2>4, <2>7, <4>2 DEF MoreParts
        <5>2. ps # << >>
          BY <2>3, <4>2
        <5>3. FlattenSeq(Extended(ps, x)) = FlattenSeq(ps) \o <<x>>
          BY <2>2, <5>2, FlattenExtended
        <5>4. Extended(ps, x) # << >>
          <6>1. Len(Extended(ps, x)) = Len(ps) /\ Len(ps) \in 1..Len(ps)
            BY <2>2, <5>2, ExtendedTyped
          <6>. QED
            BY <6>1
        <5>. QED
          BY <5>1, <5>3, <5>4
      <4>. QED
        BY <4>1, <4>2
    <3>. DEFINE u == FlattenSeq(ps)
                v == <<x>>
    <3>2. u \in Seq(S) /\ v \in Seq(S) /\ Append(c, x) = c \o v
      BY <2>2, <2>5
    <3>. HIDE DEF u, v, x
    <3>3. Plain(u \o v) = Plain(u) \o Plain(v) /\ Plain(c \o v) = Plain(c) \o Plain(v)
      BY <2>2, <3>2, PlainConcat
    <3>4. Plain(FlattenSeq(f[k])) = Plain(A(k))
      BY <2>2, <2>3, <3>1, <3>2, <3>3 DEF u, v
    <3>. QED
      BY <2>1, <3>1, <3>4
  <2>. QED
    BY <2>6, <2>7
<1>5. Len(a) \in P
  <2>. HIDE DEF P
  <2>1. Len(a) \in Nat
    BY <1>2
  <2>2. 0..Len(a) \subseteq P
    BY <1>3, <1>4, <2>1, InductionTo
  <2>. QED
    BY <2>1, <2>2
<1>. QED
  BY <1>1, <1>2, <1>5

\* Sequences that agree, item by item, but for commas and optional words.
LEMMA FlattenSame ==
  ASSUME NEW S, NEW s \in Seq(Seq(S)), NEW t \in Seq(Seq(S)), Len(s) = Len(t),
         \A k \in 1..Len(s) : Plain(s[k]) = Plain(t[k])
  PROVE  Plain(FlattenSeq(s)) = Plain(FlattenSeq(t))
<1>. DEFINE n == Len(s)
            A(k) == SubSeq(s, 1, k)
            B(k) == SubSeq(t, 1, k)
            P == {k \in 0..n : Plain(FlattenSeq(A(k))) = Plain(FlattenSeq(B(k)))}
<1>1. n \in Nat /\ n = Len(t)
  OBVIOUS
<1>2. /\ A(0) = << >> /\ A(n) = s /\ \A k \in 0..n : A(k) \in Seq(Seq(S))
      /\ \A k \in 1..n : s[k] \in Seq(S) /\ A(k) = Append(A(k - 1), s[k])
  BY PrefixGrows
<1>3. /\ B(0) = << >> /\ B(n) = t /\ \A k \in 0..n : B(k) \in Seq(Seq(S))
      /\ \A k \in 1..n : t[k] \in Seq(S) /\ B(k) = Append(B(k - 1), t[k])
  BY <1>1, PrefixGrows
<1>4. \A k \in 1..n : Plain(s[k]) = Plain(t[k])
  OBVIOUS
<1>. HIDE DEF n, A, B
<1>5. 0 \in P
  BY <1>1, <1>2, <1>3
<1>6. ASSUME NEW k \in 1..n, k - 1 \in P PROVE k \in P
  <2>. DEFINE a == A(k - 1)
              b == B(k - 1)
              x == s[k]
              y == t[k]
  <2>1. k \in 0..n /\ k - 1 \in 0..n
    BY <1>1
  <2>2. a \in Seq(Seq(S)) /\ x \in Seq(S) /\ A(k) = Append(a, x)
    BY <1>2, <2>1
  <2>3. b \in Seq(Seq(S)) /\ y \in Seq(S) /\ B(k) = Append(b, y)
    BY <1>3, <2>1
  <2>4. Plain(FlattenSeq(a)) = Plain(FlattenSeq(b)) /\ Plain(x) = Plain(y)
    BY <1>4, <1>6
  <2>. HIDE DEF a, b, x, y
  <2>5. Plain(FlattenSeq(Append(a, x))) = Plain(FlattenSeq(a)) \o Plain(x)
    <3>. DEFINE u == FlattenSeq(a)
    <3>1. FlattenSeq(Append(a, x)) = u \o x /\ u \in Seq(S)
      BY <2>2, FlattenAppend, FlattenTyped
    <3>. HIDE DEF u
    <3>2. Plain(u \o x) = Plain(u) \o Plain(x)
      BY <2>2, <3>1, PlainConcat
    <3>. QED
      BY <3>1, <3>2 DEF u
  <2>6. Plain(FlattenSeq(Append(b, y))) = Plain(FlattenSeq(b)) \o Plain(y)
    <3>. DEFINE u == FlattenSeq(b)
    <3>1. FlattenSeq(Append(b, y)) = u \o y /\ u \in Seq(S)
      BY <2>3, FlattenAppend, FlattenTyped
    <3>. HIDE DEF u
    <3>2. Plain(u \o y) = Plain(u) \o Plain(y)
      BY <2>3, <3>1, PlainConcat
    <3>. QED
      BY <3>1, <3>2 DEF u
  <2>. QED
    BY <2>1, <2>2, <2>3, <2>4, <2>5, <2>6
<1>7. n \in P
  <2>. HIDE DEF P
  <2>1. 0..n \subseteq P
    BY <1>1, <1>5, <1>6, InductionTo
  <2>. QED
    BY <1>1, <2>1
<1>. QED
  BY <1>2, <1>3, <1>7

\* These are sequences over S (unexpanded, so that a leaf sees only those it needs).
AreSeqs(S, a, b, c, d, e, f) ==
  a \in Seq(S) /\ b \in Seq(S) /\ c \in Seq(S) /\ d \in Seq(S) /\ e \in Seq(S) /\ f \in Seq(S)

\* The six pieces of an update ...
LEMMA SixConcatenated ==
  ASSUME NEW S, NEW a, NEW c, NEW d, NEW e, NEW f, AreSeqs(S, a, a, c, d, e, f)
  PROVE  a \o (((c \o d) \o e) \o f) = (((a \o c) \o d) \o e) \o f
<1>. DEFINE cd == c \o d
            cde == cd \o e
            ac == a \o c
            acd == ac \o d
<1>1. cd \in Seq(S) /\ a \in Seq(S) /\ e \in Seq(S) /\ f \in Seq(S)
  BY DEF AreSeqs
<1>2. a \o cd = acd
  <2>1. a \in Seq(S) /\ c \in Seq(S) /\ d \in Seq(S)
    BY DEF AreSeqs
  <2>. QED
    BY <2>1, Regroup
<1>. HIDE DEF cd, acd
<1>3. cde \in Seq(S)
  BY <1>1
<1>4. a \o cde = (a \o cd) \o e
  BY <1>1, Regroup
<1>. HIDE DEF cde
<1>5. a \o (cde \o f) = (a \o cde) \o f
  BY <1>1, <1>3, Regroup
<1>6. a \o (cde \o f) = (acd \o e) \o f
  BY <1>2, <1>4, <1>5
<1>. QED
  BY <1>6 DEF cd, cde, acd

\* ... and Plain of each.
LEMMA PlainOfSix ==
  ASSUME NEW S, NEW a, NEW b, NEW c, NEW d, NEW e, NEW f, AreSeqs(S, a, b, c, d, e, f)
  PROVE  Plain((a \o b) \o (((c \o d) \o e) \o f)) =
           ((((Plain(a) \o Plain(b)) \o Plain(c)) \o Plain(d)) \o Plain(e)) \o Plain(f)
<1>. DEFINE ab == a \o b
            cd == c \o d
            cde == cd \o e
            rest == cde \o f
            A == Plain(ab)
            C == Plain(c)
            D == Plain(d)
            E == Plain(e)
            F == Plain(f)
<1>1. a \in Seq(S) /\ b \in Seq(S)
  BY DEF AreSeqs
<1>2. c \in Seq(S) /\ d \in Seq(S)
  BY DEF AreSeqs
<1>3. e \in Seq(S) /\ f \in Seq(S)
  BY DEF AreSeqs
<1>4. A = Plain(a) \o Plain(b) /\ ab \in Seq(S)
  BY <1>1, PlainConcat
<1>5. Plain(cd) = C \o D /\ cd \in Seq(S)
  BY <1>2, PlainConcat
<1>. HIDE DEF ab, cd
<1>6. Plain(cde) = Plain(cd) \o E /\ cde \in Seq(S)
  <2>1. cd \in Seq(S) /\ e \in Seq(S)
    BY <1>3, <1>5
  <2>2. cde \in Seq(S)
    BY <2>1
  <2>. QED
    BY <2>1, <2>2, PlainConcat
<1>. HIDE DEF cde
<1>7. Plain(rest) = Plain(cde) \o F /\ rest \in Seq(S)
  <2>1. cde \in Seq(S) /\ f \in Seq(S)
    BY <1>3, <1>6
  <2>2. rest \in Seq(S)
    BY <2>1
  <2>. QED
    BY <2>1, <2>2, PlainConcat
<1>. HIDE DEF rest
<1>8. Plain(ab \o rest) = A \o Plain(rest)
  BY <1>4, <1>7, PlainConcat
<1>9. A \in Seq(S) /\ C \in Seq(S) /\ D \in Seq(S) /\ E \in Seq(S) /\ F \in Seq(S)
  BY <1>2, <1>3, <1>4, PlainTyped
<1>10. A \o (((C \o D) \o E) \o F) = (((A \o C) \o D) \o E) \o F
  <2>. HIDE DEF A, C, D, E, F
  <2>1. AreSeqs(S, A, A, C, D, E, F)
    BY <1>9 DEF AreSeqs
  <2>. QED
    BY <2>1, SixConcatenated
<1>11. Plain(ab \o rest) = A \o (((C \o D) \o E) \o F)
  BY <1>5, <1>6, <1>7, <1>8
<1>. QED
  BY <1>4, <1>10, <1>11 DEF ab, cd, cde, rest

-----------------------------------------------------------------------------
(* What of a text is written, atom by atom.                                *)

\* The atoms of texts and of grammar, and the first k tokens of a text as they are compared.
AllAtoms == AtomsUsed \cup {LBrace, RBrace, Equals, Colon, Comma}
              \cup {"read", "insert", "update", "delete", "set", "where", "order", "desc", "returning"}
Str == Seq(AllAtoms)
Written(toks, k) == Plain(FlattenSeq(SubSeq(toks, 1, k)))

\* Every mark and keyword is a text over these atoms, ...
LEMMA MarksInStr ==
  /\ <<LBrace>> \in Str /\ <<RBrace>> \in Str /\ <<Equals>> \in Str /\ <<Colon>> \in Str /\ Comma \in AllAtoms
  /\ <<"insert">> \in Str /\ <<"update">> \in Str /\ <<"delete">> \in Str /\ <<"set">> \in Str
  /\ <<"where">> \in Str /\ <<"returning">> \in Str /\ <<"read">> \in Str /\ << >> \in Str
<1>1. /\ LBrace \in AllAtoms /\ RBrace \in AllAtoms /\ Equals \in AllAtoms /\ Colon \in AllAtoms /\ Comma \in AllAtoms
      /\ "insert" \in AllAtoms /\ "update" \in AllAtoms /\ "delete" \in AllAtoms /\ "set" \in AllAtoms
      /\ "where" \in AllAtoms /\ "returning" \in AllAtoms /\ "read" \in AllAtoms
  BY DEF AllAtoms
<1>2. \A x \in AllAtoms : <<x>> \in Str
  BY DEF Str
<1>3. << >> \in Str
  BY DEF Str
<1>. QED
  BY <1>1, <1>2, <1>3

\* ... so is every token.
LEMMA TokensInStr == Token \subseteq Str /\ Seq(Token) \subseteq Seq(Str)
<1>1. AtomsUsed \subseteq AllAtoms
  BY DEF AllAtoms
<1>2. Token \subseteq Str
  <2>1. ASSUME NEW A, NEW B, A \subseteq B PROVE Seq(A) \subseteq Seq(B)
    BY <2>1
  <2>. QED
    BY <1>1, <2>1 DEF Token, Str
<1>3. Seq(Token) \subseteq Seq(Str)
  <2>1. ASSUME NEW A, NEW B, A \subseteq B PROVE Seq(A) \subseteq Seq(B)
    BY <2>1
  <2>. QED
    BY <1>2, <2>1
<1>. QED
  BY <1>2, <1>3

\* Two texts put together, ...
LEMMA StrPlain ==
  ASSUME NEW a \in Str, NEW b \in Str
  PROVE  Plain(a \o b) = Plain(a) \o Plain(b) /\ a \o b \in Str /\ Plain(a) \in Str
<1>1. a \in Seq(AllAtoms) /\ b \in Seq(AllAtoms)
  BY DEF Str
<1>2. Plain(a \o b) = Plain(a) \o Plain(b)
  BY <1>1, PlainConcat
<1>3. Plain(a) \in Seq(AllAtoms) /\ a \o b \in Seq(AllAtoms)
  BY <1>1, PlainTyped
<1>. QED
  BY <1>2, <1>3 DEF Str

\* ... three of them, ...
LEMMA StrRegroup ==
  ASSUME NEW a \in Str, NEW b \in Str, NEW c \in Str
  PROVE  a \o (b \o c) = (a \o b) \o c
BY Regroup DEF Str

\* ... one and nothing, ...
LEMMA StrUnit ==
  ASSUME NEW a \in Str
  PROVE  a \o << >> = a /\ << >> \o a = a
BY DEF Str

\* ... and lists of texts.
LEMMA StrFlatten ==
  ASSUME NEW s \in Seq(Str), NEW t \in Seq(Str)
  PROVE  FlattenSeq(s) \in Str /\ FlattenSeq(s \o t) = FlattenSeq(s) \o FlattenSeq(t)
BY FlattenTyped, FlattenConcat DEF Str

\* The first m tokens have what the first k have, and what the others have.
LEMMA WrittenGrows ==
  ASSUME NEW toks \in Seq(Str), NEW k \in 0..Len(toks), NEW m \in k..Len(toks)
  PROVE  /\ Written(toks, k) \in Str /\ SubSeq(toks, k + 1, m) \in Seq(Str)
         /\ Written(toks, m) = Written(toks, k) \o Plain(FlattenSeq(SubSeq(toks, k + 1, m)))
<1>. DEFINE before == SubSeq(toks, 1, k)
            after == SubSeq(toks, k + 1, m)
            whole == SubSeq(toks, 1, m)
<1>1. before \o after = whole
  <2>1. 1 \in 1..(Len(toks) + 1) /\ k \in (1 - 1)..Len(toks) /\ m \in k..Len(toks)
    OBVIOUS
  <2>. QED
    BY <2>1, ConcatAdjacentSubSeq
<1>2. before \in Seq(Str) /\ after \in Seq(Str)
  OBVIOUS
<1>. HIDE DEF before, after, whole
<1>3. FlattenSeq(whole) = FlattenSeq(before) \o FlattenSeq(after) /\ FlattenSeq(before) \in Str /\ FlattenSeq(after) \in Str
  BY <1>1, <1>2, StrFlatten
<1>. DEFINE u == FlattenSeq(before)
            v == FlattenSeq(after)
<1>4. u \in Str /\ v \in Str /\ FlattenSeq(whole) = u \o v
  BY <1>3
<1>. HIDE DEF u, v
<1>5. Plain(u \o v) = Plain(u) \o Plain(v) /\ Plain(u) \in Str
  BY <1>4, StrPlain
<1>. QED
  BY <1>2, <1>4, <1>5 DEF Written, before, after, whole, u, v

\* Nothing is written before the first token, and everything at the last.
LEMMA WrittenEnds ==
  ASSUME NEW toks \in Seq(Str)
  PROVE  Written(toks, 0) = << >> /\ Written(toks, Len(toks)) = Plain(FlattenSeq(toks))
<1>1. SubSeq(toks, 1, 0) = << >> /\ SubSeq(toks, 1, Len(toks)) = toks
  OBVIOUS
<1>. QED
  BY <1>1, FlattenEmpty, PlainEmpty DEF Written

\* A list of one, of one more, of three.
LEMMA FlattenOne ==
  ASSUME NEW a \in Str
  PROVE  FlattenSeq(<<a>>) = a
<1>1. << >> \in Seq(Str) /\ <<a>> = Append(<< >>, a)
  OBVIOUS
<1>2. FlattenSeq(Append(<< >>, a)) = FlattenSeq(<< >>) \o a
  BY <1>1, FlattenAppend DEF Str
<1>. QED
  BY <1>1, <1>2, FlattenEmpty, StrUnit

\* An item more.
LEMMA FlattenMore ==
  ASSUME NEW s \in Seq(Str), NEW a \in Str
  PROVE  FlattenSeq(Append(s, a)) = FlattenSeq(s) \o a /\ Append(s, a) \in Seq(Str)
BY FlattenAppend DEF Str

\* The three atoms, or lists of them, of a binding.
LEMMA FlattenThree ==
  ASSUME NEW a \in Str, NEW b \in Str, NEW c \in Str
  PROVE  FlattenSeq(<<a, b, c>>) = (a \o b) \o c
<1>1. <<a>> \in Seq(Str) /\ <<a, b>> = Append(<<a>>, b)
  OBVIOUS
<1>2. <<a, b>> \in Seq(Str) /\ <<a, b, c>> = Append(<<a, b>>, c)
  OBVIOUS
<1>3. FlattenSeq(<<a, b>>) = a \o b
  BY <1>1, FlattenMore, FlattenOne
<1>4. FlattenSeq(Append(<<a, b>>, c)) = FlattenSeq(<<a, b>>) \o c
  BY <1>2, FlattenMore
<1>. QED
  BY <1>2, <1>3, <1>4

\* A token more, three more (a binding), four more (a condition).
LEMMA OneMore ==
  ASSUME NEW toks \in Seq(Str), NEW k \in Nat, k + 1 <= Len(toks)
  PROVE  Written(toks, k + 1) = Written(toks, k) \o Plain(toks[k + 1]) /\ toks[k + 1] \in Str
<1>1. k \in 0..Len(toks) /\ k + 1 \in k..Len(toks) /\ toks[k + 1] \in Str
  OBVIOUS
<1>2. SubSeq(toks, k + 1, k + 1) = <<toks[k + 1]>>
  <2>. DEFINE u == SubSeq(toks, k + 1, k + 1)
              v == <<toks[k + 1]>>
  <2>1. u \in Seq(Str) /\ Len(u) = 1
    BY <1>1
  <2>2. u[1] = toks[k + 1]
    BY <1>1
  <2>3. v \in Seq(Str) /\ Len(v) = 1 /\ v[1] = toks[k + 1]
    BY <1>1
  <2>. HIDE DEF u, v
  <2>4. \A i \in 1..Len(u) : u[i] = v[i]
    <3>1. \A i \in 1..Len(u) : i = 1
      BY <2>1
    <3>. QED
      BY <2>2, <2>3, <3>1
  <2>5. u = v
    BY <2>1, <2>3, <2>4, SeqEqual
  <2>. QED
    BY <2>5 DEF u, v
<1>3. Written(toks, k + 1) = Written(toks, k) \o Plain(FlattenSeq(SubSeq(toks, k + 1, k + 1)))
  BY <1>1, WrittenGrows
<1>. QED
  BY <1>1, <1>2, <1>3, FlattenOne

\* Three tokens more: a binding.
LEMMA ThreeMore ==
  ASSUME NEW toks \in Seq(Str), NEW k \in Nat, k + 3 <= Len(toks)
  PROVE  /\ Written(toks, k + 3) = Written(toks, k) \o Plain((toks[k + 1] \o toks[k + 2]) \o toks[k + 3])
         /\ toks[k + 1] \in Str /\ toks[k + 2] \in Str /\ toks[k + 3] \in Str
<1>1. k \in 0..Len(toks) /\ k + 3 \in k..Len(toks) /\ toks[k + 1] \in Str /\ toks[k + 2] \in Str /\ toks[k + 3] \in Str
  OBVIOUS
<1>2. SubSeq(toks, k + 1, k + 3) = <<toks[k + 1], toks[k + 2], toks[k + 3]>>
  <2>. DEFINE u == SubSeq(toks, k + 1, k + 3)
              v == <<toks[k + 1], toks[k + 2], toks[k + 3]>>
  <2>1. u \in Seq(Str) /\ Len(u) = 3
    BY <1>1
  <2>2. u[1] = toks[k + 1] /\ u[2] = toks[k + 2] /\ u[3] = toks[k + 3]
    BY <1>1
  <2>3. v \in Seq(Str) /\ Len(v) = 3 /\ v[1] = toks[k + 1] /\ v[2] = toks[k + 2] /\ v[3] = toks[k + 3]
    BY <1>1
  <2>. HIDE DEF u, v
  <2>4. \A i \in 1..Len(u) : u[i] = v[i]
    <3>1. \A i \in 1..Len(u) : i = 1 \/ i = 2 \/ i = 3
      BY <2>1
    <3>. QED
      BY <2>2, <2>3, <3>1
  <2>5. u = v
    BY <2>1, <2>3, <2>4, SeqEqual
  <2>. QED
    BY <2>5 DEF u, v
<1>3. Written(toks, k + 3) = Written(toks, k) \o Plain(FlattenSeq(SubSeq(toks, k + 1, k + 3)))
  BY <1>1, WrittenGrows
<1>. DEFINE a == toks[k + 1]
            b == toks[k + 2]
            c == toks[k + 3]
<1>4. a \in Str /\ b \in Str /\ c \in Str
  BY <1>1
<1>. HIDE DEF a, b, c
<1>5. FlattenSeq(<<a, b, c>>) = (a \o b) \o c
  BY <1>4, FlattenThree
<1>. QED
  BY <1>1, <1>2, <1>3, <1>5 DEF a, b, c

\* Four tokens more: a condition.
LEMMA FourMore ==
  ASSUME NEW toks \in Seq(Str), NEW k \in Nat, k + 4 <= Len(toks)
  PROVE  /\ Written(toks, k + 4) = Written(toks, k) \o Plain(((toks[k + 1] \o toks[k + 2]) \o toks[k + 3]) \o toks[k + 4])
         /\ toks[k + 1] \in Str /\ toks[k + 2] \in Str /\ toks[k + 3] \in Str /\ toks[k + 4] \in Str
<1>. DEFINE a == toks[k + 1]
            b == toks[k + 2]
            c == toks[k + 3]
            d == toks[k + 4]
            abc == (a \o b) \o c
            w == Written(toks, k)
<1>1. Written(toks, k + 3) = w \o Plain(abc) /\ a \in Str /\ b \in Str /\ c \in Str
  BY ThreeMore
<1>2. Written(toks, k + 4) = Written(toks, k + 3) \o Plain(d) /\ d \in Str
  <2>1. k + 3 \in Nat /\ (k + 3) + 1 <= Len(toks) /\ (k + 3) + 1 = k + 4
    OBVIOUS
  <2>. DEFINE j == k + 3
  <2>2. j \in Nat /\ j + 1 <= Len(toks) /\ j + 1 = k + 4
    BY <2>1
  <2>. HIDE DEF j
  <2>3. Written(toks, j + 1) = Written(toks, j) \o Plain(toks[j + 1]) /\ toks[j + 1] \in Str
    BY <2>2, OneMore
  <2>. QED
    BY <2>2, <2>3 DEF j
<1>3. w \in Str
  <2>1. k \in 0..Len(toks) /\ Len(toks) \in k..Len(toks)
    OBVIOUS
  <2>. QED
    BY <2>1, WrittenGrows
<1>. HIDE DEF a, b, c, d, w
<1>4. abc \in Str
  BY <1>1, StrPlain
<1>. HIDE DEF abc
<1>5. Plain(abc \o d) = Plain(abc) \o Plain(d) /\ Plain(abc) \in Str /\ Plain(d) \in Str
  BY <1>2, <1>4, StrPlain
<1>. DEFINE u == Plain(abc)
            v == Plain(d)
<1>6. u \in Str /\ v \in Str
  BY <1>5
<1>. HIDE DEF u, v
<1>7. w \o (u \o v) = (w \o u) \o v
  BY <1>3, <1>6, StrRegroup
<1>. QED
  BY <1>1, <1>2, <1>5, <1>7 DEF a, b, c, d, abc, w, u, v

-----------------------------------------------------------------------------
(* What of a statement is written.                                         *)

\* The pieces of an update: its bindings, what it returns, and its text up to the bindings.
SetList(s) == FlattenSeq(Bindings(s, Equals))
Returned(s) == IF s.columns = << >> THEN << >> ELSE <<"returning">> \o Listed(s.columns)
UpdateHead(s) == ((Plain(<<"update">>) \o Plain(s.table)) \o Plain(<<"set">>)) \o Plain(SetList(s))

\* A binding or condition as text.
LEMMA AssignedInStr ==
  ASSUME NEW b \in Assigned, NEW is \in AllAtoms
  PROVE  b.column \in Str /\ b.rhs \in Str /\ (b.column \o <<is>>) \o b.rhs \in Str
<1>1. b.column \in Str /\ b.rhs \in Str
  BY TokensInStr DEF Assigned
<1>2. <<is>> \in Str
  BY DEF Str
<1>. DEFINE c == b.column
            r == b.rhs
<1>. HIDE DEF c, r
<1>3. c \in Str /\ r \in Str
  BY <1>1 DEF c, r
<1>4. c \o <<is>> \in Str
  BY <1>2, <1>3, StrPlain
<1>. DEFINE ci == c \o <<is>>
<1>. HIDE DEF ci
<1>5. ci \o r \in Str
  BY <1>3, <1>4, StrPlain DEF ci
<1>. QED
  BY <1>1, <1>5 DEF c, r, ci

\* The bindings of a statement as texts.
LEMMA BindingsTyped ==
  ASSUME NEW s \in Statements, NEW is \in AllAtoms
  PROVE  Bindings(s, is) \in Seq(Str) /\ Len(Bindings(s, is)) = Len(s.bindings) /\ FlattenSeq(Bindings(s, is)) \in Str
<1>1. s.bindings \in Seq(Assigned)
  BY DEF Statements
<1>. DEFINE n == Len(s.bindings)
            elem(i) == (s.bindings[i].column \o <<is>>) \o s.bindings[i].rhs
<1>2. n \in Nat /\ DOMAIN s.bindings = 1..n
  BY <1>1
<1>3. \A i \in 1..n : elem(i) \in Str
  <2>1. \A i \in 1..n : s.bindings[i] \in Assigned
    BY <1>1
  <2>. QED
    BY <2>1, AssignedInStr
<1>4. Bindings(s, is) = [i \in 1..n |-> elem(i)]
  BY <1>2 DEF Bindings
<1>. HIDE DEF n, elem
<1>5. [i \in 1..n |-> elem(i)] \in Seq(Str) /\ Len([i \in 1..n |-> elem(i)]) = n
  BY <1>2, <1>3
<1>6. Bindings(s, is) \in Seq(Str)
  BY <1>4, <1>5
<1>7. FlattenSeq(Bindings(s, is)) \in Str
  BY <1>6, StrFlatten
<1>. QED
  BY <1>4, <1>5, <1>7 DEF n

\* The condition of a statement as text.
LEMMA FilterTyped ==
  ASSUME NEW s \in Statements
  PROVE  /\ Filter(s) \in Str
         /\ s.where = << >> => Filter(s) = << >>
         /\ s.where # << >> => Filter(s) = ((<<"where">> \o s.where[1].column) \o <<Equals>>) \o s.where[1].rhs
<1>1. CASE s.where = << >>
  BY <1>1, MarksInStr DEF Filter
<1>2. CASE s.where # << >>
  <2>. DEFINE c == s.where[1].column
              r == s.where[1].rhs
              wc == <<"where">> \o c
              wce == wc \o <<Equals>>
  <2>1. s.where[1] \in Assigned
    BY <1>2 DEF Statements
  <2>2. c \in Str /\ r \in Str
    <3>. DEFINE b == s.where[1]
    <3>. HIDE DEF b
    <3>1. b \in Assigned /\ Equals \in AllAtoms
      BY <2>1 DEF b, AllAtoms
    <3>2. b.column \in Str /\ b.rhs \in Str
      BY <3>1, AssignedInStr
    <3>. QED
      BY <3>2 DEF b
  <2>3. Filter(s) = wce \o r
    BY <1>2 DEF Filter
  <2>. HIDE DEF c, r
  <2>4. <<"where">> \in Str /\ <<Equals>> \in Str
    BY MarksInStr
  <2>5. wc \in Str
    BY <2>2, <2>4, StrPlain
  <2>. HIDE DEF wc
  <2>6. wce \in Str
    BY <2>4, <2>5, StrPlain
  <2>. HIDE DEF wce
  <2>7. wce \o r \in Str
    BY <2>2, <2>6, StrPlain
  <2>. QED
    BY <1>2, <2>3, <2>7 DEF c, r, wc, wce
<1>. QED
  BY <1>1, <1>2

\* A list of columns as text.
LEMMA ListedInStr ==
  ASSUME NEW items \in Seq(Str)
  PROVE  Listed(items) \in Str /\ Plain(Listed(items)) = Plain(FlattenSeq(items))
BY PlainListed, MarksInStr DEF Str

\* The columns an update returns, as text.
LEMMA ReturnedTyped ==
  ASSUME NEW s \in Statements
  PROVE  Returned(s) \in Str /\ Plain(Returned(s)) = Plain(FlattenSeq(s.columns))
<1>1. s.columns \in Seq(Str)
  BY TokensInStr DEF Statements
<1>2. CASE s.columns = << >>
  BY <1>2, MarksInStr, FlattenEmpty DEF Returned
<1>3. CASE s.columns # << >>
  <2>. DEFINE l == Listed(s.columns)
  <2>1. l \in Str /\ Plain(l) = Plain(FlattenSeq(s.columns))
    BY <1>1, ListedInStr
  <2>. HIDE DEF l
  <2>2. <<"returning">> \in Str
    BY MarksInStr
  <2>3. Plain(<<"returning">> \o l) = Plain(<<"returning">>) \o Plain(l) /\ <<"returning">> \o l \in Str /\ Plain(l) \in Str
    BY <2>1, <2>2, StrPlain
  <2>4. Plain(<<"returning">>) = << >>
    <3>1. << >> \in Seq(AllAtoms) /\ "returning" \in AllAtoms /\ <<"returning">> = Append(<< >>, "returning")
      BY DEF AllAtoms
    <3>2. Plain(Append(<< >>, "returning")) = Plain(<< >>)
      BY <3>1, PlainAppend DEF Dropped
    <3>. QED
      BY <3>1, <3>2, PlainEmpty
  <2>5. Plain(<<"returning">>) \o Plain(l) = Plain(l)
    BY <2>3, <2>4, StrUnit
  <2>. QED
    BY <1>3, <2>1, <2>3, <2>5 DEF Returned, l
<1>. QED
  BY <1>2, <1>3

\* A binding more.
LEMMA BindingAdded ==
  ASSUME NEW s \in Statements, NEW b \in Assigned, NEW is \in AllAtoms, NEW t, t = [s EXCEPT !.bindings = Append(@, b)]
  PROVE  /\ t \in Statements /\ t.bindings # << >>
         /\ Bindings(t, is) = Append(Bindings(s, is), (b.column \o <<is>>) \o b.rhs)
         /\ t.verb = s.verb /\ t.table = s.table /\ t.columns = s.columns /\ t.where = s.where
<1>. DEFINE n == Len(s.bindings)
            more == Append(s.bindings, b)
            atoms == (b.column \o <<is>>) \o b.rhs
            u == Bindings(t, is)
            v == Append(Bindings(s, is), atoms)
<1>1. s.bindings \in Seq(Assigned) /\ n \in Nat /\ DOMAIN s.bindings = 1..n
  BY DEF Statements
<1>2. more \in Seq(Assigned) /\ Len(more) = n + 1 /\ more[n + 1] = b /\ more # << >> /\ DOMAIN more = 1..(n + 1)
      /\ \A i \in 1..n : more[i] = s.bindings[i]
  BY <1>1, AppendProperties
<1>3. /\ t \in Statements /\ t.bindings = more /\ t.verb = s.verb /\ t.table = s.table
      /\ t.columns = s.columns /\ t.where = s.where
  <2>. HIDE DEF more
  <2>1. t = [s EXCEPT !.bindings = more]
    BY DEF more
  <2>. QED
    BY <1>2, <2>1 DEF Statements
<1>4. u \in Seq(Str) /\ Len(u) = n + 1
  BY <1>2, <1>3, BindingsTyped
<1>5. atoms \in Str
  BY AssignedInStr
<1>6. Bindings(s, is) \in Seq(Str) /\ Len(Bindings(s, is)) = n
  BY BindingsTyped
<1>. DEFINE w == Bindings(s, is)
<1>7. v \in Seq(Str) /\ Len(v) = n + 1 /\ v[n + 1] = atoms /\ \A i \in 1..n : v[i] = w[i]
  <2>. HIDE DEF w, atoms
  <2>1. w \in Seq(Str) /\ Len(w) = n /\ atoms \in Str
    BY <1>5, <1>6 DEF w
  <2>2. Append(w, atoms) \in Seq(Str) /\ Len(Append(w, atoms)) = n + 1 /\ Append(w, atoms)[n + 1] = atoms
        /\ \A i \in 1..n : Append(w, atoms)[i] = w[i]
    BY <2>1, AppendProperties
  <2>. QED
    BY <2>2 DEF w
<1>8. \A i \in 1..n : w[i] = (s.bindings[i].column \o <<is>>) \o s.bindings[i].rhs
  BY <1>1 DEF Bindings
<1>9. \A i \in 1..(n + 1) : u[i] = (more[i].column \o <<is>>) \o more[i].rhs
  <2>. HIDE DEF more
  <2>. QED
    BY <1>2, <1>3 DEF Bindings
<1>10. \A i \in 1..(n + 1) : i = n + 1 \/ i \in 1..n
  BY <1>1
<1>11. n + 1 \in 1..(n + 1)
  BY <1>1
<1>. HIDE DEF n, more, u, v, w
<1>12. \A i \in 1..(n + 1) : u[i] = v[i]
  <2>. TAKE i \in 1..(n + 1)
  <2>1. CASE i = n + 1
    BY <2>1, <1>2, <1>7, <1>9, <1>11
  <2>2. CASE i \in 1..n
    BY <2>2, <1>2, <1>7, <1>8, <1>9
  <2>. QED
    BY <1>10, <2>1, <2>2
<1>13. u = v
  BY <1>4, <1>7, <1>12, SeqEqual
<1>. QED
  BY <1>2, <1>3, <1>13 DEF u, v

-----------------------------------------------------------------------------
(* The atoms of each write.                                                *)

\* An update is its head, its condition and what it returns; ...
LEMMA UpdateAtoms ==
  ASSUME NEW s \in Statements, s.verb = "update"
  PROVE  Plain(Atoms(s)) = (UpdateHead(s) \o Plain(Filter(s))) \o Plain(Returned(s))
<1>. DEFINE a == <<"update">>
            b == s.table
            c == <<"set">>
            d == SetList(s)
            e == Filter(s)
            f == Returned(s)
<1>1. Atoms(s) = (a \o b) \o (((c \o d) \o e) \o f)
  BY DEF Atoms, SetList, Returned
<1>2. s.table \in Str
  BY TokensInStr DEF Statements
<1>3. SetList(s) \in Str
  BY BindingsTyped DEF SetList, AllAtoms
<1>4. AreSeqs(AllAtoms, a, b, c, d, e, f)
  <2>1. a \in Str /\ b \in Str /\ c \in Str /\ d \in Str /\ e \in Str /\ f \in Str
    BY <1>2, <1>3, MarksInStr, FilterTyped, ReturnedTyped
  <2>. HIDE DEF a, b, c, d, e, f
  <2>. QED
    BY <2>1 DEF AreSeqs, Str
<1>5. UpdateHead(s) = ((Plain(a) \o Plain(b)) \o Plain(c)) \o Plain(d)
  BY DEF UpdateHead
<1>6. Plain((a \o b) \o (((c \o d) \o e) \o f)) =
        ((((Plain(a) \o Plain(b)) \o Plain(c)) \o Plain(d)) \o Plain(e)) \o Plain(f)
  <2>. HIDE DEF a, b, c, d, e, f
  <2>. QED
    BY <1>4, PlainOfSix
<1>. QED
  BY <1>1, <1>5, <1>6

\* ... an insert its table and bindings between braces; ...
LEMMA InsertAtoms ==
  ASSUME NEW s \in Statements, s.verb = "insert"
  PROVE  Plain(Atoms(s)) = (((Plain(<<"insert">>) \o Plain(s.table)) \o Plain(<<LBrace>>))
                             \o Plain(FlattenSeq(Bindings(s, Colon)))) \o Plain(<<RBrace>>)
<1>. DEFINE a == <<"insert">>
            b == s.table
            c == <<LBrace>>
            items == Bindings(s, Colon)
            d == Listed(items)
            e == <<RBrace>>
            f == << >>
            P == (((Plain(a) \o Plain(b)) \o Plain(c)) \o Plain(d)) \o Plain(e)
<1>1. Atoms(s) = (a \o b) \o ((c \o d) \o e)
  BY DEF Atoms
<1>2. s.table \in Str
  BY TokensInStr DEF Statements
<1>3. items \in Seq(Str)
  BY BindingsTyped DEF AllAtoms
<1>4. d \in Str /\ Plain(d) = Plain(FlattenSeq(items))
  <2>. HIDE DEF items
  <2>. QED
    BY <1>3, ListedInStr
<1>5. a \in Str /\ b \in Str /\ c \in Str /\ d \in Str /\ e \in Str /\ f \in Str
  BY <1>2, <1>4, MarksInStr
<1>. HIDE DEF a, b, c, d, e, f
<1>6. AreSeqs(AllAtoms, a, b, c, d, e, f)
  BY <1>5 DEF AreSeqs, Str
<1>7. Plain((a \o b) \o (((c \o d) \o e) \o f)) = P \o Plain(f)
  BY <1>6, PlainOfSix
<1>8. ((c \o d) \o e) \o f = (c \o d) \o e
  <2>1. c \o d \in Str
    BY <1>5, StrPlain
  <2>. DEFINE cd == c \o d
  <2>. HIDE DEF cd
  <2>2. cd \o e \in Str
    BY <1>5, <2>1, StrPlain DEF cd
  <2>. DEFINE cde == cd \o e
  <2>. HIDE DEF cde
  <2>3. cde \o << >> = cde
    BY <2>2, StrUnit DEF cde
  <2>. QED
    BY <2>3 DEF cd, cde, f
<1>9. P \o Plain(f) = P
  <2>1. Plain(a) \in Str /\ Plain(b) \in Str /\ Plain(c) \in Str /\ Plain(d) \in Str /\ Plain(e) \in Str
    BY <1>5, StrPlain
  <2>. DEFINE ab == Plain(a) \o Plain(b)
              abc == ab \o Plain(c)
              abcd == abc \o Plain(d)
              all == abcd \o Plain(e)
  <2>2. ab \in Str
    BY <2>1, StrPlain
  <2>. HIDE DEF ab
  <2>3. abc \in Str
    BY <2>1, <2>2, StrPlain
  <2>. HIDE DEF abc
  <2>4. abcd \in Str
    BY <2>1, <2>3, StrPlain
  <2>. HIDE DEF abcd
  <2>5. all \in Str
    BY <2>1, <2>4, StrPlain
  <2>. HIDE DEF all
  <2>6. all \o << >> = all
    BY <2>5, StrUnit
  <2>. QED
    BY <2>6, PlainEmpty DEF ab, abc, abcd, all, f
<1>10. Plain(Atoms(s)) = P
  BY <1>1, <1>7, <1>8, <1>9
<1>. QED
  BY <1>4, <1>10 DEF a, b, c, e, items

\* ... a delete its table and condition.
LEMMA DeleteAtoms ==
  ASSUME NEW s \in Statements, s.verb = "delete"
  PROVE  /\ Plain(Atoms(s)) = (Plain(<<"delete">>) \o Plain(s.table)) \o Plain(Filter(s))
         /\ Plain(<<"delete">>) \o Plain(s.table) \in Str /\ Plain(Filter(s)) \in Str
<1>. DEFINE a == <<"delete">>
            b == s.table
            c == Filter(s)
            ab == a \o b
<1>1. Atoms(s) = ab \o c
  BY DEF Atoms
<1>2. a \in Str /\ b \in Str /\ c \in Str
  BY TokensInStr, MarksInStr, FilterTyped DEF Statements
<1>. HIDE DEF a, b, c
<1>3. Plain(ab) = Plain(a) \o Plain(b) /\ ab \in Str /\ Plain(ab) \in Str
  <2>1. Plain(ab) = Plain(a) \o Plain(b) /\ ab \in Str
    BY <1>2, StrPlain
  <2>. HIDE DEF ab
  <2>2. Plain(ab) \in Str
    BY <2>1, StrPlain
  <2>. QED
    BY <2>1, <2>2
<1>. HIDE DEF ab
<1>4. Plain(ab \o c) = Plain(ab) \o Plain(c) /\ Plain(c) \in Str
  BY <1>2, <1>3, StrPlain
<1>. QED
  BY <1>1, <1>3, <1>4 DEF a, b, c

-----------------------------------------------------------------------------
(* An update, clause by clause.                                            *)

\* What an update has so far, to be compared with what is written.
UpdateSoFar(s) == (UpdateHead(s) \o Plain(Filter(s))) \o Plain(Returned(s))

\* These pieces are texts.
LEMMA HeadTyped ==
  ASSUME NEW s \in Statements
  PROVE  UpdateHead(s) \in Str /\ Plain(Filter(s)) \in Str /\ Plain(Returned(s)) \in Str
<1>. DEFINE a == Plain(<<"update">>)
            b == Plain(s.table)
            c == Plain(<<"set">>)
            d == Plain(SetList(s))
            ab == a \o b
            abc == ab \o c
<1>1. s.table \in Str /\ SetList(s) \in Str /\ <<"update">> \in Str /\ <<"set">> \in Str
  BY TokensInStr, BindingsTyped, MarksInStr DEF Statements, SetList, AllAtoms
<1>2. a \in Str /\ b \in Str /\ c \in Str /\ d \in Str
  <2>1. \A u \in Str : Plain(u) \in Str
    BY StrPlain
  <2>. QED
    BY <1>1, <2>1
<1>3. UpdateHead(s) = abc \o d
  BY DEF UpdateHead
<1>. HIDE DEF a, b, c, d
<1>4. ab \in Str
  BY <1>2, StrPlain
<1>. HIDE DEF ab
<1>5. abc \in Str
  BY <1>2, <1>4, StrPlain
<1>. HIDE DEF abc
<1>6. abc \o d \in Str
  BY <1>2, <1>5, StrPlain
<1>7. Plain(Filter(s)) \in Str /\ Plain(Returned(s)) \in Str
  <2>1. \A u \in Str : Plain(u) \in Str
    BY StrPlain
  <2>. QED
    BY <2>1, FilterTyped, ReturnedTyped
<1>. QED
  BY <1>3, <1>6, <1>7

\* The head of an update is its table and its bindings.
LEMMA SameHead ==
  ASSUME NEW s, NEW t, t.table = s.table, t.bindings = s.bindings
  PROVE  UpdateHead(t) = UpdateHead(s)
<1>1. Bindings(t, Equals) = Bindings(s, Equals)
  BY DEF Bindings
<1>. QED
  BY <1>1 DEF UpdateHead, SetList

\* The next three tokens of a text are a binding.
BindingNext(toks, k, s, b, t) ==
  /\ toks \in Seq(Str) /\ k \in Nat /\ k + 3 <= Len(toks) /\ toks[k + 2] = <<Equals>>
  /\ s \in Statements /\ b \in Assigned /\ b.column = toks[k + 1] /\ b.rhs = toks[k + 3]
  /\ t = [s EXCEPT !.bindings = Append(@, b)] /\ Written(toks, k) = UpdateHead(s)

\* A binding passed is a binding more of the statement.
LEMMA SetMore ==
  ASSUME NEW toks, NEW k, NEW s, NEW b, NEW t, BindingNext(toks, k, s, b, t)
  PROVE  Written(toks, k + 3) = UpdateHead(t)
<1>. USE DEF BindingNext
<1>. DEFINE x == (b.column \o <<Equals>>) \o b.rhs
            is == Equals
            l == SetList(s)
            p == (Plain(<<"update">>) \o Plain(s.table)) \o Plain(<<"set">>)
<1>1. is \in AllAtoms
  BY DEF AllAtoms
<1>2. /\ Bindings(t, is) = Append(Bindings(s, is), (b.column \o <<is>>) \o b.rhs) /\ t.table = s.table
  <2>. HIDE DEF is
  <2>. QED
    BY <1>1, BindingAdded
<1>3. x \in Str /\ Bindings(s, is) \in Seq(Str) /\ l \in Str
  BY <1>1, AssignedInStr, BindingsTyped DEF SetList
<1>4. SetList(t) = l \o x
  <2>. DEFINE bs == Bindings(s, is)
  <2>. HIDE DEF bs, x
  <2>1. bs \in Seq(Str) /\ x \in Str
    BY <1>3 DEF bs
  <2>2. FlattenSeq(Append(bs, x)) = FlattenSeq(bs) \o x
    BY <2>1, FlattenMore
  <2>. QED
    BY <1>2, <2>2 DEF bs, x, SetList
<1>5. Written(toks, k + 3) = Written(toks, k) \o Plain(x)
  BY ThreeMore
<1>6. p \in Str
  <2>. DEFINE u == Plain(<<"update">>)
              v == Plain(s.table)
              w == Plain(<<"set">>)
              uv == u \o v
  <2>1. <<"update">> \in Str /\ <<"set">> \in Str /\ s.table \in Str
    BY TokensInStr, MarksInStr DEF Statements
  <2>2. u \in Str /\ v \in Str /\ w \in Str
    <3>1. \A y \in Str : Plain(y) \in Str
      BY StrPlain
    <3>. QED
      BY <2>1, <3>1
  <2>. HIDE DEF u, v, w
  <2>3. uv \in Str
    BY <2>2, StrPlain
  <2>. HIDE DEF uv
  <2>4. uv \o w \in Str
    BY <2>2, <2>3, StrPlain
  <2>. QED
    BY <2>4 DEF u, v, w, uv
<1>7. UpdateHead(s) = p \o Plain(l)
  BY DEF UpdateHead
<1>8. UpdateHead(t) = p \o Plain(SetList(t))
  BY <1>2 DEF UpdateHead
<1>. HIDE DEF x, l, p
<1>9. Plain(l \o x) = Plain(l) \o Plain(x) /\ Plain(l) \in Str
  BY <1>3, StrPlain
<1>10. Plain(x) \in Str
  BY <1>3, StrPlain
<1>. DEFINE pl == Plain(l)
            px == Plain(x)
<1>11. pl \in Str /\ px \in Str
  BY <1>9, <1>10
<1>. HIDE DEF pl, px
<1>12. p \o (pl \o px) = (p \o pl) \o px
  BY <1>6, <1>11, StrRegroup
<1>. QED
  BY <1>4, <1>5, <1>7, <1>8, <1>9, <1>12 DEF pl, px

\* The next four tokens are a condition.
ConditionNext(toks, k, s, b, t) ==
  /\ toks \in Seq(Str) /\ k \in Nat /\ k + 4 <= Len(toks) /\ toks[k + 1] = <<"where">> /\ toks[k + 3] = <<Equals>>
  /\ s \in Statements /\ b \in Assigned /\ b.column = toks[k + 2] /\ b.rhs = toks[k + 4]
  /\ s.where = << >> /\ s.columns = << >>
  /\ t = [s EXCEPT !.where = <<b>>] /\ t \in Statements /\ Written(toks, k) = UpdateSoFar(s)

\* The first condition passed is that of the statement.
LEMMA WhereMore ==
  ASSUME NEW toks, NEW k, NEW s, NEW b, NEW t, ConditionNext(toks, k, s, b, t)
  PROVE  Written(toks, k + 4) = UpdateSoFar(t)
<1>. USE DEF ConditionNext
<1>1. /\ t.where = <<b>> /\ t.where # << >> /\ t.where[1] = b /\ t.columns = << >>
      /\ t.table = s.table /\ t.bindings = s.bindings
  BY DEF Statements
<1>2. Filter(t) = ((<<"where">> \o b.column) \o <<Equals>>) \o b.rhs /\ Filter(s) = << >>
  BY <1>1, FilterTyped
<1>3. Returned(s) = << >> /\ Returned(t) = << >>
  BY <1>1 DEF Returned
<1>4. Written(toks, k + 4) = Written(toks, k) \o Plain(Filter(t))
  BY <1>2, FourMore
<1>5. UpdateHead(t) = UpdateHead(s) /\ UpdateHead(s) \in Str /\ Plain(Filter(t)) \in Str
  BY <1>1, SameHead, HeadTyped
<1>. DEFINE h == UpdateHead(s)
            f == Plain(Filter(t))
<1>. HIDE DEF h, f
<1>6. h \in Str /\ f \in Str
  BY <1>5 DEF h, f
<1>7. UpdateSoFar(s) = (h \o << >>) \o << >> /\ UpdateSoFar(t) = (h \o f) \o << >>
  BY <1>2, <1>3, <1>5, PlainEmpty DEF UpdateSoFar, h, f
<1>8. h \o << >> = h /\ h \o f \in Str
  BY <1>6, StrUnit, StrPlain
<1>. DEFINE hf == h \o f
<1>. HIDE DEF hf
<1>9. hf \o << >> = hf
  BY <1>8, StrUnit DEF hf
<1>. QED
  BY <1>4, <1>7, <1>8, <1>9 DEF h, f, hf

\* The tokens left are the columns of a RETURNING.
ColumnsNext(toks, k, s, cols, t) ==
  /\ toks \in Seq(Str) /\ k \in Nat /\ k < Len(toks) /\ toks[k + 1] = <<"returning">>
  /\ s \in Statements /\ s.columns = << >> /\ cols \in Seq(Str) /\ Len(cols) = Len(toks) - k - 1
  /\ \A i \in 1..Len(cols) : cols[i] = NoComma(toks[k + 1 + i])
  /\ t = [s EXCEPT !.columns = cols] /\ t \in Statements /\ Written(toks, k) = UpdateSoFar(s)

\* The columns passed are those the statement returns.
LEMMA ReturningMore ==
  ASSUME NEW toks, NEW k, NEW s, NEW cols, NEW t, ColumnsNext(toks, k, s, cols, t)
  PROVE  Written(toks, Len(toks)) = UpdateSoFar(t)
<1>. USE DEF ColumnsNext
<1>. DEFINE n == Len(toks)
            rest == SubSeq(toks, k + 1 + 1, n)
<1>1. /\ t.columns = cols /\ t.where = s.where /\ t.table = s.table /\ t.bindings = s.bindings
  BY DEF Statements
<1>2. UpdateHead(t) = UpdateHead(s) /\ Filter(t) = Filter(s)
  <2>1. UpdateHead(t) = UpdateHead(s)
    BY <1>1, SameHead
  <2>2. Filter(t) = Filter(s)
    BY <1>1 DEF Filter
  <2>. QED
    BY <2>1, <2>2
<1>3. Plain(Returned(t)) = Plain(FlattenSeq(cols)) /\ Plain(Returned(s)) = << >>
  BY <1>1, ReturnedTyped, PlainEmpty DEF Returned
<1>4. n \in Nat /\ k + 1 \in 0..n /\ n \in (k + 1)..n /\ k + 1 <= n
  OBVIOUS
<1>5. Written(toks, k + 1) = Written(toks, k) \o Plain(<<"returning">>)
  BY <1>4, OneMore
<1>6. Written(toks, k) \in Str /\ Plain(<<"returning">>) = << >>
  <2>1. k \in 0..n /\ n \in k..n
    BY <1>4
  <2>2. Written(toks, k) \in Str
    BY <2>1, WrittenGrows
  <2>3. << >> \in Seq(AllAtoms) /\ "returning" \in AllAtoms /\ <<"returning">> = Append(<< >>, "returning")
    BY DEF AllAtoms
  <2>4. Plain(Append(<< >>, "returning")) = Plain(<< >>)
    BY <2>3, PlainAppend DEF Dropped
  <2>. QED
    BY <2>2, <2>3, <2>4, PlainEmpty
<1>7. Written(toks, k + 1) = Written(toks, k)
  BY <1>5, <1>6, StrUnit
<1>8. Written(toks, n) = Written(toks, k + 1) \o Plain(FlattenSeq(rest)) /\ rest \in Seq(Str)
  <2>. DEFINE j == k + 1
  <2>. HIDE DEF j
  <2>1. j \in 0..Len(toks) /\ n \in j..Len(toks)
    BY <1>4 DEF j
  <2>2. Written(toks, n) = Written(toks, j) \o Plain(FlattenSeq(SubSeq(toks, j + 1, n))) /\ SubSeq(toks, j + 1, n) \in Seq(Str)
    BY <2>1, WrittenGrows
  <2>. QED
    BY <2>2 DEF j
<1>9. Plain(FlattenSeq(rest)) = Plain(FlattenSeq(cols))
  <2>1. Len(rest) = Len(cols) /\ Len(rest) = n - k - 1 /\ \A i \in 1..Len(rest) : rest[i] = toks[k + 1 + i] /\ rest[i] \in Str
    BY <1>4
  <2>. HIDE DEF rest
  <2>2. \A i \in 1..Len(rest) : Plain(rest[i]) = Plain(cols[i])
    <3>. TAKE i \in 1..Len(rest)
    <3>. DEFINE tok == rest[i]
    <3>1. cols[i] = NoComma(tok) /\ tok \in Str
      BY <2>1
    <3>. HIDE DEF tok
    <3>2. Plain(NoComma(tok)) = Plain(tok)
      BY <3>1, PlainNoComma DEF Str
    <3>. QED
      BY <3>1, <3>2 DEF tok
  <2>3. rest \in Seq(Seq(AllAtoms)) /\ cols \in Seq(Seq(AllAtoms))
    BY <1>8 DEF Str
  <2>. QED
    BY <2>1, <2>2, <2>3, FlattenSame
<1>10. UpdateHead(s) \in Str /\ Plain(Filter(s)) \in Str
  BY HeadTyped
<1>. DEFINE h == UpdateHead(s)
            f == Plain(Filter(s))
            hf == h \o f
<1>11. hf \o << >> = hf
  <2>1. h \in Str /\ f \in Str
    BY <1>10
  <2>. HIDE DEF h, f
  <2>2. hf \in Str
    BY <2>1, StrPlain
  <2>. HIDE DEF hf
  <2>. QED
    BY <2>2, StrUnit
<1>12. UpdateSoFar(s) = hf
  BY <1>3, <1>11 DEF UpdateSoFar
<1>. QED
  BY <1>2, <1>3, <1>7, <1>8, <1>9, <1>12 DEF UpdateSoFar

-----------------------------------------------------------------------------
(* Conditions that are repeated.                                           *)

\* Whether "where" is written, and not twice.
OneWhere(written) == \A i, j \in DOMAIN written : written[i] = "where" /\ written[j] = "where" => i = j
HasWhere(written) == \E i \in DOMAIN written : written[i] = "where"

\* The word itself is not dropped.
LEMMA PlainWhere == Plain(<<"where">>) = <<"where">>
<1>1. << >> \in Seq(AllAtoms) /\ "where" \in AllAtoms /\ <<"where">> = Append(<< >>, "where")
  BY DEF AllAtoms
<1>2. "where" \notin Dropped
  BY DEF Dropped, Comma
<1>3. Plain(Append(<< >>, "where")) = Append(Plain(<< >>), "where")
  BY <1>1, <1>2, PlainAppend
<1>. QED
  BY <1>1, <1>3, PlainEmpty

\* What is written stays written.
LEMMA WrittenStays ==
  ASSUME NEW toks \in Seq(Str), NEW k \in 0..Len(toks), NEW m \in k..Len(toks),
         NEW i \in DOMAIN Written(toks, k)
  PROVE  i \in DOMAIN Written(toks, m) /\ Written(toks, m)[i] = Written(toks, k)[i]
<1>. DEFINE u == Written(toks, k)
            v == Plain(FlattenSeq(SubSeq(toks, k + 1, m)))
<1>1. u \in Str /\ Written(toks, m) = u \o v /\ SubSeq(toks, k + 1, m) \in Seq(Str)
  BY WrittenGrows
<1>2. v \in Str
  <2>. DEFINE r == SubSeq(toks, k + 1, m)
  <2>. HIDE DEF r
  <2>1. r \in Seq(Str)
    BY <1>1 DEF r
  <2>2. FlattenSeq(r) \in Str
    BY <2>1, StrFlatten
  <2>3. \A y \in Str : Plain(y) \in Str
    BY StrPlain
  <2>. QED
    BY <2>2, <2>3 DEF r
<1>3. i \in DOMAIN u
  OBVIOUS
<1>. HIDE DEF u, v
<1>4. i \in DOMAIN (u \o v) /\ (u \o v)[i] = u[i]
  <2>1. u \in Seq(AllAtoms) /\ v \in Seq(AllAtoms)
    BY <1>1, <1>2 DEF Str
  <2>. QED
    BY <1>3, <2>1
<1>. QED
  BY <1>1, <1>4 DEF u

\* A token "where" is the atom "where", after all those before.
LEMMA WhereOccurs ==
  ASSUME NEW toks \in Seq(Str), NEW k \in Nat, NEW m \in (k + 1)..Len(toks), toks[k + 1] = <<"where">>
  PROVE  /\ Len(Written(toks, k)) + 1 \in DOMAIN Written(toks, m)
         /\ Written(toks, m)[Len(Written(toks, k)) + 1] = "where"
<1>. DEFINE w == Written(toks, k)
            j == k + 1
            i == Len(w) + 1
<1>1. k + 1 <= Len(toks) /\ k \in 0..Len(toks) /\ k + 1 \in k..Len(toks) /\ j \in 0..Len(toks) /\ m \in j..Len(toks)
  OBVIOUS
<1>2. Written(toks, k + 1) = w \o <<"where">>
  BY <1>1, OneMore, PlainWhere
<1>3. w \in Str
  BY <1>1, WrittenGrows
<1>. HIDE DEF w
<1>4. i \in DOMAIN (w \o <<"where">>) /\ (w \o <<"where">>)[i] = "where"
  <2>1. w \in Seq(AllAtoms) /\ "where" \in AllAtoms /\ w \o <<"where">> = Append(w, "where")
    BY <1>3 DEF Str, AllAtoms
  <2>2. Len(Append(w, "where")) = Len(w) + 1 /\ Append(w, "where")[Len(w) + 1] = "where" /\ Append(w, "where") \in Seq(AllAtoms)
    BY <2>1, AppendProperties
  <2>3. Len(w) \in Nat
    BY <2>1
  <2>. QED
    BY <2>1, <2>2, <2>3
<1>5. i \in DOMAIN Written(toks, j) /\ Written(toks, j)[i] = "where"
  BY <1>2, <1>4
<1>. HIDE DEF i, j
<1>6. i \in DOMAIN Written(toks, m) /\ Written(toks, m)[i] = Written(toks, j)[i]
  BY <1>1, <1>5, WrittenStays
<1>. QED
  BY <1>5, <1>6 DEF i, w

\* A second one makes two.
LEMMA WhereRepeated ==
  ASSUME NEW toks \in Seq(Str), NEW k \in Nat, k + 1 <= Len(toks), toks[k + 1] = <<"where">>,
         HasWhere(Written(toks, k))
  PROVE  ~ OneWhere(Plain(FlattenSeq(toks)))
<1>. DEFINE n == Len(toks)
            all == Written(toks, n)
            w == Written(toks, k)
<1>1. n \in (k + 1)..n /\ k \in 0..n /\ n \in k..n
  OBVIOUS
<1>2. PICK i \in DOMAIN w : w[i] = "where"
  BY DEF HasWhere
<1>3. i \in DOMAIN all /\ all[i] = "where"
  BY <1>1, <1>2, WrittenStays
<1>4. Len(w) + 1 \in DOMAIN all /\ all[Len(w) + 1] = "where"
  BY <1>1, WhereOccurs
<1>5. w \in Str
  BY <1>1, WrittenGrows
<1>6. i # Len(w) + 1
  <2>. HIDE DEF w
  <2>1. w \in Seq(AllAtoms)
    BY <1>5 DEF Str
  <2>. QED
    BY <2>1
<1>7. all = Plain(FlattenSeq(toks))
  BY WrittenEnds
<1>. HIDE DEF all, w
<1>8. ~ OneWhere(all)
  BY <1>3, <1>4, <1>6 DEF OneWhere
<1>. QED
  BY <1>7, <1>8

-----------------------------------------------------------------------------
(* An insert, part by part, and a delete.                                  *)

\* The first two tokens, ...
LEMMA WrittenTwo ==
  ASSUME NEW toks \in Seq(Str), Len(toks) >= 2
  PROVE  Written(toks, 2) = Plain(toks[1]) \o Plain(toks[2]) /\ Written(toks, 2) \in Str
<1>1. 0 \in Nat /\ 0 + 1 = 1 /\ 1 + 1 = 2 /\ 0 + 1 <= Len(toks) /\ 1 \in Nat /\ 1 + 1 <= Len(toks)
      /\ 2 \in 0..Len(toks) /\ Len(toks) \in 2..Len(toks)
  OBVIOUS
<1>2. Written(toks, 0 + 1) = Written(toks, 0) \o Plain(toks[0 + 1]) /\ toks[0 + 1] \in Str
  BY <1>1, OneMore
<1>3. Written(toks, 1 + 1) = Written(toks, 1) \o Plain(toks[1 + 1])
  BY <1>1, OneMore
<1>4. Written(toks, 0) = << >>
  BY WrittenEnds
<1>5. Plain(toks[1]) \in Str
  BY <1>1, <1>2, StrPlain
<1>6. << >> \o Plain(toks[1]) = Plain(toks[1])
  BY <1>5, StrUnit
<1>7. Written(toks, 2) \in Str
  BY <1>1, WrittenGrows
<1>. QED
  BY <1>1, <1>2, <1>3, <1>4, <1>6, <1>7

\* ... and the first three.
LEMMA WrittenThree ==
  ASSUME NEW toks \in Seq(Str), Len(toks) >= 3
  PROVE  Written(toks, 3) = (Plain(toks[1]) \o Plain(toks[2])) \o Plain(toks[3]) /\ Written(toks, 3) \in Str
<1>1. 2 \in Nat /\ 2 + 1 = 3 /\ 2 + 1 <= Len(toks) /\ Len(toks) >= 2 /\ 3 \in 0..Len(toks) /\ Len(toks) \in 3..Len(toks)
  OBVIOUS
<1>2. Written(toks, 2 + 1) = Written(toks, 2) \o Plain(toks[2 + 1])
  BY <1>1, OneMore
<1>3. Written(toks, 3) \in Str
  BY <1>1, WrittenGrows
<1>. QED
  BY <1>1, <1>2, <1>3, WrittenTwo

\* What is left of an insert are the parts of the text that its bindings have not got.
InsertKept(toks, ps, s) ==
  /\ s.verb = "insert" /\ Len(toks) >= 4 /\ toks[1] = <<"insert">> /\ toks[2] = s.table
  /\ toks[3] = <<LBrace>> /\ toks[Len(toks)] = <<RBrace>>
  /\ Bindings(s, Colon) \o ps = Parts(FlattenSeq(SubSeq(toks, 4, Len(toks) - 1)))

\* A part is what is before its colon, the colon, and what is after it.
LEMMA CutAt ==
  ASSUME NEW S, NEW a \in Seq(S), NEW k \in 1..Len(a)
  PROVE  (SubSeq(a, 1, k - 1) \o <<a[k]>>) \o SubSeq(a, k + 1, Len(a)) = a
<1>. DEFINE u == SubSeq(a, 1, k - 1)
            v == SubSeq(a, 1, k)
            n == Len(a)
<1>1. v = Append(u, a[k]) /\ a[k] \in S
  BY PrefixGrows
<1>2. u \in Seq(S)
  OBVIOUS
<1>3. SubSeq(a, 1, n) = a
  OBVIOUS
<1>4. v \o SubSeq(a, k + 1, n) = SubSeq(a, 1, n)
  <2>1. 1 \in 1..(Len(a) + 1) /\ k \in (1 - 1)..Len(a) /\ n \in k..Len(a)
    OBVIOUS
  <2>. HIDE DEF n, v
  <2>. QED
    BY <2>1, ConcatAdjacentSubSeq DEF v
<1>. HIDE DEF u, v
<1>5. Append(u, a[k]) = u \o <<a[k]>>
  BY <1>1, <1>2
<1>. QED
  BY <1>1, <1>3, <1>4, <1>5 DEF u

\* A part moves from those left to those done.
LEMMA Moved ==
  ASSUME NEW S, NEW a \in Seq(S), NEW ps \in Seq(S), ps # << >>
  PROVE  Append(a, Head(ps)) \o Tail(ps) = a \o ps
<1>. DEFINE x == Head(ps)
            r == Tail(ps)
<1>1. x \in S /\ r \in Seq(S) /\ ps = <<x>> \o r
  OBVIOUS
<1>. HIDE DEF x, r
<1>2. Append(a, x) = a \o <<x>> /\ <<x>> \in Seq(S)
  BY <1>1
<1>. DEFINE h == <<x>>
<1>. HIDE DEF h
<1>3. a \in Seq(S) /\ h \in Seq(S) /\ r \in Seq(S)
  BY <1>1, <1>2 DEF h
<1>4. a \o (h \o r) = (a \o h) \o r
  BY <1>3, Regroup
<1>. QED
  BY <1>1, <1>2, <1>4 DEF h, x, r

\* The next part is a binding.
PartNext(ps, part, k, s, b, t) ==
  /\ ps \in Seq(Token) /\ ps # << >> /\ part = Head(ps) /\ k \in 1..Len(part) /\ part[k] = Colon
  /\ s \in Statements /\ b \in Assigned
  /\ b.column = SubSeq(part, 1, k - 1) /\ b.rhs = SubSeq(part, k + 1, Len(part))
  /\ t = [s EXCEPT !.bindings = Append(@, b)]

\* A part cut at its colon is a binding of the statement.
LEMMA InsertMore ==
  ASSUME NEW ps, NEW part, NEW k, NEW s, NEW b, NEW t, PartNext(ps, part, k, s, b, t),
         NEW toks, InsertKept(toks, ps, s)
  PROVE  InsertKept(toks, Tail(ps), t)
<1>. USE DEF PartNext
<1>. DEFINE is == Colon
            bs == Bindings(s, is)
            more == Append(bs, part)
<1>1. part \in Token /\ part \in Str /\ is \in AllAtoms /\ Tail(ps) \in Seq(Str) /\ ps \in Seq(Str)
  <2>1. part \in Token /\ Tail(ps) \in Seq(Token)
    OBVIOUS
  <2>. QED
    BY <2>1, TokensInStr DEF AllAtoms
<1>2. /\ Bindings(t, is) = Append(Bindings(s, is), (b.column \o <<is>>) \o b.rhs)
      /\ t.verb = s.verb /\ t.table = s.table
  <2>. HIDE DEF is
  <2>. QED
    BY <1>1, BindingAdded
<1>3. (SubSeq(part, 1, k - 1) \o <<is>>) \o SubSeq(part, k + 1, Len(part)) = part
  <2>1. part \in Seq(AllAtoms) /\ is = part[k]
    BY <1>1 DEF Str
  <2>. HIDE DEF is
  <2>. QED
    BY <2>1, CutAt
<1>4. Bindings(t, is) = more
  BY <1>2, <1>3
<1>5. more \o Tail(ps) = bs \o ps
  <2>1. bs \in Seq(Str)
    BY <1>1, BindingsTyped
  <2>. HIDE DEF bs
  <2>2. Append(bs, Head(ps)) \o Tail(ps) = bs \o ps
    BY <1>1, <2>1, Moved
  <2>. QED
    BY <2>2
<1>. QED
  BY <1>2, <1>4, <1>5 DEF InsertKept

\* When no part is left, the statement has the atoms of the text.
LEMMA InsertEnds ==
  ASSUME NEW toks \in Seq(Str), NEW s \in Statements, InsertKept(toks, << >>, s)
  PROVE  Plain(FlattenSeq(toks)) = Plain(Atoms(s))
<1>. DEFINE n == Len(toks)
            m == n - 1
            inner == SubSeq(toks, 4, m)
            bs == Bindings(s, Colon)
            flat == FlattenSeq(inner)
<1>1. s.verb = "insert" /\ n >= 4 /\ toks[1] = <<"insert">> /\ toks[2] = s.table /\ toks[3] = <<LBrace>> /\ toks[n] = <<RBrace>>
  BY DEF InsertKept
<1>2. bs = Parts(flat)
  <2>1. bs \in Seq(Str)
    BY BindingsTyped DEF AllAtoms
  <2>2. bs \o << >> = Parts(flat)
    BY DEF InsertKept
  <2>. HIDE DEF bs
  <2>3. bs \o << >> = bs
    BY <2>1
  <2>. QED
    BY <2>2, <2>3
<1>3. n \in Nat /\ 3 \in 0..n /\ m \in 3..n /\ m \in Nat /\ m + 1 <= n /\ m + 1 = n /\ n >= 3 /\ 3 + 1 = 4
  BY <1>1
<1>4. Written(toks, m) = Written(toks, 3) \o Plain(FlattenSeq(SubSeq(toks, 3 + 1, m))) /\ SubSeq(toks, 3 + 1, m) \in Seq(Str)
  <2>. HIDE DEF m
  <2>. QED
    BY <1>3, WrittenGrows
<1>5. Written(toks, m) = Written(toks, 3) \o Plain(flat) /\ inner \in Seq(Str)
  BY <1>3, <1>4
<1>6. Written(toks, n) = Written(toks, m) \o Plain(<<RBrace>>)
  <2>. HIDE DEF m
  <2>1. Written(toks, m + 1) = Written(toks, m) \o Plain(toks[m + 1])
    BY <1>3, OneMore
  <2>. QED
    BY <1>1, <1>3, <2>1
<1>7. Written(toks, 3) = (Plain(<<"insert">>) \o Plain(s.table)) \o Plain(<<LBrace>>)
  BY <1>1, <1>3, WrittenThree
<1>8. Plain(FlattenSeq(bs)) = Plain(flat)
  <2>1. flat \in Seq(AllAtoms)
    <3>. HIDE DEF inner
    <3>. QED
      BY <1>5, StrFlatten DEF Str
  <2>. HIDE DEF flat, bs
  <2>2. Plain(FlattenSeq(Parts(flat))) = Plain(flat)
    BY <2>1, PlainParts
  <2>. QED
    BY <1>2, <2>2
<1>9. Plain(Atoms(s)) = (((Plain(<<"insert">>) \o Plain(s.table)) \o Plain(<<LBrace>>)) \o Plain(FlattenSeq(bs))) \o Plain(<<RBrace>>)
  BY <1>1, InsertAtoms
<1>10. Written(toks, n) = Plain(FlattenSeq(toks))
  BY WrittenEnds
<1>. QED
  BY <1>5, <1>6, <1>7, <1>8, <1>9, <1>10

\* The first of two texts put together is a prefix.
LEMMA PrefixOfConcat ==
  ASSUME NEW u \in Str, NEW v \in Str
  PROVE  IsPrefix(u, u \o v)
<1>1. u \in Seq(AllAtoms) /\ v \in Seq(AllAtoms)
  BY DEF Str
<1>2. Len(u) <= Len(u \o v) /\ SubSeq(u, 1, Len(u)) = u /\ SubSeq(u \o v, 1, Len(u)) = u
  BY <1>1
<1>. QED
  BY <1>2 DEF IsPrefix

\* A delete as far as its table, with FROM or without.
LEMMA DeleteStarts ==
  ASSUME NEW toks \in Seq(Str), NEW t \in {1, 2}, t = 2 => toks[2] = <<"from">>,
         t + 1 <= Len(toks), toks[1] = <<"delete">>
  PROVE  Written(toks, t + 1) = Plain(<<"delete">>) \o Plain(toks[t + 1])
<1>1. CASE t = 1
  <2>1. t + 1 = 2 /\ Len(toks) >= 2
    BY <1>1
  <2>. QED
    BY <2>1, WrittenTwo
<1>2. CASE t = 2
  <2>0. t + 1 = 3 /\ Len(toks) >= 3
    BY <1>2
  <2>1. Written(toks, 3) = (Plain(toks[1]) \o Plain(toks[2])) \o Plain(toks[3])
    BY <2>0, WrittenThree
  <2>2. toks[2] \in Str
    BY <1>2
  <2>3. Plain(<<"from">>) = << >>
    <3>1. toks[2] = <<"from">> /\ toks[2] \in Seq(AllAtoms)
      BY <1>2, <2>2 DEF Str
    <3>2. <<"from">>[1] \in AllAtoms
      BY <3>1
    <3>3. << >> \in Seq(AllAtoms) /\ "from" \in AllAtoms /\ <<"from">> = Append(<< >>, "from")
      BY <3>2
    <3>4. Plain(Append(<< >>, "from")) = Plain(<< >>)
      BY <3>3, PlainAppend DEF Dropped
    <3>. QED
      BY <3>3, <3>4, PlainEmpty
  <2>4. Plain(<<"delete">>) \in Str
    <3>1. \A y \in Str : Plain(y) \in Str
      BY StrPlain
    <3>. QED
      BY <3>1, MarksInStr
  <2>5. Plain(<<"delete">>) \o << >> = Plain(<<"delete">>)
    BY <2>4, StrUnit
  <2>6. toks[2] = <<"from">>
    BY <1>2
  <2>. QED
    BY <2>0, <2>1, <2>3, <2>5, <2>6
<1>. QED
  BY <1>1, <1>2

\* A delete without condition ends at its table.
LEMMA DeleteAll ==
  ASSUME NEW toks \in Seq(Str), NEW t \in {1, 2}, t = 2 => toks[2] = <<"from">>,
         t + 1 = Len(toks), toks[1] = <<"delete">>,
         NEW s \in Statements, s.verb = "delete", s.table = toks[t + 1], s.where = << >>
  PROVE  Plain(FlattenSeq(toks)) = Plain(Atoms(s))
<1>1. t + 1 <= Len(toks)
  OBVIOUS
<1>2. Written(toks, Len(toks)) = Plain(<<"delete">>) \o Plain(s.table)
  BY <1>1, DeleteStarts
<1>. DEFINE u == Plain(<<"delete">>) \o Plain(s.table)
<1>3. Plain(Atoms(s)) = u \o Plain(Filter(s)) /\ u \in Str
  BY DeleteAtoms
<1>4. Plain(Filter(s)) = << >>
  BY FilterTyped, PlainEmpty
<1>. HIDE DEF u
<1>5. u \o << >> = u
  BY <1>3, StrUnit
<1>6. Written(toks, Len(toks)) = Plain(FlattenSeq(toks))
  BY WrittenEnds
<1>. QED
  BY <1>2, <1>3, <1>4, <1>5, <1>6 DEF u

\* A delete with a condition is a prefix of its text.
LEMMA DeleteSome ==
  ASSUME NEW toks \in Seq(Str), NEW t \in {1, 2}, t = 2 => toks[2] = <<"from">>,
         t + 5 <= Len(toks), toks[1] = <<"delete">>, toks[t + 2] = <<"where">>, toks[t + 4] = <<Equals>>,
         NEW s \in Statements, s.verb = "delete", s.table = toks[t + 1],
         NEW b, s.where = <<b>>, b.column = toks[t + 3], b.rhs = toks[t + 5]
  PROVE  IsPrefix(Plain(Atoms(s)), Plain(FlattenSeq(toks)))
<1>. DEFINE k == t + 1
            n == Len(toks)
            v == Plain(FlattenSeq(SubSeq(toks, k + 4 + 1, n)))
<1>1. /\ t + 1 <= Len(toks) /\ k \in Nat /\ k + 4 <= n /\ k + 4 \in 0..n /\ n \in (k + 4)..n
      /\ k + 1 = t + 2 /\ k + 2 = t + 3 /\ k + 3 = t + 4 /\ k + 4 = t + 5
  OBVIOUS
<1>2. Written(toks, k) = Plain(<<"delete">>) \o Plain(s.table)
  BY <1>1, DeleteStarts
<1>3. Filter(s) = ((<<"where">> \o b.column) \o <<Equals>>) \o b.rhs
  <2>1. s.where # << >> /\ s.where[1] = b
    OBVIOUS
  <2>. QED
    BY <2>1, FilterTyped
<1>4. Written(toks, k + 4) = Written(toks, k) \o Plain(((toks[k + 1] \o toks[k + 2]) \o toks[k + 3]) \o toks[k + 4])
  <2>. HIDE DEF k, n
  <2>. QED
    BY <1>1, FourMore DEF n
<1>5. Written(toks, k + 4) = Written(toks, k) \o Plain(Filter(s))
  BY <1>1, <1>3, <1>4
<1>6. Plain(Atoms(s)) = Written(toks, k + 4)
  BY <1>2, <1>5, DeleteAtoms
<1>7. /\ Written(toks, k + 4) \in Str /\ SubSeq(toks, k + 4 + 1, n) \in Seq(Str)
      /\ Written(toks, n) = Written(toks, k + 4) \o v
  <2>. DEFINE j == k + 4
  <2>1. j \in 0..n /\ n \in j..n
    BY <1>1
  <2>. HIDE DEF j
  <2>2. /\ Written(toks, j) \in Str /\ SubSeq(toks, j + 1, n) \in Seq(Str)
        /\ Written(toks, n) = Written(toks, j) \o Plain(FlattenSeq(SubSeq(toks, j + 1, n)))
    BY <2>1, WrittenGrows
  <2>. QED
    BY <2>2 DEF j
<1>8. v \in Str
  <2>. DEFINE r == SubSeq(toks, k + 4 + 1, n)
  <2>. HIDE DEF r
  <2>1. FlattenSeq(r) \in Str
    BY <1>7, StrFlatten DEF r
  <2>2. \A y \in Str : Plain(y) \in Str
    BY StrPlain
  <2>. QED
    BY <2>1, <2>2 DEF r
<1>9. Written(toks, n) = Plain(FlattenSeq(toks))
  BY WrittenEnds
<1>. HIDE DEF v, n, k
<1>10. IsPrefix(Written(toks, k + 4), Written(toks, k + 4) \o v)
  BY <1>7, <1>8, PrefixOfConcat
<1>. QED
  BY <1>6, <1>7, <1>9, <1>10

-----------------------------------------------------------------------------
(* The invariant of the writes.                                            *)

\* The clauses of an update that are passed are those of the statement, unless a condition
\* is repeated; RETURNING passes everything.
TailKept(toks, n, s) ==
  /\ s.verb = "update"
  /\ n < Len(toks) => s.columns = << >>
  /\ s.where # << >> => HasWhere(Written(toks, n))
  /\ OneWhere(Plain(FlattenSeq(toks))) => Written(toks, n) = UpdateSoFar(s)

\* The invariant: what is passed of a text is what the statement has.
WriteInv ==
  /\ pc = "read" => stmt.verb = "read"
  /\ pc = "bindings" => InsertKept(text, parts, stmt)
  /\ pc = "set" => /\ stmt.verb = "update" /\ stmt.where = << >> /\ stmt.columns = << >>
                   /\ Written(text, next) = UpdateHead(stmt)
  /\ pc = "tail" => TailKept(text, next, stmt)
  /\ pc \in {"parsed", "compiled"} => IsKept(text, stmt)

\* A read is no write.
LEMMA ReadIsKept ==
  ASSUME NEW toks, NEW s, s.verb = "read"
  PROVE  IsKept(toks, s)
BY DEF IsKept

\* What is kept at the end of an update ...
LEMMA UpdateIsKept ==
  ASSUME NEW toks \in Seq(Str), NEW s \in Statements, TailKept(toks, Len(toks), s)
  PROVE  IsKept(toks, s)
<1>1. s.verb = "update"
  BY DEF TailKept
<1>2. Plain(Atoms(s)) = UpdateSoFar(s)
  BY <1>1, UpdateAtoms DEF UpdateSoFar
<1>3. OneWhere(Plain(FlattenSeq(toks))) => Plain(FlattenSeq(toks)) = Plain(Atoms(s))
  BY <1>2, WrittenEnds DEF TailKept
<1>4. (\A i, j \in DOMAIN Plain(FlattenSeq(toks)) :
         Plain(FlattenSeq(toks))[i] = "where" /\ Plain(FlattenSeq(toks))[j] = "where" => i = j)
      => OneWhere(Plain(FlattenSeq(toks)))
  BY DEF OneWhere
<1>. QED
  BY <1>1, <1>3, <1>4 DEF IsKept

\* ... and of an insert.
LEMMA InsertIsKept ==
  ASSUME NEW toks \in Seq(Str), NEW s \in Statements, InsertKept(toks, << >>, s)
  PROVE  IsKept(toks, s)
<1>1. s.verb = "insert" /\ Plain(FlattenSeq(toks)) = Plain(Atoms(s))
  BY InsertEnds DEF InsertKept
<1>. QED
  BY <1>1 DEF IsKept

\* What the types say of a text, its tokens as texts over all atoms.
LEMMA WriteText ==
  ASSUME Typed
  PROVE  /\ text \in Seq(Str) /\ Tokens = Len(text) /\ Tokens \in Nat
         /\ next \in Nat /\ next <= Tokens /\ stmt \in Statements /\ parts \in Seq(Token)
         /\ \A i \in Nat : i < Tokens => At(i) \in Token
<1>1. text \in Seq(Str)
  BY TextTyped, TokensInStr
<1>2. \A i \in Nat : i < Tokens => At(i) \in Token
  BY AtTyped
<1>3. Tokens = Len(text) /\ Tokens \in Nat
  BY TextTyped
<1>4. next \in Nat /\ next <= Tokens /\ stmt \in Statements /\ parts \in Seq(Token)
  BY <1>3 DEF Typed
<1>. QED
  BY <1>1, <1>2, <1>3, <1>4

\* The source never changes.
LEMMA WriteTextStays ==
  ASSUME source' = source
  PROVE  text' = text /\ Tokens' = Tokens
BY TextStays

\* An error makes no statement.
LEMMA WriteFails ==
  ASSUME Fail
  PROVE  WriteInv'
<1>1. pc' = "error"
  BY DEF Fail
<1>. QED
  BY <1>1 DEF WriteInv

\* Clauses of a read leave the verb alone.
LEMMA ReadGoesOn ==
  ASSUME pc' = "read", stmt'.verb = "read"
  PROVE  WriteInv'
BY DEF WriteInv

\* The first step of a read ...
LEMMA StartsRead ==
  ASSUME StartRead
  PROVE  WriteInv'
<1>1. CASE Fail
  BY <1>1, WriteFails
<1>2. CASE Goto("read", 2, NewStmt("read", At(1)))
  <2>1. pc' = "read" /\ stmt'.verb = "read"
    BY <1>2 DEF Goto, NewStmt
  <2>. QED
    BY <2>1, ReadGoesOn
<1>. QED
  BY <1>1, <1>2 DEF StartRead, Check

\* ... and of the verbs that have one spelling only.
LEMMA LowerOf ==
  ASSUME NEW tok
  PROVE  /\ Lower(tok) = <<"insert">> => tok = <<"insert">>
         /\ Lower(tok) = <<"delete">> => tok = <<"delete">>
<1>1. <<"read">>[1] = "read" /\ <<"update">>[1] = "update" /\ <<"insert">>[1] = "insert" /\ <<"delete">>[1] = "delete"
  OBVIOUS
<1>2. <<"read">> # <<"insert">> /\ <<"update">> # <<"insert">> /\ <<"read">> # <<"delete">> /\ <<"update">> # <<"delete">>
  BY <1>1
<1>3. CASE tok = <<"READ">>
  BY <1>2, <1>3 DEF Lower
<1>4. CASE tok # <<"READ">> /\ tok = <<"UPDATE">>
  BY <1>2, <1>4 DEF Lower
<1>5. CASE tok # <<"READ">> /\ tok # <<"UPDATE">>
  BY <1>5 DEF Lower
<1>. QED
  BY <1>3, <1>4, <1>5

\* A statement starts without bindings.
LEMMA NewBindings ==
  ASSUME Typed, NEW verb \in Verbs, NEW i \in Nat, i < Tokens
  PROVE  Bindings(NewStmt(verb, At(i)), Equals) = << >> /\ Bindings(NewStmt(verb, At(i)), Colon) = << >>
<1>. DEFINE s == NewStmt(verb, At(i))
<1>1. s \in Statements
  BY AtTyped, NewStmtTyped
<1>2. Len(s.bindings) = 0
  BY DEF NewStmt
<1>. HIDE DEF s
<1>3. \A is \in AllAtoms : Bindings(s, is) = << >>
  <2>. TAKE is \in AllAtoms
  <2>1. Bindings(s, is) \in Seq(Str) /\ Len(Bindings(s, is)) = 0
    BY <1>1, <1>2, BindingsTyped
  <2>. DEFINE bs == Bindings(s, is)
  <2>. HIDE DEF bs
  <2>2. bs = << >>
    BY <2>1 DEF bs
  <2>. QED
    BY <2>2 DEF bs
<1>. QED
  BY <1>3 DEF AllAtoms, s

\* The first step of an insert cuts its text into parts.
LEMMA StartsInsert ==
  ASSUME Typed, StartInsert
  PROVE  WriteInv'
<1>. DEFINE test == Tokens >= 4 /\ Is(2, LBrace) /\ IsIdent(At(1)) /\ Is(Tokens - 1, RBrace)
            s == NewStmt("insert", At(1))
            ps == Parts(FlattenSeq(SubSeq(text, 4, Tokens - 1)))
<1>1. CASE ~ test
  BY <1>1, WriteFails DEF StartInsert
<1>2. CASE test
  <2>1. pc' = "bindings" /\ stmt' = s /\ parts' = ps /\ source' = source
    BY <1>2 DEF StartInsert, Goto
  <2>2. text' = text
    BY <2>1, WriteTextStays
  <2>3. Tokens = Len(text) /\ Tokens \in Nat /\ text \in Seq(Str)
    BY WriteText
  <2>4. text[1] = <<"insert">> /\ text[2] = s.table /\ text[3] = <<LBrace>> /\ text[Len(text)] = <<RBrace>>
    <3>1. text[1] = <<"insert">>
      <4>1. Lower(text[1]) = <<"insert">>
        BY DEF StartInsert, Dispatch, At
      <4>. QED
        BY <4>1, LowerOf
    <3>2. text[2] = s.table
      BY DEF NewStmt, At
    <3>3. text[2 + 1] = <<LBrace>> /\ text[Tokens - 1 + 1] = <<RBrace>>
      BY <1>2 DEF Is, At
    <3>4. 2 + 1 = 3 /\ Tokens - 1 + 1 = Len(text)
      BY <2>3
    <3>. QED
      BY <3>1, <3>2, <3>3, <3>4
  <2>5. Bindings(s, Colon) = << >> /\ s.verb = "insert"
    <3>1. s.verb = "insert"
      BY DEF NewStmt
    <3>2. "insert" \in Verbs /\ 1 \in Nat /\ 1 < Tokens
      BY <1>2, <2>3 DEF Verbs
    <3>. QED
      BY <3>1, <3>2, NewBindings
  <2>6. << >> \o ps = ps
    <3>1. SubSeq(text, 4, Tokens - 1) \in Seq(Str)
      BY <2>3, <1>2
    <3>. DEFINE r == SubSeq(text, 4, Tokens - 1)
    <3>. HIDE DEF r
    <3>2. FlattenSeq(r) \in Seq(AllAtoms)
      BY <3>1, StrFlatten DEF r, Str
    <3>3. Parts(FlattenSeq(r)) \in PartsList(AllAtoms)
      BY <3>2, PartsTyped
    <3>4. Parts(FlattenSeq(r)) \in Seq(Seq(AllAtoms))
      BY <3>3 DEF PartsList
    <3>. DEFINE q == Parts(FlattenSeq(r))
    <3>. HIDE DEF q
    <3>5. << >> \o q = q
      BY <3>4 DEF q
    <3>. QED
      BY <3>5 DEF q, r
  <2>7. InsertKept(text, ps, s)
    <3>. HIDE DEF s
    <3>. QED
      BY <1>2, <2>3, <2>4, <2>5, <2>6 DEF InsertKept
  <2>. HIDE DEF ps, s
  <2>8. InsertKept(text, parts, stmt)'
    BY <2>1, <2>2, <2>7
  <2>. QED
    BY <2>1, <2>8 DEF WriteInv
<1>. QED
  BY <1>1, <1>2

\* The first step of an update passes its table.
LEMMA StartsUpdate ==
  ASSUME Typed, StartUpdate
  PROVE  WriteInv'
<1>. DEFINE test == Tokens >= 5 /\ Is(0, "update") /\ Is(2, "set") /\ IsIdent(At(1))
            s == NewStmt("update", At(1))
<1>1. CASE ~ test
  BY <1>1, WriteFails DEF StartUpdate, Check
<1>2. CASE test
  <2>1. pc' = "set" /\ stmt' = s /\ next' = 3 /\ source' = source
    BY <1>2 DEF StartUpdate, Check, Goto
  <2>2. text' = text
    BY <2>1, WriteTextStays
  <2>3. Tokens = Len(text) /\ Tokens \in Nat /\ text \in Seq(Str) /\ Len(text) >= 3
    BY <1>2, WriteText
  <2>4. text[1] = <<"update">> /\ text[2] = s.table /\ text[3] = <<"set">>
    <3>1. text[2] = s.table
      BY DEF NewStmt, At
    <3>2. text[0 + 1] = <<"update">> /\ text[2 + 1] = <<"set">>
      BY <1>2 DEF Is, At
    <3>. QED
      BY <3>1, <3>2
  <2>5. SetList(s) = << >> /\ s.verb = "update" /\ s.where = << >> /\ s.columns = << >>
    <3>1. s.verb = "update" /\ s.where = << >> /\ s.columns = << >>
      BY DEF NewStmt
    <3>2. "update" \in Verbs /\ 1 \in Nat /\ 1 < Tokens
      BY <1>2, <2>3 DEF Verbs
    <3>3. Bindings(s, Equals) = << >>
      BY <3>2, NewBindings
    <3>. QED
      BY <3>1, <3>3, FlattenEmpty DEF SetList
  <2>. HIDE DEF s
  <2>6. Written(text, 3) = (Plain(<<"update">>) \o Plain(s.table)) \o Plain(<<"set">>) /\ Written(text, 3) \in Str
    BY <2>3, <2>4, WrittenThree
  <2>7. Written(text, 3) \o << >> = Written(text, 3)
    BY <2>6, StrUnit
  <2>8. Written(text, 3) = UpdateHead(s)
    BY <2>5, <2>6, <2>7, PlainEmpty DEF UpdateHead
  <2>. QED
    BY <2>1, <2>2, <2>5, <2>8 DEF WriteInv
<1>. QED
  BY <1>1, <1>2

\* A delete is parsed in one step.
LEMMA ParsesDelete ==
  ASSUME Typed, ParseDelete, Typed'
  PROVE  WriteInv'
<1>. DEFINE t == IF Is(1, "from") THEN 2 ELSE 1
            s == NewStmt("delete", At(t))
            b == Binding(At(t + 2), At(t + 4))
            deleted == [s EXCEPT !.where = <<b>>]
<1>1. t \in {1, 2} /\ t \in Nat /\ (t = 2 => Is(1, "from"))
  OBVIOUS
<1>2. text \in Seq(Str) /\ Tokens = Len(text) /\ Tokens \in Nat
  BY WriteText
<1>3. text[1] = <<"delete">>
  <2>1. Lower(text[1]) = <<"delete">>
    BY DEF ParseDelete, Dispatch, At
  <2>. QED
    BY <2>1, LowerOf
<1>4. t = 2 => text[2] = <<"from">>
  BY <1>1 DEF Is, At
<1>5. CASE t >= Tokens \/ ~ IsIdent(At(t))
  BY <1>5, WriteFails DEF ParseDelete
<1>6. CASE t < Tokens /\ IsIdent(At(t)) /\ t + 1 = Tokens
  <2>1. source' = source /\ pc' = "parsed" /\ stmt' = s
    BY <1>1, <1>2, <1>6 DEF ParseDelete, Check, Goto
  <2>2. text' = text
    BY <2>1, WriteTextStays
  <2>3. s.verb = "delete" /\ s.table = text[t + 1] /\ s.where = << >>
    <3>. HIDE DEF t
    <3>. QED
      BY DEF NewStmt, At
  <2>4. s \in Statements
    BY <2>1 DEF Typed
  <2>. HIDE DEF s, t
  <2>5. t + 1 = Len(text)
    BY <1>2, <1>6
  <2>6. Plain(FlattenSeq(text)) = Plain(Atoms(s))
    BY <1>1, <1>2, <1>3, <1>4, <2>3, <2>4, <2>5, DeleteAll
  <2>7. IsKept(text, s)
    BY <2>3, <2>6 DEF IsKept
  <2>. QED
    BY <2>1, <2>2, <2>7 DEF WriteInv
<1>7. CASE t < Tokens /\ IsIdent(At(t)) /\ t + 1 # Tokens
  <2>. DEFINE test == Is(t + 1, "where") /\ PredicateAt(t + 2)
  <2>1. Check(test, "parsed", Tokens, deleted)
    <3>1. ~ (t >= Tokens)
      BY <1>1, <1>2, <1>7
    <3>. QED
      BY <1>7, <3>1 DEF ParseDelete
  <2>2. CASE ~ test
    <3>. HIDE DEF test, deleted, t
    <3>. QED
      BY <2>1, <2>2, WriteFails DEF Check
  <2>3. CASE test
    <3>1. source' = source /\ pc' = "parsed" /\ stmt' = deleted
      BY <2>1, <2>3 DEF Check, Goto
    <3>2. text' = text
      BY <3>1, WriteTextStays
    <3>3. deleted.verb = "delete" /\ deleted.table = text[t + 1] /\ deleted.where = <<b>>
      <4>. HIDE DEF t, b
      <4>. QED
        BY DEF NewStmt, At
    <3>4. deleted \in Statements
      BY <3>1 DEF Typed
    <3>. HIDE DEF deleted, t
    <3>5. text[t + 1 + 1] = <<"where">> /\ t + 2 + 2 < Tokens /\ text[t + 2 + 1 + 1] = <<Equals>>
      BY <2>3 DEF Is, At, PredicateAt
    <3>6. t + 1 + 1 = t + 2 /\ t + 2 + 2 = t + 4 /\ t + 2 + 1 + 1 = t + 4 /\ t + 2 + 1 = t + 3 /\ t + 4 + 1 = t + 5
      BY <1>1
    <3>7. t + 5 <= Len(text) /\ text[t + 2] = <<"where">> /\ text[t + 4] = <<Equals>>
      BY <1>1, <1>2, <3>5, <3>6
    <3>8. b.column = text[t + 3] /\ b.rhs = text[t + 5]
      BY <3>6 DEF Binding, At
    <3>. HIDE DEF b
    <3>9. IsPrefix(Plain(Atoms(deleted)), Plain(FlattenSeq(text)))
      BY <1>1, <1>2, <1>3, <1>4, <3>3, <3>4, <3>7, <3>8, DeleteSome
    <3>10. deleted.where # << >>
      BY <3>3
    <3>11. IsKept(text, deleted)
      BY <3>3, <3>9, <3>10 DEF IsKept
    <3>. QED
      BY <3>1, <3>2, <3>11 DEF WriteInv
  <2>. QED
    BY <2>2, <2>3
<1>. QED
  BY <1>1, <1>2, <1>5, <1>6, <1>7

\* A binding of an update.
LEMMA BindsInUpdate ==
  ASSUME Typed, WriteInv, SetBinding
  PROVE  WriteInv'
<1>. DEFINE b == Binding(At(next), At(next + 2))
            s == [stmt EXCEPT !.bindings = Append(@, b)]
<1>1. Check(PredicateAt(next), "set", next + 3, s) /\ pc = "set"
  BY DEF SetBinding
<1>2. CASE ~ PredicateAt(next)
  <2>. HIDE DEF s
  <2>. QED
    BY <1>1, <1>2, WriteFails DEF Check
<1>3. CASE PredicateAt(next)
  <2>1. source' = source /\ pc' = "set" /\ next' = next + 3 /\ stmt' = s
    BY <1>1, <1>3 DEF Check, Goto
  <2>2. text' = text
    BY <2>1, WriteTextStays
  <2>3. text \in Seq(Str) /\ Tokens = Len(text) /\ Tokens \in Nat /\ next \in Nat /\ stmt \in Statements
    BY WriteText
  <2>4. next + 2 < Tokens /\ text[next + 1 + 1] = <<Equals>>
    BY <1>3 DEF PredicateAt, Is, At
  <2>5. next + 3 <= Len(text) /\ text[next + 2] = <<Equals>> /\ next + 2 + 1 = next + 3 /\ next + 1 + 1 = next + 2
    BY <2>3, <2>4
  <2>6. b \in Assigned
    BY <1>3, <2>3, PredicateTyped
  <2>7. b.column = text[next + 1] /\ b.rhs = text[next + 3]
    BY <2>5 DEF Binding, At
  <2>8. stmt.verb = "update" /\ stmt.where = << >> /\ stmt.columns = << >> /\ Written(text, next) = UpdateHead(stmt)
    BY <1>1 DEF WriteInv
  <2>. HIDE DEF b
  <2>9. Equals \in AllAtoms
    BY DEF AllAtoms
  <2>10. s.verb = stmt.verb /\ s.columns = stmt.columns /\ s.where = stmt.where
    BY <2>3, <2>6, <2>9, BindingAdded
  <2>11. Written(text, next + 3) = UpdateHead(s)
    <3>1. s = [stmt EXCEPT !.bindings = Append(@, b)]
      OBVIOUS
    <3>. HIDE DEF s
    <3>2. text \in Seq(Str) /\ next \in Nat /\ next + 3 <= Len(text) /\ text[next + 2] = <<Equals>>
      BY <2>3, <2>5
    <3>3. stmt \in Statements /\ b \in Assigned /\ b.column = text[next + 1] /\ b.rhs = text[next + 3]
      BY <2>3, <2>6, <2>7
    <3>4. Written(text, next) = UpdateHead(stmt)
      BY <2>8
    <3>5. BindingNext(text, next, stmt, b, s)
      BY <3>1, <3>2, <3>3, <3>4 DEF BindingNext
    <3>. QED
      BY <3>5, SetMore
  <2>. HIDE DEF s
  <2>. QED
    BY <2>1, <2>2, <2>8, <2>10, <2>11 DEF WriteInv
<1>. QED
  BY <1>2, <1>3

\* After the bindings of an update.
LEMMA UpdateGoesOn ==
  ASSUME pc' = "tail", text' = text, TailKept(text, next', stmt')
  PROVE  WriteInv'
BY DEF WriteInv

\* The end of the bindings.
LEMMA EndsSet ==
  ASSUME Typed, WriteInv, SetDone
  PROVE  WriteInv'
<1>1. pc = "set" /\ source' = source /\ pc' = "tail" /\ next' = next /\ stmt' = stmt
  BY DEF SetDone, Check, Goto
<1>2. text' = text
  BY <1>1, WriteTextStays
<1>3. stmt.verb = "update" /\ stmt.where = << >> /\ stmt.columns = << >> /\ Written(text, next) = UpdateHead(stmt)
  BY <1>1 DEF WriteInv
<1>4. stmt \in Statements
  BY WriteText
<1>. DEFINE h == UpdateHead(stmt)
<1>5. Plain(Filter(stmt)) = << >> /\ Plain(Returned(stmt)) = << >> /\ h \in Str
  BY <1>3, <1>4, FilterTyped, HeadTyped, PlainEmpty DEF Returned
<1>6. UpdateSoFar(stmt) = (h \o << >>) \o << >>
  BY <1>5 DEF UpdateSoFar
<1>. HIDE DEF h
<1>7. h \o << >> = h
  BY <1>5, StrUnit
<1>8. TailKept(text, next, stmt)
  BY <1>3, <1>6, <1>7 DEF TailKept, h
<1>. QED
  BY <1>1, <1>2, <1>8, UpdateGoesOn

\* The condition of an update, or of a read.
LEMMA FiltersUpdate ==
  ASSUME Typed, WriteInv, Where, Typed'
  PROVE  WriteInv'
<1>. DEFINE b == Binding(At(next + 1), At(next + 3))
            s == [stmt EXCEPT !.where = <<b>>]
<1>1. Check(PredicateAt(next + 1), pc, next + 4, s) /\ pc \in {"read", "tail"} /\ Is(next, "where")
  BY DEF Where, InClauses
<1>2. CASE ~ PredicateAt(next + 1)
  <2>. HIDE DEF s
  <2>. QED
    BY <1>1, <1>2, WriteFails DEF Check
<1>3. CASE PredicateAt(next + 1)
  <2>1. source' = source /\ pc' = pc /\ next' = next + 4 /\ stmt' = s
    BY <1>1, <1>3 DEF Check, Goto
  <2>2. text' = text
    BY <2>1, WriteTextStays
  <2>3. text \in Seq(Str) /\ Tokens = Len(text) /\ Tokens \in Nat /\ next \in Nat /\ stmt \in Statements
    BY WriteText
  <2>4. next + 1 + 2 < Tokens /\ text[next + 1 + 1 + 1] = <<Equals>> /\ text[next + 1] = <<"where">>
    BY <1>1, <1>3 DEF PredicateAt, Is, At
  <2>5. /\ next + 4 <= Len(text) /\ text[next + 3] = <<Equals>> /\ next + 3 + 1 = next + 4 /\ next + 1 + 1 = next + 2
        /\ next < Len(text) /\ next + 4 \in (next + 1)..Len(text) /\ next + 1 <= Len(text)
    BY <2>3, <2>4
  <2>6. b \in Assigned
    <3>1. next + 1 \in Nat /\ next + 1 + 2 = next + 3
      BY <2>3
    <3>. QED
      BY <1>3, <3>1, PredicateTyped
  <2>7. b.column = text[next + 2] /\ b.rhs = text[next + 4]
    BY <2>5 DEF Binding, At
  <2>. HIDE DEF b
  <2>8. s.verb = stmt.verb /\ s.columns = stmt.columns /\ s.where # << >>
    BY <2>3 DEF Statements
  <2>9. s \in Statements
    BY <2>1 DEF Typed
  <2>10. CASE pc = "read"
    <3>1. stmt'.verb = "read" /\ pc' = "read"
      BY <2>1, <2>8, <2>10 DEF WriteInv
    <3>. QED
      BY <3>1, ReadGoesOn
  <2>11. CASE pc = "tail"
    <3>1. TailKept(text, next, stmt)
      BY <2>11 DEF WriteInv
    <3>2. stmt.columns = << >> /\ stmt.verb = "update"
      BY <2>5, <3>1 DEF TailKept
    <3>3. HasWhere(Written(text, next + 4))
      BY <2>3, <2>4, <2>5, WhereOccurs DEF HasWhere
    <3>4. ASSUME OneWhere(Plain(FlattenSeq(text))) PROVE Written(text, next + 4) = UpdateSoFar(s)
      <4>1. ~ HasWhere(Written(text, next))
        BY <2>3, <2>4, <2>5, <3>4, WhereRepeated
      <4>2. stmt.where = << >> /\ Written(text, next) = UpdateSoFar(stmt)
        BY <3>1, <3>4, <4>1 DEF TailKept
      <4>. QED
        <5>1. s = [stmt EXCEPT !.where = <<b>>]
          OBVIOUS
        <5>. HIDE DEF s
        <5>2. text \in Seq(Str) /\ next \in Nat /\ next + 4 <= Len(text) /\ text[next + 1] = <<"where">> /\ text[next + 3] = <<Equals>>
          BY <2>3, <2>4, <2>5
        <5>3. stmt \in Statements /\ b \in Assigned /\ b.column = text[next + 2] /\ b.rhs = text[next + 4]
          BY <2>3, <2>6, <2>7
        <5>4. stmt.where = << >> /\ stmt.columns = << >> /\ s \in Statements /\ Written(text, next) = UpdateSoFar(stmt)
          BY <2>9, <3>2, <4>2
        <5>5. ConditionNext(text, next, stmt, b, s)
          BY <5>1, <5>2, <5>3, <5>4 DEF ConditionNext
        <5>. QED
          BY <5>5, WhereMore
    <3>5. TailKept(text, next + 4, s)
      BY <2>8, <3>2, <3>3, <3>4 DEF TailKept
    <3>. HIDE DEF s
    <3>. QED
      BY <2>1, <2>2, <2>11, <3>5, UpdateGoesOn
  <2>. QED
    BY <1>1, <2>10, <2>11
<1>. QED
  BY <1>2, <1>3

\* The columns that an update returns.
LEMMA ReturnsColumns ==
  ASSUME Typed, WriteInv, Returning, Typed'
  PROVE  WriteInv'
<1>. DEFINE n == Tokens - next - 1
            cols == [k \in 1..n |-> NoComma(At(next + k))]
            s == [stmt EXCEPT !.columns = cols]
<1>1. /\ pc = "tail" /\ next < Tokens /\ Is(next, "returning")
      /\ source' = source /\ pc' = "tail" /\ next' = Tokens /\ stmt' = s
  BY DEF Returning, InClauses, Goto
<1>2. text' = text
  BY <1>1, WriteTextStays
<1>3. text \in Seq(Str) /\ Tokens = Len(text) /\ Tokens \in Nat /\ next \in Nat /\ stmt \in Statements
  BY WriteText
<1>4. n \in Nat /\ n = Len(text) - next - 1
  BY <1>1, <1>3
<1>5. cols \in Seq(Token) /\ Len(cols) = n /\ \A i \in 1..n : cols[i] = NoComma(At(next + i))
  <2>1. next + n < Tokens /\ n \in Int
    BY <1>1, <1>3
  <2>. HIDE DEF n
  <2>2. [k \in 1..n |-> NoComma(At(next + k))] \in Seq(Token)
    BY <1>3, <2>1, ListTyped
  <2>3. Len(cols) = n
    BY <1>4, <2>2
  <2>. QED
    BY <2>2, <2>3
<1>6. cols \in Seq(Str)
  BY <1>5, TokensInStr
<1>7. \A i \in 1..Len(cols) : cols[i] = NoComma(text[next + 1 + i])
  <2>. HIDE DEF cols
  <2>. TAKE i \in 1..Len(cols)
  <2>1. next + i + 1 = next + 1 + i /\ i \in 1..n
    BY <1>3, <1>4, <1>5
  <2>2. At(next + i) = text[next + 1 + i]
    BY <2>1 DEF At
  <2>. QED
    BY <1>5, <2>1, <2>2
<1>8. text[next + 1] = <<"returning">>
  BY <1>1 DEF Is, At
<1>9. TailKept(text, next, stmt)
  BY <1>1 DEF WriteInv
<1>10. stmt.columns = << >> /\ stmt.verb = "update"
  BY <1>1, <1>3, <1>9 DEF TailKept
<1>11. s \in Statements
  BY <1>1 DEF Typed
<1>12. s = [stmt EXCEPT !.columns = cols]
  OBVIOUS
<1>13. Len(cols) = Len(text) - next - 1 /\ next < Len(text)
  BY <1>1, <1>3, <1>4, <1>5
<1>. HIDE DEF n, cols, s
<1>14. s.verb = "update" /\ s.where = stmt.where
  BY <1>3, <1>10, <1>12 DEF Statements
<1>15. ASSUME OneWhere(Plain(FlattenSeq(text))) PROVE Written(text, Len(text)) = UpdateSoFar(s)
  <2>1. Written(text, next) = UpdateSoFar(stmt)
    BY <1>9, <1>15 DEF TailKept
  <2>2. ColumnsNext(text, next, stmt, cols, s)
    BY <1>3, <1>6, <1>7, <1>8, <1>10, <1>11, <1>12, <1>13, <2>1 DEF ColumnsNext
  <2>. QED
    BY <2>2, ReturningMore
<1>16. s.where # << >> => HasWhere(Written(text, Len(text)))
  <2>. SUFFICES ASSUME s.where # << >> PROVE HasWhere(Written(text, Len(text)))
    OBVIOUS
  <2>1. HasWhere(Written(text, next))
    BY <1>9, <1>14 DEF TailKept
  <2>2. PICK i \in DOMAIN Written(text, next) : Written(text, next)[i] = "where"
    BY <2>1 DEF HasWhere
  <2>3. next \in 0..Len(text) /\ Len(text) \in next..Len(text)
    BY <1>3, <1>13
  <2>4. i \in DOMAIN Written(text, Len(text)) /\ Written(text, Len(text))[i] = "where"
    BY <1>3, <2>2, <2>3, WrittenStays
  <2>. QED
    BY <2>4 DEF HasWhere
<1>17. TailKept(text, Tokens, s)
  <2>1. ~ (Tokens < Len(text))
    BY <1>3
  <2>. QED
    BY <1>3, <1>14, <1>15, <1>16, <2>1 DEF TailKept
<1>. QED
  BY <1>1, <1>2, <1>17, UpdateGoesOn

\* The end of the text of a read or an update.
LEMMA EndsText ==
  ASSUME Typed, WriteInv, EndOfText
  PROVE  WriteInv'
<1>1. CASE Fail
  BY <1>1, WriteFails
<1>2. CASE Goto("parsed", next, stmt)
  <2>1. source' = source /\ pc' = "parsed" /\ stmt' = stmt /\ pc \in {"read", "tail"} /\ next >= Tokens
    BY <1>2 DEF EndOfText, Goto
  <2>2. text' = text
    BY <2>1, WriteTextStays
  <2>3. text \in Seq(Str) /\ Tokens = Len(text) /\ next = Len(text) /\ stmt \in Statements
    BY <2>1, WriteText
  <2>4. IsKept(text, stmt)
    <3>1. CASE pc = "read"
      BY <3>1, ReadIsKept DEF WriteInv
    <3>2. CASE pc = "tail"
      <4>1. TailKept(text, next, stmt)
        BY <3>2 DEF WriteInv
      <4>. QED
        BY <2>3, <4>1, UpdateIsKept
    <3>. QED
      BY <2>1, <3>1, <3>2
  <2>. QED
    BY <2>1, <2>2, <2>4 DEF WriteInv
<1>. QED
  BY <1>1, <1>2 DEF EndOfText, Check

\* A binding of an insert.
LEMMA BindsInInsert ==
  ASSUME Typed, WriteInv, InsertBinding
  PROVE  WriteInv'
<1>. DEFINE part == Head(parts)
            k == PlaceOf(part, Colon)
            column == SubSeq(part, 1, k - 1)
            value == SubSeq(part, k + 1, Len(part))
            b == Binding(column, value)
            s == [stmt EXCEPT !.bindings = Append(@, b)]
<1>1. CASE Fail
  BY <1>1, WriteFails
<1>2. CASE k # 0 /\ Goto("bindings", next, s) /\ parts' = Tail(parts)
  <2>1. pc = "bindings" /\ parts # << >> /\ source' = source /\ pc' = "bindings" /\ stmt' = s /\ parts' = Tail(parts)
    BY <1>2 DEF InsertBinding, Goto
  <2>2. text' = text
    BY <2>1, WriteTextStays
  <2>3. parts \in Seq(Token) /\ stmt \in Statements
    BY WriteText
  <2>4. part \in Token /\ part = Head(parts)
    BY <2>1, <2>3
  <2>5. InsertKept(text, parts, stmt)
    BY <2>1 DEF WriteInv
  <2>. HIDE DEF part
  <2>6. k \in 1..Len(part) /\ part[k] = Colon
    <3>1. Len(part) \in Nat
      BY <2>4 DEF Token
    <3>2. k \in 0..Len(part) /\ (k # 0 => part[k] = Colon)
      BY <3>1, PlaceOfIsFirst
    <3>. HIDE DEF k
    <3>. QED
      BY <1>2, <3>1, <3>2
  <2>7. b \in Assigned /\ b.column = column /\ b.rhs = value
    <3>. HIDE DEF k
    <3>1. column \in Token /\ value \in Token
      BY <2>4, <2>6 DEF Token
    <3>. HIDE DEF column, value
    <3>. QED
      BY <3>1 DEF Binding, Assigned
  <2>8. s = [stmt EXCEPT !.bindings = Append(@, b)]
    OBVIOUS
  <2>. HIDE DEF k, b, s
  <2>9. PartNext(parts, part, k, stmt, b, s)
    BY <2>1, <2>3, <2>4, <2>6, <2>7, <2>8 DEF PartNext
  <2>10. InsertKept(text, Tail(parts), s)
    BY <2>5, <2>9, InsertMore
  <2>. QED
    BY <2>1, <2>2, <2>10 DEF WriteInv
<1>. QED
  BY <1>1, <1>2 DEF InsertBinding

\* The end of the bindings of an insert.
LEMMA EndsInsert ==
  ASSUME Typed, WriteInv, InsertDone
  PROVE  WriteInv'
<1>1. pc = "bindings" /\ parts = << >> /\ source' = source /\ pc' = "parsed" /\ stmt' = stmt
  BY DEF InsertDone, Check, Goto
<1>2. text' = text
  BY <1>1, WriteTextStays
<1>3. text \in Seq(Str) /\ stmt \in Statements
  BY WriteText
<1>4. InsertKept(text, << >>, stmt)
  BY <1>1 DEF WriteInv
<1>5. IsKept(text, stmt)
  BY <1>3, <1>4, InsertIsKept
<1>. QED
  BY <1>1, <1>2, <1>5 DEF WriteInv

\* The clauses that only a read has.
LEMMA ReadsOn ==
  ASSUME Typed, WriteInv, ReadProjection \/ ReadOrder \/ ReadLimit
  PROVE  WriteInv'
<1>1. stmt \in Statements
  BY WriteText
<1>2. ASSUME NEW test \in BOOLEAN, NEW i, NEW s, s.verb = stmt.verb, pc = "read", Check(test, "read", i, s)
      PROVE  WriteInv'
  <2>1. CASE test
    <3>1. pc' = "read" /\ stmt' = s
      BY <1>2, <2>1 DEF Check, Goto
    <3>2. stmt'.verb = "read"
      BY <1>2, <3>1 DEF WriteInv
    <3>. QED
      BY <3>1, <3>2, ReadGoesOn
  <2>2. CASE ~ test
    BY <1>2, <2>2, WriteFails DEF Check
  <2>. QED
    BY <2>1, <2>2
<1>3. \A x : [stmt EXCEPT !.columns = x].verb = stmt.verb
  BY <1>1 DEF Statements
<1>4. \A x : [stmt EXCEPT !.order = x].verb = stmt.verb
  BY <1>1 DEF Statements
<1>5. \A x : [stmt EXCEPT !.limit = x].verb = stmt.verb
  BY <1>1 DEF Statements
<1>6. CASE ReadProjection
  <2>. DEFINE close == next + PlaceOf(SubSeq(text, next + 1, Tokens), <<RBrace>>) - 1
              columns == [k \in 1..(close - next - 1) |-> NoComma(At(next + k))]
              s == [stmt EXCEPT !.columns = columns]
  <2>1. pc = "read" /\ Check(close >= next, "read", close + 1, s)
    BY <1>6 DEF ReadProjection
  <2>2. s.verb = stmt.verb
    BY <1>3
  <2>3. (close >= next) \in BOOLEAN
    OBVIOUS
  <2>. HIDE DEF close, s
  <2>. QED
    BY <1>2, <2>1, <2>2, <2>3
<1>7. CASE ReadOrder
  <2>. DEFINE directed == Is(next + 2, "asc") \/ Is(next + 2, "desc")
              desc == IF directed THEN Is(next + 2, "desc") ELSE stmt.order # << >> /\ stmt.order[1].desc
              m == next + (IF directed THEN 3 ELSE 2)
              order == <<[column |-> At(next + 1), desc |-> desc]>>
              s == [stmt EXCEPT !.order = order]
  <2>1. pc = "read" /\ Check(next + 1 < Tokens, "read", m, s)
    BY <1>7 DEF ReadOrder
  <2>2. s.verb = stmt.verb
    BY <1>4
  <2>3. (next + 1 < Tokens) \in BOOLEAN
    OBVIOUS
  <2>. HIDE DEF m, s
  <2>. QED
    BY <1>2, <2>1, <2>2, <2>3
<1>8. CASE ReadLimit
  <2>. DEFINE digits == \E n \in Numbers : Is(next + 1, n)
              m == next + 2
              s == [stmt EXCEPT !.limit = At(next + 1)]
  <2>1. pc = "read" /\ Check(digits, "read", m, s)
    BY <1>8 DEF ReadLimit
  <2>2. s.verb = stmt.verb
    BY <1>5
  <2>3. digits \in BOOLEAN
    OBVIOUS
  <2>. HIDE DEF digits, m, s
  <2>. QED
    BY <1>2, <2>1, <2>2, <2>3
<1>. QED
  BY <1>6, <1>7, <1>8

\* The compiler leaves the statement alone.
LEMMA Compiling ==
  ASSUME WriteInv, Compile
  PROVE  WriteInv'
<1>1. pc = "parsed" /\ source' = source /\ pc' \in {"compiled", "refused"} /\ stmt' = stmt
  BY DEF Compile, Check, Goto
<1>2. text' = text
  BY <1>1, WriteTextStays
<1>3. IsKept(text, stmt)
  BY <1>1 DEF WriteInv
<1>. QED
  BY <1>1, <1>2, <1>3 DEF WriteInv

\* Every step keeps the invariant.
LEMMA WriteStep ==
  ASSUME Typed, WriteInv, [Next]_vars
  PROVE  WriteInv'
<1>1. Typed'
  BY TypedStep
<1>2. CASE Unsupported \/ Unexpected
  BY <1>2, WriteFails DEF Unsupported, Unexpected
<1>3. CASE UNCHANGED vars
  <2>1. source' = source /\ pc' = pc /\ next' = next /\ parts' = parts /\ stmt' = stmt
    BY <1>3 DEF vars
  <2>2. text' = text
    BY <2>1, WriteTextStays
  <2>. QED
    BY <2>1, <2>2 DEF WriteInv
<1>4. CASE StartRead
  BY <1>4, StartsRead
<1>5. CASE StartInsert
  BY <1>5, StartsInsert
<1>6. CASE StartUpdate
  BY <1>6, StartsUpdate
<1>7. CASE ParseDelete
  BY <1>1, <1>7, ParsesDelete
<1>8. CASE ReadProjection \/ ReadOrder \/ ReadLimit
  BY <1>8, ReadsOn
<1>9. CASE Where
  BY <1>1, <1>9, FiltersUpdate
<1>10. CASE Returning
  BY <1>1, <1>10, ReturnsColumns
<1>11. CASE EndOfText
  BY <1>11, EndsText
<1>12. CASE SetBinding
  BY <1>12, BindsInUpdate
<1>13. CASE SetDone
  BY <1>13, EndsSet
<1>14. CASE InsertBinding
  BY <1>14, BindsInInsert
<1>15. CASE InsertDone
  BY <1>15, EndsInsert
<1>16. CASE Compile
  BY <1>16, Compiling
<1>. QED
  BY <1>2, <1>3, <1>4, <1>5, <1>6, <1>7, <1>8, <1>9, <1>10, <1>11, <1>12, <1>13, <1>14, <1>15, <1>16 DEF Next

(* For every text, the statement that _parse_insert, _parse_update or      *)
(* _parse_delete makes of it has the atoms of the text, no more and no     *)
(* fewer, but for commas, optional words, a repeated WHERE of an update and*)
(* what follows the predicate of a delete.  A binding may be inside the    *)
(* literal before it.                                                      *)
THEOREM WritesAreKeptHolds == Spec => []WritesAreKept
<1>1. Init => WriteInv
  BY DEF Init, WriteInv
<1>2. Typed /\ WriteInv /\ [Next]_vars => WriteInv'
  BY WriteStep
<1>3. WriteInv => WritesAreKept
  BY DEF WriteInv, WritesAreKept
<1>. QED
  BY <1>1, <1>2, <1>3, TypedHolds, PTL DEF Spec


-----------------------------------------------------------------------------
(* What an author meant.  A text is taken apart from the left: the atoms of*)
(* the tokens that are left are those of the clauses that are left.        *)

\* Two ways to divide one sequence.
Divided(a, b, c, d) ==
  /\ Len(a) + Len(b) = Len(c) + Len(d)
  /\ \A k \in 1..Len(a) : k <= Len(c) => a[k] = c[k]
  /\ \A k \in 1..Len(a) : k > Len(c) => k - Len(c) \in 1..Len(d) /\ a[k] = d[k - Len(c)]
  /\ Len(a) = Len(c) => a = c /\ b = d

LEMMA Overlap ==
  ASSUME NEW S, NEW a \in Seq(S), NEW b \in Seq(S), NEW c \in Seq(S), NEW d \in Seq(S), a \o b = c \o d
  PROVE  Divided(a, b, c, d)
<1>1. /\ Len(a) \in Nat /\ Len(b) \in Nat /\ Len(c) \in Nat /\ Len(d) \in Nat
      /\ Len(a \o b) = Len(a) + Len(b) /\ Len(c \o d) = Len(c) + Len(d)
  OBVIOUS
<1>2. /\ \A k \in 1..(Len(a) + Len(b)) : (a \o b)[k] = IF k <= Len(a) THEN a[k] ELSE b[k - Len(a)]
      /\ \A k \in 1..(Len(c) + Len(d)) : (c \o d)[k] = IF k <= Len(c) THEN c[k] ELSE d[k - Len(c)]
  OBVIOUS
<1>3. \A k \in 1..Len(a) : k <= Len(c) => a[k] = c[k]
  BY <1>1, <1>2
<1>4. \A k \in 1..Len(a) : k > Len(c) => k - Len(c) \in 1..Len(d) /\ a[k] = d[k - Len(c)]
  BY <1>1, <1>2
<1>5. ASSUME Len(a) = Len(c) PROVE a = c /\ b = d
  <2>1. a = c
    <3>1. \A k \in 1..Len(a) : a[k] = c[k]
      BY <1>1, <1>3, <1>5
    <3>. QED
      BY <1>5, <3>1, SeqEqual
  <2>2. Len(b) = Len(d)
    BY <1>1, <1>5
  <2>3. ASSUME NEW k \in 1..Len(b) PROVE b[k] = d[k]
    <3>1. k + Len(a) \in 1..(Len(a) + Len(b)) /\ ~ (k + Len(a) <= Len(a)) /\ (k + Len(a)) - Len(a) = k
      BY <1>1
    <3>2. (a \o b)[k + Len(a)] = b[k]
      BY <1>2, <3>1
    <3>3. (c \o d)[k + Len(a)] = d[k]
      BY <1>1, <1>2, <1>5, <3>1
    <3>. QED
      BY <3>2, <3>3
  <2>4. b = d
    BY <2>2, <2>3, SeqEqual
  <2>. QED
    BY <2>1, <2>4
<1>. QED
  BY <1>1, <1>3, <1>4, <1>5 DEF Divided

\* An atom in front of a sequence.
LEMMA AtomFirst ==
  ASSUME NEW S, NEW x \in S, NEW b \in Seq(S)
  PROVE  /\ <<x>> \in Seq(S) /\ Len(<<x>>) = 1
         /\ <<x>> \o b \in Seq(S) /\ <<x>> \o b # << >> /\ (<<x>> \o b)[1] = x /\ Len(<<x>> \o b) = Len(b) + 1
         /\ \A k \in 2..(Len(b) + 1) : (<<x>> \o b)[k] = b[k - 1] /\ k - 1 \in 1..Len(b)
<1>. DEFINE a == <<x>>
            c == a \o b
            n == Len(a)
            m == Len(b)
<1>1. a \in Seq(S) /\ n = 1 /\ a[1] = x /\ m \in Nat
  OBVIOUS
<1>. HIDE DEF a
<1>2. c \in Seq(S) /\ Len(c) = n + m /\ \A k \in 1..(n + m) : c[k] = IF k <= n THEN a[k] ELSE b[k - n]
  BY <1>1, ConcatProperties
<1>. HIDE DEF c, n, m
<1>3. Len(c) = m + 1 /\ c[1] = x /\ c # << >>
  BY <1>1, <1>2
<1>4. \A k \in 2..(m + 1) : c[k] = b[k - 1] /\ k - 1 \in 1..m
  BY <1>1, <1>2
<1>. QED
  BY <1>1, <1>2, <1>3, <1>4 DEF a, c, n, m

\* A mark that is once in a sequence divides it in one way.
MarkTwice(x, a, b, c, d) == a \o (<<x>> \o b) = c \o (<<x>> \o d)
LEMMA OneMark ==
  ASSUME NEW S, NEW x \in S, NEW a \in Seq(S), NEW b \in Seq(S), NEW c \in Seq(S), NEW d \in Seq(S),
         MarkTwice(x, a, b, c, d), x \notin ToSet(c), x \notin ToSet(d)
  PROVE  a = c /\ b = d
<1>. DEFINE y == <<x>> \o b
            z == <<x>> \o d
<1>1. y \in Seq(S) /\ z \in Seq(S) /\ y[1] = x /\ z[1] = x /\ Len(z) = Len(d) + 1 /\ Len(y) = Len(b) + 1
      /\ \A k \in 2..Len(z) : z[k] = d[k - 1] /\ k - 1 \in 1..Len(d)
  <2>1. y \in Seq(S) /\ y[1] = x /\ Len(y) = Len(b) + 1
    BY AtomFirst
  <2>2. z \in Seq(S) /\ z[1] = x /\ Len(z) = Len(d) + 1 /\ \A k \in 2..(Len(d) + 1) : z[k] = d[k - 1] /\ k - 1 \in 1..Len(d)
    BY AtomFirst
  <2>. QED
    BY <2>1, <2>2
<1>2. a \o y = c \o z
  BY DEF MarkTwice
<1>. HIDE DEF y, z
<1>3. /\ Len(c) + Len(z) = Len(a) + Len(y)
      /\ \A k \in 1..Len(c) : k > Len(a) => k - Len(a) \in 1..Len(y) /\ c[k] = y[k - Len(a)]
      /\ Len(c) = Len(a) => c = a /\ z = y
  <2>1. c \o z = a \o y
    BY <1>2
  <2>2. Divided(c, z, a, y)
    BY <1>1, <2>1, Overlap
  <2>. QED
    BY <2>2 DEF Divided
<1>4. /\ Len(a) + Len(y) = Len(c) + Len(z)
      /\ Len(a) = Len(c) => a = c /\ y = z
  BY <1>3
<1>5. /\ \A k \in 1..Len(c) : c[k] # x
      /\ \A k \in 1..Len(d) : d[k] # x
      /\ Len(a) \in Nat /\ Len(c) \in Nat
  BY DEF ToSet
<1>6. ~ (Len(a) < Len(c))
  <2>. SUFFICES ASSUME Len(a) < Len(c) PROVE FALSE
    OBVIOUS
  <2>. DEFINE k == Len(a) + 1
  <2>1. k \in 1..Len(c) /\ k > Len(a) /\ k - Len(a) = 1
    BY <1>5
  <2>2. c[k] = y[1]
    BY <1>3, <2>1
  <2>. QED
    BY <1>1, <1>5, <2>1, <2>2
<1>7. ~ (Len(a) > Len(c))
  <2>. SUFFICES ASSUME Len(a) > Len(c) PROVE FALSE
    OBVIOUS
  <2>. DEFINE k == Len(a) + 1
              j == k - Len(c)
  <2>1. k \in 1..(Len(c) + Len(z)) /\ j \in 2..Len(z)
    BY <1>1, <1>4, <1>5
  <2>2. (a \o y)[k] = y[1] /\ (c \o z)[k] = z[j]
    BY <1>1, <1>5, <2>1
  <2>3. z[j] = d[j - 1] /\ j - 1 \in 1..Len(d)
    BY <1>1, <2>1
  <2>. HIDE DEF k, j
  <2>4. d[j - 1] = x
    BY <1>1, <1>2, <2>2, <2>3
  <2>. QED
    BY <1>5, <2>3, <2>4
<1>8. a = c /\ y = z
  BY <1>4, <1>5, <1>6, <1>7
<1>9. b = d
  <2>1. <<x>> \o b = <<x>> \o d
    BY <1>8 DEF y, z
  <2>. DEFINE e == <<x>>
  <2>2. e \in Seq(S) /\ e \o b = e \o d /\ Len(e) = Len(e)
    BY <2>1
  <2>. HIDE DEF e
  <2>3. Divided(e, b, e, d)
    BY <2>2, Overlap
  <2>. QED
    BY <2>3 DEF Divided
<1>. QED
  BY <1>8, <1>9

\* The atoms of the tokens after the first n.
Left(toks, n) == FlattenSeq(SubSeq(toks, n + 1, Len(toks)))

\* They are the atoms up to the m-th token and those after it.
LEMMA LeftSplits ==
  ASSUME NEW S, NEW toks \in Seq(Seq(S)), NEW n \in 0..Len(toks), NEW m \in n..Len(toks)
  PROVE  /\ SubSeq(toks, n + 1, m) \in Seq(Seq(S))
         /\ Left(toks, m) \in Seq(S) /\ FlattenSeq(SubSeq(toks, n + 1, m)) \in Seq(S)
         /\ Left(toks, n) = FlattenSeq(SubSeq(toks, n + 1, m)) \o Left(toks, m)
<1>. DEFINE a == SubSeq(toks, n + 1, m)
            b == SubSeq(toks, m + 1, Len(toks))
            c == SubSeq(toks, n + 1, Len(toks))
<1>1. a \in Seq(Seq(S)) /\ b \in Seq(Seq(S)) /\ c = a \o b
  <2>1. n + 1 \in 1..(Len(toks) + 1) /\ m \in ((n + 1) - 1)..Len(toks) /\ Len(toks) \in m..Len(toks)
    OBVIOUS
  <2>2. a \o b = c
    BY <2>1, ConcatAdjacentSubSeq
  <2>3. a \in Seq(Seq(S)) /\ b \in Seq(Seq(S))
    OBVIOUS
  <2>. QED
    BY <2>2, <2>3
<1>. HIDE DEF a, b, c
<1>2. FlattenSeq(a \o b) = FlattenSeq(a) \o FlattenSeq(b)
  BY <1>1, FlattenConcat
<1>3. FlattenSeq(a) \in Seq(S) /\ FlattenSeq(b) \in Seq(S)
  BY <1>1, FlattenTyped
<1>. QED
  BY <1>1, <1>2, <1>3 DEF Left, a, b, c

\* The next token, if there is one, and the others.
LEMMA LeftNext ==
  ASSUME NEW S, NEW toks \in Seq(Seq(S)), NEW n \in 0..Len(toks)
  PROVE  /\ Left(toks, n) \in Seq(S)
         /\ Left(toks, 0) = FlattenSeq(toks)
         /\ n = Len(toks) => Left(toks, n) = << >>
         /\ n < Len(toks) => /\ n + 1 \in 0..Len(toks) /\ toks[n + 1] \in Seq(S) /\ Left(toks, n + 1) \in Seq(S)
                             /\ Left(toks, n) = toks[n + 1] \o Left(toks, n + 1)
<1>1. SubSeq(toks, 0 + 1, Len(toks)) = toks
  OBVIOUS
<1>2. n = Len(toks) => SubSeq(toks, n + 1, Len(toks)) = << >>
  OBVIOUS
<1>3. ASSUME n < Len(toks)
      PROVE  /\ n + 1 \in 0..Len(toks) /\ toks[n + 1] \in Seq(S) /\ Left(toks, n + 1) \in Seq(S)
             /\ Left(toks, n) = toks[n + 1] \o Left(toks, n + 1)
  <2>. DEFINE m == n + 1
              t == toks[m]
  <2>1. m \in n..Len(toks) /\ m \in 0..Len(toks) /\ m \in 1..Len(toks) /\ n \in Nat
    BY <1>3
  <2>2. SubSeq(toks, n + 1, m) = Append(<< >>, t) /\ t \in Seq(S)
    <3>1. t \in Seq(S)
      BY <2>1
    <3>2. SubSeq(toks, m, m) = <<t>>
      <4>1. SubSeq(toks, m, m) = <<toks[m]>> \o SubSeq(toks, m + 1, m)
        BY <2>1, SubSeqRecursiveFirst
      <4>2. SubSeq(toks, m + 1, m) = << >>
        BY <2>1, SubSeqEmpty
      <4>3. <<toks[m]>> \o << >> = <<toks[m]>>
        OBVIOUS
      <4>. QED
        BY <4>1, <4>2, <4>3
    <3>3. <<t>> = Append(<< >>, t)
      OBVIOUS
    <3>. QED
      BY <3>1, <3>2, <3>3 DEF m
  <2>. HIDE DEF m
  <2>3. Left(toks, n) = FlattenSeq(SubSeq(toks, n + 1, m)) \o Left(toks, m) /\ Left(toks, m) \in Seq(S)
    BY <2>1, LeftSplits
  <2>. HIDE DEF t
  <2>4. FlattenSeq(Append(<< >>, t)) = FlattenSeq(<< >>) \o t
    <3>1. << >> \in Seq(Seq(S))
      OBVIOUS
    <3>. QED
      BY <2>2, <3>1, FlattenAppend
  <2>5. << >> \o t = t
    BY <2>2
  <2>6. FlattenSeq(SubSeq(toks, n + 1, m)) = t
    BY <2>2, <2>4, <2>5, FlattenEmpty
  <2>. QED
    BY <2>1, <2>2, <2>3, <2>6 DEF t, m
<1>4. Left(toks, n) \in Seq(S)
  <2>1. n \in n..Len(toks)
    OBVIOUS
  <2>. QED
    BY <2>1, LeftSplits
<1>. QED
  BY <1>1, <1>2, <1>3, <1>4, FlattenEmpty DEF Left

-----------------------------------------------------------------------------
(* Tokens and atoms.                                                       *)

\* The atoms of texts and of sentences.
Every == AtomsUsed \cup Words \cup Params \cup Numbers \cup Marks
Line == Seq(Every)

\* A line has the atoms of its parts.
LEMMA AtomsOfConcat ==
  ASSUME NEW a \in Line, NEW b \in Line
  PROVE  a \o b \in Line /\ ToSet(a \o b) = ToSet(a) \cup ToSet(b)
<1>1. /\ a \o b \in Line /\ Len(a) \in Nat /\ Len(b) \in Nat /\ Len(a \o b) = Len(a) + Len(b)
      /\ \A k \in 1..(Len(a) + Len(b)) : (a \o b)[k] = IF k <= Len(a) THEN a[k] ELSE b[k - Len(a)]
  BY ConcatProperties DEF Line
<1>. DEFINE c == a \o b
            n == Len(a)
            m == Len(b)
<1>2. ToSet(a) = {a[k] : k \in 1..n} /\ ToSet(b) = {b[k] : k \in 1..m} /\ ToSet(c) = {c[k] : k \in 1..(n + m)}
  BY <1>1 DEF ToSet, Line
<1>3. n \in Nat /\ m \in Nat /\ \A k \in 1..(n + m) : c[k] = IF k <= n THEN a[k] ELSE b[k - n]
  BY <1>1
<1>. HIDE DEF c, n, m
<1>4. \A k \in 1..n : k \in 1..(n + m) /\ c[k] = a[k]
  BY <1>3
<1>5. \A k \in 1..m : k + n \in 1..(n + m) /\ c[k + n] = b[k]
  BY <1>3
<1>6. \A k \in 1..(n + m) : (k \in 1..n /\ c[k] = a[k]) \/ (k - n \in 1..m /\ c[k] = b[k - n])
  BY <1>3
<1>7. ToSet(c) = ToSet(a) \cup ToSet(b)
  BY <1>2, <1>4, <1>5, <1>6
<1>. QED
  BY <1>1, <1>7 DEF c

\* A line of no atoms.
LEMMA EmptyLine ==
  << >> \in Line /\ ToSet(<< >>) = {} /\ \A a \in Line : << >> \o a = a /\ a \o << >> = a
BY ConcatEmptySeq DEF Line, ToSet

\* The first of some tokens, and the first atom.
Begins(t, rest, x, y) ==
  /\ t[1] = x
  /\ Len(t) = 1 => t = <<x>> /\ rest = y
  /\ \A z : t = <<z>> => z = x /\ rest = y
LEMMA FirstToken ==
  ASSUME NEW t \in Line, t # << >>, NEW rest \in Line, NEW x \in Every, NEW y \in Line, t \o rest = <<x>> \o y
  PROVE  Begins(t, rest, x, y)
<1>. DEFINE e == <<x>>
<1>1. e \in Line /\ Len(e) = 1 /\ e[1] = x
  BY DEF Line
<1>2. t \o rest = e \o y
  OBVIOUS
<1>. HIDE DEF e
<1>3. Divided(t, rest, e, y)
  BY <1>1, <1>2, Overlap DEF Line
<1>4. Len(t) \in Nat \ {0}
  BY DEF Line
<1>5. t[1] = x
  BY <1>1, <1>3, <1>4 DEF Divided
<1>6. Len(t) = 1 => t = <<x>> /\ rest = y
  BY <1>1, <1>3 DEF Divided, e
<1>7. \A z : t = <<z>> => Len(t) = 1
  OBVIOUS
<1>8. \A z : <<z>> = <<x>> => z = x
  OBVIOUS
<1>. QED
  BY <1>5, <1>6, <1>7, <1>8 DEF Begins

\* A literal ends with its first closing piece, and is not a parameter or a number.
LEMMA ValueIs ==
  ASSUME NEW v \in Values
  PROVE  /\ v \in Line /\ Len(v) \in Nat \ {0}
         /\ \/ Len(v) = 1 /\ v[1] \in Params \cup Numbers
            \/ v[1] \in Opens /\ v[Len(v)] \in Closes /\ \A k \in 1..(Len(v) - 1) : v[k] \notin Closes
<1>1. CASE v \in {<<x>> : x \in Params \cup Numbers}
  <2>1. PICK x \in Params \cup Numbers : v = <<x>>
    BY <1>1
  <2>2. v \in Line /\ Len(v) = 1 /\ v[1] = x
    BY <2>1 DEF Line, Every
  <2>. QED
    BY <2>2
<1>2. CASE v \in Seq(AtomsUsed) /\ IsLiteral(v)
  <2>1. v \in Line /\ v # << >>
    BY <1>2 DEF Line, Every, IsLiteral
  <2>2. Len(v) \in Nat \ {0}
    BY <2>1 DEF Line
  <2>3. \A k \in 1..Len(v) : v[k] \in Closes <=> k = Len(v)
    BY <1>2, <2>1 DEF IsLiteral, Line
  <2>. QED
    BY <1>2, <2>1, <2>2, <2>3 DEF IsLiteral
<1>. QED
  BY <1>1, <1>2 DEF Values

\* A token that is a value, where a value is written.
LEMMA ValueToken ==
  ASSUME NEW t \in Line, t # << >>, NEW rest \in Line, NEW v \in Values, NEW y \in Line, t \o rest = v \o y,
         IsRhs(t), (\A k \in 1..(Len(t) - 1) : t[k] \notin Closes) \/ ToSet(y) \cap Closes = {}
  PROVE  t = v /\ rest = y
<1>1. /\ v \in Line /\ Len(v) \in Nat \ {0}
      /\ \/ Len(v) = 1 /\ v[1] \in Params \cup Numbers
         \/ v[1] \in Opens /\ v[Len(v)] \in Closes /\ \A k \in 1..(Len(v) - 1) : v[k] \notin Closes
  BY ValueIs
<1>2. Len(t) \in Nat \ {0} /\ Len(rest) \in Nat /\ Len(y) \in Nat
  BY DEF Line
<1>3. Divided(t, rest, v, y)
  BY <1>1, Overlap DEF Line
<1>4. Divided(v, y, t, rest)
  <2>1. v \o y = t \o rest
    OBVIOUS
  <2>. QED
    BY <1>1, <2>1, Overlap DEF Line
<1>5. t[1] = v[1]
  BY <1>1, <1>2, <1>3 DEF Divided
<1>6. \/ Len(t) = 1 /\ t[1] \in Params \cup Numbers
      \/ t[1] \in Opens /\ t[Len(t)] \in Closes
  BY DEF IsRhs, IsParam, IsConst, Last
<1>7. Params \cap Opens = {} /\ Numbers \cap Opens = {}
  BY AtomsAssumption
<1>8. Len(t) = Len(v)
  <2>1. CASE Len(v) = 1 /\ v[1] \in Params \cup Numbers
    BY <1>5, <1>6, <1>7, <2>1
  <2>2. CASE v[1] \in Opens /\ v[Len(v)] \in Closes /\ \A k \in 1..(Len(v) - 1) : v[k] \notin Closes
    <3>1. t[Len(t)] \in Closes
      BY <1>5, <1>6, <1>7, <2>2
    <3>2. ~ (Len(t) < Len(v))
      <4>. SUFFICES ASSUME Len(t) < Len(v) PROVE FALSE
        OBVIOUS
      <4>1. Len(t) \in 1..(Len(v) - 1) /\ Len(t) \in 1..Len(t)
        BY <1>1, <1>2
      <4>2. t[Len(t)] = v[Len(t)]
        BY <1>1, <1>2, <1>3, <4>1 DEF Divided
      <4>. QED
        BY <2>2, <3>1, <4>1, <4>2
    <3>3. ~ (Len(v) < Len(t))
      <4>. SUFFICES ASSUME Len(v) < Len(t) PROVE FALSE
        OBVIOUS
      <4>1. CASE \A k \in 1..(Len(t) - 1) : t[k] \notin Closes
        <5>1. Len(v) \in 1..(Len(t) - 1) /\ Len(v) \in 1..Len(v)
          BY <1>1, <1>2
        <5>2. v[Len(v)] = t[Len(v)]
          BY <1>1, <1>2, <1>4, <5>1 DEF Divided
        <5>. QED
          BY <2>2, <4>1, <5>1, <5>2
      <4>2. CASE ToSet(y) \cap Closes = {}
        <5>1. Len(t) \in 1..Len(t)
          BY <1>2
        <5>2. Len(t) - Len(v) \in 1..Len(y) /\ t[Len(t)] = y[Len(t) - Len(v)]
          BY <1>1, <1>2, <1>3, <5>1 DEF Divided
        <5>3. y[Len(t) - Len(v)] \in ToSet(y)
          BY <5>2 DEF ToSet
        <5>. QED
          BY <3>1, <4>2, <5>2, <5>3
      <4>. QED
        BY <4>1, <4>2
    <3>. QED
      BY <1>1, <1>2, <3>2, <3>3
  <2>. QED
    BY <1>1, <2>1, <2>2
<1>. QED
  BY <1>3, <1>8 DEF Divided

-----------------------------------------------------------------------------
(* The parts of a sentence.                                                *)

\* A name is one atom, and no other kind of atom.
Plainwords == Words \ Keywords
LEMMA NameIs ==
  ASSUME NEW c \in Names
  PROVE  /\ c \in Line /\ Len(c) = 1 /\ c = <<c[1]>> /\ c[1] \in Plainwords /\ ToSet(c) = {c[1]} /\ c[1] \in Every
<1>1. PICK w \in Words \ Keywords : c = <<w>>
  BY DEF Names
<1>2. c \in Line /\ Len(c) = 1 /\ c[1] = w /\ w \in Every
  BY <1>1 DEF Line, Every
<1>. QED
  BY <1>1, <1>2, SingletonSet DEF Plainwords

\* The kinds of atoms.
LEMMA KindsOfAtoms ==
  /\ Keywords \subseteq Every /\ Plainwords \subseteq Every /\ Numbers \subseteq Every /\ Marks \subseteq Every
  /\ {LBrace, RBrace, Equals, Colon, Comma} \subseteq Every
  /\ {"read", "insert", "update", "delete", "from", "set", "where", "order", "asc", "desc", "limit", "returning"} \subseteq Every
  /\ Plainwords \cap Keywords = {} /\ (Plainwords \cup Keywords) \cap (Marks \cup Params \cup Numbers \cup Opens \cup Closes) = {}
  /\ Numbers \cap Closes = {} /\ Marks \cap Closes = {}
BY AtomsAssumption DEF Every, Plainwords, Marks, Keywords

\* A part of a sentence is missing or given once.
LEMMA AtMostOneIs ==
  ASSUME NEW S, NEW q \in AtMostOne(S), q # << >>
  PROVE  \E x \in S : q = <<x>>
<1>1. q \in Seq(S) /\ Len(q) <= 1 /\ Len(q) \in Nat /\ Len(q) # 0
  BY DEF AtMostOne
<1>2. Len(q) = 1
  <2>. DEFINE n == Len(q)
  <2>1. n <= 1 /\ n \in Nat /\ n # 0
    BY <1>1
  <2>. HIDE DEF n
  <2>2. n = 1
    BY <2>1
  <2>. QED
    BY <2>2 DEF n
<1>3. q = <<q[1]>> /\ q[1] \in S
  BY <1>1, <1>2
<1>. QED
  BY <1>3

LEMMA SentenceIs ==
  ASSUME NEW m \in Sentences
  PROVE  /\ m.verb \in Verbs /\ m.table \in Names /\ m.columns \in Seq(Names)
         /\ m.bindings \in Seq([column : Names, rhs : Values])
         /\ m.where # << >> => \E c \in Names : \E v \in Values :
              m.where = <<[column |-> c, rhs |-> v]>> /\ Equals \notin ToSet(v) /\ RBrace \notin ToSet(v)
         /\ m.order # << >> => \E c \in Names : \E d \in BOOLEAN : m.order = <<[column |-> c, desc |-> d]>>
         /\ m.limit # << >> => \E x \in Numbers : m.limit = <<x>>
         /\ m.bindings # << >> <=> m.verb \in {"insert", "update"}
         /\ m.columns # << >> => m.verb \in {"read", "update"}
         /\ m.where # << >> => m.verb # "insert"
         /\ m.order # << >> \/ m.limit # << >> => m.verb = "read"
<1>1. /\ m.verb \in Verbs /\ m.table \in Names /\ m.columns \in Seq(Names)
      /\ m.bindings \in Seq([column : Names, rhs : Values])
      /\ m.where \in AtMostOne([column : Names, rhs : Values])
      /\ m.order \in AtMostOne([column : Names, desc : BOOLEAN])
      /\ m.limit \in AtMostOne(Numbers)
      /\ m.bindings # << >> <=> m.verb \in {"insert", "update"}
      /\ m.columns # << >> => m.verb \in {"read", "update"}
      /\ m.where # << >> => m.verb # "insert" /\ {Equals, RBrace} \cap ToSet(m.where[1].rhs) = {}
      /\ m.order # << >> \/ m.limit # << >> => m.verb = "read"
  BY DEF Sentences
<1>2. ASSUME m.where # << >>
      PROVE  \E c \in Names : \E v \in Values :
               m.where = <<[column |-> c, rhs |-> v]>> /\ Equals \notin ToSet(v) /\ RBrace \notin ToSet(v)
  <2>1. PICK x \in [column : Names, rhs : Values] : m.where = <<x>>
    BY <1>1, <1>2, AtMostOneIs
  <2>2. x = [column |-> x.column, rhs |-> x.rhs] /\ x.column \in Names /\ x.rhs \in Values
    OBVIOUS
  <2>3. m.where[1] = x
    BY <2>1
  <2>. QED
    BY <1>1, <1>2, <2>1, <2>2, <2>3
<1>3. ASSUME m.order # << >>
      PROVE  \E c \in Names : \E d \in BOOLEAN : m.order = <<[column |-> c, desc |-> d]>>
  <2>1. PICK x \in [column : Names, desc : BOOLEAN] : m.order = <<x>>
    BY <1>1, <1>3, AtMostOneIs
  <2>2. x = [column |-> x.column, desc |-> x.desc] /\ x.column \in Names /\ x.desc \in BOOLEAN
    OBVIOUS
  <2>. QED
    BY <2>1, <2>2
<1>4. m.limit # << >> => \E x \in Numbers : m.limit = <<x>>
  BY <1>1, AtMostOneIs
<1>. QED
  BY <1>1, <1>2, <1>3, <1>4

\* The atoms of a list of names.
LEMMA ListedAtoms ==
  ASSUME NEW cols \in Seq(Names)
  PROVE  Listed(cols) \in Line /\ ToSet(Listed(cols)) \subseteq Plainwords \cup {Comma}
<1>. DEFINE B(k) == SubSeq(cols, 1, k)
            P == {k \in 0..Len(cols) : Listed(B(k)) \in Line /\ ToSet(Listed(B(k))) \subseteq Plainwords \cup {Comma}}
<1>1. Names \subseteq Line /\ cols \in Seq(Line) /\ Comma \in Every /\ <<Comma>> \in Line
  <2>1. Names \subseteq Line
    BY NameIs
  <2>2. cols \in Seq(Line)
    BY <2>1
  <2>3. Comma \in Every
    BY KindsOfAtoms
  <2>. QED
    BY <2>1, <2>2, <2>3 DEF Line
<1>2. /\ Len(cols) \in Nat /\ B(0) = << >> /\ B(Len(cols)) = cols
      /\ \A k \in 0..Len(cols) : B(k) \in Seq(Names)
      /\ \A k \in 1..Len(cols) : cols[k] \in Names /\ B(k) = Append(B(k - 1), cols[k])
  BY PrefixGrows
<1>. HIDE DEF B
<1>3. 0 \in P
  <2>1. Listed(<< >>) = << >>
    <3>1. << >> \in Seq(Line) /\ FlattenSeq(<< >>) = << >>
      BY FlattenEmpty
    <3>2. Len(<< >>) = 0 /\ 2 * 0 - 1 = -1 /\ 1..(-1) = {}
      OBVIOUS
    <3>3. [i \in 1..(2 * Len(<< >>) - 1) |-> IF i % 2 = 0 THEN <<Comma>> ELSE << >>[(i + 1) \div 2]] = << >>
      BY <3>2
    <3>. QED
      BY <3>1, <3>3 DEF Listed
  <2>2. << >> \in Line /\ ToSet(<< >>) = {}
    BY DEF Line, ToSet
  <2>. QED
    BY <1>2, <2>1, <2>2
<1>4. ASSUME NEW k \in 1..Len(cols), k - 1 \in P PROVE k \in P
  <2>. DEFINE before == B(k - 1)
              c == cols[k]
              l == Listed(before)
              comma == <<Comma>>
  <2>1. k - 1 \in 0..Len(cols) /\ k \in 0..Len(cols) /\ before \in Seq(Line) /\ c \in Names /\ B(k) = Append(before, c)
    <3>1. k - 1 \in 0..Len(cols) /\ k \in 0..Len(cols)
      BY <1>2
    <3>2. before \in Seq(Names) /\ c \in Names /\ B(k) = Append(before, c)
      BY <1>2, <3>1
    <3>3. Seq(Names) \subseteq Seq(Line)
      BY <1>1
    <3>. QED
      BY <3>1, <3>2, <3>3
  <2>2. c \in Line /\ ToSet(c) \subseteq Plainwords
    BY <2>1, NameIs
  <2>3. l \in Line /\ ToSet(l) \subseteq Plainwords \cup {Comma} /\ comma \in Line /\ ToSet(comma) = {Comma}
    BY <1>1, <1>4, SingletonSet
  <2>4. Listed(B(k)) = IF before = << >> THEN c ELSE (l \o comma) \o c
    <3>. HIDE DEF before, c
    <3>1. Listed(Append(before, c)) = IF before = << >> THEN c ELSE (Listed(before) \o <<Comma>>) \o c
      BY <1>1, <2>1, <2>2, ListedAppend DEF Line
    <3>. QED
      BY <2>1, <3>1
  <2>. HIDE DEF before, c, l, comma
  <2>5. l \o comma \in Line /\ ToSet(l \o comma) = ToSet(l) \cup ToSet(comma)
    BY <2>3, AtomsOfConcat
  <2>6. (l \o comma) \o c \in Line /\ ToSet((l \o comma) \o c) = ToSet(l \o comma) \cup ToSet(c)
    BY <2>2, <2>5, AtomsOfConcat
  <2>. QED
    BY <2>1, <2>2, <2>3, <2>4, <2>5, <2>6
<1>5. Len(cols) \in P
  <2>. HIDE DEF P
  <2>1. 0..Len(cols) \subseteq P
    BY <1>2, <1>3, <1>4, InductionTo
  <2>2. Len(cols) \in 0..Len(cols)
    BY <1>2
  <2>. QED
    BY <2>1, <2>2
<1>. QED
  BY <1>2, <1>5

-----------------------------------------------------------------------------
(* What is left of a sentence, and the invariant.                          *)

\* The clauses of a sentence, as lines ...
Projected(m) == IF m.columns = << >> THEN << >> ELSE <<LBrace>> \o (Listed(m.columns) \o <<RBrace>>)
Direction(m) == IF m.order[1].desc THEN <<"desc">> ELSE << >>
Ordered(m) == IF m.order = << >> THEN << >> ELSE <<"order">> \o (m.order[1].column \o Direction(m))
Limited(m) == IF m.limit = << >> THEN << >> ELSE <<"limit">> \o m.limit

\* ... those of a read after the first i, and of an update, ...
ReadRest(m, i) ==
  CASE i = 0 -> Projected(m) \o (Filter(m) \o (Ordered(m) \o Limited(m)))
    [] i = 1 -> Filter(m) \o (Ordered(m) \o Limited(m))
    [] i = 2 -> Ordered(m) \o Limited(m)
    [] i = 3 -> Limited(m)
    [] i = 4 -> << >>
UpdateRest(m, i) ==
  CASE i = 0 -> Filter(m) \o Returned(m)
    [] i = 1 -> Returned(m)
    [] i = 2 -> << >>
SetRest(m, j) == FlattenSeq(SubSeq(Bindings(m, Equals), j + 1, Len(m.bindings)))

\* ... and the statements that have those passed, and no others.
ReadUpTo(s, m, i) ==
  /\ s.verb = m.verb /\ s.table = m.table /\ s.bindings = m.bindings
  /\ s.columns = IF i > 0 THEN m.columns ELSE << >>
  /\ s.where = IF i > 1 THEN m.where ELSE << >>
  /\ s.order = IF i > 2 THEN m.order ELSE << >>
  /\ s.limit = IF i > 3 THEN m.limit ELSE << >>
UpdateUpTo(s, m, j, i) ==
  /\ s.verb = m.verb /\ s.table = m.table /\ s.order = m.order /\ s.limit = m.limit
  /\ s.bindings = SubSeq(m.bindings, 1, j)
  /\ s.where = IF i > 0 THEN m.where ELSE << >>
  /\ s.columns = IF i > 1 THEN m.columns ELSE << >>
InsertUpTo(s, m, j) ==
  /\ s.verb = m.verb /\ s.table = m.table /\ s.bindings = SubSeq(m.bindings, 1, j)
  /\ s.columns = m.columns /\ s.where = m.where /\ s.order = m.order /\ s.limit = m.limit

\* The compiler will refuse the statement, whatever is read yet: a name is none, and no
\* clause is left that could replace it; `mark` is in every clause that gives columns.
Spoiled(s, left, mark) ==
  \/ s.order # << >> /\ Len(s.order[1].column) # 1 /\ "order" \notin ToSet(left)
  \/ /\ \E k \in DOMAIN s.columns : Len(s.columns[k]) # 1 \/ s.columns[k][1] \notin Columns
     /\ mark \notin ToSet(left)
  \/ \E k \in DOMAIN s.bindings : Len(s.bindings[k].column) # 1

\* What is left is the clauses that are left, or the text will not compile.
ReadMeant(toks, n, s, m) ==
  \/ \E i \in 0..4 : Left(toks, n) = ReadRest(m, i) /\ ReadUpTo(s, m, i)
  \/ Spoiled(s, Left(toks, n), RBrace)
  \/ n < Len(toks) /\ toks[n + 1][1] = "desc"
SetMeant(toks, n, s, m) ==
  \/ \E j \in 0..Len(m.bindings) :
       Left(toks, n) = SetRest(m, j) \o UpdateRest(m, 0) /\ UpdateUpTo(s, m, j, 0)
  \/ Spoiled(s, Left(toks, n), "returning")
TailMeant(toks, n, s, m) ==
  \/ \E i \in 0..2 : Left(toks, n) = UpdateRest(m, i) /\ UpdateUpTo(s, m, Len(m.bindings), i)
  \/ Spoiled(s, Left(toks, n), "returning")
BindingParts(m) == [i \in DOMAIN m.bindings |-> Parts(Bindings(m, Colon)[i])]
InsertMeant(ps, s, m) ==
  \E j \in 0..Len(m.bindings) :
    /\ ps = Left(BindingParts(m), j)
    /\ InsertUpTo(s, m, j)

\* What an author meant, while it is read.
Spelt(src) == src.meant # NoStmt /\ (src.meant.verb = "update" => ~ LiteralsTouch(src.text))
Meant(m, toks, p, n, ps, s) ==
  /\ p = "read" => m.verb = "read" /\ ReadMeant(toks, n, s, m)
  /\ p = "set" => m.verb = "update" /\ SetMeant(toks, n, s, m)
  /\ p = "tail" => m.verb = "update" /\ TailMeant(toks, n, s, m)
  /\ p = "bindings" => m.verb = "insert" /\ InsertMeant(ps, s, m)
  /\ p = "parsed" => s = m \/ Spoiled(s, << >>, RBrace)
  /\ p = "compiled" => s = m
MeantInv == Spelt(source) => Meant(source.meant, text, pc, next, parts, stmt)

\* The lines of the clauses, their atoms, and what a clause that is given starts with.
LEMMA LimitedIs ==
  ASSUME NEW m \in Sentences
  PROVE  /\ Limited(m) \in Line /\ ToSet(Limited(m)) \subseteq {"limit"} \cup Numbers
         /\ m.limit = << >> => Limited(m) = << >>
         /\ m.limit # << >> => \E x \in Numbers : m.limit = <<x>> /\ Limited(m) = <<"limit">> \o <<x>>
<1>1. CASE m.limit = << >>
  BY <1>1 DEF Limited, Line, ToSet
<1>2. CASE m.limit # << >>
  <2>1. PICK x \in Numbers : m.limit = <<x>>
    BY <1>2, SentenceIs
  <2>2. <<"limit">> \in Line /\ <<x>> \in Line /\ ToSet(<<"limit">>) = {"limit"} /\ ToSet(<<x>>) = {x}
    BY KindsOfAtoms, SingletonSet DEF Line
  <2>3. Limited(m) = <<"limit">> \o <<x>>
    BY <1>2, <2>1 DEF Limited
  <2>4. Limited(m) \in Line /\ ToSet(Limited(m)) \subseteq {"limit"} \cup Numbers
    BY <2>2, <2>3, AtomsOfConcat
  <2>. QED
    BY <1>2, <2>1, <2>3, <2>4
<1>. QED
  BY <1>1, <1>2

LEMMA DirectionIs ==
  ASSUME NEW m, m.order[1].desc \in BOOLEAN
  PROVE  Direction(m) \in Line /\ ToSet(Direction(m)) \subseteq {"desc"}
<1>1. << >> \in Line /\ <<"desc">> \in Line /\ ToSet(<< >>) = {} /\ ToSet(<<"desc">>) = {"desc"}
  BY KindsOfAtoms, SingletonSet DEF Line, ToSet
<1>. QED
  BY <1>1 DEF Direction

LEMMA OrderedIs ==
  ASSUME NEW m \in Sentences
  PROVE  /\ Ordered(m) \in Line /\ ToSet(Ordered(m)) \subseteq Plainwords \cup {"order", "desc"}
         /\ m.order = << >> => Ordered(m) = << >>
         /\ m.order # << >> =>
              \E c \in Names : \E d \in BOOLEAN :
                 /\ m.order = <<[column |-> c, desc |-> d]>>
                 /\ Direction(m) = (IF d THEN <<"desc">> ELSE << >>) /\ Direction(m) \in Line
                 /\ Ordered(m) = <<"order">> \o (c \o Direction(m))
<1>1. CASE m.order = << >>
  BY <1>1 DEF Ordered, Line, ToSet
<1>2. CASE m.order # << >>
  <2>1. PICK c \in Names, d \in BOOLEAN : m.order = <<[column |-> c, desc |-> d]>>
    BY <1>2, SentenceIs
  <2>2. m.order[1].column = c /\ m.order[1].desc = d
    BY <2>1
  <2>3. /\ <<"order">> \in Line /\ ToSet(<<"order">>) = {"order"}
        /\ c \in Line /\ ToSet(c) \subseteq Plainwords
        /\ Direction(m) \in Line /\ ToSet(Direction(m)) \subseteq {"desc"}
    BY <2>2, KindsOfAtoms, SingletonSet, NameIs, DirectionIs DEF Line
  <2>4. Ordered(m) = <<"order">> \o (c \o Direction(m))
    BY <1>2, <2>2 DEF Ordered
  <2>5. c \o Direction(m) \in Line /\ ToSet(c \o Direction(m)) = ToSet(c) \cup ToSet(Direction(m))
    BY <2>3, AtomsOfConcat
  <2>. DEFINE rest == c \o Direction(m)
  <2>. HIDE DEF rest
  <2>6. <<"order">> \o rest \in Line /\ ToSet(<<"order">> \o rest) = ToSet(<<"order">>) \cup ToSet(rest)
    BY <2>3, <2>5, AtomsOfConcat DEF rest
  <2>7. Direction(m) = IF d THEN <<"desc">> ELSE << >>
    BY <2>2 DEF Direction
  <2>. QED
    BY <1>2, <2>1, <2>3, <2>4, <2>5, <2>6, <2>7 DEF rest
<1>. QED
  BY <1>1, <1>2

LEMMA FilterIs ==
  ASSUME NEW m \in Sentences
  PROVE  /\ Filter(m) \in Line /\ RBrace \notin ToSet(Filter(m))
         /\ m.where = << >> => Filter(m) = << >>
         /\ m.where # << >> =>
              \E c \in Names : \E v \in Values :
                 /\ m.where = <<[column |-> c, rhs |-> v]>> /\ Equals \notin ToSet(v)
                 /\ Filter(m) = <<"where">> \o (c \o (<<Equals>> \o v))
<1>1. CASE m.where = << >>
  BY <1>1 DEF Filter, Line, ToSet
<1>2. CASE m.where # << >>
  <2>1. PICK c \in Names, v \in Values :
          m.where = <<[column |-> c, rhs |-> v]>> /\ Equals \notin ToSet(v) /\ RBrace \notin ToSet(v)
    BY <1>2, SentenceIs
  <2>2. m.where[1].column = c /\ m.where[1].rhs = v
    BY <2>1
  <2>. DEFINE w == <<"where">>
              e == <<Equals>>
  <2>3. /\ w \in Line /\ ToSet(w) = {"where"} /\ e \in Line /\ ToSet(e) = {Equals}
        /\ c \in Line /\ ToSet(c) \subseteq Plainwords /\ v \in Line
    BY KindsOfAtoms, SingletonSet, NameIs, ValueIs DEF Line
  <2>4. Filter(m) = ((w \o c) \o e) \o v
    BY <1>2, <2>2 DEF Filter
  <2>. HIDE DEF w, e
  <2>5. e \o v \in Line /\ ToSet(e \o v) = ToSet(e) \cup ToSet(v)
    BY <2>3, AtomsOfConcat
  <2>6. c \o (e \o v) \in Line /\ ToSet(c \o (e \o v)) = ToSet(c) \cup ToSet(e \o v)
    BY <2>3, <2>5, AtomsOfConcat
  <2>7. w \o (c \o (e \o v)) \in Line /\ ToSet(w \o (c \o (e \o v))) = ToSet(w) \cup ToSet(c \o (e \o v))
    BY <2>3, <2>6, AtomsOfConcat
  <2>8. ((w \o c) \o e) \o v = w \o (c \o (e \o v))
    <3>1. (w \o c) \o (e \o v) = w \o (c \o (e \o v))
      BY <2>3, <2>5, Regroup DEF Line
    <3>2. w \o c \in Line
      BY <2>3, AtomsOfConcat
    <3>3. w \o c \in Seq(Every) /\ e \in Seq(Every) /\ v \in Seq(Every)
      BY <2>3, <3>2 DEF Line
    <3>4. (w \o c) \o (e \o v) = ((w \o c) \o e) \o v
      BY <3>3, Regroup
    <3>. QED
      BY <3>1, <3>4
  <2>9. RBrace \notin Plainwords /\ RBrace # Equals /\ RBrace # "where"
    BY KindsOfAtoms DEF Marks, RBrace, Equals
  <2>10. RBrace \notin ToSet(Filter(m))
    BY <2>1, <2>3, <2>4, <2>5, <2>6, <2>7, <2>8, <2>9
  <2>. QED
    BY <1>2, <2>1, <2>4, <2>7, <2>8, <2>10 DEF w, e
<1>. QED
  BY <1>1, <1>2

LEMMA ProjectedIs ==
  ASSUME NEW m \in Sentences
  PROVE  /\ Projected(m) \in Line
         /\ m.columns = << >> => Projected(m) = << >>
         /\ m.columns # << >> => Projected(m) = <<LBrace>> \o (Listed(m.columns) \o <<RBrace>>)
         /\ Listed(m.columns) \in Line /\ ToSet(Listed(m.columns)) \subseteq Plainwords \cup {Comma}
<1>1. Listed(m.columns) \in Line /\ ToSet(Listed(m.columns)) \subseteq Plainwords \cup {Comma}
  BY SentenceIs, ListedAtoms
<1>2. <<LBrace>> \in Line /\ <<RBrace>> \in Line /\ << >> \in Line
  BY KindsOfAtoms DEF Line
<1>. DEFINE l == Listed(m.columns)
            a == <<LBrace>>
            b == <<RBrace>>
<1>3. Projected(m) = IF m.columns = << >> THEN << >> ELSE a \o (l \o b)
  BY DEF Projected
<1>. HIDE DEF l, a, b
<1>4. l \o b \in Line
  BY <1>1, <1>2, AtomsOfConcat DEF l, b
<1>5. a \o (l \o b) \in Line
  BY <1>2, <1>4, AtomsOfConcat DEF a
<1>. QED
  BY <1>1, <1>2, <1>3, <1>5 DEF l, a, b

LEMMA ReturnedIs ==
  ASSUME NEW m \in Sentences
  PROVE  /\ Returned(m) \in Line /\ ToSet(Returned(m)) \subseteq Plainwords \cup {Comma, "returning"}
         /\ m.columns = << >> => Returned(m) = << >>
         /\ m.columns # << >> => Returned(m) = <<"returning">> \o Listed(m.columns)
<1>1. Listed(m.columns) \in Line /\ ToSet(Listed(m.columns)) \subseteq Plainwords \cup {Comma}
  BY SentenceIs, ListedAtoms
<1>2. <<"returning">> \in Line /\ << >> \in Line /\ ToSet(<<"returning">>) = {"returning"} /\ ToSet(<< >>) = {}
  BY KindsOfAtoms, SingletonSet DEF Line, ToSet
<1>3. Returned(m) = IF m.columns = << >> THEN << >> ELSE <<"returning">> \o Listed(m.columns)
  BY DEF Returned
<1>. DEFINE l == Listed(m.columns)
            a == <<"returning">>
<1>. HIDE DEF l, a
<1>4. a \o l \in Line /\ ToSet(a \o l) = ToSet(a) \cup ToSet(l)
  BY <1>1, <1>2, AtomsOfConcat DEF l, a
<1>. QED
  BY <1>1, <1>2, <1>3, <1>4 DEF l, a

\* What follows a clause of a read.
LEMMA ReadRestIs ==
  ASSUME NEW m \in Sentences
  PROVE  /\ \A i \in 0..4 : ReadRest(m, i) \in Line
         /\ ReadRest(m, 0) = Projected(m) \o ReadRest(m, 1) /\ ReadRest(m, 1) = Filter(m) \o ReadRest(m, 2)
         /\ ReadRest(m, 2) = Ordered(m) \o ReadRest(m, 3) /\ ReadRest(m, 3) = Limited(m) /\ ReadRest(m, 4) = << >>
         /\ RBrace \notin ToSet(ReadRest(m, 1))
         /\ ToSet(ReadRest(m, 2)) \subseteq Plainwords \cup Numbers \cup {"order", "desc", "limit"}
         /\ ToSet(ReadRest(m, 3)) \subseteq Numbers \cup {"limit"}
<1>1. /\ ReadRest(m, 0) = Projected(m) \o ReadRest(m, 1) /\ ReadRest(m, 1) = Filter(m) \o ReadRest(m, 2)
      /\ ReadRest(m, 2) = Ordered(m) \o ReadRest(m, 3) /\ ReadRest(m, 3) = Limited(m) /\ ReadRest(m, 4) = << >>
  BY DEF ReadRest
<1>2. ReadRest(m, 4) \in Line /\ ReadRest(m, 3) \in Line /\ ToSet(ReadRest(m, 3)) \subseteq Numbers \cup {"limit"}
  BY <1>1, LimitedIs, EmptyLine
<1>3. ReadRest(m, 2) \in Line /\ ToSet(ReadRest(m, 2)) \subseteq Plainwords \cup Numbers \cup {"order", "desc", "limit"}
  <2>1. Ordered(m) \in Line /\ ToSet(Ordered(m)) \subseteq Plainwords \cup {"order", "desc"}
    BY OrderedIs
  <2>2. /\ Ordered(m) \o ReadRest(m, 3) \in Line
        /\ ToSet(Ordered(m) \o ReadRest(m, 3)) = ToSet(Ordered(m)) \cup ToSet(ReadRest(m, 3))
    BY <1>2, <2>1, AtomsOfConcat
  <2>. QED
    BY <1>1, <1>2, <2>1, <2>2
<1>4. ReadRest(m, 1) \in Line /\ RBrace \notin ToSet(ReadRest(m, 1))
  <2>1. Filter(m) \in Line /\ RBrace \notin ToSet(Filter(m))
    BY FilterIs
  <2>2. RBrace \notin Plainwords \cup Numbers \cup {"order", "desc", "limit"}
    BY KindsOfAtoms, AtomsAssumption DEF Marks, RBrace
  <2>. QED
    BY <1>1, <1>3, <2>1, <2>2, AtomsOfConcat
<1>5. ReadRest(m, 0) \in Line
  <2>1. Projected(m) \in Line
    BY ProjectedIs
  <2>. QED
    BY <1>1, <1>4, <2>1, AtomsOfConcat
<1>6. \A i \in 0..4 : i = 0 \/ i = 1 \/ i = 2 \/ i = 3 \/ i = 4
  OBVIOUS
<1>7. \A i \in 0..4 : ReadRest(m, i) \in Line
  BY <1>2, <1>3, <1>4, <1>5, <1>6
<1>. QED
  BY <1>1, <1>2, <1>3, <1>4, <1>7

\* The next clause of a read is the first that is given.
NextOfRead(s, m, left) ==
  \/ left = << >> /\ ReadUpTo(s, m, 4)
  \/ m.columns # << >> /\ ReadUpTo(s, m, 0) /\ left = Projected(m) \o ReadRest(m, 1)
  \/ m.where # << >> /\ ReadUpTo(s, m, 1) /\ left = Filter(m) \o ReadRest(m, 2)
  \/ m.order # << >> /\ ReadUpTo(s, m, 2) /\ left = Ordered(m) \o ReadRest(m, 3)
  \/ m.limit # << >> /\ ReadUpTo(s, m, 3) /\ left = Limited(m)
LEMMA ReadSkips ==
  ASSUME NEW m \in Sentences, NEW i \in 0..4, NEW s, ReadUpTo(s, m, i)
  PROVE  NextOfRead(s, m, ReadRest(m, i))
<1>1. \A k \in 0..4 : ReadRest(m, k) \in Line
  BY ReadRestIs
<1>2. \A a \in Line : << >> \o a = a
  BY EmptyLine
<1>3. ReadUpTo(s, m, 4) => NextOfRead(s, m, ReadRest(m, 4))
  BY ReadRestIs DEF NextOfRead
<1>4. ReadUpTo(s, m, 3) => NextOfRead(s, m, ReadRest(m, 3))
  <2>1. CASE m.limit # << >>
    BY <2>1, ReadRestIs DEF NextOfRead
  <2>2. CASE m.limit = << >>
    <3>1. ReadUpTo(s, m, 3) => ReadUpTo(s, m, 4)
      BY <2>2 DEF ReadUpTo
    <3>2. ReadRest(m, 3) = ReadRest(m, 4)
      BY <2>2, LimitedIs, ReadRestIs
    <3>. QED
      BY <1>3, <3>1, <3>2
  <2>. QED
    BY <2>1, <2>2
<1>5. ReadUpTo(s, m, 2) => NextOfRead(s, m, ReadRest(m, 2))
  <2>1. CASE m.order # << >>
    BY <2>1, ReadRestIs DEF NextOfRead
  <2>2. CASE m.order = << >>
    <3>1. ReadUpTo(s, m, 2) => ReadUpTo(s, m, 3)
      BY <2>2 DEF ReadUpTo
    <3>2. ReadRest(m, 2) = << >> \o ReadRest(m, 3)
      BY <2>2, OrderedIs, ReadRestIs
    <3>. QED
      BY <1>1, <1>2, <1>4, <3>1, <3>2
  <2>. QED
    BY <2>1, <2>2
<1>6. ReadUpTo(s, m, 1) => NextOfRead(s, m, ReadRest(m, 1))
  <2>1. CASE m.where # << >>
    BY <2>1, ReadRestIs DEF NextOfRead
  <2>2. CASE m.where = << >>
    <3>1. ReadUpTo(s, m, 1) => ReadUpTo(s, m, 2)
      BY <2>2 DEF ReadUpTo
    <3>2. ReadRest(m, 1) = << >> \o ReadRest(m, 2)
      BY <2>2, FilterIs, ReadRestIs
    <3>. QED
      BY <1>1, <1>2, <1>5, <3>1, <3>2
  <2>. QED
    BY <2>1, <2>2
<1>7. ReadUpTo(s, m, 0) => NextOfRead(s, m, ReadRest(m, 0))
  <2>1. CASE m.columns # << >>
    BY <2>1, ReadRestIs DEF NextOfRead
  <2>2. CASE m.columns = << >>
    <3>1. ReadUpTo(s, m, 0) => ReadUpTo(s, m, 1)
      BY <2>2 DEF ReadUpTo
    <3>2. ReadRest(m, 0) = << >> \o ReadRest(m, 1)
      BY <2>2, ProjectedIs, ReadRestIs
    <3>. QED
      BY <1>1, <1>2, <1>6, <3>1, <3>2
  <2>. QED
    BY <2>1, <2>2
<1>8. i = 0 \/ i = 1 \/ i = 2 \/ i = 3 \/ i = 4
  OBVIOUS
<1>. QED
  BY <1>3, <1>4, <1>5, <1>6, <1>7, <1>8

\* The same of an update after its bindings.
LEMMA UpdateRestIs ==
  ASSUME NEW m \in Sentences
  PROVE  /\ \A i \in 0..2 : UpdateRest(m, i) \in Line
         /\ UpdateRest(m, 0) = Filter(m) \o UpdateRest(m, 1) /\ UpdateRest(m, 1) = Returned(m) /\ UpdateRest(m, 2) = << >>
         /\ ToSet(UpdateRest(m, 1)) \subseteq Plainwords \cup {Comma, "returning"}
<1>1. UpdateRest(m, 0) = Filter(m) \o UpdateRest(m, 1) /\ UpdateRest(m, 1) = Returned(m) /\ UpdateRest(m, 2) = << >>
  BY DEF UpdateRest
<1>2. /\ UpdateRest(m, 2) \in Line /\ UpdateRest(m, 1) \in Line
      /\ ToSet(UpdateRest(m, 1)) \subseteq Plainwords \cup {Comma, "returning"}
  BY <1>1, ReturnedIs, EmptyLine
<1>3. UpdateRest(m, 0) \in Line
  <2>1. Filter(m) \in Line
    BY FilterIs
  <2>2. Filter(m) \o UpdateRest(m, 1) \in Line
    BY <1>2, <2>1, AtomsOfConcat
  <2>. QED
    BY <1>1, <2>2
<1>4. \A i \in 0..2 : i = 0 \/ i = 1 \/ i = 2
  OBVIOUS
<1>. QED
  BY <1>1, <1>2, <1>3, <1>4

NextOfUpdate(s, m, left) ==
  \/ left = << >> /\ UpdateUpTo(s, m, Len(m.bindings), 2)
  \/ m.where # << >> /\ UpdateUpTo(s, m, Len(m.bindings), 0) /\ left = Filter(m) \o UpdateRest(m, 1)
  \/ m.columns # << >> /\ UpdateUpTo(s, m, Len(m.bindings), 1) /\ left = Returned(m)
LEMMA UpdateSkips ==
  ASSUME NEW m \in Sentences, NEW i \in 0..2, NEW s, UpdateUpTo(s, m, Len(m.bindings), i)
  PROVE  NextOfUpdate(s, m, UpdateRest(m, i))
<1>. DEFINE n == Len(m.bindings)
<1>1. \A k \in 0..2 : UpdateRest(m, k) \in Line
  BY UpdateRestIs
<1>2. \A a \in Line : << >> \o a = a
  BY EmptyLine
<1>3. UpdateUpTo(s, m, n, 2) => NextOfUpdate(s, m, UpdateRest(m, 2))
  BY UpdateRestIs DEF NextOfUpdate
<1>4. UpdateUpTo(s, m, n, 1) => NextOfUpdate(s, m, UpdateRest(m, 1))
  <2>1. CASE m.columns # << >>
    BY <2>1, UpdateRestIs DEF NextOfUpdate
  <2>2. CASE m.columns = << >>
    <3>1. UpdateUpTo(s, m, n, 1) => UpdateUpTo(s, m, n, 2)
      BY <2>2 DEF UpdateUpTo
    <3>2. UpdateRest(m, 1) = UpdateRest(m, 2)
      BY <2>2, ReturnedIs, UpdateRestIs
    <3>. QED
      BY <1>3, <3>1, <3>2
  <2>. QED
    BY <2>1, <2>2
<1>5. UpdateUpTo(s, m, n, 0) => NextOfUpdate(s, m, UpdateRest(m, 0))
  <2>1. CASE m.where # << >>
    BY <2>1, UpdateRestIs DEF NextOfUpdate
  <2>2. CASE m.where = << >>
    <3>1. UpdateUpTo(s, m, n, 0) => UpdateUpTo(s, m, n, 1)
      BY <2>2 DEF UpdateUpTo
    <3>2. UpdateRest(m, 0) = << >> \o UpdateRest(m, 1)
      BY <2>2, FilterIs, UpdateRestIs
    <3>. QED
      BY <1>1, <1>2, <1>4, <3>1, <3>2
  <2>. QED
    BY <2>1, <2>2
<1>6. i = 0 \/ i = 1 \/ i = 2
  OBVIOUS
<1>. QED
  BY <1>3, <1>4, <1>5, <1>6

-----------------------------------------------------------------------------
(* The tokens that are left.                                               *)

\* The tokens of a text.
AreTokens(toks) == toks \in Seq(Line) /\ \A k \in 1..Len(toks) : toks[k] # << >>

LEMMA TextIsTokens ==
  ASSUME Typed
  PROVE  AreTokens(text) /\ Tokens = Len(text) /\ Tokens \in Nat
<1>1. Token \subseteq Line
  <2>1. AtomsUsed \subseteq Every
    BY DEF Every
  <2>2. ASSUME NEW A, NEW B, A \subseteq B PROVE Seq(A) \subseteq Seq(B)
    BY <2>2
  <2>. QED
    BY <2>1, <2>2 DEF Token, Line
<1>2. Seq(Token) \subseteq Seq(Line)
  <2>1. ASSUME NEW A, NEW B, A \subseteq B PROVE Seq(A) \subseteq Seq(B)
    BY <2>1
  <2>. QED
    BY <1>1, <2>1
<1>. QED
  BY <1>2, TextTyped DEF AreTokens

\* Three lines, from the left and from the right.
Grouped(a, b, c) == (a \o b) \o c = a \o (b \o c)
LEMMA LineRegroup ==
  ASSUME NEW a \in Line, NEW b \in Line, NEW c \in Line
  PROVE  Grouped(a, b, c)
BY Regroup DEF Line, Grouped

\* The next token and the others.
LEMMA NextToken ==
  ASSUME NEW toks, AreTokens(toks), NEW n \in Nat, n < Len(toks)
  PROVE  /\ n + 1 \in 0..Len(toks) /\ toks[n + 1] \in Line /\ toks[n + 1] # << >>
         /\ Left(toks, n) \in Line /\ Left(toks, n + 1) \in Line
         /\ Left(toks, n) = toks[n + 1] \o Left(toks, n + 1)
<1>1. n \in 0..Len(toks) /\ toks \in Seq(Seq(Every)) /\ n + 1 \in 1..Len(toks)
  BY DEF AreTokens, Line
<1>2. toks[n + 1] # << >>
  BY <1>1 DEF AreTokens
<1>. QED
  BY <1>1, <1>2, LeftNext DEF Line

\* What is left later was left before.
LEMMA LeftShrinks ==
  ASSUME NEW toks, AreTokens(toks), NEW n \in 0..Len(toks), NEW m \in n..Len(toks)
  PROVE  ToSet(Left(toks, m)) \subseteq ToSet(Left(toks, n)) /\ Left(toks, n) \in Line
<1>1. toks \in Seq(Seq(Every))
  BY DEF AreTokens, Line
<1>. DEFINE a == FlattenSeq(SubSeq(toks, n + 1, m))
            b == Left(toks, m)
<1>2. a \in Line /\ b \in Line /\ Left(toks, n) = a \o b
  BY <1>1, LeftSplits DEF Line
<1>. HIDE DEF a, b
<1>3. a \o b \in Line /\ ToSet(a \o b) = ToSet(a) \cup ToSet(b)
  BY <1>2, AtomsOfConcat
<1>. QED
  BY <1>2, <1>3 DEF b

\* A token that is left has atoms that are left.
LEMMA TokenIsLeft ==
  ASSUME NEW toks, AreTokens(toks), NEW n \in 0..Len(toks), NEW m \in n..Len(toks), m < Len(toks)
  PROVE  ToSet(toks[m + 1]) \subseteq ToSet(Left(toks, n)) /\ toks[m + 1][1] \in ToSet(Left(toks, n))
<1>. DEFINE a == toks[m + 1]
            b == Left(toks, m + 1)
<1>1. a \in Line /\ b \in Line /\ a # << >> /\ Left(toks, m) = a \o b
  <2>1. m \in Nat
    BY DEF AreTokens
  <2>. QED
    BY <2>1, NextToken
<1>. HIDE DEF a, b
<1>2. ToSet(a \o b) = ToSet(a) \cup ToSet(b) /\ a[1] \in ToSet(a)
  <2>1. 1 \in 1..Len(a)
    BY <1>1 DEF Line
  <2>2. a[1] \in ToSet(a)
    BY <2>1 DEF ToSet
  <2>. QED
    BY <1>1, <2>2, AtomsOfConcat
<1>3. ToSet(Left(toks, m)) \subseteq ToSet(Left(toks, n))
  BY LeftShrinks
<1>. QED
  BY <1>1, <1>2, <1>3 DEF a

\* Nothing is left at the end only.
LEMMA NothingLeft ==
  ASSUME NEW toks, AreTokens(toks), NEW n \in 0..Len(toks)
  PROVE  Left(toks, n) = << >> <=> n = Len(toks)
<1>1. toks \in Seq(Seq(Every)) /\ Len(toks) \in Nat /\ n \in Nat /\ n <= Len(toks)
  BY DEF AreTokens, Line
<1>2. n = Len(toks) => Left(toks, n) = << >>
  BY <1>1, LeftNext
<1>3. ASSUME n < Len(toks) PROVE Left(toks, n) # << >>
  <2>. DEFINE a == toks[n + 1]
              b == Left(toks, n + 1)
  <2>1. a \in Line /\ b \in Line /\ a # << >> /\ Left(toks, n) = a \o b
    BY <1>1, <1>3, NextToken
  <2>. HIDE DEF a, b
  <2>2. a \o b # << >>
    <3>1. Len(a \o b) = Len(a) + Len(b) /\ Len(a) \in Nat \ {0} /\ Len(b) \in Nat
      BY <2>1 DEF Line
    <3>2. Len(<< >>) = 0
      OBVIOUS
    <3>. QED
      BY <3>1, <3>2
  <2>. QED
    BY <2>1, <2>2
<1>. QED
  BY <1>1, <1>2, <1>3

\* A token where an atom is next.
LEMMA NextAtom ==
  ASSUME NEW toks, AreTokens(toks), NEW n \in Nat, n < Len(toks), NEW x \in Every, NEW y \in Line,
         Left(toks, n) = <<x>> \o y
  PROVE  Begins(toks[n + 1], Left(toks, n + 1), x, y)
<1>. DEFINE a == toks[n + 1]
            b == Left(toks, n + 1)
<1>1. a \in Line /\ b \in Line /\ a # << >> /\ a \o b = <<x>> \o y
  BY NextToken
<1>. HIDE DEF a, b
<1>2. Begins(a, b, x, y)
  BY <1>1, FirstToken
<1>. QED
  BY <1>2 DEF a, b

\* A condition that is read where one is written.
WhereAt(toks, n) ==
  n + 4 <= Len(toks) /\ toks[n + 1] = <<"where">> /\ toks[n + 3] = <<Equals>> /\ IsRhs(toks[n + 4])
LEMMA WhereIsRead ==
  ASSUME NEW toks, AreTokens(toks), NEW n \in Nat, WhereAt(toks, n), NEW m \in Sentences, m.where # << >>,
         NEW y \in Line, Left(toks, n) = Filter(m) \o y, Equals \notin ToSet(y), ToSet(y) \cap Closes = {}
  PROVE  m.where = <<Binding(toks[n + 2], toks[n + 4])>> /\ Left(toks, n + 4) = y
<1>1. PICK c \in Names, v \in Values :
        /\ m.where = <<[column |-> c, rhs |-> v]>> /\ Equals \notin ToSet(v)
        /\ Filter(m) = <<"where">> \o (c \o (<<Equals>> \o v))
  BY FilterIs
<1>. DEFINE w == <<"where">>
            e == <<Equals>>
            t2 == toks[n + 2]
            t4 == toks[n + 4]
            L1 == Left(toks, n + 1)
            L2 == Left(toks, n + 2)
            L3 == Left(toks, n + 3)
            L4 == Left(toks, n + 4)
<1>2. Len(toks) \in Nat /\ n + 1 + 1 = n + 2 /\ n + 2 + 1 = n + 3 /\ n + 3 + 1 = n + 4
      /\ n < Len(toks) /\ n + 1 < Len(toks) /\ n + 2 < Len(toks) /\ n + 3 < Len(toks)
      /\ toks[n + 1] = <<"where">> /\ toks[n + 3] = <<Equals>> /\ IsRhs(toks[n + 4])
  BY DEF AreTokens, WhereAt
<1>3. /\ t2 \in Line /\ L1 \in Line /\ L2 \in Line /\ L1 = t2 \o L2
      /\ L3 \in Line /\ L2 = toks[n + 3] \o L3
      /\ t4 \in Line /\ t4 # << >> /\ L4 \in Line /\ L3 = t4 \o L4
  <2>1. L1 \in Line /\ L2 \in Line /\ t2 \in Line /\ L1 = t2 \o L2
    <3>1. n + 1 \in Nat
      OBVIOUS
    <3>. QED
      BY <1>2, <3>1, NextToken
  <2>2. L3 \in Line /\ L2 = toks[n + 3] \o L3
    <3>1. n + 2 \in Nat
      OBVIOUS
    <3>. QED
      BY <1>2, <3>1, NextToken
  <2>3. t4 \in Line /\ t4 # << >> /\ L4 \in Line /\ L3 = t4 \o L4
    <3>1. n + 3 \in Nat
      OBVIOUS
    <3>. QED
      BY <1>2, <3>1, NextToken
  <2>. QED
    BY <2>1, <2>2, <2>3
<1>4. /\ w \in Line /\ e \in Line /\ Equals \in Every /\ "where" \in Every
      /\ c \in Line /\ v \in Line /\ ToSet(c) = {c[1]} /\ c[1] # Equals
  <2>1. c \in Line /\ ToSet(c) = {c[1]} /\ c[1] \in Plainwords
    BY NameIs
  <2>2. Equals \notin Plainwords /\ Equals \in Every /\ "where" \in Every
    BY KindsOfAtoms DEF Marks
  <2>. QED
    BY <2>1, <2>2, ValueIs DEF Line
<1>. DEFINE X == c \o (e \o v)
<1>5. /\ e \o v \in Line /\ X \in Line /\ v \o y \in Line
      /\ (w \o X) \o y = w \o (X \o y) /\ X \o y \in Line
      /\ X \o y = c \o (e \o (v \o y))
  <2>. HIDE DEF w, e
  <2>1. e \o v \in Line
    BY <1>4, AtomsOfConcat
  <2>2. X \in Line /\ v \o y \in Line
    BY <1>4, <2>1, AtomsOfConcat
  <2>3. Grouped(c, e \o v, y) /\ Grouped(e, v, y)
    BY <1>4, <2>1, LineRegroup
  <2>4. X \o y \in Line
    BY <2>2, AtomsOfConcat
  <2>5. Grouped(w, X, y)
    BY <1>4, <2>2, LineRegroup
  <2>. QED
    BY <2>1, <2>2, <2>3, <2>4, <2>5 DEF Grouped
<1>6. L1 = X \o y
  <2>1. Left(toks, n) = <<"where">> \o (X \o y)
    BY <1>1, <1>5
  <2>. DEFINE Y == X \o y
  <2>2. Y \in Line /\ Left(toks, n) = <<"where">> \o Y
    BY <1>5, <2>1
  <2>. HIDE DEF X, Y
  <2>3. Begins(toks[n + 1], Left(toks, n + 1), "where", Y)
    BY <1>2, <1>4, <2>2, NextAtom
  <2>. QED
    BY <1>2, <2>3 DEF Begins, Y
<1>. DEFINE b == t4 \o L4
            d == v \o y
<1>7. MarkTwice(Equals, t2, b, c, d)
  BY <1>2, <1>3, <1>5, <1>6 DEF MarkTwice
<1>8. b \in Line /\ d \in Line /\ Equals \notin ToSet(c) /\ Equals \notin ToSet(d)
  <2>1. ToSet(v \o y) = ToSet(v) \cup ToSet(y)
    BY <1>4, AtomsOfConcat
  <2>2. b \in Line
    BY <1>3, AtomsOfConcat
  <2>. QED
    BY <1>1, <1>4, <1>5, <2>1, <2>2
<1>. HIDE DEF b, d, t2, t4, L1, L2, L3, L4, X, w, e
<1>9. t2 = c /\ b = d
  BY <1>3, <1>4, <1>7, <1>8, OneMark DEF Line
<1>10. t4 = v /\ L4 = y
  <2>1. t4 \o L4 = v \o y
    BY <1>9 DEF b, d
  <2>2. IsRhs(t4)
    BY <1>2 DEF t4
  <2>. QED
    BY <1>3, <2>1, <2>2, ValueToken
<1>. QED
  BY <1>1, <1>9, <1>10 DEF t2, t4, L4, Binding

-----------------------------------------------------------------------------
(* Lists of columns.                                                       *)

\* Lists of names, without commas, are compared atom by atom.
LEMMA PlainOfNames ==
  ASSUME NEW cols \in Seq(Names)
  PROVE  /\ Plain(FlattenSeq(cols)) \in Line /\ Len(Plain(FlattenSeq(cols))) = Len(cols)
         /\ \A i \in 1..Len(cols) : Plain(FlattenSeq(cols))[i] = cols[i][1]
<1>. DEFINE B(k) == SubSeq(cols, 1, k)
            F(k) == Plain(FlattenSeq(B(k)))
            P == {k \in 0..Len(cols) : F(k) \in Line /\ Len(F(k)) = k /\ \A i \in 1..k : F(k)[i] = cols[i][1]}
<1>1. /\ Len(cols) \in Nat /\ B(0) = << >> /\ B(Len(cols)) = cols
      /\ \A k \in 0..Len(cols) : B(k) \in Seq(Names)
      /\ \A k \in 1..Len(cols) : cols[k] \in Names /\ B(k) = Append(B(k - 1), cols[k])
  BY PrefixGrows
<1>2. \A k \in 0..Len(cols) : B(k) \in Seq(Line)
  <2>1. Names \subseteq Line
    BY NameIs
  <2>2. Seq(Names) \subseteq Seq(Line)
    BY <2>1
  <2>. HIDE DEF B
  <2>. QED
    BY <1>1, <2>2
<1>. HIDE DEF B
<1>3. 0 \in P
  <2>1. F(0) = << >>
    BY <1>1, FlattenEmpty, PlainEmpty
  <2>2. << >> \in Line /\ Len(<< >>) = 0 /\ 1..0 = {} /\ 0 \in 0..Len(cols)
    BY <1>1, EmptyLine
  <2>. HIDE DEF F
  <2>. QED
    BY <2>1, <2>2
<1>4. ASSUME NEW k \in 1..Len(cols), k - 1 \in P PROVE k \in P
  <2>. DEFINE c == cols[k]
              x == c[1]
              u == FlattenSeq(B(k - 1))
              f == F(k - 1)
  <2>1. k - 1 \in 0..Len(cols) /\ k \in 0..Len(cols) /\ B(k - 1) \in Seq(Line) /\ c \in Names /\ B(k) = Append(B(k - 1), c)
    <3>1. k - 1 \in 0..Len(cols) /\ k \in 0..Len(cols)
      BY <1>1
    <3>. QED
      BY <1>1, <1>2, <3>1
  <2>2. c \in Line /\ c = <<x>> /\ x \in Every /\ x \in Plainwords
    BY <2>1, NameIs
  <2>. HIDE DEF c, x
  <2>3. FlattenSeq(B(k)) = u \o c /\ u \in Line
    BY <2>1, <2>2, FlattenAppend, FlattenTyped DEF Line
  <2>4. u \o c = Append(u, x)
    BY <2>2, <2>3 DEF Line
  <2>5. x \notin Dropped
    BY <2>2, KindsOfAtoms DEF Dropped, Marks, Keywords
  <2>. HIDE DEF u
  <2>6. Plain(Append(u, x)) = Append(Plain(u), x)
    BY <2>2, <2>3, <2>5, PlainAppend DEF Line
  <2>7. F(k) = Append(f, x)
    BY <2>3, <2>4, <2>6 DEF u
  <2>8. f \in Line /\ Len(f) = k - 1 /\ \A i \in 1..(k - 1) : f[i] = cols[i][1]
    BY <1>4
  <2>9. x = cols[k][1]
    BY DEF x, c
  <2>. HIDE DEF F, f
  <2>10. F(k) \in Line /\ Len(F(k)) = k /\ F(k)[k] = x /\ \A i \in 1..(k - 1) : F(k)[i] = f[i]
    BY <2>2, <2>7, <2>8 DEF Line
  <2>11. \A i \in 1..k : i = k \/ i \in 1..(k - 1)
    OBVIOUS
  <2>. QED
    BY <2>1, <2>8, <2>9, <2>10, <2>11
<1>5. Len(cols) \in P
  <2>. HIDE DEF P
  <2>1. 0..Len(cols) \subseteq P
    BY <1>1, <1>3, <1>4, InductionTo
  <2>2. Len(cols) \in 0..Len(cols)
    BY <1>1
  <2>. QED
    BY <2>1, <2>2
<1>. QED
  BY <1>1, <1>5

\* If what is made of the tokens of a list are columns, they are those of the list.
LEMMA ColumnsAreThose ==
  ASSUME NEW toks \in Seq(Line), NEW cols \in Seq(Names), FlattenSeq(toks) = Listed(cols),
         NEW made \in Seq(Line), Len(made) = Len(toks),
         \A k \in 1..Len(toks) : made[k] = NoComma(toks[k]) /\ Len(made[k]) = 1 /\ made[k][1] \in Columns
  PROVE  made = cols
<1>1. \A k \in 1..Len(made) : made[k] \in Names /\ Plain(made[k]) = Plain(toks[k])
  <2>. SUFFICES ASSUME NEW k \in 1..Len(made) PROVE made[k] \in Names /\ Plain(made[k]) = Plain(toks[k])
    OBVIOUS
  <2>1. toks[k] \in Line /\ made[k] = NoComma(toks[k]) /\ made[k] \in Line /\ Len(made[k]) = 1 /\ made[k][1] \in Columns
    OBVIOUS
  <2>2. Plain(made[k]) = Plain(toks[k])
    BY <2>1, PlainNoComma DEF Line
  <2>3. made[k] = <<made[k][1]>>
    BY <2>1 DEF Line
  <2>4. made[k][1] \in Words \ Keywords
    BY <2>1, AtomsAssumption
  <2>. QED
    BY <2>2, <2>3, <2>4 DEF Names
<1>2. made \in Seq(Names)
  BY <1>1
<1>3. Plain(FlattenSeq(made)) = Plain(FlattenSeq(toks))
  BY <1>1, FlattenSame DEF Line
<1>4. Plain(Listed(cols)) = Plain(FlattenSeq(cols))
  <2>1. Names \subseteq Line
    BY NameIs
  <2>2. Seq(Names) \subseteq Seq(Line)
    BY <2>1
  <2>3. cols \in Seq(Line) /\ Comma \in Every
    BY <2>2, KindsOfAtoms
  <2>. QED
    BY <2>3, PlainListed DEF Line
<1>. DEFINE f == Plain(FlattenSeq(made))
<1>5. f = Plain(FlattenSeq(cols))
  BY <1>3, <1>4
<1>6. Len(f) = Len(made) /\ \A i \in 1..Len(made) : f[i] = made[i][1]
  BY <1>2, PlainOfNames
<1>7. Len(f) = Len(cols) /\ \A i \in 1..Len(cols) : f[i] = cols[i][1]
  BY <1>5, PlainOfNames
<1>8. Len(made) = Len(cols) /\ \A i \in 1..Len(made) : made[i] = cols[i]
  <2>. HIDE DEF f
  <2>1. \A i \in 1..Len(made) : made[i] \in Names /\ cols[i] \in Names /\ made[i][1] = cols[i][1]
    BY <1>2, <1>6, <1>7
  <2>2. \A c, d \in Names : c[1] = d[1] => c = d
    <3>. SUFFICES ASSUME NEW c \in Names, NEW d \in Names, c[1] = d[1] PROVE c = d
      OBVIOUS
    <3>1. c = <<c[1]>> /\ d = <<d[1]>>
      BY NameIs
    <3>. QED
      BY <3>1
  <2>. QED
    BY <1>6, <1>7, <2>1, <2>2
<1>. QED
  BY <1>2, <1>8, SeqEqual

-----------------------------------------------------------------------------
(* The clauses of a read.                                                  *)

\* Two lines that are one start with one atom.
LEMMA SameStart ==
  ASSUME NEW t \in Line, t # << >>, NEW rest \in Line, NEW q \in Line, q # << >>, NEW y \in Line, t \o rest = q \o y
  PROVE  t[1] = q[1]
<1>1. Divided(t, rest, q, y)
  BY Overlap DEF Line
<1>2. Len(t) \in Nat \ {0} /\ Len(q) \in Nat \ {0}
  BY DEF Line
<1>3. 1 \in 1..Len(t) /\ 1 <= Len(q)
  BY <1>2
<1>. QED
  BY <1>1, <1>3 DEF Divided

\* The word, or the brace, that starts a clause.
LEMMA ClauseStarts ==
  ASSUME NEW m \in Sentences
  PROVE  /\ m.columns # << >> => Projected(m) # << >> /\ Projected(m)[1] = LBrace
         /\ m.where # << >> => Filter(m) # << >> /\ Filter(m)[1] = "where"
         /\ m.order # << >> => Ordered(m) # << >> /\ Ordered(m)[1] = "order"
         /\ m.limit # << >> => Limited(m) # << >> /\ Limited(m)[1] = "limit"
         /\ m.columns # << >> => Returned(m) # << >> /\ Returned(m)[1] = "returning"
<1>1. \A x \in Every : \A y \in Line : <<x>> \o y # << >> /\ (<<x>> \o y)[1] = x
  BY AtomFirst DEF Line
<1>2. LBrace \in Every /\ "where" \in Every /\ "order" \in Every /\ "limit" \in Every /\ "returning" \in Every
  BY KindsOfAtoms
<1>3. m.columns # << >> => Projected(m) # << >> /\ Projected(m)[1] = LBrace
  <2>1. <<RBrace>> \in Line
    BY KindsOfAtoms DEF Line
  <2>2. Listed(m.columns) \o <<RBrace>> \in Line
    BY <2>1, ProjectedIs, AtomsOfConcat
  <2>. DEFINE l == Listed(m.columns) \o <<RBrace>>
  <2>3. l \in Line /\ (m.columns # << >> => Projected(m) = <<LBrace>> \o l)
    BY <2>2, ProjectedIs
  <2>. HIDE DEF l
  <2>. QED
    BY <1>1, <1>2, <2>3
<1>4. ASSUME m.where # << >> PROVE Filter(m) # << >> /\ Filter(m)[1] = "where"
  <2>1. PICK c \in Names, v \in Values : Filter(m) = <<"where">> \o (c \o (<<Equals>> \o v))
    BY <1>4, FilterIs
  <2>2. c \in Line /\ v \in Line /\ <<Equals>> \in Line
    BY NameIs, ValueIs, KindsOfAtoms DEF Line
  <2>3. <<Equals>> \o v \in Line
    BY <2>2, AtomsOfConcat
  <2>4. c \o (<<Equals>> \o v) \in Line
    BY <2>2, <2>3, AtomsOfConcat
  <2>. QED
    BY <1>1, <1>2, <2>1, <2>4
<1>5. ASSUME m.order # << >> PROVE Ordered(m) # << >> /\ Ordered(m)[1] = "order"
  <2>1. PICK c \in Names : Direction(m) \in Line /\ Ordered(m) = <<"order">> \o (c \o Direction(m))
    BY <1>5, OrderedIs
  <2>2. c \in Line
    BY NameIs
  <2>3. c \o Direction(m) \in Line
    BY <2>1, <2>2, AtomsOfConcat
  <2>. QED
    BY <1>1, <1>2, <2>1, <2>3
<1>6. ASSUME m.limit # << >> PROVE Limited(m) # << >> /\ Limited(m)[1] = "limit"
  <2>1. PICK x \in Numbers : Limited(m) = <<"limit">> \o <<x>>
    BY <1>6, LimitedIs
  <2>2. <<x>> \in Line
    BY KindsOfAtoms DEF Line
  <2>. QED
    BY <1>1, <1>2, <2>1, <2>2
<1>7. m.columns # << >> => Returned(m) # << >> /\ Returned(m)[1] = "returning"
  BY <1>1, <1>2, ReturnedIs, ProjectedIs
<1>. QED
  BY <1>3, <1>4, <1>5, <1>6, <1>7

\* Where a clause is next, the next token starts with its word.
LEMMA ClauseOfRead ==
  ASSUME NEW toks, AreTokens(toks), NEW n \in Nat, n < Len(toks), NEW m \in Sentences, NEW i \in 0..4, NEW s,
         Left(toks, n) = ReadRest(m, i), ReadUpTo(s, m, i)
  PROVE  LET x == toks[n + 1][1]
         IN  \/ x = LBrace /\ m.columns # << >> /\ ReadUpTo(s, m, 0) /\ Left(toks, n) = Projected(m) \o ReadRest(m, 1)
             \/ x = "where" /\ m.where # << >> /\ ReadUpTo(s, m, 1) /\ Left(toks, n) = Filter(m) \o ReadRest(m, 2)
             \/ x = "order" /\ m.order # << >> /\ ReadUpTo(s, m, 2) /\ Left(toks, n) = Ordered(m) \o ReadRest(m, 3)
             \/ x = "limit" /\ m.limit # << >> /\ ReadUpTo(s, m, 3) /\ Left(toks, n) = Limited(m) \o << >>
<1>. DEFINE left == Left(toks, n)
            t == toks[n + 1]
            rest == Left(toks, n + 1)
<1>1. t \in Line /\ t # << >> /\ rest \in Line /\ left = t \o rest /\ left # << >>
  <2>1. n \in 0..Len(toks) /\ n # Len(toks)
    BY DEF AreTokens
  <2>. QED
    BY <2>1, NextToken, NothingLeft
<1>. HIDE DEF left, t, rest
<1>2. NextOfRead(s, m, left)
  BY ReadSkips DEF left
<1>3. \A q \in Line : \A y \in Line : q # << >> /\ left = q \o y => t[1] = q[1]
  BY <1>1, SameStart
<1>4. ReadRest(m, 1) \in Line /\ ReadRest(m, 2) \in Line /\ ReadRest(m, 3) \in Line /\ << >> \in Line
  BY ReadRestIs, EmptyLine
<1>5. CASE left = << >> /\ ReadUpTo(s, m, 4)
  BY <1>1, <1>5
<1>6. CASE m.columns # << >> /\ ReadUpTo(s, m, 0) /\ left = Projected(m) \o ReadRest(m, 1)
  <2>1. t[1] = LBrace
    BY <1>3, <1>4, <1>6, ProjectedIs, ClauseStarts
  <2>. QED
    BY <1>6, <2>1 DEF left, t
<1>7. CASE m.where # << >> /\ ReadUpTo(s, m, 1) /\ left = Filter(m) \o ReadRest(m, 2)
  <2>1. t[1] = "where"
    BY <1>3, <1>4, <1>7, FilterIs, ClauseStarts
  <2>. QED
    BY <1>7, <2>1 DEF left, t
<1>8. CASE m.order # << >> /\ ReadUpTo(s, m, 2) /\ left = Ordered(m) \o ReadRest(m, 3)
  <2>1. t[1] = "order"
    BY <1>3, <1>4, <1>8, OrderedIs, ClauseStarts
  <2>. QED
    BY <1>8, <2>1 DEF left, t
<1>9. CASE m.limit # << >> /\ ReadUpTo(s, m, 3) /\ left = Limited(m)
  <2>1. Limited(m) \in Line /\ Limited(m) \o << >> = Limited(m)
    BY LimitedIs, EmptyLine
  <2>2. t[1] = "limit"
    BY <1>3, <1>4, <1>9, <2>1, ClauseStarts
  <2>. QED
    BY <1>9, <2>1, <2>2 DEF left, t
<1>. QED
  BY <1>2, <1>5, <1>6, <1>7, <1>8, <1>9 DEF NextOfRead

\* A statement that is spoiled stays so.
LEMMA SpoiledStays ==
  ASSUME NEW s, NEW left, NEW mark, Spoiled(s, left, mark), NEW r, NEW rest, ToSet(rest) \subseteq ToSet(left),
         r.order = s.order \/ "order" \in ToSet(left),
         r.columns = s.columns \/ mark \in ToSet(left),
         r.bindings = s.bindings
  PROVE  Spoiled(r, rest, mark)
BY DEF Spoiled

\* The statement with a clause more.
LEMMA ReadHasMore ==
  ASSUME NEW m, NEW s \in Statements
  PROVE  /\ ReadUpTo(s, m, 0) => ReadUpTo([s EXCEPT !.columns = m.columns], m, 1)
         /\ ReadUpTo(s, m, 1) => ReadUpTo([s EXCEPT !.where = m.where], m, 2)
         /\ ReadUpTo(s, m, 2) => ReadUpTo([s EXCEPT !.order = m.order], m, 3)
         /\ ReadUpTo(s, m, 3) => ReadUpTo([s EXCEPT !.limit = m.limit], m, 4)
<1>1. ReadUpTo(s, m, 0) => ReadUpTo([s EXCEPT !.columns = m.columns], m, 1)
  BY DEF ReadUpTo, Statements
<1>2. ReadUpTo(s, m, 1) => ReadUpTo([s EXCEPT !.where = m.where], m, 2)
  BY DEF ReadUpTo, Statements
<1>3. ReadUpTo(s, m, 2) => ReadUpTo([s EXCEPT !.order = m.order], m, 3)
  BY DEF ReadUpTo, Statements
<1>4. ReadUpTo(s, m, 3) => ReadUpTo([s EXCEPT !.limit = m.limit], m, 4)
  BY DEF ReadUpTo, Statements
<1>. QED
  BY <1>1, <1>2, <1>3, <1>4

\* The clauses that are read, one by one: a condition, ...
LEMMA WhereMeant ==
  ASSUME NEW toks, AreTokens(toks), NEW n \in Nat, WhereAt(toks, n), NEW m \in Sentences, NEW s \in Statements,
         ReadMeant(toks, n, s, m)
  PROVE  ReadMeant(toks, n + 4, [s EXCEPT !.where = <<Binding(toks[n + 2], toks[n + 4])>>], m)
<1>. DEFINE w == <<Binding(toks[n + 2], toks[n + 4])>>
            r == [s EXCEPT !.where = w]
<1>1. n < Len(toks) /\ toks[n + 1][1] = "where" /\ n \in 0..Len(toks) /\ n + 4 \in n..Len(toks) /\ n + 4 \in 0..Len(toks)
      /\ 4 \in 0..4 /\ 2 \in 0..4
  BY DEF AreTokens, WhereAt
<1>2. CASE Spoiled(s, Left(toks, n), RBrace)
  <2>1. ToSet(Left(toks, n + 4)) \subseteq ToSet(Left(toks, n))
    BY <1>1, LeftShrinks
  <2>2. r.order = s.order /\ r.columns = s.columns /\ r.bindings = s.bindings
    BY DEF Statements
  <2>. HIDE DEF r
  <2>3. Spoiled(r, Left(toks, n + 4), RBrace)
    BY <1>2, <2>1, <2>2, SpoiledStays
  <2>. QED
    BY <2>3 DEF ReadMeant, r
<1>3. CASE toks[n + 1][1] = "desc"
  BY <1>1, <1>3
<1>4. ASSUME NEW i \in 0..4, Left(toks, n) = ReadRest(m, i), ReadUpTo(s, m, i)
      PROVE  ReadMeant(toks, n + 4, r, m)
  <2>1. m.where # << >> /\ ReadUpTo(s, m, 1) /\ Left(toks, n) = Filter(m) \o ReadRest(m, 2)
    <3>1. LBrace # "where"
      BY DEF LBrace
    <3>. QED
      BY <1>1, <1>4, <3>1, ClauseOfRead
  <2>2. ReadRest(m, 2) \in Line /\ Equals \notin ToSet(ReadRest(m, 2)) /\ ToSet(ReadRest(m, 2)) \cap Closes = {}
    <3>1. ReadRest(m, 2) \in Line /\ ToSet(ReadRest(m, 2)) \subseteq Plainwords \cup Numbers \cup {"order", "desc", "limit"}
      BY <1>1, ReadRestIs
    <3>2. Plainwords \cup Numbers \cup {"order", "desc", "limit"} \subseteq (Plainwords \cup Keywords) \cup Numbers
      BY DEF Keywords
    <3>3. Equals \notin (Plainwords \cup Keywords) \cup Numbers /\ ((Plainwords \cup Keywords) \cup Numbers) \cap Closes = {}
      BY KindsOfAtoms, AtomsAssumption DEF Marks
    <3>. QED
      BY <3>1, <3>2, <3>3
  <2>3. m.where = w /\ Left(toks, n + 4) = ReadRest(m, 2)
    <3>. DEFINE y == ReadRest(m, 2)
    <3>1. /\ y \in Line /\ Equals \notin ToSet(y) /\ ToSet(y) \cap Closes = {}
          /\ m.where # << >> /\ Left(toks, n) = Filter(m) \o y
      BY <2>1, <2>2
    <3>. HIDE DEF y
    <3>2. m.where = <<Binding(toks[n + 2], toks[n + 4])>> /\ Left(toks, n + 4) = y
      BY <3>1, WhereIsRead
    <3>. QED
      BY <3>2 DEF y
  <2>4. ReadUpTo(r, m, 2)
    BY <2>1, <2>3, ReadHasMore
  <2>. HIDE DEF r
  <2>. QED
    BY <1>1, <2>3, <2>4 DEF ReadMeant
<1>. QED
  BY <1>2, <1>3, <1>4 DEF ReadMeant

\* ... a limit, ...
LEMMA LimitMeant ==
  ASSUME NEW toks, AreTokens(toks), NEW n \in Nat, n + 2 <= Len(toks), NEW m \in Sentences, NEW s \in Statements,
         ReadMeant(toks, n, s, m), toks[n + 1] = <<"limit">>, NEW x \in Numbers, toks[n + 2] = <<x>>
  PROVE  ReadMeant(toks, n + 2, [s EXCEPT !.limit = toks[n + 2]], m)
<1>. DEFINE w == toks[n + 2]
            r == [s EXCEPT !.limit = w]
<1>1. n < Len(toks) /\ toks[n + 1][1] = "limit" /\ n \in 0..Len(toks) /\ n + 2 \in n..Len(toks) /\ n + 2 \in 0..Len(toks)
      /\ 4 \in 0..4 /\ n + 1 \in Nat /\ n + 1 < Len(toks) /\ n + 1 + 1 = n + 2
  BY DEF AreTokens
<1>2. CASE Spoiled(s, Left(toks, n), RBrace)
  <2>1. ToSet(Left(toks, n + 2)) \subseteq ToSet(Left(toks, n))
    BY <1>1, LeftShrinks
  <2>2. r.order = s.order /\ r.columns = s.columns /\ r.bindings = s.bindings
    BY DEF Statements
  <2>. HIDE DEF r
  <2>3. Spoiled(r, Left(toks, n + 2), RBrace)
    BY <1>2, <2>1, <2>2, SpoiledStays
  <2>. QED
    BY <2>3 DEF ReadMeant, r
<1>3. CASE toks[n + 1][1] = "desc"
  BY <1>1, <1>3
<1>4. ASSUME NEW i \in 0..4, Left(toks, n) = ReadRest(m, i), ReadUpTo(s, m, i)
      PROVE  ReadMeant(toks, n + 2, r, m)
  <2>1. m.limit # << >> /\ ReadUpTo(s, m, 3) /\ Left(toks, n) = Limited(m) \o << >>
    <3>1. LBrace # "limit"
      BY DEF LBrace
    <3>. QED
      BY <1>1, <1>4, <3>1, ClauseOfRead
  <2>2. PICK y \in Numbers : m.limit = <<y>> /\ Limited(m) = <<"limit">> \o <<y>>
    BY <2>1, LimitedIs
  <2>3. Limited(m) \in Line /\ Limited(m) \o << >> = Limited(m)
    BY LimitedIs, EmptyLine
  <2>4. "limit" \in Every /\ y \in Every
    BY KindsOfAtoms
  <2>. DEFINE z == <<y>>
  <2>5. z \in Line /\ Left(toks, n) = <<"limit">> \o z
    BY <2>1, <2>2, <2>3, <2>4 DEF Line
  <2>. HIDE DEF z
  <2>6. Begins(toks[n + 1], Left(toks, n + 1), "limit", z)
    BY <1>1, <2>4, <2>5, NextAtom
  <2>7. Left(toks, n + 1) = <<y>> \o << >>
    <3>1. Left(toks, n + 1) = z
      BY <2>6 DEF Begins
    <3>2. z \o << >> = z
      BY <2>5, EmptyLine
    <3>. QED
      BY <3>1, <3>2 DEF z
  <2>8. Begins(toks[n + 1 + 1], Left(toks, n + 1 + 1), y, << >>)
    <3>1. << >> \in Line
      BY EmptyLine
    <3>. QED
      BY <1>1, <2>4, <2>7, <3>1, NextAtom
  <2>9. x = y /\ Left(toks, n + 2) = << >>
    BY <1>1, <2>8 DEF Begins
  <2>10. m.limit = w /\ Left(toks, n + 2) = ReadRest(m, 4)
    BY <2>2, <2>9, ReadRestIs
  <2>11. ReadUpTo(r, m, 4)
    BY <2>1, <2>10, ReadHasMore
  <2>. HIDE DEF r
  <2>. QED
    BY <1>1, <2>10, <2>11 DEF ReadMeant
<1>. QED
  BY <1>2, <1>3, <1>4 DEF ReadMeant

\* ... and no more.
LEMMA EndMeant ==
  ASSUME NEW toks, AreTokens(toks), NEW m \in Sentences, NEW s \in Statements, ReadMeant(toks, Len(toks), s, m)
  PROVE  s = m \/ Spoiled(s, << >>, RBrace)
<1>1. Len(toks) \in 0..Len(toks) /\ Left(toks, Len(toks)) = << >>
  BY NothingLeft DEF AreTokens
<1>2. CASE Spoiled(s, Left(toks, Len(toks)), RBrace)
  BY <1>1, <1>2
<1>3. ASSUME NEW i \in 0..4, Left(toks, Len(toks)) = ReadRest(m, i), ReadUpTo(s, m, i) PROVE s = m
  <2>1. NextOfRead(s, m, << >>)
    BY <1>1, <1>3, ReadSkips
  <2>2. \A q \in Line : \A y \in Line : q # << >> => q \o y # << >>
    <3>. SUFFICES ASSUME NEW q \in Line, NEW y \in Line, q # << >> PROVE q \o y # << >>
      OBVIOUS
    <3>1. Len(q \o y) = Len(q) + Len(y) /\ Len(q) \in Nat \ {0} /\ Len(y) \in Nat
      BY DEF Line
    <3>2. Len(<< >>) = 0
      OBVIOUS
    <3>. QED
      BY <3>1, <3>2
  <2>3. ReadRest(m, 1) \in Line /\ ReadRest(m, 2) \in Line /\ ReadRest(m, 3) \in Line
    BY ReadRestIs
  <2>4. ~ (m.columns # << >> /\ << >> = Projected(m) \o ReadRest(m, 1))
    BY <2>2, <2>3, ProjectedIs, ClauseStarts
  <2>5. ~ (m.where # << >> /\ << >> = Filter(m) \o ReadRest(m, 2))
    BY <2>2, <2>3, FilterIs, ClauseStarts
  <2>6. ~ (m.order # << >> /\ << >> = Ordered(m) \o ReadRest(m, 3))
    BY <2>2, <2>3, OrderedIs, ClauseStarts
  <2>7. ~ (m.limit # << >> /\ << >> = Limited(m))
    BY ClauseStarts
  <2>8. ReadUpTo(s, m, 4)
    BY <2>1, <2>4, <2>5, <2>6, <2>7 DEF NextOfRead
  <2>. QED
    BY <2>8 DEF ReadUpTo, Statements, Sentences
<1>. QED
  BY <1>1, <1>2, <1>3 DEF ReadMeant

\* ... an order, whose direction is read only if it is a token of its own, ...
OrderMeansNext(toks, n, s, directed, desc) ==
  /\ n + 2 <= Len(toks) /\ toks[n + 1] = <<"order">>
  /\ directed \in BOOLEAN /\ (directed <=> n + 3 <= Len(toks) /\ toks[n + 3] \in {<<"asc">>, <<"desc">>})
  /\ desc \in BOOLEAN
  /\ directed => (desc <=> toks[n + 3] = <<"desc">>)
  /\ ~ directed => (desc <=> s.order # << >> /\ s.order[1].desc)
LEMMA OrderMeant ==
  ASSUME NEW toks, AreTokens(toks), NEW n \in Nat, NEW m \in Sentences, NEW s \in Statements,
         ReadMeant(toks, n, s, m), NEW directed, NEW desc, OrderMeansNext(toks, n, s, directed, desc)
  PROVE  ReadMeant(toks, n + (IF directed THEN 3 ELSE 2),
                   [s EXCEPT !.order = <<[column |-> toks[n + 2], desc |-> desc]>>], m)
<1>. DEFINE t == toks[n + 2]
            w == <<[column |-> t, desc |-> desc]>>
            r == [s EXCEPT !.order = w]
            n2 == n + (IF directed THEN 3 ELSE 2)
<1>1. /\ n < Len(toks) /\ toks[n + 1] = <<"order">> /\ toks[n + 1][1] = "order" /\ n \in 0..Len(toks) /\ n \in n..Len(toks)
      /\ n + 1 \in Nat /\ n + 1 < Len(toks) /\ n + 1 + 1 = n + 2 /\ n + 1 \in 0..Len(toks)
      /\ n + 2 \in Nat /\ n + 2 + 1 = n + 3 /\ n + 2 \in 0..Len(toks) /\ n + 2 \in (n + 1)..Len(toks)
      /\ Len(toks) \in Nat
  BY DEF AreTokens, OrderMeansNext
<1>2. n2 \in n..Len(toks) /\ n2 \in (n + 2)..Len(toks) /\ (directed => n2 = n + 3 /\ n + 2 < Len(toks)) /\ (~ directed => n2 = n + 2)
  <2>1. directed \in BOOLEAN /\ (directed => n + 3 <= Len(toks))
    BY DEF OrderMeansNext
  <2>2. CASE directed
    BY <1>1, <2>1, <2>2
  <2>3. CASE ~ directed
    BY <1>1, <2>1, <2>3
  <2>. QED
    BY <2>1, <2>2, <2>3
<1>3. r.order = w /\ r.order # << >> /\ r.order[1].column = t /\ r.columns = s.columns /\ r.bindings = s.bindings
  BY DEF Statements
<1>. HIDE DEF n2
<1>4. CASE Spoiled(s, Left(toks, n), RBrace)
  <2>1. ToSet(Left(toks, n2)) \subseteq ToSet(Left(toks, n))
    BY <1>1, <1>2, LeftShrinks
  <2>2. "order" \in ToSet(Left(toks, n))
    BY <1>1, TokenIsLeft
  <2>. HIDE DEF r
  <2>3. Spoiled(r, Left(toks, n2), RBrace)
    BY <1>3, <1>4, <2>1, <2>2, SpoiledStays
  <2>. QED
    BY <2>3 DEF ReadMeant, r, n2
<1>5. CASE toks[n + 1][1] = "desc"
  BY <1>1, <1>5
<1>6. ASSUME NEW i \in 0..4, Left(toks, n) = ReadRest(m, i), ReadUpTo(s, m, i)
      PROVE  ReadMeant(toks, n2, r, m)
  <2>1. m.order # << >> /\ ReadUpTo(s, m, 2) /\ Left(toks, n) = Ordered(m) \o ReadRest(m, 3)
    <3>1. LBrace # "order"
      BY DEF LBrace
    <3>. QED
      BY <1>1, <1>6, <3>1, ClauseOfRead
  <2>2. PICK c \in Names, d \in BOOLEAN :
          /\ m.order = <<[column |-> c, desc |-> d]>>
          /\ Direction(m) = (IF d THEN <<"desc">> ELSE << >>) /\ Direction(m) \in Line
          /\ Ordered(m) = <<"order">> \o (c \o Direction(m))
    BY <2>1, OrderedIs
  <2>. DEFINE D == Direction(m)
              R == ReadRest(m, 3)
              y == D \o R
              z == c \o y
              o == <<"order">>
  <2>3. /\ c \in Line /\ c = <<c[1]>> /\ c[1] \in Every /\ c[1] \in Plainwords /\ Len(c) = 1
        /\ D \in Line /\ R \in Line /\ ToSet(R) \subseteq Numbers \cup {"limit"} /\ "order" \in Every /\ "desc" \in Every
        /\ o \in Line /\ "limit" \in Every
    BY <2>2, NameIs, ReadRestIs, KindsOfAtoms DEF Line
  <2>4. y \in Line /\ ToSet(y) = ToSet(D) \cup ToSet(R) /\ z \in Line /\ ToSet(z) = ToSet(c) \cup ToSet(y)
    <3>. HIDE DEF D, R
    <3>1. y \in Line /\ ToSet(y) = ToSet(D) \cup ToSet(R)
      BY <2>3, AtomsOfConcat
    <3>. HIDE DEF y
    <3>. QED
      BY <2>3, <3>1, AtomsOfConcat
  <2>5. Left(toks, n) = o \o z
    <3>. HIDE DEF D, R, o
    <3>1. Grouped(o, c \o D, R) /\ Grouped(c, D, R) /\ Left(toks, n) = (o \o (c \o D)) \o R
      <4>1. c \o D \in Line
        BY <2>3, AtomsOfConcat
      <4>2. Left(toks, n) = (o \o (c \o D)) \o R
        BY <2>1, <2>2 DEF D, R, o
      <4>. QED
        BY <2>3, <4>1, <4>2, LineRegroup
    <3>. QED
      BY <3>1 DEF Grouped
  <2>6. Left(toks, n + 1) = z
    <3>. HIDE DEF z
    <3>1. Left(toks, n) = <<"order">> \o z
      BY <2>5
    <3>2. Begins(toks[n + 1], Left(toks, n + 1), "order", z)
      BY <1>1, <2>3, <2>4, <3>1, NextAtom
    <3>. QED
      BY <1>1, <3>2 DEF Begins
  <2>7. Begins(t, Left(toks, n + 2), c[1], y)
    <3>. HIDE DEF y
    <3>1. Left(toks, n + 1) = <<c[1]>> \o y
      BY <2>3, <2>6
    <3>2. Begins(toks[n + 1 + 1], Left(toks, n + 1 + 1), c[1], y)
      BY <1>1, <2>3, <2>4, <3>1, NextAtom
    <3>. QED
      BY <1>1, <3>2
  <2>8. CASE Len(t) # 1
    <3>1. "order" \notin ToSet(z)
      <4>1. ToSet(c) = {c[1]}
        BY NameIs
      <4>2. ToSet(D) \subseteq {"desc"}
        BY <2>2, EmptyLine, SingletonSet
      <4>3. "order" \notin Plainwords /\ "order" \notin Numbers
        BY KindsOfAtoms, AtomsAssumption DEF Keywords
      <4>. HIDE DEF D, R, y, z
      <4>. QED
        BY <2>3, <2>4, <4>1, <4>2, <4>3
    <3>2. n2 \in (n + 1)..Len(toks)
      BY <1>1, <1>2
    <3>3. ToSet(Left(toks, n2)) \subseteq ToSet(Left(toks, n + 1))
      BY <1>1, <3>2, LeftShrinks
    <3>4. "order" \notin ToSet(Left(toks, n2))
      BY <2>6, <3>1, <3>3
    <3>5. Spoiled(r, Left(toks, n2), RBrace)
      <4>. HIDE DEF r
      <4>. QED
        BY <1>3, <2>8, <3>4 DEF Spoiled
    <3>. QED
      BY <3>5 DEF ReadMeant
  <2>9. CASE Len(t) = 1
    <3>1. t = c /\ Left(toks, n + 2) = y
      BY <2>3, <2>7, <2>9 DEF Begins
    <3>2. s.order = << >>
      BY <2>1 DEF ReadUpTo
    <3>3. CASE d
      <4>1. Left(toks, n + 2) = <<"desc">> \o R
        BY <2>2, <3>1, <3>3
      <4>. HIDE DEF R
      <4>2. n + 2 < Len(toks)
        <5>1. <<"desc">> \o R # << >>
          BY <2>3, AtomFirst DEF Line
        <5>2. n + 2 # Len(toks)
          BY <1>1, <4>1, <5>1, NothingLeft
        <5>. QED
          BY <1>1, <5>2
      <4>3. Begins(toks[n + 2 + 1], Left(toks, n + 2 + 1), "desc", R)
        BY <1>1, <2>3, <4>1, <4>2, NextAtom
      <4>4. CASE directed
        <5>1. toks[n + 3] = <<"asc">> \/ toks[n + 3] = <<"desc">>
          BY <4>4 DEF OrderMeansNext
        <5>2. toks[n + 3] = <<"desc">> /\ Left(toks, n + 3) = R
          BY <1>1, <4>3, <5>1 DEF Begins
        <5>3. desc = TRUE /\ d = TRUE
          BY <3>3, <4>4, <5>2 DEF OrderMeansNext
        <5>4. m.order = w
          BY <2>2, <3>1, <5>3
        <5>5. ReadUpTo(r, m, 3)
          BY <2>1, <5>4, ReadHasMore
        <5>6. Left(toks, n2) = ReadRest(m, 3) /\ 3 \in 0..4
          BY <1>2, <4>4, <5>2 DEF R
        <5>. HIDE DEF r
        <5>. QED
          BY <5>5, <5>6 DEF ReadMeant
      <4>5. CASE ~ directed
        <5>1. n2 = n + 2 /\ n2 < Len(toks)
          BY <1>2, <4>2, <4>5
        <5>2. toks[n2 + 1][1] = "desc"
          BY <1>1, <4>3, <5>1 DEF Begins
        <5>. QED
          BY <5>1, <5>2 DEF ReadMeant
      <4>. QED
        BY <4>4, <4>5
    <3>4. CASE ~ d
      <4>1. Left(toks, n + 2) = R
        <5>1. D = << >>
          BY <2>2, <3>4
        <5>. HIDE DEF R, D
        <5>2. y = R
          BY <2>3, <5>1, EmptyLine
        <5>. QED
          BY <3>1, <5>2
      <4>2. ~ directed
        <5>. SUFFICES ASSUME directed PROVE FALSE
          OBVIOUS
        <5>1. n + 2 < Len(toks) /\ n + 2 # Len(toks)
          BY <1>1, <1>2
        <5>2. R # << >> /\ R = Limited(m)
          BY <1>1, <4>1, <5>1, NothingLeft, ReadRestIs
        <5>3. PICK x \in Numbers : Limited(m) = <<"limit">> \o <<x>>
          BY <5>2, LimitedIs
        <5>. DEFINE q == <<x>>
        <5>4. q \in Line /\ Left(toks, n + 2) = <<"limit">> \o q
          BY <4>1, <5>2, <5>3, KindsOfAtoms DEF Line
        <5>. HIDE DEF q
        <5>5. Begins(toks[n + 2 + 1], Left(toks, n + 2 + 1), "limit", q)
          BY <1>1, <2>3, <5>1, <5>4, NextAtom
        <5>6. toks[n + 3] = <<"asc">> \/ toks[n + 3] = <<"desc">>
          BY DEF OrderMeansNext
        <5>. QED
          BY <1>1, <5>5, <5>6 DEF Begins
      <4>3. desc = FALSE /\ d = FALSE
        BY <3>2, <3>4, <4>2 DEF OrderMeansNext
      <4>4. m.order = w
        BY <2>2, <3>1, <4>3
      <4>5. ReadUpTo(r, m, 3)
        BY <2>1, <4>4, ReadHasMore
      <4>6. Left(toks, n2) = ReadRest(m, 3) /\ 3 \in 0..4
        BY <1>2, <4>1, <4>2
      <4>. HIDE DEF r
      <4>. QED
        BY <4>5, <4>6 DEF ReadMeant
    <3>. QED
      BY <2>2, <3>3, <3>4
  <2>. QED
    BY <2>8, <2>9
<1>. QED
  BY <1>4, <1>5, <1>6 DEF ReadMeant, n2

\* ... a projection, up to its brace, ...
ListIs(toks, n, close, made) ==
  /\ made \in Seq(Line) /\ Len(made) = close - n
  /\ \A k \in 1..(close - n) : made[k] = NoComma(toks[n + k])
NoColumns(made) == \E k \in DOMAIN made : Len(made[k]) # 1 \/ made[k][1] \notin Columns
LEMMA ListMeant ==
  ASSUME NEW toks, AreTokens(toks), NEW n \in 0..Len(toks), NEW close \in n..Len(toks), NEW made, ListIs(toks, n, close, made),
         NEW cols \in Seq(Names), FlattenSeq(SubSeq(toks, n + 1, close)) = Listed(cols), ~ NoColumns(made)
  PROVE  made = cols
<1>. DEFINE part == SubSeq(toks, n + 1, close)
<1>1. /\ part \in Seq(Line) /\ Len(part) = close - n
      /\ \A k \in 1..Len(part) : part[k] = toks[n + k]
  BY DEF AreTokens
<1>2. made \in Seq(Line) /\ Len(made) = close - n /\ \A k \in 1..(close - n) : made[k] = NoComma(toks[n + k])
  BY DEF ListIs
<1>3. \A k \in DOMAIN made : Len(made[k]) = 1 /\ made[k][1] \in Columns
  BY DEF NoColumns
<1>. HIDE DEF part
<1>4. DOMAIN made = 1..Len(made)
  BY <1>2
<1>5. Len(made) = Len(part)
      /\ \A k \in 1..Len(part) : made[k] = NoComma(part[k]) /\ Len(made[k]) = 1 /\ made[k][1] \in Columns
  BY <1>1, <1>2, <1>3, <1>4
<1>6. FlattenSeq(part) = Listed(cols)
  BY DEF part
<1>. QED
  BY <1>1, <1>2, <1>5, <1>6, ColumnsAreThose

ProjectionMeansNext(toks, n, close, made) ==
  /\ close \in (n + 2)..Len(toks) /\ toks[n + 1] = <<LBrace>> /\ toks[close] = <<RBrace>>
  /\ ListIs(toks, n + 1, close - 1, made)
LEMMA ProjectionMeant ==
  ASSUME NEW toks, AreTokens(toks), NEW n \in Nat, NEW m \in Sentences, NEW s \in Statements,
         ReadMeant(toks, n, s, m), NEW close, NEW made, ProjectionMeansNext(toks, n, close, made)
  PROVE  ReadMeant(toks, close, [s EXCEPT !.columns = made], m)
<1>. DEFINE r == [s EXCEPT !.columns = made]
            b == close - 1
<1>1. /\ n < Len(toks) /\ toks[n + 1] = <<LBrace>> /\ toks[n + 1][1] = LBrace /\ n \in 0..Len(toks)
      /\ n + 1 \in 0..Len(toks) /\ b \in (n + 1)..Len(toks) /\ b \in n..Len(toks) /\ b \in Nat /\ b < Len(toks) /\ b + 1 = close
      /\ close \in n..Len(toks) /\ close \in 0..Len(toks)
      /\ toks[b + 1] = <<RBrace>> /\ toks[b + 1][1] = RBrace /\ Len(toks) \in Nat
      /\ ListIs(toks, n + 1, b, made)
  BY DEF AreTokens, ProjectionMeansNext
<1>2. r.order = s.order /\ r.columns = made /\ r.bindings = s.bindings
  BY DEF Statements
<1>. HIDE DEF b
<1>3. CASE Spoiled(s, Left(toks, n), RBrace)
  <2>1. ToSet(Left(toks, close)) \subseteq ToSet(Left(toks, n))
    BY <1>1, LeftShrinks
  <2>2. RBrace \in ToSet(Left(toks, n))
    BY <1>1, TokenIsLeft
  <2>. HIDE DEF r
  <2>3. Spoiled(r, Left(toks, close), RBrace)
    BY <1>2, <1>3, <2>1, <2>2, SpoiledStays
  <2>. QED
    BY <2>3 DEF ReadMeant, r
<1>4. CASE toks[n + 1][1] = "desc"
  BY <1>1, <1>4 DEF LBrace
<1>5. ASSUME NEW i \in 0..4, Left(toks, n) = ReadRest(m, i), ReadUpTo(s, m, i)
      PROVE  ReadMeant(toks, close, r, m)
  <2>1. m.columns # << >> /\ ReadUpTo(s, m, 0) /\ Left(toks, n) = Projected(m) \o ReadRest(m, 1)
    <3>1. LBrace \notin {"where", "order", "limit"}
      BY DEF LBrace
    <3>. QED
      BY <1>1, <1>5, <3>1, ClauseOfRead
  <2>. DEFINE l == Listed(m.columns)
              R == ReadRest(m, 1)
              open == <<LBrace>>
              shut == <<RBrace>>
              F == FlattenSeq(SubSeq(toks, n + 1 + 1, b))
              L == Left(toks, close)
              y == shut \o R
              z == l \o y
  <2>2. /\ l \in Line /\ RBrace \notin ToSet(l) /\ R \in Line /\ RBrace \notin ToSet(R)
        /\ open \in Line /\ shut \in Line /\ LBrace \in Every /\ RBrace \in Every
        /\ Projected(m) = open \o (l \o shut) /\ m.columns \in Seq(Names)
    <3>1. l \in Line /\ ToSet(l) \subseteq Plainwords \cup {Comma} /\ Projected(m) = open \o (l \o shut)
      BY <2>1, ProjectedIs
    <3>2. RBrace \notin Plainwords \cup {Comma}
      BY KindsOfAtoms DEF Marks, RBrace, Comma
    <3>3. R \in Line /\ RBrace \notin ToSet(R)
      BY ReadRestIs
    <3>4. open \in Line /\ shut \in Line /\ LBrace \in Every /\ RBrace \in Every
      BY KindsOfAtoms DEF Line
    <3>. QED
      BY <3>1, <3>2, <3>3, <3>4, SentenceIs
  <2>3. y \in Line /\ z \in Line
    <3>. HIDE DEF l, R, shut
    <3>1. y \in Line
      BY <2>2, AtomsOfConcat
    <3>. HIDE DEF y
    <3>. QED
      BY <2>2, <3>1, AtomsOfConcat
  <2>4. Left(toks, n) = open \o z
    <3>. HIDE DEF l, R, open, shut
    <3>1. l \o shut \in Line
      BY <2>2, AtomsOfConcat
    <3>2. Grouped(open, l \o shut, R) /\ Grouped(l, shut, R)
      BY <2>2, <3>1, LineRegroup
    <3>3. Left(toks, n) = (open \o (l \o shut)) \o R
      BY <2>1, <2>2 DEF R
    <3>. QED
      BY <3>2, <3>3 DEF Grouped
  <2>5. Left(toks, n + 1) = z
    <3>. HIDE DEF z
    <3>1. Left(toks, n) = <<LBrace>> \o z
      BY <2>4
    <3>2. Begins(toks[n + 1], Left(toks, n + 1), LBrace, z)
      BY <1>1, <2>2, <2>3, <3>1, NextAtom
    <3>. QED
      BY <1>1, <3>2 DEF Begins
  <2>6. /\ F \in Line /\ Left(toks, n + 1) = F \o Left(toks, b)
        /\ L \in Line /\ Left(toks, b) = <<RBrace>> \o L
    <3>1. toks \in Seq(Seq(Every))
      BY DEF AreTokens, Line
    <3>2. F \in Line /\ Left(toks, n + 1) = F \o Left(toks, b)
      BY <1>1, <3>1, LeftSplits DEF Line
    <3>3. L \in Line /\ Left(toks, b) = toks[b + 1] \o L
      BY <1>1, NextToken
    <3>. QED
      BY <1>1, <3>2, <3>3
  <2>7. F = l /\ L = R
    <3>. HIDE DEF F, L, l, R
    <3>1. MarkTwice(RBrace, F, L, l, R)
      BY <2>5, <2>6 DEF MarkTwice
    <3>. QED
      BY <2>2, <2>6, <3>1, OneMark DEF Line
  <2>8. CASE NoColumns(made)
    <3>1. RBrace \notin ToSet(Left(toks, close))
      BY <2>2, <2>7
    <3>2. Spoiled(r, Left(toks, close), RBrace)
      <4>. HIDE DEF r
      <4>. QED
        BY <1>2, <2>8, <3>1 DEF Spoiled, NoColumns
    <3>. QED
      BY <3>2 DEF ReadMeant
  <2>9. CASE ~ NoColumns(made)
    <3>1. made = m.columns
      BY <1>1, <2>2, <2>7, <2>9, ListMeant
    <3>2. ReadUpTo(r, m, 1)
      BY <2>1, <3>1, ReadHasMore
    <3>3. Left(toks, close) = ReadRest(m, 1) /\ 1 \in 0..4
      BY <2>7
    <3>. HIDE DEF r
    <3>. QED
      BY <3>2, <3>3 DEF ReadMeant
  <2>. QED
    BY <2>8, <2>9
<1>. QED
  BY <1>3, <1>4, <1>5 DEF ReadMeant

-----------------------------------------------------------------------------
(* The clauses of an update.                                               *)

\* Where a clause is next, the next token starts with its word.
LEMMA ClauseOfUpdate ==
  ASSUME NEW toks, AreTokens(toks), NEW n \in Nat, n < Len(toks), NEW m \in Sentences, NEW i \in 0..2, NEW s,
         Left(toks, n) = UpdateRest(m, i), UpdateUpTo(s, m, Len(m.bindings), i)
  PROVE  LET x == toks[n + 1][1]
         IN  \/ /\ x = "where" /\ m.where # << >> /\ UpdateUpTo(s, m, Len(m.bindings), 0)
                /\ Left(toks, n) = Filter(m) \o UpdateRest(m, 1)
             \/ /\ x = "returning" /\ m.columns # << >> /\ UpdateUpTo(s, m, Len(m.bindings), 1)
                /\ Left(toks, n) = Returned(m)
<1>. DEFINE left == Left(toks, n)
            t == toks[n + 1]
            rest == Left(toks, n + 1)
<1>1. t \in Line /\ t # << >> /\ rest \in Line /\ left = t \o rest /\ left # << >>
  <2>1. n \in 0..Len(toks) /\ n # Len(toks)
    BY DEF AreTokens
  <2>. QED
    BY <2>1, NextToken, NothingLeft
<1>. HIDE DEF left, t, rest
<1>2. NextOfUpdate(s, m, left)
  BY UpdateSkips DEF left
<1>3. \A q \in Line : \A y \in Line : q # << >> /\ left = q \o y => t[1] = q[1]
  BY <1>1, SameStart
<1>4. CASE m.where # << >> /\ UpdateUpTo(s, m, Len(m.bindings), 0) /\ left = Filter(m) \o UpdateRest(m, 1)
  <2>1. UpdateRest(m, 1) \in Line
    BY UpdateRestIs
  <2>2. t[1] = "where"
    BY <1>3, <1>4, <2>1, FilterIs, ClauseStarts
  <2>. QED
    BY <1>4, <2>2 DEF left, t
<1>5. CASE m.columns # << >> /\ UpdateUpTo(s, m, Len(m.bindings), 1) /\ left = Returned(m)
  <2>1. Returned(m) \in Line /\ Returned(m) \o << >> = Returned(m) /\ << >> \in Line
    BY ReturnedIs, EmptyLine
  <2>2. t[1] = "returning"
    BY <1>3, <1>5, <2>1, ClauseStarts
  <2>. QED
    BY <1>5, <2>2 DEF left, t
<1>. QED
  BY <1>1, <1>2, <1>4, <1>5 DEF NextOfUpdate

\* The statement with a clause more.
LEMMA UpdateHasMore ==
  ASSUME NEW m, NEW j, NEW s \in Statements
  PROVE  /\ UpdateUpTo(s, m, j, 0) => UpdateUpTo([s EXCEPT !.where = m.where], m, j, 1)
         /\ UpdateUpTo(s, m, j, 1) => UpdateUpTo([s EXCEPT !.columns = m.columns], m, j, 2)
<1>1. UpdateUpTo(s, m, j, 0) => UpdateUpTo([s EXCEPT !.where = m.where], m, j, 1)
  BY DEF UpdateUpTo, Statements
<1>2. UpdateUpTo(s, m, j, 1) => UpdateUpTo([s EXCEPT !.columns = m.columns], m, j, 2)
  BY DEF UpdateUpTo, Statements
<1>. QED
  BY <1>1, <1>2

\* The clauses that are read, one by one: a condition, ...
LEMMA WhereOfTail ==
  ASSUME NEW toks, AreTokens(toks), NEW n \in Nat, WhereAt(toks, n), NEW m \in Sentences, NEW s \in Statements,
         TailMeant(toks, n, s, m)
  PROVE  TailMeant(toks, n + 4, [s EXCEPT !.where = <<Binding(toks[n + 2], toks[n + 4])>>], m)
<1>. DEFINE w == <<Binding(toks[n + 2], toks[n + 4])>>
            r == [s EXCEPT !.where = w]
<1>1. n < Len(toks) /\ toks[n + 1][1] = "where" /\ n \in 0..Len(toks) /\ n + 4 \in n..Len(toks) /\ n + 4 \in 0..Len(toks)
      /\ 1 \in 0..2
  BY DEF AreTokens, WhereAt
<1>2. CASE Spoiled(s, Left(toks, n), "returning")
  <2>1. ToSet(Left(toks, n + 4)) \subseteq ToSet(Left(toks, n))
    BY <1>1, LeftShrinks
  <2>2. r.order = s.order /\ r.columns = s.columns /\ r.bindings = s.bindings
    BY DEF Statements
  <2>. HIDE DEF r
  <2>3. Spoiled(r, Left(toks, n + 4), "returning")
    BY <1>2, <2>1, <2>2, SpoiledStays
  <2>. QED
    BY <2>3 DEF TailMeant, r
<1>3. ASSUME NEW i \in 0..2, Left(toks, n) = UpdateRest(m, i), UpdateUpTo(s, m, Len(m.bindings), i)
      PROVE  TailMeant(toks, n + 4, r, m)
  <2>1. m.where # << >> /\ UpdateUpTo(s, m, Len(m.bindings), 0) /\ Left(toks, n) = Filter(m) \o UpdateRest(m, 1)
    BY <1>1, <1>3, ClauseOfUpdate
  <2>. DEFINE y == UpdateRest(m, 1)
  <2>2. y \in Line /\ Equals \notin ToSet(y) /\ ToSet(y) \cap Closes = {}
    <3>1. y \in Line /\ ToSet(y) \subseteq Plainwords \cup {Comma, "returning"}
      BY UpdateRestIs
    <3>2. "returning" \in Keywords /\ Comma \in Marks /\ Equals \in Marks /\ Comma # Equals
      BY DEF Keywords, Marks, Comma, Equals
    <3>3. Equals \notin Plainwords \cup {Comma, "returning"} /\ (Plainwords \cup {Comma, "returning"}) \cap Closes = {}
      BY <3>2, KindsOfAtoms
    <3>. QED
      BY <3>1, <3>3
  <2>3. m.where = w /\ Left(toks, n + 4) = y
    <3>. HIDE DEF y
    <3>1. m.where # << >> /\ Left(toks, n) = Filter(m) \o y
      BY <2>1 DEF y
    <3>. QED
      BY <2>2, <3>1, WhereIsRead
  <2>4. UpdateUpTo(r, m, Len(m.bindings), 1)
    BY <2>1, <2>3, UpdateHasMore
  <2>. HIDE DEF r
  <2>. QED
    BY <1>1, <2>3, <2>4 DEF TailMeant
<1>. QED
  BY <1>2, <1>3 DEF TailMeant

\* ... a RETURNING, ...
LEMMA ReturningMeant ==
  ASSUME NEW toks, AreTokens(toks), NEW n \in Nat, n < Len(toks), toks[n + 1] = <<"returning">>,
         NEW m \in Sentences, NEW s \in Statements, TailMeant(toks, n, s, m), NEW made, ListIs(toks, n + 1, Len(toks), made)
  PROVE  TailMeant(toks, Len(toks), [s EXCEPT !.columns = made], m)
<1>. DEFINE r == [s EXCEPT !.columns = made]
            N == Len(toks)
<1>1. /\ n < N /\ toks[n + 1][1] = "returning" /\ n \in 0..N /\ n \in n..N /\ N \in n..N /\ N \in 0..N
      /\ n + 1 \in 0..N /\ N \in (n + 1)..N /\ 2 \in 0..2
  BY DEF AreTokens
<1>2. r.order = s.order /\ r.columns = made /\ r.bindings = s.bindings
  BY DEF Statements
<1>3. Left(toks, N) = << >> /\ ToSet(Left(toks, N)) = {}
  BY <1>1, NothingLeft, EmptyLine
<1>4. CASE Spoiled(s, Left(toks, n), "returning")
  <2>1. "returning" \in ToSet(Left(toks, n))
    BY <1>1, TokenIsLeft
  <2>2. ToSet(Left(toks, N)) \subseteq ToSet(Left(toks, n))
    BY <1>3
  <2>. HIDE DEF r, N
  <2>3. Spoiled(r, Left(toks, N), "returning")
    BY <1>2, <1>4, <2>1, <2>2, SpoiledStays
  <2>. QED
    BY <2>3 DEF TailMeant, r, N
<1>5. ASSUME NEW i \in 0..2, Left(toks, n) = UpdateRest(m, i), UpdateUpTo(s, m, Len(m.bindings), i)
      PROVE  TailMeant(toks, N, r, m)
  <2>1. m.columns # << >> /\ UpdateUpTo(s, m, Len(m.bindings), 1) /\ Left(toks, n) = Returned(m)
    BY <1>1, <1>5, ClauseOfUpdate
  <2>. DEFINE l == Listed(m.columns)
  <2>2. l \in Line /\ Returned(m) = <<"returning">> \o l /\ m.columns \in Seq(Names) /\ "returning" \in Every
    BY <2>1, ReturnedIs, ProjectedIs, SentenceIs, KindsOfAtoms
  <2>3. Left(toks, n + 1) = l
    <3>. HIDE DEF l
    <3>1. Left(toks, n) = <<"returning">> \o l
      BY <2>1, <2>2
    <3>2. Begins(toks[n + 1], Left(toks, n + 1), "returning", l)
      BY <1>1, <2>2, <3>1, NextAtom
    <3>. QED
      BY <1>1, <3>2 DEF Begins
  <2>4. FlattenSeq(SubSeq(toks, n + 1 + 1, N)) = l
    BY <2>3 DEF Left
  <2>5. CASE NoColumns(made)
    <3>1. Spoiled(r, Left(toks, N), "returning")
      <4>. HIDE DEF r, N
      <4>. QED
        BY <1>2, <1>3, <2>5 DEF Spoiled, NoColumns
    <3>. QED
      BY <3>1 DEF TailMeant
  <2>6. CASE ~ NoColumns(made)
    <3>1. made = m.columns
      BY <1>1, <2>2, <2>4, <2>6, ListMeant
    <3>2. UpdateUpTo(r, m, Len(m.bindings), 2)
      BY <2>1, <3>1, UpdateHasMore
    <3>3. Left(toks, N) = UpdateRest(m, 2)
      BY <1>3, UpdateRestIs
    <3>. HIDE DEF r, N
    <3>. QED
      BY <1>1, <3>2, <3>3 DEF TailMeant
  <2>. QED
    BY <2>5, <2>6
<1>. QED
  BY <1>4, <1>5 DEF TailMeant

\* ... and no more.
LEMMA EndOfTail ==
  ASSUME NEW toks, AreTokens(toks), NEW m \in Sentences, NEW s \in Statements, TailMeant(toks, Len(toks), s, m)
  PROVE  s = m \/ Spoiled(s, << >>, RBrace)
<1>1. Len(toks) \in 0..Len(toks) /\ Left(toks, Len(toks)) = << >>
  BY NothingLeft DEF AreTokens
<1>2. CASE Spoiled(s, Left(toks, Len(toks)), "returning")
  BY <1>1, <1>2, EmptyLine DEF Spoiled
<1>3. ASSUME NEW i \in 0..2, Left(toks, Len(toks)) = UpdateRest(m, i), UpdateUpTo(s, m, Len(m.bindings), i) PROVE s = m
  <2>1. NextOfUpdate(s, m, << >>)
    BY <1>1, <1>3, UpdateSkips
  <2>2. \A q \in Line : \A y \in Line : q # << >> => q \o y # << >>
    <3>. SUFFICES ASSUME NEW q \in Line, NEW y \in Line, q # << >> PROVE q \o y # << >>
      OBVIOUS
    <3>1. Len(q \o y) = Len(q) + Len(y) /\ Len(q) \in Nat \ {0} /\ Len(y) \in Nat
      BY DEF Line
    <3>2. Len(<< >>) = 0
      OBVIOUS
    <3>. QED
      BY <3>1, <3>2
  <2>3. UpdateRest(m, 1) \in Line
    BY UpdateRestIs
  <2>4. ~ (m.where # << >> /\ << >> = Filter(m) \o UpdateRest(m, 1))
    BY <2>2, <2>3, FilterIs, ClauseStarts
  <2>5. ~ (m.columns # << >> /\ << >> = Returned(m))
    BY ClauseStarts
  <2>6. UpdateUpTo(s, m, Len(m.bindings), 2)
    BY <2>1, <2>4, <2>5 DEF NextOfUpdate
  <2>7. SubSeq(m.bindings, 1, Len(m.bindings)) = m.bindings
    <3>1. m.bindings \in Seq([column : Names, rhs : Values])
      BY SentenceIs
    <3>. QED
      BY <3>1
  <2>8. /\ s.verb = m.verb /\ s.table = m.table /\ s.columns = m.columns /\ s.bindings = m.bindings
        /\ s.where = m.where /\ s.order = m.order /\ s.limit = m.limit
    BY <2>6, <2>7 DEF UpdateUpTo
  <2>. QED
    BY <2>8 DEF Statements, Sentences
<1>. QED
  BY <1>1, <1>2, <1>3 DEF TailMeant

-----------------------------------------------------------------------------
(* The bindings of an update.                                              *)

\* Bindings, as lines.
LEMMA BindingsAre ==
  ASSUME NEW m \in Sentences, NEW is \in Marks
  PROVE  /\ Bindings(m, is) \in Seq(Line) /\ Len(Bindings(m, is)) = Len(m.bindings) /\ Len(m.bindings) \in Nat
         /\ \A i \in 1..Len(m.bindings) :
              /\ m.bindings[i] \in [column : Names, rhs : Values]
              /\ Bindings(m, is)[i] = m.bindings[i].column \o (<<is>> \o m.bindings[i].rhs)
<1>. DEFINE q == m.bindings
            e == <<is>>
<1>1. q \in Seq([column : Names, rhs : Values]) /\ Len(q) \in Nat /\ DOMAIN q = 1..Len(q)
      /\ \A i \in 1..Len(q) : q[i] \in [column : Names, rhs : Values]
  <2>. DEFINE R == [column : Names, rhs : Values]
  <2>1. q \in Seq(R)
    BY SentenceIs
  <2>. HIDE DEF q, R
  <2>2. Len(q) \in Nat /\ DOMAIN q = 1..Len(q) /\ \A i \in 1..Len(q) : q[i] \in R
    BY <2>1
  <2>. QED
    BY <2>1, <2>2 DEF R
<1>2. e \in Line
  BY KindsOfAtoms DEF Line
<1>. HIDE DEF e
<1>3. ASSUME NEW i \in 1..Len(q)
      PROVE  /\ q[i] \in [column : Names, rhs : Values]
             /\ (q[i].column \o e) \o q[i].rhs \in Line
             /\ (q[i].column \o e) \o q[i].rhs = q[i].column \o (e \o q[i].rhs)
  <2>1. q[i] \in [column : Names, rhs : Values] /\ q[i].column \in Names /\ q[i].rhs \in Values
    BY <1>1
  <2>. DEFINE c == q[i].column
              v == q[i].rhs
  <2>2. c \in Line /\ v \in Line
    BY <2>1, NameIs, ValueIs
  <2>. HIDE DEF c, v
  <2>3. c \o e \in Line
    BY <1>2, <2>2, AtomsOfConcat
  <2>4. (c \o e) \o v \in Line
    BY <2>2, <2>3, AtomsOfConcat
  <2>5. Grouped(c, e, v)
    BY <1>2, <2>2, LineRegroup
  <2>. QED
    BY <2>1, <2>4, <2>5 DEF Grouped, c, v
<1>4. Bindings(m, is) = [i \in 1..Len(q) |-> (q[i].column \o e) \o q[i].rhs]
  BY <1>1 DEF Bindings, e
<1>. HIDE DEF q
<1>5. Bindings(m, is) \in Seq(Line) /\ Len(Bindings(m, is)) = Len(q)
  <2>. DEFINE F(i) == (q[i].column \o e) \o q[i].rhs
              N == Len(q)
  <2>1. N \in Nat /\ (\A i \in 1..N : F(i) \in Line) /\ Bindings(m, is) = [i \in 1..N |-> F(i)]
    BY <1>1, <1>3, <1>4
  <2>. HIDE DEF F, N
  <2>2. Bindings(m, is) \in Seq(Line) /\ Len(Bindings(m, is)) = N
    BY <2>1
  <2>. QED
    BY <2>2 DEF N
<1>6. \A i \in 1..Len(q) : Bindings(m, is)[i] = q[i].column \o (e \o q[i].rhs)
  BY <1>3, <1>4
<1>. QED
  BY <1>1, <1>3, <1>5, <1>6 DEF q, e

\* The bindings that are left: none, or the next and the others.
SetNext(m, j) ==
  m.bindings[j + 1].column \o (<<Equals>> \o (m.bindings[j + 1].rhs \o (SetRest(m, j + 1) \o UpdateRest(m, 0))))
LEMMA SetRestIs ==
  ASSUME NEW m \in Sentences, NEW j \in 0..Len(m.bindings)
  PROVE  /\ SetRest(m, j) \in Line /\ UpdateRest(m, 0) \in Line
         /\ j = Len(m.bindings) => SetRest(m, j) \o UpdateRest(m, 0) = UpdateRest(m, 0)
         /\ j < Len(m.bindings) => /\ j + 1 \in 0..Len(m.bindings) /\ SetRest(m, j + 1) \in Line
                                   /\ SetRest(m, j + 1) \o UpdateRest(m, 0) \in Line
                                   /\ m.bindings[j + 1].column \in Names /\ m.bindings[j + 1].rhs \in Values
                                   /\ m.bindings[j + 1] = Binding(m.bindings[j + 1].column, m.bindings[j + 1].rhs)
                                   /\ SetRest(m, j) \o UpdateRest(m, 0) = SetNext(m, j)
<1>. DEFINE B == Bindings(m, Equals)
            N == Len(m.bindings)
            U == UpdateRest(m, 0)
<1>1. /\ B \in Seq(Line) /\ Len(B) = N /\ N \in Nat
      /\ \A i \in 1..N : /\ m.bindings[i] \in [column : Names, rhs : Values]
                         /\ B[i] = m.bindings[i].column \o (<<Equals>> \o m.bindings[i].rhs)
  <2>1. Equals \in Marks
    BY DEF Marks
  <2>. QED
    BY <2>1, BindingsAre
<1>2. U \in Line
  BY UpdateRestIs
<1>. HIDE DEF B, U
<1>3. \A i \in 0..N : SetRest(m, i) = Left(B, i)
  BY <1>1 DEF SetRest, Left, B
<1>4. /\ SetRest(m, j) \in Line
      /\ j = N => SetRest(m, j) = << >>
      /\ j < N => j + 1 \in 0..N /\ SetRest(m, j + 1) \in Line /\ SetRest(m, j) = B[j + 1] \o SetRest(m, j + 1)
  <2>1. B \in Seq(Seq(Every)) /\ j \in 0..Len(B)
    BY <1>1 DEF Line
  <2>2. /\ Left(B, j) \in Line
        /\ j = Len(B) => Left(B, j) = << >>
        /\ j < Len(B) => j + 1 \in 0..Len(B) /\ Left(B, j + 1) \in Line /\ Left(B, j) = B[j + 1] \o Left(B, j + 1)
    BY <2>1, LeftNext DEF Line
  <2>. QED
    BY <1>1, <1>3, <2>2
<1>5. j = N => SetRest(m, j) \o U = U
  BY <1>2, <1>4, EmptyLine
<1>6. ASSUME j < N
      PROVE  /\ j + 1 \in 0..N /\ SetRest(m, j + 1) \in Line /\ SetRest(m, j + 1) \o U \in Line
             /\ m.bindings[j + 1].column \in Names /\ m.bindings[j + 1].rhs \in Values
             /\ m.bindings[j + 1] = Binding(m.bindings[j + 1].column, m.bindings[j + 1].rhs)
             /\ SetRest(m, j) \o U = SetNext(m, j)
  <2>. DEFINE x == m.bindings[j + 1]
              c == x.column
              v == x.rhs
              e == <<Equals>>
              R == SetRest(m, j + 1)
  <2>1. j + 1 \in 1..N
    BY <1>1, <1>6
  <2>2. x \in [column : Names, rhs : Values] /\ c \in Names /\ v \in Values /\ B[j + 1] = c \o (e \o v)
    BY <1>1, <2>1
  <2>3. x = Binding(c, v)
    BY <2>2 DEF Binding
  <2>4. c \in Line /\ v \in Line /\ e \in Line
    BY <2>2, NameIs, ValueIs, KindsOfAtoms DEF Line
  <2>5. R \in Line /\ SetRest(m, j) = (c \o (e \o v)) \o R /\ j + 1 \in 0..N
    BY <1>4, <1>6, <2>2
  <2>. DEFINE y == R \o U
  <2>6. y \in Line
    <3>. HIDE DEF R
    <3>. QED
      BY <1>2, <2>5, AtomsOfConcat
  <2>7. SetRest(m, j) \o U = c \o (e \o (v \o y))
    <3>. HIDE DEF x, c, v, e, R
    <3>1. e \o v \in Line
      BY <2>4, AtomsOfConcat
    <3>2. c \o (e \o v) \in Line
      BY <2>4, <3>1, AtomsOfConcat
    <3>3. Grouped(c \o (e \o v), R, U)
      BY <1>2, <2>5, <3>2, LineRegroup
    <3>. HIDE DEF y
    <3>4. Grouped(c, e \o v, y)
      BY <2>4, <2>6, <3>1, LineRegroup
    <3>5. Grouped(e, v, y)
      BY <2>4, <2>6, LineRegroup
    <3>. QED
      BY <2>5, <3>3, <3>4, <3>5 DEF Grouped, y
  <2>8. SetNext(m, j) = c \o (e \o (v \o y))
    BY DEF SetNext, U
  <2>. QED
    BY <2>2, <2>3, <2>5, <2>6, <2>7, <2>8
<1>. QED
  BY <1>2, <1>4, <1>5, <1>6 DEF U

\* Where a binding is next, the next token starts with its column.
LEMMA SetStarts ==
  ASSUME NEW toks, AreTokens(toks), NEW n \in 0..Len(toks), NEW m \in Sentences, NEW j \in 0..Len(m.bindings), j < Len(m.bindings),
         Left(toks, n) = SetRest(m, j) \o UpdateRest(m, 0)
  PROVE  /\ n < Len(toks)
         /\ Begins(toks[n + 1], Left(toks, n + 1), m.bindings[j + 1].column[1],
                   <<Equals>> \o (m.bindings[j + 1].rhs \o (SetRest(m, j + 1) \o UpdateRest(m, 0))))
<1>. DEFINE c == m.bindings[j + 1].column
            v == m.bindings[j + 1].rhs
            y == SetRest(m, j + 1) \o UpdateRest(m, 0)
            e == <<Equals>>
            z == e \o (v \o y)
<1>1. y \in Line /\ c \in Names /\ v \in Values /\ Left(toks, n) = c \o z
  BY SetRestIs DEF SetNext
<1>2. c = <<c[1]>> /\ c[1] \in Every /\ v \in Line /\ e \in Line
  BY <1>1, NameIs, ValueIs, KindsOfAtoms DEF Line
<1>. HIDE DEF c, v, y, e
<1>3. z \in Line
  <2>1. v \o y \in Line
    BY <1>1, <1>2, AtomsOfConcat
  <2>. QED
    BY <1>2, <2>1, AtomsOfConcat
<1>. HIDE DEF z
<1>4. Left(toks, n) = <<c[1]>> \o z
  BY <1>1, <1>2
<1>5. n < Len(toks) /\ n \in Nat
  <2>1. <<c[1]>> \o z # << >>
    BY <1>2, <1>3, AtomFirst DEF Line
  <2>2. n # Len(toks)
    BY <1>4, <2>1, NothingLeft
  <2>. QED
    BY <2>2 DEF AreTokens
<1>6. Begins(toks[n + 1], Left(toks, n + 1), c[1], z)
  BY <1>2, <1>3, <1>4, <1>5, NextAtom
<1>. QED
  BY <1>5, <1>6 DEF c, v, y, e, z

\* A statement that is spoiled stays so with a binding more.
LEMMA SpoiledAppends ==
  ASSUME NEW s \in Statements, NEW left, NEW mark, Spoiled(s, left, mark), NEW rest, ToSet(rest) \subseteq ToSet(left),
         NEW b \in Assigned
  PROVE  Spoiled([s EXCEPT !.bindings = Append(@, b)], rest, mark)
<1>. DEFINE r == [s EXCEPT !.bindings = Append(@, b)]
            q == s.bindings
<1>1. q \in Seq(Assigned) /\ r.order = s.order /\ r.columns = s.columns /\ r.bindings = Append(q, b)
  BY DEF Statements
<1>. HIDE DEF r, q
<1>2. \A k \in DOMAIN q : k \in DOMAIN r.bindings /\ r.bindings[k] = q[k]
  BY <1>1
<1>3. Spoiled(r, rest, mark)
  BY <1>1, <1>2 DEF Spoiled, q
<1>. QED
  BY <1>3 DEF r

\* A binding, ...
BindingAt(toks, n) ==
  /\ n + 3 <= Len(toks) /\ toks[n + 2] = <<Equals>> /\ IsRhs(toks[n + 3])
  /\ toks[n + 1] # <<"where">> /\ toks[n + 1] # <<"returning">>
LEMMA SetMeantOn ==
  ASSUME NEW toks, AreTokens(toks), NEW n \in Nat, BindingAt(toks, n), ~ LiteralsTouch(toks),
         NEW m \in Sentences, NEW s \in Statements, SetMeant(toks, n, s, m), Binding(toks[n + 1], toks[n + 3]) \in Assigned
  PROVE  SetMeant(toks, n + 3, [s EXCEPT !.bindings = Append(@, Binding(toks[n + 1], toks[n + 3]))], m)
<1>. DEFINE t == toks[n + 1]
            u == toks[n + 3]
            b == Binding(t, u)
            r == [s EXCEPT !.bindings = Append(@, b)]
            q == s.bindings
<1>1. /\ n \in 0..Len(toks) /\ n < Len(toks) /\ n + 1 < Len(toks) /\ n + 2 < Len(toks) /\ n + 3 \in n..Len(toks)
      /\ n + 1 \in Nat /\ n + 2 \in Nat /\ n + 1 + 1 = n + 2 /\ n + 2 + 1 = n + 3 /\ n + 3 \in 1..Len(toks) /\ n + 3 \in DOMAIN toks
      /\ toks[n + 2] = <<Equals>> /\ IsRhs(u) /\ t # <<"where">> /\ t # <<"returning">>
  BY DEF AreTokens, BindingAt
<1>2. b.column = t /\ b.rhs = u /\ b \in Assigned
  BY DEF Binding
<1>3. q \in Seq(Assigned) /\ r.bindings = Append(q, b)
  BY DEF Statements
<1>4. Len(t) # 1 => Spoiled(r, Left(toks, n + 3), "returning")
  <2>. HIDE DEF r, b
  <2>1. Len(q) + 1 \in DOMAIN r.bindings /\ r.bindings[Len(q) + 1] = b
    BY <1>2, <1>3
  <2>. QED
    BY <1>2, <2>1 DEF Spoiled
<1>5. CASE Spoiled(s, Left(toks, n), "returning")
  <2>1. ToSet(Left(toks, n + 3)) \subseteq ToSet(Left(toks, n))
    BY <1>1, LeftShrinks
  <2>. HIDE DEF b
  <2>2. Spoiled(r, Left(toks, n + 3), "returning")
    BY <1>2, <1>5, <2>1, SpoiledAppends
  <2>. QED
    BY <2>2 DEF SetMeant, b
<1>6. ASSUME NEW j \in 0..Len(m.bindings), Left(toks, n) = SetRest(m, j) \o UpdateRest(m, 0), UpdateUpTo(s, m, j, 0)
      PROVE  SetMeant(toks, n + 3, r, m)
  <2>1. CASE Len(t) # 1
    BY <1>4, <2>1 DEF SetMeant
  <2>2. CASE Len(t) = 1 /\ j < Len(m.bindings)
    <3>. DEFINE c == m.bindings[j + 1].column
                v == m.bindings[j + 1].rhs
                y == SetRest(m, j + 1) \o UpdateRest(m, 0)
                d == v \o y
                z == <<Equals>> \o d
                L == Left(toks, n + 3)
    <3>1. /\ y \in Line /\ c \in Names /\ v \in Values /\ m.bindings[j + 1] = Binding(c, v)
          /\ j + 1 \in 0..Len(m.bindings) /\ Begins(t, Left(toks, n + 1), c[1], z)
      <4>1. j < Len(m.bindings)
        BY <2>2
      <4>2. /\ y \in Line /\ c \in Names /\ v \in Values /\ m.bindings[j + 1] = Binding(c, v)
            /\ j + 1 \in 0..Len(m.bindings)
        BY <4>1, SetRestIs
      <4>3. Begins(t, Left(toks, n + 1), c[1], z)
        BY <1>1, <1>6, <4>1, SetStarts
      <4>. QED
        BY <4>2, <4>3
    <3>2. v \in Line /\ Equals \in Every /\ c = <<c[1]>>
      BY <3>1, ValueIs, KindsOfAtoms, NameIs
    <3>. HIDE DEF c, v, y
    <3>3. d \in Line
      BY <3>1, <3>2, AtomsOfConcat
    <3>4. t = c /\ Left(toks, n + 1) = z
      BY <2>2, <3>1, <3>2 DEF Begins
    <3>. HIDE DEF d
    <3>5. Begins(toks[n + 1 + 1], Left(toks, n + 1 + 1), Equals, d)
      BY <1>1, <3>2, <3>3, <3>4, NextAtom
    <3>6. Left(toks, n + 2) = d
      BY <1>1, <3>5 DEF Begins
    <3>7. u \in Line /\ u # << >> /\ L \in Line /\ u \o L = v \o y
      <4>1. u \in Line /\ u # << >> /\ L \in Line /\ Left(toks, n + 2) = u \o L
        BY <1>1, NextToken
      <4>. QED
        BY <3>6, <4>1 DEF d
    <3>8. \A k \in 1..(Len(u) - 1) : u[k] \notin Closes
      <4>1. CASE IsParam(u)
        BY <4>1 DEF IsParam
      <4>2. CASE IsConst(u)
        BY <1>1, <4>2 DEF LiteralsTouch
      <4>. QED
        BY <1>1, <4>1, <4>2 DEF IsRhs
    <3>9. u = v /\ L = y
      <4>. HIDE DEF u, L
      <4>1. IsRhs(u)
        BY <1>1
      <4>. QED
        BY <3>1, <3>7, <3>8, <4>1, ValueToken
    <3>10. b = m.bindings[j + 1]
      BY <3>1, <3>4, <3>9
    <3>11. Append(q, b) = SubSeq(m.bindings, 1, j + 1)
      <4>1. m.bindings \in Seq([column : Names, rhs : Values]) /\ j + 1 \in 1..Len(m.bindings) /\ j + 1 - 1 = j
        <5>. DEFINE N == Len(m.bindings)
        <5>1. N \in Nat /\ j < N /\ j \in 0..N
          BY <2>2, BindingsAre DEF Marks
        <5>. HIDE DEF N
        <5>2. j + 1 \in 1..N /\ j + 1 - 1 = j
          BY <5>1
        <5>. QED
          BY <5>2, SentenceIs DEF N
      <4>2. SubSeq(m.bindings, 1, j + 1) = Append(SubSeq(m.bindings, 1, j + 1 - 1), m.bindings[j + 1])
        BY <4>1, PrefixGrows
      <4>3. q = SubSeq(m.bindings, 1, j)
        BY <1>6 DEF UpdateUpTo
      <4>. QED
        BY <3>10, <4>1, <4>2, <4>3
    <3>12. UpdateUpTo(r, m, j + 1, 0)
      <4>1. r.bindings = SubSeq(m.bindings, 1, j + 1)
        BY <1>3, <3>11
      <4>2. /\ r.verb = s.verb /\ r.table = s.table /\ r.order = s.order /\ r.limit = s.limit
            /\ r.where = s.where /\ r.columns = s.columns
        BY DEF Statements
      <4>. HIDE DEF r
      <4>. QED
        BY <1>6, <4>1, <4>2 DEF UpdateUpTo
    <3>. HIDE DEF r
    <3>. QED
      BY <3>1, <3>9, <3>12 DEF SetMeant, y, L
  <2>3. CASE Len(t) = 1 /\ ~ (j < Len(m.bindings))
    <3>1. j = Len(m.bindings)
      BY <2>3, BindingsAre DEF Marks
    <3>2. Left(toks, n) = UpdateRest(m, 0) /\ UpdateUpTo(s, m, Len(m.bindings), 0) /\ 0 \in 0..2
      BY <1>6, <3>1, SetRestIs
    <3>3. t[1] = "where" \/ t[1] = "returning"
      BY <1>1, <3>2, ClauseOfUpdate
    <3>4. t = <<t[1]>>
      <4>1. t \in Line
        BY <1>1, NextToken
      <4>. QED
        BY <2>3, <4>1 DEF Line
    <3>. QED
      BY <1>1, <3>3, <3>4
  <2>. QED
    BY <2>1, <2>2, <2>3
<1>. QED
  BY <1>5, <1>6 DEF SetMeant

\* ... and no more.
LEMMA SetMeantEnds ==
  ASSUME NEW toks, AreTokens(toks), NEW n \in 0..Len(toks), NEW m \in Sentences, NEW s, SetMeant(toks, n, s, m),
         n >= Len(toks) \/ toks[n + 1] = <<"where">> \/ toks[n + 1] = <<"returning">>
  PROVE  TailMeant(toks, n, s, m)
<1>1. CASE Spoiled(s, Left(toks, n), "returning")
  BY <1>1 DEF TailMeant
<1>2. ASSUME NEW j \in 0..Len(m.bindings), Left(toks, n) = SetRest(m, j) \o UpdateRest(m, 0), UpdateUpTo(s, m, j, 0)
      PROVE  TailMeant(toks, n, s, m)
  <2>1. CASE j < Len(m.bindings)
    <3>. DEFINE c == m.bindings[j + 1].column
                z == <<Equals>> \o (m.bindings[j + 1].rhs \o (SetRest(m, j + 1) \o UpdateRest(m, 0)))
    <3>1. n < Len(toks) /\ Begins(toks[n + 1], Left(toks, n + 1), c[1], z) /\ c \in Names
      BY <1>2, <2>1, SetStarts, SetRestIs
    <3>. HIDE DEF c, z
    <3>2. c[1] # "where" /\ c[1] # "returning"
      BY <3>1, NameIs, KindsOfAtoms DEF Keywords
    <3>3. toks[n + 1] = <<"where">> \/ toks[n + 1] = <<"returning">>
      BY <3>1 DEF AreTokens
    <3>. QED
      BY <3>1, <3>2, <3>3 DEF Begins
  <2>2. CASE ~ (j < Len(m.bindings))
    <3>1. j = Len(m.bindings)
      BY <2>2, BindingsAre DEF Marks
    <3>. QED
      BY <1>2, <3>1, SetRestIs DEF TailMeant
  <2>. QED
    BY <2>1, <2>2
<1>. QED
  BY <1>1, <1>2 DEF SetMeant

-----------------------------------------------------------------------------
(* The parts of an insert.                                                 *)

\* An atom more in the last part.
LastLonger(front, last, x) == Extended(Append(front, last), x) = Append(front, Append(last, x))
LEMMA ExtendedAppend ==
  ASSUME NEW S, NEW front \in Seq(Seq(S)), NEW last \in Seq(S), NEW x \in S
  PROVE  LastLonger(front, last, x)
<1>. DEFINE ps == Append(front, last)
            longer == Append(last, x)
            n == Len(ps)
            e == Extended(ps, x)
            f == Append(front, longer)
<1>1. /\ ps \in Seq(Seq(S)) /\ n = Len(ps) /\ n = Len(front) + 1 /\ n \in 1..n
      /\ ps[n] = last /\ \A i \in 1..(n - 1) : ps[i] = front[i]
  OBVIOUS
<1>2. longer \in Seq(S)
  OBVIOUS
<1>3. e = [ps EXCEPT ![n] = longer]
  BY <1>1 DEF Extended
<1>. HIDE DEF ps, longer, n
<1>4. e \in Seq(Seq(S)) /\ Len(e) = n
  <2>. DEFINE T == Seq(S)
  <2>1. n \in 1..Len(ps) /\ ps \in Seq(T) /\ longer \in T
    BY <1>1, <1>2
  <2>. HIDE DEF T
  <2>2. [ps EXCEPT ![n] = longer] \in Seq(T) /\ Len([ps EXCEPT ![n] = longer]) = Len(ps)
    BY <2>1, ExceptSeq
  <2>. QED
    BY <1>1, <1>3, <2>2 DEF T
<1>5. e[n] = longer /\ \A i \in 1..(n - 1) : e[i] = ps[i]
  <2>1. DOMAIN ps = 1..Len(ps) /\ n = Len(ps)
    BY <1>1 DEF n
  <2>2. n \in Nat /\ \A i \in 1..(n - 1) : i \in 1..n /\ i # n
    BY <1>1
  <2>. QED
    BY <1>1, <1>3, <2>1, <2>2
<1>6. f \in Seq(Seq(S)) /\ Len(f) = n /\ f[n] = longer /\ \A i \in 1..(n - 1) : f[i] = front[i]
  BY <1>1, <1>2
<1>. HIDE DEF e, f
<1>7. \A i \in 1..n : i = n \/ i \in 1..(n - 1)
  BY <1>1
<1>8. \A i \in 1..n : e[i] = f[i]
  BY <1>1, <1>5, <1>6, <1>7
<1>9. e = f
  BY <1>4, <1>6, <1>8, SeqEqual
<1>. QED
  BY <1>9 DEF e, f, ps, longer, LastLonger

\* An element more at the end of two sequences.
Appended(a, b, x) == a \o Append(b, x) = Append(a \o b, x)
LEMMA AppendedIs ==
  ASSUME NEW S, NEW a \in Seq(S), NEW b \in Seq(S), NEW x \in S
  PROVE  Appended(a, b, x) /\ a \o b \in Seq(S)
BY ConcatAppend DEF Appended

\* The last of some parts.
LEMMA LastPart ==
  ASSUME NEW S, NEW ps \in PartsList(S), ps # << >>
  PROVE  \E front \in PartsList(S) : \E last \in Seq(S) \ {<< >>} : ps = Append(front, last)
<1>. DEFINE T == Seq(S) \ {<< >>}
            n == Len(ps)
<1>1. ps \in Seq(T) /\ n \in 1..n /\ n \in Nat
  BY DEF PartsList
<1>. HIDE DEF T
<1>2. n - 1 \in 0..Len(ps) /\ SubSeq(ps, 1, n) = ps /\ ps[n] \in T /\ SubSeq(ps, 1, n) = Append(SubSeq(ps, 1, n - 1), ps[n])
  <2>1. n - 1 \in 0..Len(ps) /\ n \in 1..Len(ps)
    BY <1>1
  <2>2. SubSeq(ps, 1, n) = ps
    BY <1>1, PrefixGrows
  <2>3. ps[n] \in T /\ SubSeq(ps, 1, n) = Append(SubSeq(ps, 1, n - 1), ps[n])
    BY <1>1, <2>1, PrefixGrows
  <2>. QED
    BY <2>1, <2>2, <2>3
<1>3. SubSeq(ps, 1, n - 1) \in Seq(T)
  BY <1>1, <1>2, PrefixGrows
<1>. QED
  BY <1>2, <1>3 DEF T, PartsList

\* The next atom starts a part.
Fresh(a) == a = << >> \/ a[Len(a)] = Comma
LEMMA PartsAppend ==
  ASSUME NEW S, NEW a \in Seq(S), NEW x \in S
  PROVE  Parts(Append(a, x)) = IF x = Comma THEN Parts(a)
                               ELSE IF Fresh(a) THEN Append(Parts(a), <<x>>) ELSE Extended(Parts(a), x)
<1>. DEFINE n == Len(a)
            b == Append(a, x)
<1>1. n \in Nat /\ b \in Seq(S) /\ Len(b) = n + 1 /\ b[n + 1] = x /\ (\A k \in 1..n : b[k] = a[k]) /\ (n = 0 <=> a = << >>)
  OBVIOUS
<1>2. PICK f \in [0..n -> PartsList(S)] :
        Parts(a) = f[n] /\ f[0] = << >> /\ \A k \in 1..n : f[k] = MoreParts(a, k, f[k - 1])
  BY PartsRecursion
<1>. HIDE DEF b
<1>3. PICK g \in [0..Len(b) -> PartsList(S)] :
        Parts(b) = g[Len(b)] /\ g[0] = << >> /\ \A k \in 1..Len(b) : g[k] = MoreParts(b, k, g[k - 1])
  BY <1>1, PartsRecursion
<1>. HIDE DEF n
<1>. DEFINE P == {k \in 0..n : g[k] = f[k]}
<1>4. 0 \in P
  BY <1>1, <1>2, <1>3
<1>5. ASSUME NEW k \in 1..n, k - 1 \in P PROVE k \in P
  <2>1. k \in 1..Len(b) /\ b[k] = a[k] /\ g[k - 1] = f[k - 1] /\ k \in 0..n /\ (k # 1 => b[k - 1] = a[k - 1])
    BY <1>1, <1>5
  <2>2. MoreParts(b, k, g[k - 1]) = MoreParts(a, k, f[k - 1])
    BY <2>1 DEF MoreParts
  <2>. QED
    BY <1>2, <1>3, <2>1, <2>2
<1>6. n \in P
  <2>. HIDE DEF P
  <2>1. 0..n \subseteq P
    BY <1>1, <1>4, <1>5, InductionTo
  <2>. QED
    BY <1>1, <2>1
<1>7. g[n + 1] = MoreParts(b, n + 1, g[n])
  <2>1. n + 1 \in 1..Len(b) /\ (n + 1) - 1 = n
    BY <1>1
  <2>. QED
    BY <1>3, <2>1
<1>8. (n + 1 = 1 \/ b[(n + 1) - 1] = Comma) <=> Fresh(a)
  <2>1. (n + 1) - 1 = n /\ (n # 0 => b[n] = a[n] /\ n \in 1..n) /\ (n + 1 = 1 <=> n = 0) /\ n = Len(a)
    BY <1>1 DEF n
  <2>. QED
    BY <1>1, <2>1 DEF Fresh
<1>9. MoreParts(b, n + 1, g[n]) = IF x = Comma THEN g[n] ELSE IF Fresh(a) THEN Append(g[n], <<x>>) ELSE Extended(g[n], x)
  BY <1>1, <1>8 DEF MoreParts
<1>. QED
  BY <1>1, <1>2, <1>3, <1>6, <1>7, <1>9 DEF b, n

LEMMA FreshAppend ==
  ASSUME NEW S, NEW a \in Seq(S), NEW x \in S
  PROVE  Fresh(Append(a, x)) <=> x = Comma
<1>1. Append(a, x) # << >> /\ Append(a, x)[Len(Append(a, x))] = x
  OBVIOUS
<1>. QED
  BY <1>1 DEF Fresh

LEMMA PartsOfNothing == Parts(<< >>) = << >>
<1>1. << >> \in Seq({}) /\ Len(<< >>) = 0
  OBVIOUS
<1>2. PICK f \in [0..0 -> PartsList({})] : Parts(<< >>) = f[0] /\ f[0] = << >>
  BY <1>1, PartsRecursion
<1>. QED
  BY <1>2

\* Where no part starts, one is there.
LEMMA PartsOpen ==
  ASSUME NEW S, NEW a \in Seq(S), ~ Fresh(a)
  PROVE  Parts(a) # << >>
<1>. DEFINE n == Len(a)
            A(k) == SubSeq(a, 1, k)
            P == {k \in 0..n : ~ Fresh(A(k)) => Parts(A(k)) # << >>}
<1>1. /\ n \in Nat /\ A(0) = << >> /\ A(n) = a
      /\ \A k \in 0..n : A(k) \in Seq(S) /\ Len(A(k)) = k
      /\ \A k \in 1..n : a[k] \in S /\ A(k) = Append(A(k - 1), a[k])
  BY PrefixGrows
<1>. HIDE DEF A, n
<1>2. 0 \in P
  BY <1>1 DEF Fresh
<1>3. ASSUME NEW k \in 1..n, k - 1 \in P PROVE k \in P
  <2>. DEFINE c == A(k - 1)
              x == a[k]
              ps == Parts(c)
  <2>1. k \in 0..n /\ c \in Seq(S) /\ x \in S /\ A(k) = Append(c, x) /\ (~ Fresh(c) => ps # << >>)
    <3>1. k \in 0..n /\ k - 1 \in 0..n
      BY <1>1
    <3>. QED
      BY <1>1, <1>3, <3>1
  <2>. HIDE DEF c, x
  <2>2. Fresh(Append(c, x)) <=> x = Comma
    BY <2>1 DEF Fresh
  <2>3. ps \in PartsList(S)
    BY <2>1, PartsTyped
  <2>4. Parts(Append(c, x)) = IF x = Comma THEN ps ELSE IF Fresh(c) THEN Append(ps, <<x>>) ELSE Extended(ps, x)
    BY <2>1, PartsAppend
  <2>. HIDE DEF ps
  <2>5. CASE x # Comma /\ Fresh(c)
    <3>1. Append(ps, <<x>>) # << >>
      <4>. DEFINE T == Seq(S) \ {<< >>}
                  y == <<x>>
      <4>1. ps \in Seq(T) /\ y \in T
        BY <2>1, <2>3 DEF PartsList
      <4>. HIDE DEF T, y
      <4>2. Append(ps, y) # << >>
        BY <4>1, AppendProperties
      <4>. QED
        BY <4>2 DEF y
    <3>. QED
      BY <2>1, <2>4, <2>5, <3>1
  <2>6. CASE x # Comma /\ ~ Fresh(c)
    <3>1. Len(Extended(ps, x)) = Len(ps) /\ Len(ps) \in 1..Len(ps)
      BY <2>1, <2>3, <2>6, ExtendedTyped
    <3>2. Extended(ps, x) # << >>
      BY <3>1
    <3>. QED
      BY <2>1, <2>4, <2>6, <3>2
  <2>. QED
    BY <2>1, <2>2, <2>5, <2>6
<1>4. n \in P
  <2>. HIDE DEF P
  <2>1. 0..n \subseteq P
    BY <1>1, <1>2, <1>3, InductionTo
  <2>. QED
    BY <1>1, <2>1
<1>. QED
  BY <1>1, <1>4

\* A comma divides the parts.
LEMMA PartsConcat ==
  ASSUME NEW S, Comma \in S, NEW a \in Seq(S), NEW b \in Seq(S)
  PROVE  Parts(a \o (<<Comma>> \o b)) = Parts(a) \o Parts(b)
<1>. DEFINE n == Len(b)
            B(k) == SubSeq(b, 1, k)
            comma == <<Comma>>
            D(k) == comma \o B(k)
            C(k) == a \o D(k)
            P == {k \in 0..n : C(k) \in Seq(S) /\ (Fresh(C(k)) <=> Fresh(B(k))) /\ Parts(C(k)) = Parts(a) \o Parts(B(k))}
<1>1. /\ n \in Nat /\ B(0) = << >> /\ B(n) = b
      /\ \A k \in 0..n : B(k) \in Seq(S) /\ Len(B(k)) = k
      /\ \A k \in 1..n : b[k] \in S /\ B(k) = Append(B(k - 1), b[k])
  BY PrefixGrows
<1>2. comma \in Seq(S)
  OBVIOUS
<1>3. Parts(a) \in PartsList(S)
  BY PartsTyped
<1>. HIDE DEF B, n
<1>4. 0 \in P
  <2>1. C(0) = Append(a, Comma)
    BY <1>1
  <2>2. Append(a, Comma) \in Seq(S) /\ Fresh(Append(a, Comma)) /\ Fresh(<< >>)
    BY DEF Fresh
  <2>3. Parts(Append(a, Comma)) = Parts(a)
    BY PartsAppend
  <2>4. Parts(a) \o << >> = Parts(a)
    <3>. DEFINE T == Seq(S) \ {<< >>}
                p == Parts(a)
    <3>1. p \in Seq(T)
      BY <1>3 DEF PartsList
    <3>. HIDE DEF T, p
    <3>2. p \o << >> = p
      BY <3>1
    <3>. QED
      BY <3>2 DEF p
  <2>5. Parts(C(0)) = Parts(a) \o Parts(B(0))
    <3>. HIDE DEF C
    <3>1. Parts(B(0)) = << >>
      BY <1>1, PartsOfNothing
    <3>2. Parts(C(0)) = Parts(a)
      BY <2>1, <2>3
    <3>. QED
      BY <2>4, <3>1, <3>2
  <2>. HIDE DEF C
  <2>6. 0 \in 0..n /\ C(0) \in Seq(S) /\ (Fresh(C(0)) <=> Fresh(B(0)))
    <3>1. Fresh(B(0))
      BY <1>1, <2>2
    <3>2. Fresh(C(0)) /\ C(0) \in Seq(S)
      BY <2>1, <2>2
    <3>. QED
      BY <1>1, <3>1, <3>2
  <2>. QED
    BY <2>5, <2>6
<1>5. ASSUME NEW k \in 1..n, k - 1 \in P PROVE k \in P
  <2>. DEFINE u == B(k - 1)
              c == C(k - 1)
              x == b[k]
              p == Parts(a)
              q == Parts(u)
  <2>1. /\ k \in 0..n /\ u \in Seq(S) /\ x \in S /\ B(k) = Append(u, x)
        /\ c \in Seq(S) /\ (Fresh(c) <=> Fresh(u)) /\ Parts(c) = p \o q
    <3>1. k \in 0..n /\ k - 1 \in 0..n
      BY <1>1
    <3>. QED
      BY <1>1, <1>5, <3>1
  <2>2. C(k) = Append(c, x)
    <3>. HIDE DEF comma, x, u
    <3>1. comma \o Append(u, x) = Append(comma \o u, x) /\ comma \o u \in Seq(S)
      BY <1>2, <2>1, ConcatAppend
    <3>. DEFINE e == comma \o u
    <3>. HIDE DEF e
    <3>2. a \o Append(e, x) = Append(a \o e, x)
      BY <2>1, <3>1, ConcatAppend DEF e
    <3>. QED
      BY <2>1, <3>1, <3>2 DEF e, u
  <2>. HIDE DEF u, c, x, C
  <2>3. Fresh(Append(c, x)) <=> Fresh(Append(u, x))
    BY <2>1, FreshAppend
  <2>4. p \in PartsList(S) /\ q \in PartsList(S)
    BY <1>3, <2>1, PartsTyped
  <2>5. (~ Fresh(u)) => q # << >>
    BY <2>1, PartsOpen
  <2>6. Parts(Append(c, x)) = p \o Parts(Append(u, x))
    <3>1. /\ Parts(Append(c, x)) = IF x = Comma THEN Parts(c)
                                   ELSE IF Fresh(c) THEN Append(Parts(c), <<x>>) ELSE Extended(Parts(c), x)
          /\ Parts(Append(u, x)) = IF x = Comma THEN Parts(u)
                                   ELSE IF Fresh(u) THEN Append(Parts(u), <<x>>) ELSE Extended(Parts(u), x)
      BY <2>1, PartsAppend
    <3>. DEFINE T == Seq(S) \ {<< >>}
                y == <<x>>
    <3>2. p \in Seq(T) /\ q \in Seq(T) /\ y \in T
      BY <2>1, <2>4 DEF PartsList
    <3>. HIDE DEF p, q, y, T
    <3>3. Append(p \o q, y) = p \o Append(q, y)
      <4>1. Appended(p, q, y)
        BY <3>2, AppendedIs
      <4>. QED
        BY <4>1 DEF Appended
    <3>4. ASSUME q # << >> PROVE Extended(p \o q, x) = p \o Extended(q, x)
      <4>1. PICK front \in PartsList(S), last \in T : q = Append(front, last)
        BY <2>4, <3>4, LastPart DEF T
      <4>. DEFINE longer == Append(last, x)
                  R == Seq(S)
      <4>2. front \in Seq(T) /\ last \in R
        BY DEF PartsList, T
      <4>3. Seq(T) \subseteq Seq(R) /\ longer \in R
        BY <2>1, <4>2 DEF T
      <4>4. p \in Seq(R) /\ front \in Seq(R)
        BY <3>2, <4>2, <4>3
      <4>. HIDE DEF longer, R
      <4>5. Appended(p, front, last) /\ Appended(p, front, longer) /\ p \o front \in Seq(R)
        BY <4>2, <4>3, <4>4, AppendedIs
      <4>. DEFINE more == p \o front
      <4>. HIDE DEF more
      <4>6. x \in S /\ more \in Seq(Seq(S)) /\ front \in Seq(Seq(S)) /\ last \in Seq(S)
        BY <2>1, <4>2, <4>4, <4>5 DEF R, more
      <4>7. LastLonger(front, last, x) /\ LastLonger(more, last, x)
        BY <4>6, ExtendedAppend
      <4>. QED
        BY <4>1, <4>5, <4>7 DEF Appended, LastLonger, more, longer
    <3>. QED
      BY <2>1, <2>5, <3>1, <3>3, <3>4 DEF y, q
  <2>7. Append(c, x) \in Seq(S)
    BY <2>1
  <2>. HIDE DEF p
  <2>. QED
    BY <2>1, <2>2, <2>3, <2>6, <2>7 DEF p
<1>6. n \in P
  <2>. HIDE DEF P
  <2>1. 0..n \subseteq P
    BY <1>1, <1>4, <1>5, InductionTo
  <2>. QED
    BY <1>1, <2>1
<1>. QED
  BY <1>1, <1>6

\* Atoms without a comma are one part.
LEMMA PartsOfOne ==
  ASSUME NEW S, NEW a \in Seq(S), a # << >>, Comma \notin ToSet(a)
  PROVE  Parts(a) = <<a>>
<1>. DEFINE n == Len(a)
            B(k) == SubSeq(a, 1, k)
            P == {k \in 0..n : k # 0 => Parts(B(k)) = <<B(k)>> /\ ~ Fresh(B(k))}
<1>1. /\ n \in Nat /\ n # 0 /\ B(0) = << >> /\ B(n) = a
      /\ \A k \in 0..n : B(k) \in Seq(S)
      /\ \A k \in 1..n : a[k] \in S /\ a[k] # Comma /\ B(k) = Append(B(k - 1), a[k])
  <2>1. n # 0 /\ \A k \in 1..n : a[k] # Comma
    BY DEF ToSet
  <2>. QED
    BY <2>1, PrefixGrows
<1>. HIDE DEF B, n
<1>2. 0 \in P
  BY <1>1
<1>3. ASSUME NEW k \in 1..n, k - 1 \in P PROVE k \in P
  <2>. DEFINE c == B(k - 1)
              x == a[k]
              y == <<x>>
  <2>1. /\ k \in 0..n /\ c \in Seq(S) /\ x \in S /\ x # Comma /\ B(k) = Append(c, x)
        /\ (k = 1 => c = << >>) /\ (k # 1 => Parts(c) = <<c>> /\ ~ Fresh(c))
    <3>1. k \in 0..n /\ k - 1 \in 0..n /\ (k = 1 <=> k - 1 = 0)
      BY <1>1
    <3>. QED
      BY <1>1, <1>3, <3>1
  <2>2. y \in Seq(S)
    BY <2>1
  <2>. HIDE DEF c, x
  <2>3. ~ Fresh(Append(c, x))
    BY <2>1, FreshAppend
  <2>4. Parts(Append(c, x)) = IF Fresh(c) THEN Append(Parts(c), y) ELSE Extended(Parts(c), x)
    BY <2>1, PartsAppend
  <2>. HIDE DEF y
  <2>5. CASE k = 1
    <3>1. c = << >> /\ Fresh(c)
      BY <2>1, <2>5 DEF Fresh
    <3>2. Parts(Append(c, x)) = Append(<< >>, y)
      BY <2>4, <3>1, PartsOfNothing
    <3>3. Append(<< >>, y) = <<y>> /\ Append(c, x) = y
      BY <3>1 DEF y
    <3>. QED
      BY <2>1, <2>3, <3>2, <3>3
  <2>6. CASE k # 1
    <3>. DEFINE R == Seq(S)
    <3>1. Parts(c) = Append(<< >>, c) /\ << >> \in Seq(R) /\ c \in R
      BY <2>1, <2>6
    <3>. HIDE DEF R
    <3>. DEFINE none == << >>
    <3>2. none \in Seq(R) /\ Append(none, c) = Parts(c)
      BY <3>1
    <3>. HIDE DEF none
    <3>3. LastLonger(none, c, x)
      <4>1. none \in Seq(Seq(S)) /\ c \in Seq(S) /\ x \in S
        BY <2>1, <3>2 DEF R
      <4>. QED
        BY <4>1, ExtendedAppend
    <3>4. Append(none, Append(c, x)) = <<Append(c, x)>>
      BY DEF none
    <3>. QED
      BY <2>1, <2>3, <2>4, <2>6, <3>2, <3>3, <3>4 DEF LastLonger
  <2>. QED
    BY <2>5, <2>6
<1>4. n \in P
  <2>. HIDE DEF P
  <2>1. 0..n \subseteq P
    BY <1>1, <1>2, <1>3, InductionTo
  <2>. QED
    BY <1>1, <2>1
<1>. QED
  BY <1>1, <1>4

\* The parts of a list are those of its items.
LEMMA PartsOfListed ==
  ASSUME NEW items \in Seq(Line), NEW G \in Seq(Seq(Line)), Len(G) = Len(items), \A i \in 1..Len(items) : G[i] = Parts(items[i])
  PROVE  Listed(items) \in Line /\ Parts(Listed(items)) = FlattenSeq(G)
<1>. DEFINE n == Len(items)
            B(k) == SubSeq(items, 1, k)
            H(k) == SubSeq(G, 1, k)
            R == Seq(Line)
            P == {k \in 0..n : Listed(B(k)) \in Line /\ Parts(Listed(B(k))) = FlattenSeq(H(k))}
<1>1. /\ n \in Nat /\ B(0) = << >> /\ B(n) = items
      /\ \A k \in 0..n : B(k) \in Seq(Line)
      /\ \A k \in 1..n : items[k] \in Line /\ B(k) = Append(B(k - 1), items[k])
  BY PrefixGrows
<1>2. /\ H(0) = << >> /\ H(n) = G
      /\ \A k \in 0..n : H(k) \in Seq(R)
      /\ \A k \in 1..n : G[k] \in R /\ H(k) = Append(H(k - 1), G[k]) /\ G[k] = Parts(items[k])
  <2>1. G \in Seq(R) /\ Len(G) = n
    OBVIOUS
  <2>. HIDE DEF R
  <2>. QED
    BY <2>1, PrefixGrows
<1>. HIDE DEF B, H, n
<1>3. Listed(<< >>) = << >>
  <2>1. Len(<< >>) = 0 /\ 2 * 0 - 1 = -1 /\ 1..(-1) = {}
    OBVIOUS
  <2>2. [i \in 1..(2 * Len(<< >>) - 1) |-> IF i % 2 = 0 THEN <<Comma>> ELSE << >>[(i + 1) \div 2]] = << >>
    BY <2>1
  <2>. QED
    BY <2>2, FlattenEmpty DEF Listed
<1>4. 0 \in P
  BY <1>1, <1>2, <1>3, PartsOfNothing, FlattenEmpty, EmptyLine
<1>5. ASSUME NEW k \in 1..n, k - 1 \in P PROVE k \in P
  <2>. DEFINE before == B(k - 1)
              c == items[k]
              l == Listed(before)
              comma == <<Comma>>
              h == H(k - 1)
              g == Parts(c)
  <2>1. /\ k \in 0..n /\ before \in Seq(Line) /\ c \in Line /\ B(k) = Append(before, c)
        /\ l \in Line /\ Parts(l) = FlattenSeq(h) /\ h \in Seq(R) /\ g \in R /\ H(k) = Append(h, g)
    <3>1. k \in 0..n /\ k - 1 \in 0..n
      BY <1>1
    <3>. QED
      BY <1>1, <1>2, <1>5, <3>1
  <2>2. Comma \in Every /\ comma \in Line
    BY KindsOfAtoms DEF Line
  <2>3. Listed(B(k)) = IF before = << >> THEN c ELSE (l \o comma) \o c
    <3>. HIDE DEF before, c
    <3>1. Listed(Append(before, c)) = IF before = << >> THEN c ELSE (Listed(before) \o <<Comma>>) \o c
      BY <2>1, <2>2, ListedAppend DEF Line
    <3>. QED
      BY <2>1, <3>1
  <2>4. FlattenSeq(H(k)) = FlattenSeq(h) \o g /\ FlattenSeq(h) \in R
    <3>. HIDE DEF h, g
    <3>1. h \in Seq(Seq(Line)) /\ g \in Seq(Line)
      BY <2>1
    <3>2. FlattenSeq(Append(h, g)) = FlattenSeq(h) \o g /\ FlattenSeq(h) \in Seq(Line)
      BY <3>1, FlattenAppend, FlattenTyped
    <3>. QED
      BY <2>1, <3>2
  <2>5. CASE before = << >>
    <3>1. FlattenSeq(h) = << >>
      BY <1>3, <2>1, <2>5, PartsOfNothing
    <3>2. << >> \o g = g
      <4>. HIDE DEF g
      <4>. QED
        BY <2>1
    <3>. HIDE DEF before, c, l, h, g
    <3>3. Listed(B(k)) = c /\ FlattenSeq(H(k)) = g
      BY <2>3, <2>4, <2>5, <3>1, <3>2
    <3>. QED
      BY <2>1, <3>3 DEF g
  <2>6. CASE before # << >>
    <3>. HIDE DEF before, c, l, h, g, comma
    <3>1. comma \o c \in Line /\ l \o (comma \o c) \in Line
      <4>1. comma \o c \in Line
        BY <2>1, <2>2, AtomsOfConcat
      <4>. QED
        BY <2>1, <4>1, AtomsOfConcat
    <3>2. Grouped(l, comma, c)
      BY <2>1, <2>2, LineRegroup
    <3>3. Listed(B(k)) = l \o (comma \o c)
      BY <2>3, <2>6, <3>2 DEF Grouped
    <3>4. Parts(l \o (<<Comma>> \o c)) = Parts(l) \o Parts(c)
      BY <2>1, <2>2, PartsConcat DEF Line
    <3>5. Parts(Listed(B(k))) = FlattenSeq(H(k))
      BY <2>1, <2>4, <3>3, <3>4 DEF comma, g
    <3>. QED
      BY <2>1, <3>1, <3>3, <3>5
  <2>. QED
    BY <2>5, <2>6
<1>6. n \in P
  <2>. HIDE DEF P
  <2>1. 0..n \subseteq P
    BY <1>1, <1>4, <1>5, InductionTo
  <2>. QED
    BY <1>1, <2>1
<1>. QED
  BY <1>1, <1>2, <1>6

\* The parts of a binding: itself, or what its literal is cut into.
HeadIs(c, v, ps) ==
  \E u \in Line : \E rest \in Seq(Line) :
    /\ ps = <<c \o (<<Colon>> \o u)>> \o rest
    /\ (u = v /\ rest = << >>) \/ ~ IsRhs(u)
LEMMA PartsOfBinding ==
  ASSUME NEW c \in Names, NEW v \in Values
  PROVE  HeadIs(c, v, Parts(c \o (<<Colon>> \o v))) /\ c \o (<<Colon>> \o v) \in Line
<1>. DEFINE e == <<Colon>>
            a == c \o (e \o v)
<1>1. /\ c \in Line /\ e \in Line /\ v \in Line /\ Comma \notin ToSet(c) /\ Comma \notin ToSet(e) /\ Comma \in Every
      /\ Len(v) \in Nat \ {0} /\ c # << >> /\ ToSet(c) = {c[1]} /\ ToSet(e) = {Colon}
  <2>1. c \in Line /\ c[1] \in Plainwords /\ ToSet(c) = {c[1]} /\ Len(c) = 1
    BY NameIs
  <2>2. Comma \notin Plainwords /\ Comma # Colon /\ Comma \in Every /\ Colon \in Every
    BY KindsOfAtoms DEF Marks, Comma, Colon
  <2>3. e \in Line /\ ToSet(e) = {Colon}
    BY <2>2, SingletonSet DEF Line
  <2>4. c # << >>
    BY <2>1
  <2>. QED
    BY <2>1, <2>2, <2>3, <2>4, ValueIs
<1>. HIDE DEF e
<1>2. ASSUME NEW u \in Line
      PROVE  /\ c \o (e \o u) \in Line /\ c \o (e \o u) # << >>
             /\ Comma \notin ToSet(u) => Comma \notin ToSet(c \o (e \o u))
  <2>1. e \o u \in Line /\ ToSet(e \o u) = ToSet(e) \cup ToSet(u)
    BY <1>1, AtomsOfConcat
  <2>. DEFINE d == e \o u
  <2>. HIDE DEF d
  <2>2. c \o d \in Line /\ ToSet(c \o d) = ToSet(c) \cup ToSet(d)
    BY <1>1, <2>1, AtomsOfConcat DEF d
  <2>3. c \o d # << >>
    <3>1. c[1] \in ToSet(c \o d)
      BY <1>1, <2>2
    <3>. QED
      BY <3>1, EmptyLine
  <2>. QED
    BY <1>1, <2>1, <2>2, <2>3 DEF d
<1>3. CASE Comma \notin ToSet(v)
  <2>1. a \in Line /\ a # << >> /\ Comma \notin ToSet(a)
    BY <1>1, <1>2, <1>3
  <2>. HIDE DEF a
  <2>2. Parts(a) = <<a>>
    BY <2>1, PartsOfOne DEF Line
  <2>3. <<a>> = <<a>> \o << >> /\ << >> \in Seq(Line)
    OBVIOUS
  <2>4. HeadIs(c, v, Parts(a))
    BY <1>1, <2>2, <2>3 DEF HeadIs, a, e
  <2>. QED
    BY <2>1, <2>4 DEF a, e
<1>4. CASE Comma \in ToSet(v)
  <2>. DEFINE n == Len(v)
              p == PlaceOf(v, Comma)
              u == SubSeq(v, 1, p - 1)
              w == SubSeq(v, p + 1, n)
              comma == <<Comma>>
  <2>1. n \in Nat /\ p \in 1..n /\ v[p] = Comma /\ \A k \in 1..(p - 1) : v[k] # Comma
    <3>1. PICK k \in 1..n : v[k] = Comma
      BY <1>4 DEF ToSet, Line
    <3>2. n \in Nat
      BY <1>1
    <3>3. p \in 0..n /\ (p = 0 => \A i \in 1..n : v[i] # Comma) /\ (p # 0 => v[p] = Comma /\ \A i \in 1..(p - 1) : v[i] # Comma)
      BY <3>2, PlaceOfIsFirst
    <3>. QED
      BY <3>1, <3>2, <3>3
  <2>. HIDE DEF p, n
  <2>2. /\ v[1] \in Opens /\ v[n] \in Closes /\ (\A k \in 1..(n - 1) : v[k] \notin Closes)
        /\ p # 1 /\ p # n
    <3>1. Comma \notin Params /\ Comma \notin Numbers /\ Comma \notin Opens /\ Comma \notin Closes
      BY AtomsAssumption DEF Marks
    <3>2. \/ n = 1 /\ v[1] \in Params \cup Numbers
          \/ v[1] \in Opens /\ v[n] \in Closes /\ \A k \in 1..(n - 1) : v[k] \notin Closes
      BY ValueIs DEF n
    <3>. QED
      BY <2>1, <3>1, <3>2
  <2>3. /\ u \in Line /\ w \in Line /\ comma \in Line /\ Len(u) = p - 1 /\ p - 1 \in 1..(n - 1)
        /\ \A k \in 1..(p - 1) : u[k] = v[k]
    <3>1. p - 1 \in 1..(n - 1) /\ p - 1 \in 0..n /\ 1..(p - 1) \subseteq 1..n
      BY <2>1, <2>2
    <3>2. v \in Seq(Every) /\ n = Len(v)
      BY <1>1 DEF Line, n
    <3>3. u \in Line /\ Len(u) = p - 1 /\ \A k \in 1..(p - 1) : u[k] = v[k]
      BY <3>1, <3>2 DEF Line
    <3>4. w \in Line
      BY <2>1, <3>2 DEF Line
    <3>. QED
      BY <1>1, <3>1, <3>3, <3>4 DEF Line
  <2>4. v = u \o (comma \o w)
    <3>1. v \in Seq(Every) /\ n = Len(v)
      BY <1>1 DEF Line, n
    <3>2. SubSeq(v, 1, n) = v
      BY <3>1, PrefixGrows
    <3>3. SubSeq(v, 1, p - 1) \o SubSeq(v, p, n) = SubSeq(v, 1, n)
      <4>1. 1 \in 1..(n + 1) /\ p - 1 \in 0..n /\ n \in (p - 1)..n /\ (p - 1) + 1 = p /\ 1 - 1 = 0
        BY <2>1
      <4>2. SubSeq(v, 1, p - 1) \o SubSeq(v, (p - 1) + 1, n) = SubSeq(v, 1, n)
        BY <3>1, <4>1, ConcatAdjacentSubSeq
      <4>. QED
        BY <4>1, <4>2
    <3>4. SubSeq(v, p, n) = <<v[p]>> \o SubSeq(v, p + 1, n)
      BY <2>1, <3>1, SubSeqRecursiveFirst
    <3>. QED
      BY <2>1, <3>2, <3>3, <3>4
  <2>5. ~ IsRhs(u) /\ Comma \notin ToSet(u)
    <3>1. u[1] = v[1] /\ u[Len(u)] = v[p - 1] /\ v[p - 1] \notin Closes /\ u[1] \in Opens
      BY <2>1, <2>2, <2>3
    <3>2. Opens \cap Params = {} /\ Opens \cap Numbers = {}
      BY AtomsAssumption
    <3>3. ~ IsRhs(u)
      BY <3>1, <3>2 DEF IsRhs, IsParam, IsConst, Last
    <3>4. Comma \notin ToSet(u)
      BY <2>1, <2>3 DEF ToSet
    <3>. QED
      BY <3>3, <3>4
  <2>. DEFINE b == c \o (e \o u)
  <2>. HIDE DEF u, w, comma
  <2>6. a = b \o (comma \o w)
    <3>1. comma \o w \in Line /\ e \o u \in Line
      BY <1>1, <2>3, AtomsOfConcat
    <3>. DEFINE d == comma \o w
                f == e \o u
    <3>. HIDE DEF d
    <3>2. Grouped(e, u, d)
      BY <1>1, <2>3, <3>1, LineRegroup DEF d
    <3>3. Grouped(c, f, d)
      <4>. HIDE DEF f
      <4>. QED
        BY <1>1, <3>1, LineRegroup DEF d, f
    <3>. QED
      BY <2>4, <3>2, <3>3 DEF Grouped, d
  <2>7. b \in Line /\ b # << >> /\ Comma \notin ToSet(b)
    BY <1>2, <2>3, <2>5
  <2>. DEFINE rest == Parts(w)
  <2>8. Parts(a) = <<b>> \o rest /\ rest \in Seq(Line)
    <3>. HIDE DEF b
    <3>1. Parts(b) = <<b>>
      BY <2>7, PartsOfOne DEF Line
    <3>2. Parts(b \o (<<Comma>> \o w)) = Parts(b) \o Parts(w)
      BY <1>1, <2>3, <2>7, PartsConcat DEF Line
    <3>3. Parts(w) \in PartsList(Every)
      BY <2>3, PartsTyped DEF Line
    <3>4. rest \in Seq(Line)
      BY <3>3 DEF PartsList, Line
    <3>. QED
      BY <2>6, <3>1, <3>2, <3>4 DEF comma
  <2>. HIDE DEF a, rest
  <2>9. HeadIs(c, v, Parts(a))
    BY <2>3, <2>5, <2>8 DEF HeadIs, e
  <2>. QED
    BY <1>1, <1>2, <2>9 DEF a, e
<1>. QED
  BY <1>3, <1>4

\* A part is cut after its name.
LEMMA ColonOf ==
  ASSUME NEW c \in Names, NEW u \in Line
  PROVE  LET part == c \o (<<Colon>> \o u)
         IN  /\ PlaceOf(part, Colon) = 2 /\ part # << >>
             /\ SubSeq(part, 1, 2 - 1) = c /\ SubSeq(part, 2 + 1, Len(part)) = u
<1>. DEFINE part == c \o (<<Colon>> \o u)
            d == <<Colon>> \o u
            x == c[1]
            n == Len(part)
            m == Len(u)
<1>1. c = <<x>> /\ x \in Every /\ x # Colon /\ Colon \in Every
  <2>1. Colon \notin Plainwords
    BY KindsOfAtoms DEF Marks
  <2>. QED
    BY <2>1, NameIs, KindsOfAtoms
<1>2. d \in Line /\ d \in Seq(Every) /\ Len(d) = m + 1 /\ d[1] = Colon /\ m \in Nat /\ \A k \in 2..(m + 1) : d[k] = u[k - 1]
  BY <1>1, AtomFirst DEF Line
<1>. HIDE DEF d
<1>3. part = <<x>> \o d
  BY <1>1 DEF d
<1>. HIDE DEF x, part, n, m
<1>4. /\ part \in Seq(Every) /\ part # << >> /\ part[1] = x /\ n = m + 2 /\ \A k \in 2..(m + 2) : part[k] = d[k - 1]
  <2>1. /\ part \in Seq(Every) /\ part # << >> /\ part[1] = x /\ n = Len(d) + 1
        /\ \A k \in 2..(Len(d) + 1) : part[k] = d[k - 1]
    BY <1>1, <1>2, <1>3, AtomFirst DEF n
  <2>. QED
    BY <1>2, <2>1
<1>5. part[2] = Colon /\ \A k \in 3..(m + 2) : part[k] = u[k - 2]
  <2>1. 2 \in 2..(m + 2) /\ 2 - 1 = 1 /\ \A k \in 3..(m + 2) : k \in 2..(m + 2) /\ k - 1 \in 2..(m + 1) /\ (k - 1) - 1 = k - 2
    BY <1>2
  <2>2. part[2] = Colon
    BY <1>2, <1>4, <2>1
  <2>3. \A k \in 3..(m + 2) : part[k] = u[k - 2]
    BY <1>2, <1>4, <2>1
  <2>. QED
    BY <2>2, <2>3
<1>6. PlaceOf(part, Colon) = 2
  <2>. DEFINE p == PlaceOf(part, Colon)
  <2>1. n \in Nat /\ n = Len(part)
    BY <1>2, <1>4 DEF n
  <2>2. /\ p \in 0..n
        /\ p = 0 => \A k \in 1..n : part[k] # Colon
        /\ p # 0 => part[p] = Colon /\ \A k \in 1..(p - 1) : part[k] # Colon
    BY <2>1, PlaceOfIsFirst DEF p
  <2>. HIDE DEF p
  <2>3. p # 0 /\ p # 1
    <3>1. 2 \in 1..n /\ part[2] = Colon /\ part[1] # Colon
      BY <1>1, <1>2, <1>4, <1>5
    <3>. QED
      BY <2>2, <3>1
  <2>4. ~ (p > 2)
    BY <1>5, <2>2
  <2>. QED
    BY <2>2, <2>3, <2>4 DEF p
<1>7. SubSeq(part, 1, 2 - 1) = c
  <2>1. SubSeq(part, 1, 1) = <<part[1]>>
    <3>1. 1 \in 1..Len(part) /\ 1 \in 1..1
      BY <1>2, <1>4 DEF n
    <3>2. SubSeq(part, 1, 1) = <<part[1]>> \o SubSeq(part, 1 + 1, 1)
      BY <1>4, <3>1, SubSeqRecursiveFirst
    <3>3. SubSeq(part, 1 + 1, 1) = << >>
      BY <1>4, SubSeqEmpty
    <3>4. <<part[1]>> \o << >> = <<part[1]>>
      OBVIOUS
    <3>. QED
      BY <3>2, <3>3, <3>4
  <2>. QED
    BY <1>1, <1>4, <2>1
<1>8. SubSeq(part, 3, n) = u
  <2>. DEFINE w == SubSeq(part, 3, n)
  <2>1. w \in Seq(Every) /\ Len(w) = m /\ \A k \in 1..m : w[k] = part[k + 2]
    <3>1. part \in Seq(Every) /\ n = Len(part) /\ n = m + 2 /\ m \in Nat
      BY <1>2, <1>4 DEF n
    <3>2. 3 \in Int /\ n \in Int /\ n - 3 + 1 = m /\ (3 <= n => n - 3 + 1 = m) /\ (~ (3 <= n) => m = 0)
      BY <3>1
    <3>3. \A k \in 3..n : part[k] \in Every
      <4>1. \A k \in 1..Len(part) : part[k] \in Every
        BY <3>1, ElementOfSeq
      <4>2. \A k \in 3..n : k \in 1..n
        BY <3>1
      <4>. QED
        BY <3>1, <4>1, <4>2
    <3>4. /\ w \in Seq(Every) /\ Len(w) = (IF 3 <= n THEN n - 3 + 1 ELSE 0)
          /\ \A k \in 1..(n - 3 + 1) : w[k] = part[3 + k - 1]
      <4>. HIDE DEF w
      <4>1. w = SubSeq(part, 3, n)
        BY DEF w
      <4>. QED
        BY <3>2, <3>3, <4>1, SubSeqProperties
    <3>5. \A k \in 1..m : 3 + k - 1 = k + 2
      BY <3>1
    <3>. QED
      BY <3>2, <3>4, <3>5
  <2>. HIDE DEF w
  <2>2. u \in Seq(Every) /\ Len(u) = m
    BY DEF Line, m
  <2>3. \A k \in 1..m : w[k] = u[k]
    <3>1. \A k \in 1..m : k + 2 \in 3..(m + 2) /\ (k + 2) - 2 = k
      BY <1>2
    <3>. QED
      BY <1>5, <2>1, <3>1
  <2>4. w = u
    BY <2>1, <2>2, <2>3, SeqEqual
  <2>. QED
    BY <2>4 DEF w
<1>. QED
  BY <1>4, <1>6, <1>7, <1>8 DEF n, part

\* The parts of the bindings that are left.
LEMMA BindingPartsAre ==
  ASSUME NEW m \in Sentences
  PROVE  /\ BindingParts(m) \in Seq(Seq(Line)) /\ Len(BindingParts(m)) = Len(m.bindings) /\ Len(m.bindings) \in Nat
         /\ \A i \in 1..Len(m.bindings) :
              /\ BindingParts(m)[i] = Parts(Bindings(m, Colon)[i])
              /\ m.bindings[i] \in [column : Names, rhs : Values]
              /\ HeadIs(m.bindings[i].column, m.bindings[i].rhs, BindingParts(m)[i])
<1>. DEFINE q == m.bindings
            N == Len(q)
            B == Bindings(m, Colon)
            G == BindingParts(m)
<1>1. /\ N \in Nat
      /\ \A i \in 1..N : q[i] \in [column : Names, rhs : Values] /\ B[i] = q[i].column \o (<<Colon>> \o q[i].rhs)
      /\ \A i \in 1..N : B[i] \in Line
      /\ DOMAIN q = 1..N
  <2>1. Colon \in Marks
    BY DEF Marks
  <2>2. /\ B \in Seq(Line) /\ Len(B) = N /\ N \in Nat
        /\ \A i \in 1..N : q[i] \in [column : Names, rhs : Values] /\ B[i] = q[i].column \o (<<Colon>> \o q[i].rhs)
    BY <2>1, BindingsAre
  <2>3. DOMAIN q = 1..N
    <3>. DEFINE R == [column : Names, rhs : Values]
    <3>1. q \in Seq(R)
      BY SentenceIs
    <3>. HIDE DEF q, R
    <3>. QED
      BY <3>1
  <2>4. \A i \in 1..N : B[i] \in Line
    <3>. HIDE DEF B, N
    <3>. QED
      BY <2>2
  <2>. QED
    BY <2>2, <2>3, <2>4
<1>2. G = [i \in 1..N |-> Parts(B[i])]
  BY <1>1 DEF BindingParts
<1>3. \A i \in 1..N : Parts(B[i]) \in Seq(Line)
  <2>. SUFFICES ASSUME NEW i \in 1..N PROVE Parts(B[i]) \in Seq(Line)
    OBVIOUS
  <2>1. B[i] \in Seq(Every)
    BY <1>1 DEF Line
  <2>. HIDE DEF B
  <2>2. Parts(B[i]) \in PartsList(Every)
    BY <2>1, PartsTyped
  <2>. QED
    BY <2>2 DEF PartsList, Line
<1>4. \A i \in 1..N : HeadIs(q[i].column, q[i].rhs, Parts(B[i]))
  BY <1>1, PartsOfBinding
<1>. HIDE DEF q, N, B, G
<1>5. G \in Seq(Seq(Line)) /\ Len(G) = N
  <2>. DEFINE F(i) == Parts(B[i])
              T == Seq(Line)
  <2>1. N \in Nat /\ (\A i \in 1..N : F(i) \in T) /\ G = [i \in 1..N |-> F(i)]
    BY <1>1, <1>2, <1>3
  <2>. HIDE DEF F, T
  <2>2. G \in Seq(T) /\ Len(G) = N
    BY <2>1
  <2>. QED
    BY <2>2 DEF T
<1>6. \A i \in 1..N : G[i] = Parts(B[i])
  BY <1>2
<1>. QED
  BY <1>1, <1>4, <1>5, <1>6 DEF q, N, B, G
\* The part that is next.
LEMMA FirstPart ==
  ASSUME NEW h \in Line, NEW y \in Seq(Line)
  PROVE  <<h>> \o y # << >> /\ Head(<<h>> \o y) = h /\ Tail(<<h>> \o y) = y
<1>. DEFINE T == Line
            c == <<h>> \o y
<1>. HIDE DEF T
<1>1. /\ c \in Seq(T) /\ c # << >> /\ c[1] = h /\ Len(c) = Len(y) + 1
      /\ \A k \in 2..(Len(y) + 1) : c[k] = y[k - 1]
  BY AtomFirst DEF T
<1>. HIDE DEF c
<1>2. y \in Seq(T) /\ Len(y) \in Nat
  BY DEF T
<1>3. Head(c) = c[1]
  BY <1>1
<1>4. Tail(c) \in Seq(T) /\ Len(Tail(c)) = Len(y) /\ \A k \in 1..Len(y) : Tail(c)[k] = c[k + 1]
  BY <1>1, <1>2
<1>5. \A k \in 1..Len(y) : Tail(c)[k] = y[k]
  <2>1. \A k \in 1..Len(y) : k + 1 \in 2..(Len(y) + 1) /\ (k + 1) - 1 = k
    BY <1>2
  <2>. QED
    BY <1>1, <1>4, <2>1
<1>6. Tail(c) = y
  BY <1>2, <1>4, <1>5, SeqEqual
<1>. QED
  BY <1>1, <1>3, <1>6 DEF c

HeadOfInsert(a, ps, others) ==
  /\ a = Binding(a.column, a.rhs) /\ a.column \in Names
  /\ \E u \in Line : Head(ps) = a.column \o (<<Colon>> \o u) /\ ((u = a.rhs /\ Tail(ps) = others) \/ ~ IsRhs(u))
LEMMA InsertHead ==
  ASSUME NEW m \in Sentences, NEW j \in 0..Len(m.bindings)
  PROVE  /\ j = Len(m.bindings) => Left(BindingParts(m), j) = << >>
         /\ j # Len(m.bindings) =>
              /\ Left(BindingParts(m), j) # << >>
              /\ j + 1 \in 0..Len(m.bindings) /\ j + 1 \in 1..Len(m.bindings) /\ j + 1 - 1 = j
              /\ HeadOfInsert(m.bindings[j + 1], Left(BindingParts(m), j), Left(BindingParts(m), j + 1))
<1>. DEFINE G == BindingParts(m)
            N == Len(m.bindings)
            T == Line
            ps == Left(G, j)
<1>1. /\ G \in Seq(Seq(T)) /\ Len(G) = N /\ N \in Nat
      /\ \A i \in 1..N : /\ m.bindings[i] \in [column : Names, rhs : Values]
                         /\ HeadIs(m.bindings[i].column, m.bindings[i].rhs, G[i])
  BY BindingPartsAre
<1>. HIDE DEF G, T
<1>2. /\ j = N => Left(G, j) = << >>
      /\ j < N => /\ j + 1 \in 0..N /\ G[j + 1] \in Seq(T) /\ Left(G, j + 1) \in Seq(T)
                  /\ Left(G, j) = G[j + 1] \o Left(G, j + 1)
  <2>1. j \in 0..Len(G)
    BY <1>1
  <2>. HIDE DEF N
  <2>. QED
    BY <1>1, <2>1, LeftNext
<1>3. ASSUME j # N
      PROVE  /\ ps # << >> /\ j + 1 \in 0..N /\ j + 1 \in 1..N /\ j + 1 - 1 = j
             /\ HeadOfInsert(m.bindings[j + 1], ps, Left(G, j + 1))
  <2>1. j < N /\ j + 1 \in 0..N /\ j + 1 \in 1..N /\ j + 1 - 1 = j
    BY <1>1, <1>3
  <2>. DEFINE b == m.bindings[j + 1]
              c == b.column
              v == b.rhs
              y == Left(G, j + 1)
  <2>2. b \in [column : Names, rhs : Values] /\ HeadIs(c, v, G[j + 1]) /\ y \in Seq(T) /\ ps = G[j + 1] \o y
    BY <1>1, <1>2, <2>1 DEF G
  <2>3. b = Binding(c, v) /\ c \in Names
    <3>. HIDE DEF b
    <3>. QED
      BY <2>2 DEF Binding
  <2>4. PICK u \in Line, rest \in Seq(Line) :
          G[j + 1] = <<c \o (<<Colon>> \o u)>> \o rest /\ ((u = v /\ rest = << >>) \/ ~ IsRhs(u))
    BY <2>2 DEF HeadIs
  <2>. DEFINE h == c \o (<<Colon>> \o u)
  <2>5. h \in Line
    <3>1. c \in Line /\ <<Colon>> \in Line
      BY <2>3, NameIs, KindsOfAtoms DEF Line
    <3>. HIDE DEF c
    <3>. DEFINE d == <<Colon>> \o u
    <3>2. d \in Line
      BY <3>1, AtomsOfConcat
    <3>. HIDE DEF d
    <3>3. c \o d \in Line
      BY <3>1, <3>2, AtomsOfConcat
    <3>. QED
      BY <3>3 DEF d
  <2>. HIDE DEF b, c, v, y, h
  <2>6. ps = <<h>> \o (rest \o y) /\ rest \o y \in Seq(Line) /\ (rest = << >> => rest \o y = y)
    <3>. DEFINE f == <<h>>
    <3>1. f \in Seq(T) /\ rest \in Seq(T) /\ y \in Seq(T)
      BY <2>2, <2>4, <2>5 DEF T
    <3>2. ps = (f \o rest) \o y
      BY <2>2, <2>4 DEF h
    <3>. HIDE DEF f
    <3>3. f \o (rest \o y) = (f \o rest) \o y
      BY <3>1, Regroup
    <3>4. rest \o y \in Seq(T) /\ (rest = << >> => rest \o y = y)
      BY <3>1
    <3>. QED
      BY <3>2, <3>3, <3>4 DEF f, T
  <2>7. ps # << >> /\ Head(ps) = h /\ Tail(ps) = rest \o y
    <3>. DEFINE z == rest \o y
    <3>1. z \in Seq(Line) /\ ps = <<h>> \o z
      BY <2>6
    <3>. HIDE DEF z
    <3>2. ps # << >> /\ Head(ps) = h /\ Tail(ps) = z
      BY <2>5, <3>1, FirstPart
    <3>. QED
      BY <3>2 DEF z
  <2>8. (u = v /\ Tail(ps) = y) \/ ~ IsRhs(u)
    BY <2>4, <2>6, <2>7
  <2>9. HeadOfInsert(b, ps, y)
    BY <2>3, <2>7, <2>8 DEF HeadOfInsert, c, v, h
  <2>. QED
    BY <2>1, <2>7, <2>9 DEF b, y
<1>. QED
  BY <1>2, <1>3 DEF G, N

\* A binding of an insert, ...
PartBinds(part, value, b) ==
  /\ value = SubSeq(part, PlaceOf(part, Colon) + 1, Len(part)) /\ IsRhs(value)
  /\ b = Binding(SubSeq(part, 1, PlaceOf(part, Colon) - 1), value)
LEMMA InsertMeantOn ==
  ASSUME NEW m \in Sentences, NEW s \in Statements, NEW ps, ps # << >>, InsertMeant(ps, s, m),
         NEW value, NEW b, PartBinds(Head(ps), value, b)
  PROVE  InsertMeant(Tail(ps), [s EXCEPT !.bindings = Append(@, b)], m)
<1>. DEFINE r == [s EXCEPT !.bindings = Append(@, b)]
            N == Len(m.bindings)
            G == BindingParts(m)
<1>1. PICK j \in 0..N : ps = Left(G, j) /\ InsertUpTo(s, m, j)
  BY DEF InsertMeant
<1>2. j # N
  <2>. DEFINE left == Left(G, j)
  <2>1. j = N => left = << >>
    BY InsertHead
  <2>. QED
    BY <1>1, <2>1
<1>. DEFINE a == m.bindings[j + 1]
            c == a.column
            v == a.rhs
<1>3. /\ j + 1 \in 0..N /\ j + 1 \in 1..N /\ j + 1 - 1 = j /\ a = Binding(c, v) /\ c \in Names
      /\ \E u \in Line : Head(ps) = c \o (<<Colon>> \o u) /\ ((u = v /\ Tail(ps) = Left(G, j + 1)) \/ ~ IsRhs(u))
  <2>. DEFINE left == Left(G, j)
  <2>1. /\ j + 1 \in 0..N /\ j + 1 \in 1..N /\ j + 1 - 1 = j /\ HeadOfInsert(a, left, Left(G, j + 1))
    BY <1>2, InsertHead
  <2>2. ps = left
    BY <1>1
  <2>. HIDE DEF left, a
  <2>. QED
    BY <2>1, <2>2 DEF HeadOfInsert
<1>. HIDE DEF a, c, v
<1>4. PICK u \in Line : Head(ps) = c \o (<<Colon>> \o u) /\ ((u = v /\ Tail(ps) = Left(G, j + 1)) \/ ~ IsRhs(u))
  BY <1>3
<1>. DEFINE head == c \o (<<Colon>> \o u)
<1>5. PlaceOf(head, Colon) = 2 /\ SubSeq(head, 1, 2 - 1) = c /\ SubSeq(head, 2 + 1, Len(head)) = u
  BY <1>3, ColonOf
<1>. HIDE DEF head
<1>6. Head(ps) = head
  BY <1>4 DEF head
<1>7. value = u /\ b = Binding(c, value) /\ IsRhs(value)
  <2>1. PartBinds(head, value, b)
    BY <1>6
  <2>. QED
    BY <1>5, <2>1 DEF PartBinds
<1>8. b = a /\ Tail(ps) = Left(G, j + 1)
  BY <1>3, <1>4, <1>7
<1>9. r.bindings = SubSeq(m.bindings, 1, j + 1)
  <2>1. m.bindings \in Seq([column : Names, rhs : Values])
    BY SentenceIs
  <2>2. SubSeq(m.bindings, 1, j + 1) = Append(SubSeq(m.bindings, 1, j + 1 - 1), m.bindings[j + 1])
    <3>. DEFINE R == [column : Names, rhs : Values]
                q == m.bindings
    <3>1. q \in Seq(R) /\ j + 1 \in 1..Len(q)
      BY <1>3, <2>1
    <3>. HIDE DEF R, q
    <3>2. SubSeq(q, 1, j + 1) = Append(SubSeq(q, 1, j + 1 - 1), q[j + 1])
      BY <3>1, PrefixGrows
    <3>. QED
      BY <3>2 DEF q
  <2>3. s.bindings = SubSeq(m.bindings, 1, j + 1 - 1)
    BY <1>1, <1>3 DEF InsertUpTo
  <2>4. r.bindings = Append(s.bindings, b)
    BY DEF Statements
  <2>. QED
    BY <1>8, <2>2, <2>3, <2>4 DEF a
<1>10. /\ r.verb = s.verb /\ r.table = s.table /\ r.order = s.order /\ r.limit = s.limit
       /\ r.where = s.where /\ r.columns = s.columns
  BY DEF Statements
<1>. HIDE DEF r
<1>11. InsertUpTo(r, m, j + 1)
  BY <1>1, <1>9, <1>10 DEF InsertUpTo
<1>12. InsertMeant(Tail(ps), r, m)
  BY <1>3, <1>8, <1>11 DEF InsertMeant, G, N
<1>. QED
  BY <1>12 DEF r

\* ... and no more.
LEMMA InsertMeantEnds ==
  ASSUME NEW m \in Sentences, NEW s \in Statements, InsertMeant(<< >>, s, m)
  PROVE  s = m
<1>1. PICK j \in 0..Len(m.bindings) : << >> = Left(BindingParts(m), j) /\ InsertUpTo(s, m, j)
  BY DEF InsertMeant
<1>2. j = Len(m.bindings)
  <2>. DEFINE ps == Left(BindingParts(m), j)
  <2>1. ps = << >>
    BY <1>1
  <2>2. j # Len(m.bindings) => ps # << >>
    BY InsertHead
  <2>. QED
    BY <2>1, <2>2
<1>3. SubSeq(m.bindings, 1, Len(m.bindings)) = m.bindings
  <2>1. m.bindings \in Seq([column : Names, rhs : Values])
    BY SentenceIs
  <2>. QED
    BY <2>1
<1>4. /\ s.verb = m.verb /\ s.table = m.table /\ s.columns = m.columns /\ s.bindings = m.bindings
      /\ s.where = m.where /\ s.order = m.order /\ s.limit = m.limit
  BY <1>1, <1>2, <1>3 DEF InsertUpTo
<1>. QED
  BY <1>4 DEF Statements, Sentences

-----------------------------------------------------------------------------
(* The first step.                                                         *)

\* What follows the table in a sentence.
AfterTable(m) ==
  CASE m.verb = "read" -> ReadRest(m, 0)
    [] m.verb = "insert" -> <<LBrace>> \o (Listed(Bindings(m, Colon)) \o <<RBrace>>)
    [] m.verb = "update" -> <<"set">> \o (SetRest(m, 0) \o UpdateRest(m, 0))
    [] m.verb = "delete" -> Filter(m)

\* The bindings of an insert, as a list.
LEMMA BindingsListed ==
  ASSUME NEW m \in Sentences
  PROVE  /\ Listed(Bindings(m, Colon)) \in Line
         /\ Parts(Listed(Bindings(m, Colon))) = Left(BindingParts(m), 0)
<1>. DEFINE B == Bindings(m, Colon)
            G == BindingParts(m)
            T == Line
<1>1. B \in Seq(T) /\ Len(B) = Len(m.bindings)
  BY BindingsAre DEF Marks
<1>2. G \in Seq(Seq(T)) /\ Len(G) = Len(m.bindings) /\ \A i \in 1..Len(m.bindings) : G[i] = Parts(B[i])
  BY BindingPartsAre
<1>. HIDE DEF B, G, T
<1>3. Len(G) = Len(B) /\ \A i \in 1..Len(B) : G[i] = Parts(B[i])
  BY <1>1, <1>2
<1>4. Listed(B) \in Line /\ Parts(Listed(B)) = FlattenSeq(G)
  BY <1>1, <1>2, <1>3, PartsOfListed DEF T
<1>5. Left(G, 0) = FlattenSeq(G)
  <2>1. 0 \in 0..Len(G)
    BY <1>2
  <2>. QED
    BY <1>2, <2>1, LeftNext
<1>. QED
  BY <1>4, <1>5 DEF B, G

LEMMA AfterTableIs ==
  ASSUME NEW m \in Sentences
  PROVE  AfterTable(m) \in Line
<1>. DEFINE l == Listed(Bindings(m, Colon))
            a == <<LBrace>>
            b == <<RBrace>>
            c == <<"set">>
            d == SetRest(m, 0) \o UpdateRest(m, 0)
<1>1. a \in Line /\ b \in Line /\ c \in Line /\ l \in Line
  BY KindsOfAtoms, BindingsListed DEF Line
<1>2. d \in Line
  <2>1. 0 \in 0..Len(m.bindings)
    BY BindingsAre DEF Marks
  <2>2. SetRest(m, 0) \in Line /\ UpdateRest(m, 0) \in Line
    BY <2>1, SetRestIs
  <2>. QED
    BY <2>2, AtomsOfConcat
<1>3. /\ m.verb = "read" => AfterTable(m) = ReadRest(m, 0)
      /\ m.verb = "insert" => AfterTable(m) = a \o (l \o b)
      /\ m.verb = "update" => AfterTable(m) = c \o d
      /\ m.verb = "delete" => AfterTable(m) = Filter(m)
      /\ m.verb \in {"read", "insert", "update", "delete"}
  BY SentenceIs DEF AfterTable, Verbs
<1>. HIDE DEF l, a, b, c, d
<1>4. l \o b \in Line /\ c \o d \in Line
  BY <1>1, <1>2, AtomsOfConcat
<1>5. a \o (l \o b) \in Line
  BY <1>1, <1>4, AtomsOfConcat
<1>6. ReadRest(m, 0) \in Line /\ Filter(m) \in Line
  BY ReadRestIs, FilterIs
<1>. QED
  BY <1>3, <1>4, <1>5, <1>6

\* Lines of three and of four parts, grouped from the left as Atoms is.
FourGrouped(a, b, c, d) == ((a \o b) \o c) \o d = a \o (b \o (c \o d))
LEMMA LinesRegroup ==
  ASSUME NEW a \in Line, NEW b \in Line, NEW c \in Line, NEW d \in Line
  PROVE  FourGrouped(a, b, c, d)
<1>. DEFINE e == a \o b
            f == c \o d
<1>1. e \in Line /\ f \in Line
  BY AtomsOfConcat
<1>2. Grouped(a, b, f)
  BY <1>1, LineRegroup
<1>3. Grouped(e, c, d)
  <2>. HIDE DEF e, f
  <2>. QED
    BY <1>1, LineRegroup
<1>. QED
  BY <1>2, <1>3 DEF Grouped, FourGrouped

LEMMA AtomsAre ==
  ASSUME NEW m \in Sentences
  PROVE  Atoms(m) = <<m.verb>> \o (m.table \o AfterTable(m)) /\ m.verb \in Every /\ m.table \in Line
<1>1. m.verb \in {"read", "insert", "update", "delete"} /\ m.verb \in Every /\ m.table \in Line
  BY SentenceIs, NameIs, KindsOfAtoms DEF Verbs
<1>. DEFINE v == <<m.verb>>
            t == m.table
            P2 == IF m.columns = << >> THEN << >> ELSE (<<LBrace>> \o Listed(m.columns)) \o <<RBrace>>
            O2 == IF m.order = << >> THEN << >>
                  ELSE (<<"order">> \o m.order[1].column) \o (IF m.order[1].desc THEN <<"desc">> ELSE << >>)
            reads == ((P2 \o Filter(m)) \o O2) \o Limited(m)
            inserts == (<<LBrace>> \o Listed(Bindings(m, Colon))) \o <<RBrace>>
            updates == ((<<"set">> \o FlattenSeq(Bindings(m, Equals))) \o Filter(m)) \o Returned(m)
<1>2. v \in Line
  BY <1>1 DEF Line
<1>3. Atoms(m) = (v \o t) \o (CASE m.verb = "read" -> reads [] m.verb = "insert" -> inserts
                               [] m.verb = "update" -> updates [] m.verb = "delete" -> Filter(m))
  BY Zenon DEF Atoms, Limited, Returned
<1>. HIDE DEF v, t, P2, O2, reads, inserts, updates
<1>4. /\ m.verb = "read" => Atoms(m) = (v \o t) \o reads
      /\ m.verb = "insert" => Atoms(m) = (v \o t) \o inserts
      /\ m.verb = "update" => Atoms(m) = (v \o t) \o updates
  BY <1>3
<1>5. ASSUME NEW rest \in Line PROVE (v \o t) \o rest = v \o (t \o rest)
  <2>1. Grouped(v, t, rest)
    BY <1>1, <1>2, LineRegroup DEF t
  <2>. QED
    BY <2>1 DEF Grouped
<1>6. <<LBrace>> \in Line /\ <<RBrace>> \in Line /\ <<"set">> \in Line /\ <<"order">> \in Line
  BY KindsOfAtoms DEF Line
<1>7. ASSUME m.verb = "read" PROVE Atoms(m) = (v \o t) \o AfterTable(m)
  <2>. DEFINE P == Projected(m)
              F == Filter(m)
              O == Ordered(m)
              L == Limited(m)
              l == Listed(m.columns)
  <2>1. P \in Line /\ F \in Line /\ O \in Line /\ L \in Line /\ l \in Line
    BY ProjectedIs, FilterIs, OrderedIs, LimitedIs
  <2>2. P2 = P
    <3>. HIDE DEF l
    <3>1. Grouped(<<LBrace>>, l, <<RBrace>>)
      <4>. DEFINE a == <<LBrace>>
                  b == <<RBrace>>
      <4>1. a \in Line /\ b \in Line
        BY <1>6
      <4>. HIDE DEF a, b
      <4>2. Grouped(a, l, b)
        BY <2>1, <4>1, LineRegroup
      <4>. QED
        BY <4>2 DEF a, b
    <3>. QED
      BY <3>1 DEF Grouped, Projected, l, P2
  <2>3. O2 = O
    <3>1. CASE m.order = << >>
      BY <3>1 DEF Ordered, O2
    <3>2. CASE m.order # << >>
      <4>1. PICK c \in Names, d \in BOOLEAN : m.order = <<[column |-> c, desc |-> d]>> /\ Direction(m) \in Line
        BY <3>2, OrderedIs
      <4>. DEFINE w == <<"order">>
                  x == m.order[1].column
                  y == Direction(m)
      <4>2. w \in Line /\ x \in Line /\ y \in Line
        <5>1. x = c
          BY <4>1
        <5>2. c \in Line
          BY NameIs
        <5>. QED
          BY <1>6, <4>1, <5>1, <5>2
      <4>3. O2 = (w \o x) \o y /\ O = w \o (x \o y)
        BY <3>2 DEF Ordered, Direction, O2
      <4>. HIDE DEF w, x, y, O
      <4>4. Grouped(w, x, y)
        BY <4>2, LineRegroup
      <4>. QED
        BY <4>3, <4>4 DEF Grouped
    <3>. QED
      BY <3>1, <3>2
  <2>4. Atoms(m) = (v \o t) \o (((P2 \o F) \o O2) \o L)
    <3>1. Atoms(m) = (v \o t) \o reads
      BY <1>4, <1>7
    <3>. QED
      BY <3>1, Zenon DEF reads
  <2>5. AfterTable(m) = P \o (F \o (O \o L))
    BY <1>7 DEF AfterTable, ReadRest
  <2>. HIDE DEF P, F, O, L
  <2>6. FourGrouped(P, F, O, L)
    BY <2>1, LinesRegroup
  <2>. QED
    BY <2>2, <2>3, <2>4, <2>5, <2>6 DEF FourGrouped
<1>8. ASSUME m.verb = "insert" PROVE Atoms(m) = (v \o t) \o AfterTable(m)
  <2>. DEFINE a == <<LBrace>>
              b == <<RBrace>>
              l == Listed(Bindings(m, Colon))
  <2>1. a \in Line /\ b \in Line /\ l \in Line
    BY <1>6, BindingsListed
  <2>2. Atoms(m) = (v \o t) \o ((a \o l) \o b)
    BY <1>4, <1>8 DEF inserts
  <2>3. AfterTable(m) = a \o (l \o b)
    BY <1>8 DEF AfterTable
  <2>. HIDE DEF a, b, l
  <2>4. Grouped(a, l, b)
    BY <2>1, LineRegroup
  <2>. QED
    BY <2>2, <2>3, <2>4 DEF Grouped
<1>9. ASSUME m.verb = "update" PROVE Atoms(m) = (v \o t) \o AfterTable(m)
  <2>. DEFINE a == <<"set">>
              b == SetRest(m, 0)
              F == Filter(m)
              R == Returned(m)
              b2 == FlattenSeq(Bindings(m, Equals))
  <2>1. a \in Line /\ b \in Line /\ F \in Line /\ R \in Line
    <3>1. 0 \in 0..Len(m.bindings)
      BY BindingsAre DEF Marks
    <3>2. b \in Line
      BY <3>1, SetRestIs
    <3>. QED
      BY <1>6, <3>2, FilterIs, ReturnedIs
  <2>2. b = b2
    <3>1. Bindings(m, Equals) \in Seq(Line) /\ Len(Bindings(m, Equals)) = Len(m.bindings)
      BY BindingsAre DEF Marks
    <3>2. SubSeq(Bindings(m, Equals), 0 + 1, Len(m.bindings)) = Bindings(m, Equals)
      <4>. DEFINE q == Bindings(m, Equals)
      <4>. HIDE DEF q
      <4>1. SubSeq(q, 0 + 1, Len(q)) = q
        BY <3>1 DEF q
      <4>. QED
        BY <3>1, <4>1 DEF q
    <3>. QED
      BY <3>2 DEF SetRest
  <2>3. Atoms(m) = (v \o t) \o (((a \o b2) \o F) \o R)
    <3>1. Atoms(m) = (v \o t) \o updates
      BY <1>4, <1>9
    <3>. QED
      BY <3>1, Zenon DEF updates
  <2>4. AfterTable(m) = a \o (b \o (F \o R))
    BY <1>9 DEF AfterTable, UpdateRest
  <2>. HIDE DEF a, b, F, R, b2
  <2>5. FourGrouped(a, b, F, R)
    BY <2>1, LinesRegroup
  <2>. QED
    BY <2>2, <2>3, <2>4, <2>5 DEF FourGrouped
<1>10. ASSUME m.verb = "delete" PROVE Atoms(m) = (v \o t) \o AfterTable(m)
  BY <1>10 DEF Atoms, AfterTable, v, t
<1>11. Atoms(m) = (v \o t) \o AfterTable(m)
  BY <1>1, <1>7, <1>8, <1>9, <1>10
<1>. QED
  BY <1>1, <1>5, <1>11, AfterTableIs DEF v, t

\* A text that spells a sentence, and what is left of it after its first two tokens.
LEMMA TextSpells ==
  ASSUME Typed, Spelt(source)
  PROVE  /\ source.meant \in Sentences /\ AreTokens(text) /\ stmt \in Statements /\ next \in Nat /\ next \in 0..Len(text)
         /\ Tokens = Len(text) /\ Tokens \in Nat /\ Left(text, 0) = Atoms(source.meant)
<1>1. source \in Sources /\ stmt \in Statements /\ next \in 0..Tokens /\ AreTokens(text) /\ Tokens = Len(text) /\ Tokens \in Nat
  BY TextIsTokens DEF Typed
<1>2. source.meant \in Sentences /\ FlattenSeq(text) = Atoms(source.meant)
  BY <1>1, SpellingAssumption DEF Spelt, text
<1>3. Left(text, 0) = FlattenSeq(text)
  <2>1. text \in Seq(Seq(Every)) /\ 0 \in 0..Len(text)
    BY <1>1 DEF AreTokens, Line
  <2>. QED
    BY <2>1, LeftNext
<1>. QED
  BY <1>1, <1>2, <1>3

LEMMA SpelledStart ==
  ASSUME Typed, Spelt(source), NEW verb \in Verbs, Dispatch(verb), Tokens >= 2
  PROVE  /\ source.meant.verb = verb
         /\ IsIdent(At(1)) => At(1) = source.meant.table /\ Left(text, 2) = AfterTable(source.meant)
         /\ At(1)[1] \notin Keywords
<1>. DEFINE m == source.meant
            t == m.table
            rest == AfterTable(m)
            tail == t \o rest
            t1 == text[1]
            t2 == text[2]
            L1 == Left(text, 1)
            L2 == Left(text, 2)
<1>1. /\ m \in Sentences /\ AreTokens(text) /\ Tokens = Len(text) /\ 0 < Len(text) /\ 1 < Len(text) /\ 0 + 1 = 1 /\ 1 + 1 = 2
      /\ 0 \in Nat /\ 1 \in Nat
      /\ Left(text, 0) = <<m.verb>> \o tail /\ m.verb \in Every
  <2>1. m \in Sentences /\ AreTokens(text) /\ Tokens = Len(text) /\ Tokens \in Nat /\ Left(text, 0) = Atoms(m)
    BY TextSpells
  <2>. HIDE DEF m
  <2>2. Atoms(m) = <<m.verb>> \o tail /\ m.verb \in Every
    BY <2>1, AtomsAre
  <2>3. 0 < Len(text) /\ 1 < Len(text) /\ 0 + 1 = 1 /\ 1 + 1 = 2 /\ 0 \in Nat /\ 1 \in Nat
    BY <2>1
  <2>. HIDE DEF tail
  <2>. QED
    BY <2>1, <2>2, <2>3
<1>2. t \in Names /\ t \in Line /\ t = <<t[1]>> /\ t[1] \in Plainwords /\ t[1] \in Every /\ rest \in Line
  BY <1>1, SentenceIs, NameIs, AfterTableIs
<1>. HIDE DEF m, t, rest
<1>3. tail \in Line /\ tail = <<t[1]>> \o rest
  BY <1>2, AtomsOfConcat
<1>. HIDE DEF tail
<1>4. Begins(t1, L1, m.verb, tail)
  <2>1. Begins(text[0 + 1], Left(text, 0 + 1), m.verb, tail)
    BY <1>1, <1>3, NextAtom
  <2>. QED
    BY <1>1, <2>1
<1>5. Lower(t1) = <<verb>> /\ At(1) = t2
  BY DEF Dispatch, At
<1>6. t1 = <<verb>> \/ t1 = <<"READ">> \/ t1 = <<"UPDATE">>
  BY <1>5 DEF Lower
<1>7. m.verb \in Verbs
  BY <1>1, SentenceIs
<1>8. t1 = <<verb>> /\ m.verb = verb /\ L1 = tail
  <2>1. \A z : t1 = <<z>> => z = m.verb /\ L1 = tail
    BY <1>4 DEF Begins
  <2>2. "READ" \notin Verbs /\ "UPDATE" \notin Verbs
    BY DEF Verbs
  <2>3. t1 # <<"READ">> /\ t1 # <<"UPDATE">>
    BY <1>7, <2>1, <2>2
  <2>4. t1 = <<verb>>
    BY <1>6, <2>3
  <2>. QED
    BY <2>1, <2>4
<1>9. Begins(t2, L2, t[1], rest)
  <2>1. Left(text, 1) = <<t[1]>> \o rest
    BY <1>3, <1>8
  <2>2. Begins(text[1 + 1], Left(text, 1 + 1), t[1], rest)
    BY <1>1, <1>2, <2>1, NextAtom
  <2>. QED
    BY <1>1, <2>2
<1>10. IsIdent(t2) => t2 = t /\ L2 = rest
  BY <1>2, <1>9 DEF Begins, IsIdent
<1>11. t2[1] = t[1] /\ t[1] \notin Keywords
  BY <1>2, <1>9, KindsOfAtoms DEF Begins
<1>. QED
  BY <1>5, <1>8, <1>10, <1>11 DEF m, t, rest

\* The rest of a step.
LEMMA MeantGoes ==
  ASSUME source' = source, Spelt(source) => Meant(source.meant, text, pc', next', parts', stmt')
  PROVE  MeantInv'
<1>1. text' = text
  BY DEF text
<1>. QED
  BY <1>1 DEF MeantInv

LEMMA MeantFails ==
  ASSUME Fail
  PROVE  MeantInv'
<1>1. Meant(source.meant, text, pc', next', parts', stmt')
  BY DEF Meant, Fail
<1>. QED
  BY <1>1, MeantGoes DEF Fail

\* A read starts with no clause read, ...
LEMMA MeantStartRead ==
  ASSUME Typed, StartRead
  PROVE  MeantInv'
<1>. DEFINE m == source.meant
            s == NewStmt("read", At(1))
            test == Tokens >= 2 /\ IsIdent(At(1))
<1>1. CASE ~ test
  BY <1>1, MeantFails DEF StartRead, Check
<1>2. CASE test
  <2>1. source' = source /\ pc' = "read" /\ next' = 2 /\ stmt' = s
    BY <1>2 DEF StartRead, Check, Goto
  <2>2. ASSUME Spelt(source)
        PROVE  m.verb = "read" /\ ReadMeant(text, 2, s, m)
    <3>1. "read" \in Verbs /\ Dispatch("read") /\ m \in Sentences
      BY <2>2, TextSpells DEF StartRead, Verbs
    <3>2. m.verb = "read" /\ At(1) = m.table /\ Left(text, 2) = AfterTable(m)
      BY <1>2, <2>2, <3>1, SpelledStart
    <3>3. Left(text, 2) = ReadRest(m, 0)
      BY <3>2 DEF AfterTable
    <3>4. m.bindings = << >>
      BY <3>1, <3>2, SentenceIs
    <3>5. ReadUpTo(s, m, 0)
      BY <3>2, <3>4 DEF ReadUpTo, NewStmt
    <3>6. 0 \in 0..4
      OBVIOUS
    <3>. QED
      BY <3>2, <3>3, <3>5, <3>6 DEF ReadMeant
  <2>3. Spelt(source) => Meant(source.meant, text, pc', next', parts', stmt')
    BY <2>1, <2>2 DEF Meant
  <2>. QED
    BY <2>1, <2>3, MeantGoes
<1>. QED
  BY <1>1, <1>2

\* ... an update with no binding, ...
LEMMA MeantStartUpdate ==
  ASSUME Typed, StartUpdate
  PROVE  MeantInv'
<1>. DEFINE m == source.meant
            s == NewStmt("update", At(1))
            test == Tokens >= 5 /\ Is(0, "update") /\ Is(2, "set") /\ IsIdent(At(1))
<1>1. CASE ~ test
  BY <1>1, MeantFails DEF StartUpdate, Check
<1>2. CASE test
  <2>1. source' = source /\ pc' = "set" /\ next' = 3 /\ stmt' = s
    BY <1>2 DEF StartUpdate, Check, Goto
  <2>2. ASSUME Spelt(source)
        PROVE  m.verb = "update" /\ SetMeant(text, 3, s, m)
    <3>1. "update" \in Verbs /\ Dispatch("update") /\ m \in Sentences /\ Tokens >= 2 /\ Tokens = Len(text) /\ Tokens \in Nat
      BY <1>2, <2>2, TextSpells DEF StartUpdate, Verbs
    <3>2. m.verb = "update" /\ At(1) = m.table /\ Left(text, 2) = AfterTable(m)
      BY <1>2, <2>2, <3>1, SpelledStart
    <3>. DEFINE y == SetRest(m, 0) \o UpdateRest(m, 0)
    <3>3. Left(text, 2) = <<"set">> \o y
      BY <3>2 DEF AfterTable
    <3>4. 0 \in 0..Len(m.bindings) /\ y \in Line /\ "set" \in Every
      <4>1. 0 \in 0..Len(m.bindings)
        BY <3>1, BindingsAre DEF Marks
      <4>2. SetRest(m, 0) \in Line /\ UpdateRest(m, 0) \in Line
        BY <3>1, <4>1, SetRestIs
      <4>. QED
        BY <4>1, <4>2, AtomsOfConcat, KindsOfAtoms
    <3>. HIDE DEF y
    <3>5. Begins(text[2 + 1], Left(text, 2 + 1), "set", y)
      <4>1. AreTokens(text) /\ 2 \in Nat /\ 2 < Len(text)
        BY <1>2, <2>2, <3>1, TextSpells
      <4>. QED
        BY <3>3, <3>4, <4>1, NextAtom
    <3>6. Left(text, 3) = y
      <4>1. text[2 + 1] = <<"set">> /\ 2 + 1 = 3
        BY <1>2 DEF Is, At
      <4>. QED
        BY <3>5, <4>1 DEF Begins
    <3>7. m.order = << >> /\ m.limit = << >>
      BY <3>1, <3>2, SentenceIs
    <3>8. SubSeq(m.bindings, 1, 0) = << >>
      BY SubSeqEmpty
    <3>9. UpdateUpTo(s, m, 0, 0)
      BY <3>2, <3>7, <3>8 DEF UpdateUpTo, NewStmt
    <3>. QED
      BY <3>2, <3>4, <3>6, <3>9 DEF SetMeant, y
  <2>3. Spelt(source) => Meant(source.meant, text, pc', next', parts', stmt')
    BY <2>1, <2>2 DEF Meant
  <2>. QED
    BY <2>1, <2>3, MeantGoes
<1>. QED
  BY <1>1, <1>2

\* ... an insert with its parts, ...
LEMMA LastMark ==
  ASSUME NEW a \in Line, NEW b \in Line, NEW x \in Every, a \o <<x>> = b \o <<x>>
  PROVE  a = b
<1>. DEFINE e == <<x>>
<1>1. e \in Line /\ Len(e) = 1
  BY DEF Line
<1>2. a \o e = b \o e
  OBVIOUS
<1>. HIDE DEF e
<1>3. Divided(a, e, b, e)
  BY <1>1, <1>2, Overlap DEF Line
<1>4. Len(a) \in Nat /\ Len(b) \in Nat
  BY DEF Line
<1>5. Len(a) = Len(b)
  BY <1>1, <1>3, <1>4 DEF Divided
<1>. QED
  BY <1>3, <1>5 DEF Divided

\* ... which are what is between its braces, ...
LEMMA InsertBody ==
  ASSUME NEW toks, AreTokens(toks), Len(toks) >= 4, toks[3] = <<LBrace>>, toks[Len(toks)] = <<RBrace>>,
         NEW l \in Line, Left(toks, 2) = <<LBrace>> \o (l \o <<RBrace>>)
  PROVE  FlattenSeq(SubSeq(toks, 4, Len(toks) - 1)) = l
<1>. DEFINE N == Len(toks)
            n == N - 1
            b == <<RBrace>>
            y == l \o b
            body == FlattenSeq(SubSeq(toks, 3 + 1, n))
<1>1. /\ N \in Nat /\ 2 \in Nat /\ 2 < N /\ 2 + 1 = 3 /\ 3 + 1 = 4 /\ 3 \in 0..N /\ n \in 3..N /\ n \in Nat /\ n < N
      /\ n + 1 = N /\ N \in 0..N
  BY DEF AreTokens
<1>2. b \in Line /\ LBrace \in Every /\ RBrace \in Every
  BY KindsOfAtoms DEF Line
<1>. HIDE DEF N, n
<1>3. Left(toks, 3) = y
  <2>. HIDE DEF b
  <2>1. y \in Line
    BY <1>2, AtomsOfConcat
  <2>2. Left(toks, 2) = <<LBrace>> \o y
    BY DEF b
  <2>. HIDE DEF y
  <2>3. Begins(toks[2 + 1], Left(toks, 2 + 1), LBrace, y)
    BY <1>1, <1>2, <2>1, <2>2, NextAtom DEF N
  <2>. QED
    BY <1>1, <2>3 DEF Begins
<1>4. Left(toks, 3) = body \o Left(toks, n) /\ body \in Line
  <2>1. toks \in Seq(Seq(Every))
    BY DEF AreTokens, Line
  <2>. QED
    BY <1>1, <2>1, LeftSplits DEF N, Line
<1>5. Left(toks, n) = b
  <2>1. Left(toks, n) = toks[n + 1] \o Left(toks, n + 1)
    BY <1>1, NextToken DEF N
  <2>2. Left(toks, N) = << >>
    BY <1>1, NothingLeft DEF N
  <2>3. toks[N] = b
    BY DEF N
  <2>. HIDE DEF b
  <2>. QED
    BY <1>1, <1>2, <2>1, <2>2, <2>3, EmptyLine
<1>. HIDE DEF body
<1>6. body \o <<RBrace>> = l \o <<RBrace>>
  BY <1>3, <1>4, <1>5
<1>7. body = l
  BY <1>2, <1>4, <1>6, LastMark
<1>. QED
  BY <1>1, <1>7 DEF body, n, N

LEMMA MeantStartInsert ==
  ASSUME Typed, StartInsert
  PROVE  MeantInv'
<1>. DEFINE m == source.meant
            s == NewStmt("insert", At(1))
            test == Tokens >= 4 /\ Is(2, LBrace) /\ IsIdent(At(1)) /\ Is(Tokens - 1, RBrace)
            ps == Parts(FlattenSeq(SubSeq(text, 4, Tokens - 1)))
<1>1. CASE ~ test
  BY <1>1, MeantFails DEF StartInsert
<1>2. CASE test
  <2>1. source' = source /\ pc' = "bindings" /\ parts' = ps /\ stmt' = s
    BY <1>2 DEF StartInsert, Goto
  <2>2. ASSUME Spelt(source)
        PROVE  m.verb = "insert" /\ InsertMeant(ps, s, m)
    <3>1. /\ "insert" \in Verbs /\ Dispatch("insert") /\ m \in Sentences /\ Tokens >= 2 /\ Tokens = Len(text) /\ Tokens \in Nat
          /\ AreTokens(text)
      BY <1>2, <2>2, TextSpells DEF StartInsert, Verbs
    <3>2. m.verb = "insert" /\ At(1) = m.table /\ Left(text, 2) = AfterTable(m)
      BY <1>2, <2>2, <3>1, SpelledStart
    <3>. DEFINE l == Listed(Bindings(m, Colon))
    <3>3. l \in Line /\ Parts(l) = Left(BindingParts(m), 0)
      BY <3>1, BindingsListed
    <3>4. Left(text, 2) = <<LBrace>> \o (l \o <<RBrace>>)
      BY <3>2 DEF AfterTable
    <3>. HIDE DEF l
    <3>5. FlattenSeq(SubSeq(text, 4, Tokens - 1)) = l
      <4>1. text[2 + 1] = <<LBrace>> /\ text[Tokens - 1 + 1] = <<RBrace>>
        BY <1>2 DEF Is, At
      <4>2. text[3] = <<LBrace>> /\ text[Len(text)] = <<RBrace>> /\ Len(text) >= 4
        BY <1>2, <3>1, <4>1
      <4>3. FlattenSeq(SubSeq(text, 4, Len(text) - 1)) = l
        BY <3>1, <3>3, <3>4, <4>2, InsertBody
      <4>. QED
        BY <3>1, <4>3
    <3>6. ps = Left(BindingParts(m), 0)
      BY <3>3, <3>5
    <3>7. m.columns = << >> /\ m.where = << >> /\ m.order = << >> /\ m.limit = << >>
      BY <3>1, <3>2, SentenceIs
    <3>8. SubSeq(m.bindings, 1, 0) = << >>
      BY SubSeqEmpty
    <3>9. InsertUpTo(s, m, 0)
      BY <3>2, <3>7, <3>8 DEF InsertUpTo, NewStmt
    <3>10. 0 \in 0..Len(m.bindings)
      BY <3>1, BindingsAre DEF Marks
    <3>. HIDE DEF ps, s
    <3>. QED
      BY <3>2, <3>6, <3>9, <3>10 DEF InsertMeant
  <2>3. Spelt(source) => Meant(source.meant, text, pc', next', parts', stmt')
    BY <2>1, <2>2 DEF Meant
  <2>. QED
    BY <2>1, <2>3, MeantGoes
<1>. QED
  BY <1>1, <1>2

\* ... and a delete is read at once.
LEMMA MeantDelete ==
  ASSUME Typed, ParseDelete
  PROVE  MeantInv'
<1>. DEFINE m == source.meant
            t == IF Is(1, "from") THEN 2 ELSE 1
            s == NewStmt("delete", At(t))
            b == Binding(At(t + 2), At(t + 4))
            r == [s EXCEPT !.where = <<b>>]
            test == Is(t + 1, "where") /\ PredicateAt(t + 2)
<1>1. t \in {1, 2} /\ t \in Nat
  OBVIOUS
<1>2. text \in Seq(Token) /\ Tokens = Len(text) /\ Tokens \in Nat
  BY TextTyped
<1>3. CASE t >= Tokens \/ ~ IsIdent(At(t))
  BY <1>3, MeantFails DEF ParseDelete
<1>4. CASE t < Tokens /\ IsIdent(At(t)) /\ t + 1 # Tokens /\ ~ test
  <2>1. Check(test, "parsed", Tokens, r)
    <3>1. ~ (t >= Tokens)
      BY <1>1, <1>2, <1>4
    <3>. QED
      BY <1>4, <3>1 DEF ParseDelete
  <2>. HIDE DEF t, test, r
  <2>. QED
    BY <1>4, <2>1, MeantFails DEF Check
<1>5. ASSUME t < Tokens, IsIdent(At(t)), Spelt(source)
      PROVE  /\ t = 1 /\ m \in Sentences /\ AreTokens(text) /\ m.verb = "delete" /\ At(1) = m.table /\ Left(text, 2) = Filter(m)
             /\ m.columns = << >> /\ m.bindings = << >> /\ m.order = << >> /\ m.limit = << >>
  <2>1. "delete" \in Verbs /\ Dispatch("delete") /\ Tokens >= 2 /\ m \in Sentences /\ AreTokens(text)
    BY <1>1, <1>2, <1>5, TextSpells DEF ParseDelete, Verbs
  <2>2. m.verb = "delete" /\ (IsIdent(At(1)) => At(1) = m.table /\ Left(text, 2) = AfterTable(m)) /\ At(1)[1] \notin Keywords
    BY <1>5, <2>1, SpelledStart
  <2>3. ~ Is(1, "from")
    BY <2>2 DEF Is, Keywords
  <2>4. t = 1
    BY <2>3
  <2>5. AfterTable(m) = Filter(m)
    BY <2>2 DEF AfterTable
  <2>6. m.columns = << >> /\ m.bindings = << >> /\ m.order = << >> /\ m.limit = << >>
    BY <2>1, <2>2, SentenceIs
  <2>. QED
    BY <1>5, <2>1, <2>2, <2>4, <2>5, <2>6
<1>6. CASE t < Tokens /\ IsIdent(At(t)) /\ t + 1 = Tokens
  <2>1. source' = source /\ pc' = "parsed" /\ stmt' = s
    BY <1>1, <1>2, <1>6 DEF ParseDelete, Check, Goto
  <2>2. ASSUME Spelt(source) PROVE s = m
    <3>1. /\ t = 1 /\ m \in Sentences /\ AreTokens(text) /\ m.verb = "delete" /\ At(1) = m.table /\ Left(text, 2) = Filter(m)
          /\ m.columns = << >> /\ m.bindings = << >> /\ m.order = << >> /\ m.limit = << >>
      BY <1>5, <1>6, <2>2
    <3>2. m.where = << >>
      <4>1. Len(text) \in 0..Len(text) /\ Len(text) = 2
        BY <1>2, <1>6, <3>1
      <4>2. Left(text, 2) = << >>
        BY <3>1, <4>1, NothingLeft
      <4>. QED
        BY <3>1, <4>2, ClauseStarts
    <3>3. s = NewStmt("delete", m.table)
      BY <3>1
    <3>. QED
      BY <3>1, <3>2, <3>3 DEF NewStmt, Sentences
  <2>. HIDE DEF s
  <2>3. Spelt(source) => Meant(source.meant, text, pc', next', parts', stmt')
    BY <2>1, <2>2 DEF Meant
  <2>. QED
    BY <2>1, <2>3, MeantGoes
<1>7. CASE t < Tokens /\ IsIdent(At(t)) /\ t + 1 # Tokens /\ test
  <2>1. source' = source /\ pc' = "parsed" /\ stmt' = r
    <3>1. ~ (t >= Tokens)
      BY <1>1, <1>2, <1>7
    <3>2. Check(test, "parsed", Tokens, r)
      BY <1>7, <3>1 DEF ParseDelete
    <3>. HIDE DEF t, r, test
    <3>. QED
      BY <1>7, <3>2 DEF Check, Goto
  <2>2. ASSUME Spelt(source) PROVE r = m
    <3>1. /\ t = 1 /\ m \in Sentences /\ AreTokens(text) /\ m.verb = "delete" /\ At(1) = m.table /\ Left(text, 2) = Filter(m)
          /\ m.columns = << >> /\ m.bindings = << >> /\ m.order = << >> /\ m.limit = << >>
      BY <1>5, <1>7, <2>2
    <3>2. Is(2, "where") /\ PredicateAt(3)
      <4>1. t + 1 = 2 /\ t + 2 = 3
        BY <3>1
      <4>. HIDE DEF t
      <4>. QED
        BY <1>7, <4>1
    <3>3. WhereAt(text, 2) /\ 2 + 2 = 4 /\ 2 + 4 = 6 /\ 2 \in Nat
      <4>1. text[2 + 1] = <<"where">> /\ 3 + 2 < Len(text) /\ text[3 + 1 + 1] = <<Equals>> /\ IsRhs(text[3 + 2 + 1])
        BY <1>2, <3>2 DEF Is, At, PredicateAt
      <4>2. 2 + 3 = 3 + 1 + 1 /\ 2 + 4 = 3 + 2 + 1 /\ 2 + 4 <= Len(text)
        BY <1>2, <4>1
      <4>. QED
        BY <4>1, <4>2 DEF WhereAt
    <3>4. m.where # << >>
      <4>1. 2 \in 0..Len(text) /\ 2 # Len(text)
        BY <1>2, <3>3 DEF WhereAt
      <4>2. Left(text, 2) # << >>
        BY <3>1, <4>1, NothingLeft
      <4>. QED
        BY <3>1, <4>2, FilterIs
    <3>5. m.where = <<Binding(text[2 + 2], text[2 + 4])>>
      <4>1. << >> \in Line /\ Left(text, 2) = Filter(m) \o << >> /\ Equals \notin ToSet(<< >>) /\ ToSet(<< >>) \cap Closes = {}
        BY <3>1, FilterIs, EmptyLine
      <4>. QED
        BY <3>1, <3>3, <3>4, <4>1, WhereIsRead
    <3>6. b = Binding(text[4], text[6])
      BY <3>1 DEF At
    <3>7. <<b>> = m.where /\ s = NewStmt("delete", m.table)
      BY <3>1, <3>3, <3>5, <3>6
    <3>. HIDE DEF b, s, t
    <3>8. r = [NewStmt("delete", m.table) EXCEPT !.where = m.where]
      BY <3>7
    <3>. QED
      BY <3>1, <3>8 DEF NewStmt, Sentences
  <2>. HIDE DEF r
  <2>3. Spelt(source) => Meant(source.meant, text, pc', next', parts', stmt')
    BY <2>1, <2>2 DEF Meant
  <2>. QED
    BY <2>1, <2>3, MeantGoes
<1>. QED
  BY <1>1, <1>2, <1>3, <1>4, <1>6, <1>7

-----------------------------------------------------------------------------
(* The steps.                                                              *)

\* What is known when a step of the parser goes on.
LEMMA MeantNow ==
  ASSUME Typed, MeantInv, Spelt(source)
  PROVE  /\ Meant(source.meant, text, pc, next, parts, stmt)
         /\ source.meant \in Sentences /\ AreTokens(text) /\ stmt \in Statements /\ next \in Nat /\ next \in 0..Len(text)
         /\ Tokens = Len(text) /\ Tokens \in Nat
BY TextSpells DEF MeantInv

LEMMA TokensAreLines == Seq(Token) \subseteq Seq(Line)
<1>1. Token \subseteq Line
  <2>1. AtomsUsed \subseteq Every
    BY DEF Every
  <2>2. ASSUME NEW A, NEW B, A \subseteq B PROVE Seq(A) \subseteq Seq(B)
    BY <2>2
  <2>. QED
    BY <2>1, <2>2 DEF Token, Line
<1>2. ASSUME NEW A, NEW B, A \subseteq B PROVE Seq(A) \subseteq Seq(B)
  BY <1>2
<1>. QED
  BY <1>1, <1>2

\* A condition, of a read or of an update.
LEMMA MeantWhere ==
  ASSUME Typed, MeantInv, Where
  PROVE  MeantInv'
<1>. DEFINE m == source.meant
            b == Binding(text[next + 2], text[next + 4])
            s == [stmt EXCEPT !.where = <<b>>]
<1>1. CASE ~ PredicateAt(next + 1)
  BY <1>1, MeantFails DEF Where, Check
<1>2. CASE PredicateAt(next + 1)
  <2>1. next \in Nat /\ Tokens = Len(text) /\ Tokens \in Nat /\ next < Len(text) /\ pc \in {"read", "tail"}
    BY TextTyped DEF Typed, Where, InClauses
  <2>2. At(next + 1) = text[next + 2] /\ At(next + 3) = text[next + 4] /\ IsRhs(At(next + 1 + 2)) = IsRhs(text[next + 4])
    BY <2>1 DEF At
  <2>3. source' = source /\ pc' = pc /\ next' = next + 4 /\ stmt' = s
    BY <1>2, <2>2 DEF Where, Check, Goto
  <2>4. WhereAt(text, next)
    <3>1. text[next + 1] = <<"where">>
      BY DEF Where, Is, At
    <3>2. next + 4 <= Len(text) /\ text[next + 3] = <<Equals>> /\ IsRhs(text[next + 4])
      BY <1>2, <2>1, <2>2 DEF PredicateAt, Is, At
    <3>. QED
      BY <3>1, <3>2 DEF WhereAt
  <2>5. ASSUME Spelt(source) PROVE Meant(m, text, pc, next + 4, parts', s)
    <3>1. Meant(m, text, pc, next, parts, stmt) /\ m \in Sentences /\ AreTokens(text) /\ stmt \in Statements
      BY <2>5, MeantNow
    <3>. HIDE DEF m
    <3>2. CASE pc = "read"
      <4>1. m.verb = "read" /\ ReadMeant(text, next, stmt, m)
        BY <3>1, <3>2 DEF Meant
      <4>2. ReadMeant(text, next + 4, s, m)
        BY <2>1, <2>4, <3>1, <4>1, WhereMeant
      <4>. QED
        BY <3>2, <4>1, <4>2 DEF Meant
    <3>3. CASE pc = "tail"
      <4>1. m.verb = "update" /\ TailMeant(text, next, stmt, m)
        BY <3>1, <3>3 DEF Meant
      <4>2. TailMeant(text, next + 4, s, m)
        BY <2>1, <2>4, <3>1, <4>1, WhereOfTail
      <4>. QED
        BY <3>3, <4>1, <4>2 DEF Meant
    <3>. QED
      BY <2>1, <3>2, <3>3
  <2>. QED
    BY <2>3, <2>5, MeantGoes
<1>. QED
  BY <1>1, <1>2

\* A limit.
LEMMA MeantLimit ==
  ASSUME Typed, MeantInv, ReadLimit
  PROVE  MeantInv'
<1>. DEFINE m == source.meant
            s == [stmt EXCEPT !.limit = text[next + 2]]
            test == \E x \in Numbers : Is(next + 1, x)
<1>1. CASE ~ test
  BY <1>1, MeantFails DEF ReadLimit, Check
<1>2. CASE test
  <2>1. next \in Nat /\ Tokens = Len(text) /\ Tokens \in Nat /\ pc = "read"
    BY TextTyped DEF Typed, ReadLimit, InClauses
  <2>2. At(next + 1) = text[next + 2]
    BY <2>1 DEF At
  <2>3. source' = source /\ pc' = "read" /\ next' = next + 2 /\ stmt' = s
    BY <1>2, <2>2 DEF ReadLimit, Check, Goto
  <2>4. PICK x \in Numbers : Is(next + 1, x)
    BY <1>2
  <2>5. next + 2 <= Len(text) /\ text[next + 1] = <<"limit">> /\ text[next + 2] = <<x>>
    BY <2>1, <2>2, <2>4 DEF ReadLimit, Is, At
  <2>6. ASSUME Spelt(source) PROVE Meant(m, text, "read", next + 2, parts', s)
    <3>1. Meant(m, text, pc, next, parts, stmt) /\ m \in Sentences /\ AreTokens(text) /\ stmt \in Statements
      BY <2>6, MeantNow
    <3>. HIDE DEF m
    <3>2. m.verb = "read" /\ ReadMeant(text, next, stmt, m)
      BY <2>1, <3>1 DEF Meant
    <3>3. ReadMeant(text, next + 2, s, m)
      BY <2>1, <2>5, <3>1, <3>2, LimitMeant
    <3>. QED
      BY <3>2, <3>3 DEF Meant
  <2>. QED
    BY <2>3, <2>6, MeantGoes
<1>. QED
  BY <1>1, <1>2

\* An order.
LEMMA MeantOrder ==
  ASSUME Typed, MeantInv, ReadOrder
  PROVE  MeantInv'
<1>. DEFINE m == source.meant
            directed == Is(next + 2, "asc") \/ Is(next + 2, "desc")
            desc == IF directed THEN Is(next + 2, "desc") ELSE stmt.order # << >> /\ stmt.order[1].desc
            n2 == next + (IF directed THEN 3 ELSE 2)
            s == [stmt EXCEPT !.order = <<[column |-> text[next + 2], desc |-> desc]>>]
            test == next + 1 < Tokens
<1>1. CASE ~ test
  BY <1>1, MeantFails DEF ReadOrder, Check
<1>2. CASE test
  <2>1. next \in Nat /\ Tokens = Len(text) /\ Tokens \in Nat /\ pc = "read" /\ stmt \in Statements
    BY TextTyped DEF Typed, ReadOrder, InClauses
  <2>2. At(next + 1) = text[next + 2]
    BY <2>1 DEF At
  <2>3. source' = source /\ pc' = "read" /\ next' = n2 /\ stmt' = s
    BY <1>2, <2>2 DEF ReadOrder, Check, Goto
  <2>4. OrderMeansNext(text, next, stmt, directed, desc)
    <3>1. next + 2 <= Len(text) /\ text[next + 1] = <<"order">>
      BY <1>2, <2>1 DEF ReadOrder, Is, At
    <3>2. /\ Is(next + 2, "asc") <=> next + 3 <= Len(text) /\ text[next + 3] = <<"asc">>
          /\ Is(next + 2, "desc") <=> next + 3 <= Len(text) /\ text[next + 3] = <<"desc">>
      BY <2>1 DEF Is, At
    <3>3. directed \in BOOLEAN /\ (directed <=> next + 3 <= Len(text) /\ text[next + 3] \in {<<"asc">>, <<"desc">>})
      BY <3>2
    <3>4. directed => (desc <=> text[next + 3] = <<"desc">>)
      BY <3>2
    <3>5. ~ directed => (desc <=> stmt.order # << >> /\ stmt.order[1].desc)
      OBVIOUS
    <3>6. desc \in BOOLEAN
      BY DEF Is
    <3>. HIDE DEF directed, desc
    <3>. QED
      BY <3>1, <3>3, <3>4, <3>5, <3>6 DEF OrderMeansNext
  <2>5. ASSUME Spelt(source) PROVE Meant(m, text, "read", n2, parts', s)
    <3>1. Meant(m, text, pc, next, parts, stmt) /\ m \in Sentences /\ AreTokens(text) /\ stmt \in Statements
      BY <2>5, MeantNow
    <3>. HIDE DEF m, directed, desc
    <3>2. m.verb = "read" /\ ReadMeant(text, next, stmt, m)
      BY <2>1, <3>1 DEF Meant
    <3>3. ReadMeant(text, n2, s, m)
      BY <2>1, <2>4, <3>1, <3>2, OrderMeant
    <3>. HIDE DEF s, n2
    <3>. QED
      BY <3>2, <3>3 DEF Meant
  <2>. HIDE DEF s, n2
  <2>. QED
    BY <2>3, <2>5, MeantGoes
<1>. QED
  BY <1>1, <1>2

\* A projection.
LEMMA MeantProjection ==
  ASSUME Typed, MeantInv, ReadProjection
  PROVE  MeantInv'
<1>. DEFINE m == source.meant
            rest == SubSeq(text, next + 1, Tokens)
            place == PlaceOf(rest, <<RBrace>>)
            close == next + place - 1
            cols == [k \in 1..(close - next - 1) |-> NoComma(At(next + k))]
            s == [stmt EXCEPT !.columns = cols]
<1>1. /\ next \in Nat /\ Tokens = Len(text) /\ Len(text) \in Nat /\ next < Len(text) /\ pc = "read"
      /\ text[next + 1] = <<LBrace>> /\ text \in Seq(Token)
  BY TextTyped DEF Typed, ReadProjection, InClauses, Is, At
<1>2. rest \in Seq(Token) /\ Len(rest) = Len(text) - next /\ \A k \in 1..(Len(text) - next) : rest[k] = text[next + k]
  BY <1>1
<1>. HIDE DEF rest
<1>3. place \in 0..(Len(text) - next) /\ (place # 0 => rest[place] = <<RBrace>>)
  <2>1. Len(rest) \in Nat
    BY <1>2
  <2>. QED
    BY <1>2, <2>1, PlaceOfIsFirst
<1>. HIDE DEF place
<1>4. CASE place = 0
  <2>1. ~ (close >= next)
    BY <1>1, <1>4
  <2>. QED
    BY <2>1, MeantFails DEF ReadProjection, Check, place, rest
<1>5. CASE place # 0
  <2>1. close >= next
    BY <1>1, <1>3, <1>5
  <2>2. source' = source /\ pc' = "read" /\ next' = close + 1 /\ stmt' = s
    BY <2>1 DEF ReadProjection, Check, Goto, place, rest
  <2>3. text[next + place] = <<RBrace>>
    BY <1>1, <1>2, <1>3, <1>5
  <2>4. next + place # next + 1
    BY <1>1, <2>3, BracesAreNoWords
  <2>5. close + 1 = next + place /\ close + 1 \in (next + 2)..Len(text) /\ close - next - 1 \in Nat
        /\ close - next - 1 = (close + 1) - 1 - (next + 1) /\ next + (close - next - 1) < Tokens
    BY <1>1, <1>3, <1>5, <2>4
  <2>6. ListIs(text, next + 1, (close + 1) - 1, cols)
    <3>. DEFINE n == close - next - 1
    <3>1. n \in Nat /\ n \in Int /\ next + n < Tokens /\ n = (close + 1) - 1 - (next + 1)
      BY <2>5
    <3>. HIDE DEF n, close
    <3>2. [k \in 1..n |-> NoComma(At(next + k))] \in Seq(Token)
      BY <1>1, <3>1, ListTyped
    <3>3. [k \in 1..n |-> NoComma(At(next + k))] \in Seq(Line) /\ Len([k \in 1..n |-> NoComma(At(next + k))]) = n
      BY <3>1, <3>2, TokensAreLines
    <3>4. \A k \in 1..n : NoComma(At(next + k)) = NoComma(text[next + 1 + k])
      <4>1. \A k \in 1..n : next + k + 1 = next + 1 + k
        BY <1>1, <3>1
      <4>. QED
        BY <4>1 DEF At
    <3>5. \A k \in 1..n : [i \in 1..n |-> NoComma(At(next + i))][k] = NoComma(text[next + 1 + k])
      BY <3>4
    <3>. QED
      BY <3>1, <3>3, <3>5 DEF ListIs, n
  <2>7. ProjectionMeansNext(text, next, close + 1, cols)
    <3>. HIDE DEF cols
    <3>. QED
      BY <1>1, <2>3, <2>5, <2>6 DEF ProjectionMeansNext
  <2>. HIDE DEF close, cols
  <2>8. ASSUME Spelt(source) PROVE Meant(m, text, "read", close + 1, parts', s)
    <3>1. Meant(m, text, pc, next, parts, stmt) /\ m \in Sentences /\ AreTokens(text) /\ stmt \in Statements
      BY <2>8, MeantNow
    <3>. HIDE DEF m
    <3>2. m.verb = "read" /\ ReadMeant(text, next, stmt, m)
      BY <1>1, <3>1 DEF Meant
    <3>3. ReadMeant(text, close + 1, s, m)
      BY <1>1, <2>7, <3>1, <3>2, ProjectionMeant
    <3>. HIDE DEF s
    <3>. QED
      BY <3>2, <3>3 DEF Meant
  <2>. HIDE DEF s
  <2>. QED
    BY <2>2, <2>8, MeantGoes
<1>. QED
  BY <1>3, <1>4, <1>5

\* The columns of a RETURNING.
LEMMA MeantReturning ==
  ASSUME Typed, MeantInv, Returning
  PROVE  MeantInv'
<1>. DEFINE m == source.meant
            n == Tokens - next - 1
            cols == [k \in 1..n |-> NoComma(At(next + k))]
            s == [stmt EXCEPT !.columns = cols]
<1>1. /\ next \in Nat /\ Tokens = Len(text) /\ Tokens \in Nat /\ next < Len(text) /\ pc = "tail"
      /\ text[next + 1] = <<"returning">>
  BY TextTyped DEF Typed, Returning, InClauses, Is, At
<1>2. source' = source /\ pc' = "tail" /\ next' = Tokens /\ stmt' = s
  BY DEF Returning, Goto
<1>3. ListIs(text, next + 1, Len(text), cols)
  <2>1. n \in Nat /\ n \in Int /\ next + n < Tokens /\ n = Len(text) - (next + 1)
    BY <1>1
  <2>. HIDE DEF n
  <2>2. [k \in 1..n |-> NoComma(At(next + k))] \in Seq(Token)
    BY <1>1, <2>1, ListTyped
  <2>3. [k \in 1..n |-> NoComma(At(next + k))] \in Seq(Line) /\ Len([k \in 1..n |-> NoComma(At(next + k))]) = n
    BY <2>1, <2>2, TokensAreLines
  <2>4. \A k \in 1..n : NoComma(At(next + k)) = NoComma(text[next + 1 + k])
    <3>1. \A k \in 1..n : next + k + 1 = next + 1 + k
      BY <1>1, <2>1
    <3>. QED
      BY <3>1 DEF At
  <2>5. \A k \in 1..n : [i \in 1..n |-> NoComma(At(next + i))][k] = NoComma(text[next + 1 + k])
    BY <2>4
  <2>. QED
    BY <2>1, <2>3, <2>5 DEF ListIs
<1>. HIDE DEF n, cols
<1>4. ASSUME Spelt(source) PROVE Meant(m, text, "tail", Tokens, parts', s)
  <2>1. Meant(m, text, pc, next, parts, stmt) /\ m \in Sentences /\ AreTokens(text) /\ stmt \in Statements
    BY <1>4, MeantNow
  <2>. HIDE DEF m
  <2>2. m.verb = "update" /\ TailMeant(text, next, stmt, m)
    BY <1>1, <2>1 DEF Meant
  <2>3. TailMeant(text, Len(text), s, m)
    BY <1>1, <1>3, <2>1, <2>2, ReturningMeant
  <2>. HIDE DEF s
  <2>. QED
    BY <1>1, <2>2, <2>3 DEF Meant
<1>. HIDE DEF s
<1>. QED
  BY <1>2, <1>4, MeantGoes

\* A binding of an update, ...
LEMMA MeantSetBinding ==
  ASSUME Typed, MeantInv, SetBinding
  PROVE  MeantInv'
<1>. DEFINE m == source.meant
            b == Binding(text[next + 1], text[next + 3])
            s == [stmt EXCEPT !.bindings = Append(@, b)]
<1>1. CASE ~ PredicateAt(next)
  BY <1>1, MeantFails DEF SetBinding, Check
<1>2. CASE PredicateAt(next)
  <2>1. next \in Nat /\ Tokens = Len(text) /\ Tokens \in Nat /\ next < Len(text) /\ pc = "set"
    BY TextTyped DEF Typed, SetBinding
  <2>2. At(next) = text[next + 1] /\ At(next + 2) = text[next + 3] /\ At(next + 1) = text[next + 2]
    BY <2>1 DEF At
  <2>3. source' = source /\ pc' = "set" /\ next' = next + 3 /\ stmt' = s
    BY <1>2, <2>2 DEF SetBinding, Check, Goto
  <2>4. BindingAt(text, next)
    <3>1. next + 3 <= Len(text) /\ text[next + 2] = <<Equals>> /\ IsRhs(text[next + 3])
      BY <1>2, <2>1, <2>2 DEF PredicateAt, Is
    <3>2. text[next + 1] # <<"where">> /\ text[next + 1] # <<"returning">>
      BY <2>1, <2>2 DEF SetBinding, Is
    <3>. QED
      BY <3>1, <3>2 DEF BindingAt
  <2>5. b \in Assigned
    BY <1>2, <2>1, <2>2, PredicateTyped
  <2>6. ASSUME Spelt(source) PROVE Meant(m, text, "set", next + 3, parts', s)
    <3>1. Meant(m, text, pc, next, parts, stmt) /\ m \in Sentences /\ AreTokens(text) /\ stmt \in Statements
      BY <2>6, MeantNow
    <3>2. m.verb = "update" => ~ LiteralsTouch(text)
      BY <2>6 DEF Spelt, text
    <3>. HIDE DEF m
    <3>3. m.verb = "update" /\ SetMeant(text, next, stmt, m)
      BY <2>1, <3>1 DEF Meant
    <3>4. SetMeant(text, next + 3, s, m)
      BY <2>1, <2>4, <2>5, <3>1, <3>2, <3>3, SetMeantOn
    <3>. HIDE DEF s
    <3>. QED
      BY <3>3, <3>4 DEF Meant
  <2>. HIDE DEF s
  <2>. QED
    BY <2>3, <2>6, MeantGoes
<1>. QED
  BY <1>1, <1>2

\* ... and the end of its bindings.
LEMMA MeantSetDone ==
  ASSUME Typed, MeantInv, SetDone
  PROVE  MeantInv'
<1>. DEFINE m == source.meant
<1>1. source' = source /\ pc' = "tail" /\ next' = next /\ stmt' = stmt /\ pc = "set"
  BY DEF SetDone, Check, Goto
<1>2. ASSUME Spelt(source) PROVE Meant(m, text, "tail", next, parts', stmt)
  <2>1. Meant(m, text, pc, next, parts, stmt) /\ m \in Sentences /\ AreTokens(text) /\ next \in 0..Len(text) /\ Tokens = Len(text)
    BY <1>2, MeantNow
  <2>. HIDE DEF m
  <2>2. m.verb = "update" /\ SetMeant(text, next, stmt, m)
    BY <1>1, <2>1 DEF Meant
  <2>3. next >= Len(text) \/ text[next + 1] = <<"where">> \/ text[next + 1] = <<"returning">>
    BY <2>1 DEF SetDone, Is, At
  <2>4. TailMeant(text, next, stmt, m)
    BY <2>1, <2>2, <2>3, SetMeantEnds
  <2>. QED
    BY <2>2, <2>4 DEF Meant
<1>. QED
  BY <1>1, <1>2, MeantGoes

\* The end of a read or of an update.
LEMMA MeantEndOfText ==
  ASSUME Typed, MeantInv, EndOfText
  PROVE  MeantInv'
<1>. DEFINE m == source.meant
            test == pc = "read" \/ stmt.bindings # << >>
<1>1. CASE ~ test
  BY <1>1, MeantFails DEF EndOfText, Check
<1>2. CASE test
  <2>1. source' = source /\ pc' = "parsed" /\ next' = next /\ stmt' = stmt /\ pc \in {"read", "tail"}
    BY <1>2 DEF EndOfText, Check, Goto
  <2>2. ASSUME Spelt(source) PROVE Meant(m, text, "parsed", next, parts', stmt)
    <3>1. /\ Meant(m, text, pc, next, parts, stmt) /\ m \in Sentences /\ AreTokens(text) /\ stmt \in Statements
          /\ next \in 0..Len(text) /\ Tokens = Len(text) /\ Tokens \in Nat
      BY <2>2, MeantNow
    <3>. HIDE DEF m
    <3>2. next = Len(text)
      BY <3>1 DEF EndOfText
    <3>3. CASE pc = "read"
      <4>1. ReadMeant(text, Len(text), stmt, m)
        BY <3>1, <3>2, <3>3 DEF Meant
      <4>2. stmt = m \/ Spoiled(stmt, << >>, RBrace)
        BY <3>1, <4>1, EndMeant
      <4>. QED
        BY <4>2 DEF Meant
    <3>4. CASE pc = "tail"
      <4>1. TailMeant(text, Len(text), stmt, m)
        BY <3>1, <3>2, <3>4 DEF Meant
      <4>2. stmt = m \/ Spoiled(stmt, << >>, RBrace)
        BY <3>1, <4>1, EndOfTail
      <4>. QED
        BY <4>2 DEF Meant
    <3>. QED
      BY <2>1, <3>3, <3>4
  <2>. QED
    BY <2>1, <2>2, MeantGoes
<1>. QED
  BY <1>1, <1>2

\* A binding of an insert, ...
LEMMA MeantInsertBinding ==
  ASSUME Typed, MeantInv, InsertBinding
  PROVE  MeantInv'
<1>. DEFINE m == source.meant
            part == Head(parts)
            k == PlaceOf(part, Colon)
            column == SubSeq(part, 1, k - 1)
            value == SubSeq(part, k + 1, Len(part))
            b == Binding(column, value)
            s == [stmt EXCEPT !.bindings = Append(@, b)]
            test == k # 0 /\ IsRhs(value)
<1>1. CASE ~ test
  BY <1>1, MeantFails DEF InsertBinding
<1>2. CASE test
  <2>1. source' = source /\ pc' = "bindings" /\ next' = next /\ stmt' = s /\ parts' = Tail(parts) /\ pc = "bindings" /\ parts # << >>
    BY <1>2 DEF InsertBinding, Goto
  <2>2. PartBinds(part, value, b)
    BY <1>2 DEF PartBinds
  <2>. HIDE DEF b, value, k
  <2>3. ASSUME Spelt(source) PROVE Meant(m, text, "bindings", next, Tail(parts), s)
    <3>1. Meant(m, text, pc, next, parts, stmt) /\ m \in Sentences /\ stmt \in Statements
      BY <2>3, MeantNow
    <3>. HIDE DEF m
    <3>2. m.verb = "insert" /\ InsertMeant(parts, stmt, m)
      BY <2>1, <3>1 DEF Meant
    <3>3. InsertMeant(Tail(parts), s, m)
      BY <2>1, <2>2, <3>1, <3>2, InsertMeantOn
    <3>. HIDE DEF s
    <3>. QED
      BY <3>2, <3>3 DEF Meant
  <2>. HIDE DEF s
  <2>. QED
    BY <2>1, <2>3, MeantGoes
<1>. QED
  BY <1>1, <1>2

\* ... and the end of its parts.
LEMMA MeantInsertDone ==
  ASSUME Typed, MeantInv, InsertDone
  PROVE  MeantInv'
<1>. DEFINE m == source.meant
<1>1. source' = source /\ pc' = "parsed" /\ next' = next /\ stmt' = stmt /\ pc = "bindings" /\ parts = << >>
  BY DEF InsertDone, Check, Goto
<1>2. ASSUME Spelt(source) PROVE Meant(m, text, "parsed", next, parts', stmt)
  <2>1. Meant(m, text, pc, next, parts, stmt) /\ m \in Sentences /\ stmt \in Statements
    BY <1>2, MeantNow
  <2>. HIDE DEF m
  <2>2. InsertMeant(<< >>, stmt, m)
    BY <1>1, <2>1 DEF Meant
  <2>3. stmt = m
    BY <2>1, <2>2, InsertMeantEnds
  <2>. QED
    BY <2>3 DEF Meant
<1>. QED
  BY <1>1, <1>2, MeantGoes

\* A statement that is spoiled does not compile.
LEMMA SpoiledIsRefused ==
  ASSUME NEW s \in Statements, Spoiled(s, << >>, RBrace)
  PROVE  ~ Compiles(s)
<1>1. \A name \in Named(s) : Compiles(s) => Len(name) = 1 /\ name[1] \in Columns
  BY DEF Compiles, InCatalogue
<1>2. ASSUME s.order # << >>, Len(s.order[1].column) # 1 PROVE ~ Compiles(s)
  <2>. DEFINE R == [column : Token, desc : BOOLEAN]
              q == s.order
  <2>1. q \in Seq(R) /\ q # << >>
    BY <1>2 DEF Statements
  <2>. HIDE DEF R, q
  <2>2. 1 \in DOMAIN q
    BY <2>1
  <2>3. s.order[1].column \in Named(s)
    BY <2>2 DEF Named, q
  <2>. QED
    BY <1>1, <1>2, <2>3
<1>3. ASSUME NEW k \in DOMAIN s.columns, Len(s.columns[k]) # 1 \/ s.columns[k][1] \notin Columns PROVE ~ Compiles(s)
  <2>1. s.columns[k] \in Named(s)
    BY DEF Named, ToSet
  <2>. QED
    BY <1>1, <1>3, <2>1
<1>4. ASSUME NEW k \in DOMAIN s.bindings, Len(s.bindings[k].column) # 1 PROVE ~ Compiles(s)
  <2>. DEFINE p == s.bindings
              q == s.where
              c == p \o q
  <2>1. p \in Seq(Assigned) /\ q \in Seq(Assigned)
    BY DEF Statements
  <2>2. k \in DOMAIN p
    OBVIOUS
  <2>. HIDE DEF p, q, Assigned
  <2>3. k \in DOMAIN c /\ c[k] = p[k]
    <3>1. k \in 1..Len(p) /\ Len(p) \in Nat /\ Len(q) \in Nat
      BY <2>1, <2>2
    <3>2. c \in Seq(Assigned) /\ Len(c) = Len(p) + Len(q)
          /\ \A i \in 1..(Len(p) + Len(q)) : c[i] = IF i <= Len(p) THEN p[i] ELSE q[i - Len(p)]
      BY <2>1, ConcatProperties
    <3>. HIDE DEF c
    <3>3. k \in 1..(Len(p) + Len(q)) /\ k <= Len(p) /\ DOMAIN c = 1..(Len(p) + Len(q))
      BY <3>1, <3>2
    <3>. QED
      BY <3>2, <3>3
  <2>4. c[k].column \in Named(s)
    BY <2>3 DEF Named, c, p, q
  <2>5. c[k].column = s.bindings[k].column
    BY <2>3 DEF p
  <2>. QED
    BY <1>1, <1>4, <2>4, <2>5
<1>. QED
  BY <1>2, <1>3, <1>4 DEF Spoiled

LEMMA MeantCompile ==
  ASSUME Typed, MeantInv, Compile
  PROVE  MeantInv'
<1>. DEFINE m == source.meant
<1>1. /\ source' = source /\ next' = next /\ stmt' = stmt /\ pc = "parsed"
      /\ pc' = IF Compiles(stmt) THEN "compiled" ELSE "refused"
  BY DEF Compile, Check, Goto
<1>2. ASSUME Spelt(source) PROVE Meant(m, text, pc', next, parts', stmt)
  <2>1. Meant(m, text, pc, next, parts, stmt) /\ stmt \in Statements
    BY <1>2, MeantNow
  <2>. HIDE DEF m
  <2>2. stmt = m \/ Spoiled(stmt, << >>, RBrace)
    BY <1>1, <2>1 DEF Meant
  <2>3. Compiles(stmt) => stmt = m
    BY <2>1, <2>2, SpoiledIsRefused
  <2>4. pc' = "refused" \/ (pc' = "compiled" /\ stmt = m)
    BY <1>1, <2>3
  <2>. QED
    BY <2>4 DEF Meant
<1>. QED
  BY <1>1, <1>2, MeantGoes

LEMMA MeantStep ==
  ASSUME Typed, MeantInv, [Next]_vars
  PROVE  MeantInv'
<1>1. CASE Unsupported \/ Unexpected
  BY <1>1, MeantFails DEF Unsupported, Unexpected
<1>2. CASE StartRead
  BY <1>2, MeantStartRead
<1>3. CASE StartInsert
  BY <1>3, MeantStartInsert
<1>4. CASE StartUpdate
  BY <1>4, MeantStartUpdate
<1>5. CASE ParseDelete
  BY <1>5, MeantDelete
<1>6. CASE ReadProjection
  BY <1>6, MeantProjection
<1>7. CASE Where
  BY <1>7, MeantWhere
<1>8. CASE ReadOrder
  BY <1>8, MeantOrder
<1>9. CASE ReadLimit
  BY <1>9, MeantLimit
<1>10. CASE Returning
  BY <1>10, MeantReturning
<1>11. CASE EndOfText
  BY <1>11, MeantEndOfText
<1>12. CASE SetBinding
  BY <1>12, MeantSetBinding
<1>13. CASE SetDone
  BY <1>13, MeantSetDone
<1>14. CASE InsertBinding
  BY <1>14, MeantInsertBinding
<1>15. CASE InsertDone
  BY <1>15, MeantInsertDone
<1>16. CASE Compile
  BY <1>16, MeantCompile
<1>17. CASE UNCHANGED vars
  <2>1. source' = source /\ pc' = pc /\ next' = next /\ parts' = parts /\ stmt' = stmt /\ text' = text
    BY <1>17 DEF vars, text
  <2>. QED
    BY <2>1 DEF MeantInv
<1>. QED
  BY <1>1, <1>2, <1>3, <1>4, <1>5, <1>6, <1>7, <1>8, <1>9, <1>10, <1>11, <1>12, <1>13, <1>14, <1>15, <1>16, <1>17 DEF Next

(* Whatever the author puts between the atoms of a sentence, a text that   *)
(* compiles gives the statement meant, but for an update whose literals    *)
(* touch: for every catalogue, every atoms and every texts (parse,         *)
(* compile).                                                               *)
THEOREM NeverMisreadHolds == Spec => []NeverMisread
<1>1. Init => MeantInv
  BY DEF Init, MeantInv, Meant
<1>2. Typed /\ MeantInv /\ [Next]_vars => MeantInv'
  BY MeantStep
<1>3. MeantInv => NeverMisread
  BY DEF MeantInv, Meant, NeverMisread, Spelt, text
<1>. QED
  BY <1>1, <1>2, <1>3, TypedHolds, PTL DEF Spec
=============================================================================

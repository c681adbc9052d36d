--------------------------- MODULE LiqPlansProofs ---------------------------
(***************************************************************************)
(* What TLAPS proves of the way of a value from a liq statement to the     *)
(* row, for any threads, columns, parameters and statements, and any number*)
(* of registrations and calls: the compiler's placeholders, the dict of    *)
(* parameters and the question marks the engine counts agree, and a        *)
(* constructed RegistryOltp has its plans.                                 *)
(***************************************************************************)
EXTENDS LiqPlans, FiniteSetTheorems, SequenceTheorems, WellFoundedInduction, TLAPS

-----------------------------------------------------------------------------
(* The invariant.                                                          *)

\* The statements whose plans may be registered, and their calls.
Known == {s \in Statements : Compiles(s)} \cup {FrozenPlans[i].stmt : i \in 1..Len(FrozenPlans)}
Call(s, args) == [plan |-> Lower(s), args |-> args, bound |-> Bound(Lower(s), args)]
Calls == {Call(s, args) : s \in Known, args \in Arguments}

\* The engine has a value for each question mark of an INSERT.
Accepted(s) == s.verb = "insert" /\ Asked(Lower(s), Len(Lower(s).slots)) <= Len(Schema(s))
StoredBy(s, args) == [row |-> RowOf(Lower(s), Bound(Lower(s), args)), stmt |-> s, args |-> args]
Rows == {StoredBy(s, args) : s \in {s \in Known : Accepted(s)}, args \in Arguments}

\* What the registry, the calls in progress and the table may hold.
PlansInv ==
  /\ plans \in [LiqIds \cup FrozenIds -> {NoPlan} \cup {Lower(s) : s \in Known}]
  /\ pc \in [Threads -> {"idle", "registering", "engine"}]
  /\ running \in [Threads -> Calls \cup {Idle}]
  /\ \A t \in Threads : pc[t] = "engine" => running[t] \in Calls
  /\ DOMAIN result = Threads
  /\ rows \in Seq(Rows)

\* How far the loops of register_registry_plans are.
Frozen == {FrozenPlans[i] : i \in 1..Len(FrozenPlans)}
There(i) == plans[FrozenPlans[i].id] = Lower(FrozenPlans[i].stmt)
LoopInv ==
  /\ clears \in Nat
  /\ DOMAIN plans = LiqIds \cup FrozenIds
  /\ pc \in [Threads -> {"idle", "registering", "engine"}]
  /\ todo \in [Threads -> Seq(Frozen)]
  /\ \A t \in Threads :
       /\ Len(todo[t]) <= Len(FrozenPlans)
       /\ \A k \in 1..Len(todo[t]) : todo[t][k] = FrozenPlans[Len(FrozenPlans) - Len(todo[t]) + k]
       /\ pc[t] = "registering" /\ clears = 0 => \A i \in 1..Len(FrozenPlans) - Len(todo[t]) : There(i)
  /\ (registered \/ built # {}) /\ clears = 0 => \A i \in 1..Len(FrozenPlans) : There(i)

-----------------------------------------------------------------------------
(* Places.                                                                 *)

LEMMA CardinalityBelow ==
  ASSUME NEW A, NEW B, IsFiniteSet(B), NEW x \in B, A \subseteq B \ {x}
  PROVE  /\ IsFiniteSet(A) /\ Cardinality(A) \in Nat /\ Cardinality(B) \in Nat
         /\ Cardinality(A) + 1 <= Cardinality(B)
<1>1. IsFiniteSet(B \ {x}) /\ Cardinality(B \ {x}) = Cardinality(B) - 1
  BY FS_RemoveElement
<1>2. IsFiniteSet(A) /\ Cardinality(A) <= Cardinality(B \ {x})
  BY <1>1, FS_Subset
<1>3. Cardinality(A) \in Nat /\ Cardinality(B) \in Nat
  BY <1>2, FS_CardinalityType
<1>. QED
  BY <1>1, <1>2, <1>3

\* The place after as many others as come before i is i.
LEMMA PlaceOf ==
  ASSUME NEW n \in Nat, NEW places \in SUBSET (1..n), NEW i \in places
  PROVE  /\ IsFiniteSet(places) /\ Cardinality(places) \in Nat
         /\ Cardinality({j \in places : j < i}) + 1 \in 1..Cardinality(places)
         /\ Nth(places, Cardinality({j \in places : j < i}) + 1) = i
<1>. DEFINE below(k) == {j \in places : j < k}
<1>1. IsFiniteSet(places) /\ Cardinality(places) \in Nat
  <2>1. IsFiniteSet(1..n)
    BY FS_Interval
  <2>. QED
    BY <2>1, FS_Subset, FS_CardinalityType
<1>2. \A k \in places : Cardinality(below(k)) \in Nat /\ Cardinality(below(k)) + 1 <= Cardinality(places)
  <2>1. ASSUME NEW k \in places
        PROVE  Cardinality(below(k)) \in Nat /\ Cardinality(below(k)) + 1 <= Cardinality(places)
    <3>1. below(k) \subseteq places \ {k}
      OBVIOUS
    <3>. QED
      BY <1>1, <3>1, CardinalityBelow
  <2>. QED
    BY <2>1
<1>3. ASSUME NEW j \in places, NEW k \in places, j < k
      PROVE  Cardinality(below(j)) + 1 <= Cardinality(below(k))
  <2>1. \A l \in places : l \in Nat
    OBVIOUS
  <2>2. j \in below(k) /\ \A l \in below(j) : l \in below(k) /\ l # j
    BY <1>3, <2>1
  <2>3. IsFiniteSet(below(k))
    BY <1>1, FS_Subset
  <2>4. below(j) \subseteq below(k) \ {j}
    BY <2>2
  <2>. QED
    BY <2>2, <2>3, <2>4, CardinalityBelow
<1>4. ASSUME NEW k \in places, Cardinality(below(k)) = Cardinality(below(i))
      PROVE  k = i
  <2>1. k \in Nat /\ i \in Nat /\ Cardinality(below(i)) \in Nat
    BY <1>2
  <2>2. ~ (k < i) /\ ~ (i < k)
    <3>. HIDE DEF below
    <3>. QED
      BY <1>3, <1>4, <2>1
  <2>. QED
    BY <2>1, <2>2
<1>. DEFINE m == Cardinality(below(i))
<1>5. m \in Nat /\ m + 1 <= Cardinality(places)
  BY <1>2
<1>6. Nth(places, m + 1) \in places /\ Cardinality(below(Nth(places, m + 1))) = m
  <2>1. (m + 1) - 1 = m
    BY <1>5
  <2>2. \E k \in places : Cardinality({j \in places : j < k}) = (m + 1) - 1
    BY <2>1
  <2>3. /\ Nth(places, m + 1) \in places
        /\ Cardinality({j \in places : j < Nth(places, m + 1)}) = (m + 1) - 1
    <3>. DEFINE p == m + 1
    <3>. HIDE DEF p
    <3>. QED
      BY <2>2 DEF Nth
  <2>. QED
    BY <2>1, <2>3
<1>7. Nth(places, m + 1) = i
  BY <1>4, <1>6
<1>. QED
  BY <1>1, <1>5, <1>7

\* As many places, as many ranks: each is taken.
LEMMA NthIsThere ==
  ASSUME NEW n \in Nat, NEW places \in SUBSET (1..n), NEW k \in 1..Cardinality(places)
  PROVE  Nth(places, k) \in places
<1>. DEFINE ranks == 1..Cardinality(places)
            rank == [i \in places |-> Cardinality({j \in places : j < i}) + 1]
<1>1. CASE places = {}
  BY <1>1, FS_EmptySet
<1>2. CASE places # {}
  <2>1. IsFiniteSet(places) /\ Cardinality(places) \in Nat
    BY <1>2, PlaceOf
  <2>2. \A i \in places : rank[i] \in ranks /\ Nth(places, rank[i]) = i
    BY PlaceOf
  <2>3. IsFiniteSet(ranks) /\ Cardinality(ranks) = Cardinality(places)
    BY <2>1, FS_Interval
  <2>4. rank \in [places -> ranks]
    BY <2>2
  <2>. HIDE DEF rank, ranks
  <2>5. rank \in Injection(places, ranks)
    BY <2>2, <2>4 DEF Injection, IsInjective
  <2>6. rank \in Surjection(places, ranks)
    BY <2>3, <2>5, FS_Injection
  <2>7. PICK i \in places : rank[i] = k
    BY <2>6 DEF Surjection, ranks
  <2>. QED
    BY <2>2, <2>7
<1>. QED
  BY <1>1, <1>2

\* There is a last one.
LEMMA LastPlace ==
  ASSUME NEW n \in Nat, NEW places \in SUBSET (1..n), places # {}
  PROVE  \E i \in places : \A j \in places : j <= i
<1>. DEFINE back == {n - i : i \in places}
<1>1. IsWellFoundedOn(OpToRel(<, Nat), Nat)
  BY NatLessThanWellFounded
<1>2. back \subseteq Nat /\ back # {}
  <2>1. \A i \in places : n - i \in Nat
    OBVIOUS
  <2>2. back # {}
    OBVIOUS
  <2>. QED
    BY <2>1, <2>2
<1>3. \A i \in places : n - i \in back
  OBVIOUS
<1>4. \A b \in back : \E i \in places : b = n - i
  OBVIOUS
<1>. HIDE DEF back
<1>5. PICK b \in back : \A a \in back : ~ (<<a, b>> \in OpToRel(<, Nat))
  BY <1>1, <1>2, WFMin
<1>6. \A a \in back : ~ (a < b)
  BY <1>2, <1>5 DEF OpToRel
<1>7. PICK i \in places : b = n - i
  BY <1>4
<1>8. \A j \in places : ~ (n - j < n - i)
  BY <1>3, <1>6, <1>7
<1>. QED
  BY <1>8

-----------------------------------------------------------------------------
(* What a statement lowers to.                                             *)

LEMMA KnownStatements ==
  ASSUME NEW s \in Known
  PROVE  IsStatement(s) /\ \A k \in 1..Len(s.where) : IsParam(s.where[k])
BY PlansAssumption DEF Known, Compiles

\* A parameter is named twice exactly when param_schema has fewer keys than there are uses.
LEMMA SchemaCounts ==
  ASSUME NEW s \in Known
  PROVE  /\ Len(ValuesOf(s)) \in Nat
         /\ IsFiniteSet(Uses(s)) /\ Cardinality(Uses(s)) \in Nat
         /\ Len(Schema(s)) = Cardinality(FirstUses(s)) /\ Len(Schema(s)) \in Nat
         /\ Len(Schema(s)) <= Cardinality(Uses(s))
         /\ Repeats(s) <=> Len(Schema(s)) < Cardinality(Uses(s))
         /\ ~ Repeats(s) <=> FirstUses(s) = Uses(s)
<1>1. ValuesOf(s) \in Seq(Binding)
  BY KnownStatements DEF IsStatement, ValuesOf
<1>2. Len(ValuesOf(s)) \in Nat
  BY <1>1
<1>3. Uses(s) \subseteq 1..Len(ValuesOf(s)) /\ FirstUses(s) \subseteq Uses(s)
  BY DEF Uses, FirstUses
<1>4. IsFiniteSet(Uses(s)) /\ Cardinality(Uses(s)) \in Nat
  <2>1. IsFiniteSet(1..Len(ValuesOf(s)))
    BY <1>2, FS_Interval
  <2>. QED
    BY <1>3, <2>1, FS_Subset, FS_CardinalityType
<1>5. /\ IsFiniteSet(FirstUses(s)) /\ Cardinality(FirstUses(s)) \in Nat
      /\ Cardinality(FirstUses(s)) <= Cardinality(Uses(s))
      /\ Cardinality(FirstUses(s)) = Cardinality(Uses(s)) => FirstUses(s) = Uses(s)
  BY <1>3, <1>4, FS_Subset, FS_CardinalityType
<1>6. Len(Schema(s)) = Cardinality(FirstUses(s))
  BY <1>5 DEF Schema
<1>7. ~ Repeats(s) <=> FirstUses(s) = Uses(s)
  <2>1. ASSUME ~ Repeats(s)
        PROVE  FirstUses(s) = Uses(s)
    <3>1. \A i \in Uses(s) : i \in Nat
      BY <1>3
    <3>2. \A i \in Uses(s) : \A j \in Uses(s) : j < i => NameAt(s, j) # NameAt(s, i)
      BY <2>1, <3>1 DEF Repeats
    <3>. QED
      BY <3>2 DEF FirstUses
  <2>2. ASSUME FirstUses(s) = Uses(s), NEW i \in Uses(s), NEW j \in Uses(s), i # j
        PROVE  NameAt(s, i) # NameAt(s, j)
    <3>1. i \in Nat /\ j \in Nat
      BY <1>3
    <3>2. i < j \/ j < i
      BY <2>2, <3>1
    <3>. QED
      BY <2>2, <3>2 DEF FirstUses
  <2>. QED
    BY <2>1, <2>2 DEF Repeats
<1>. QED
  BY <1>2, <1>4, <1>5, <1>6, <1>7

\* An INSERT asks for a value where its statement has a parameter.
LEMMA InsertAsks ==
  ASSUME NEW s \in Known, s.verb = "insert"
  PROVE  /\ ValuesOf(s) = s.bindings /\ Len(s.bindings) \in Nat /\ Len(Lower(s).slots) = Len(s.bindings)
         /\ \A i \in 1..Len(s.bindings) :
              /\ Lower(s).slots[i].column = s.bindings[i].column
              /\ Lower(s).slots[i].text = "?" <=> i \in Uses(s)
         /\ Asked(Lower(s), Len(s.bindings)) = Cardinality(Uses(s))
         /\ \A i \in Uses(s) : Asked(Lower(s), i) = Cardinality({j \in Uses(s) : j < i}) + 1
<1>. DEFINE n == Len(s.bindings)
            slots == Lower(s).slots
<1>1. s.bindings \in Seq(Binding) /\ s.where = << >>
  BY KnownStatements DEF IsStatement
<1>2. ValuesOf(s) = s.bindings
  BY <1>1 DEF ValuesOf
<1>3. n \in Nat /\ slots = [i \in 1..n |-> [column |-> s.bindings[i].column, text |-> Placeholder(s.bindings[i])]]
  BY <1>1 DEF Lower
<1>. HIDE DEF slots
<1>4. Len(slots) = n
  BY <1>3
<1>5. ASSUME NEW i \in 1..n
      PROVE  slots[i].column = s.bindings[i].column /\ (slots[i].text = "?" <=> i \in Uses(s))
  <2>1. slots[i].column = s.bindings[i].column /\ slots[i].text = Placeholder(s.bindings[i])
    BY <1>3
  <2>2. i \in Uses(s) <=> IsParam(s.bindings[i])
    BY <1>2 DEF Uses
  <2>. QED
    BY <2>1, <2>2 DEF Placeholder
<1>6. \A i \in 1..n : Asked(Lower(s), i) = Cardinality({j \in Uses(s) : j <= i})
  <2>1. ASSUME NEW i \in 1..n
        PROVE  {j \in 1..i : slots[j].text = "?"} = {j \in Uses(s) : j <= i}
    <3>1. \A j : j \in Uses(s) => j \in 1..n
      BY <1>2 DEF Uses
    <3>2. \A j \in 1..i : j \in 1..n
      BY <1>3
    <3>3. \A j \in 1..n : j \in 1..i <=> j <= i
      BY <1>3
    <3>. QED
      BY <1>5, <3>1, <3>2, <3>3
  <2>. QED
    BY <2>1 DEF Asked, slots
<1>7. Asked(Lower(s), n) = Cardinality(Uses(s))
  <2>1. {j \in 1..n : slots[j].text = "?"} = Uses(s)
    BY <1>2, <1>5 DEF Uses
  <2>. QED
    BY <2>1 DEF Asked, slots
<1>8. ASSUME NEW i \in Uses(s)
      PROVE  Asked(Lower(s), i) = Cardinality({j \in Uses(s) : j < i}) + 1
  <2>. DEFINE upTo == {j \in Uses(s) : j <= i}
              below == {j \in Uses(s) : j < i}
  <2>1. Uses(s) \subseteq 1..n /\ IsFiniteSet(Uses(s))
    BY <1>2, SchemaCounts DEF Uses
  <2>2. i \in upTo /\ upTo \ {i} = below
    BY <1>3, <2>1
  <2>3. IsFiniteSet(upTo)
    BY <2>1, FS_Subset
  <2>4. Cardinality(upTo) \in Nat /\ Cardinality(upTo \ {i}) = Cardinality(upTo) - 1
    BY <2>2, <2>3, FS_RemoveElement, FS_CardinalityType
  <2>5. Asked(Lower(s), i) = Cardinality(upTo)
    BY <1>6, <2>1
  <2>. HIDE DEF upTo, below
  <2>6. Cardinality(below) = Cardinality(upTo) - 1
    BY <2>2, <2>4
  <2>7. Asked(Lower(s), i) = Cardinality(below) + 1
    BY <2>4, <2>5, <2>6
  <2>. QED
    BY <2>7 DEF below
<1>. QED
  BY <1>2, <1>3, <1>4, <1>5, <1>7, <1>8 DEF slots

\* The value of a parameter is where the engine looks for it.
LEMMA BoundWhereAsked ==
  ASSUME NEW s \in Known, ~ Repeats(s), NEW args, NEW i \in Uses(s)
  PROVE  Bound(Lower(s), args)[Cardinality({j \in Uses(s) : j < i}) + 1] = Sent(args[NameAt(s, i)])
<1>. DEFINE k == Cardinality({j \in Uses(s) : j < i}) + 1
<1>1. FirstUses(s) = Uses(s) /\ Len(Schema(s)) = Cardinality(Uses(s)) /\ Len(ValuesOf(s)) \in Nat
  BY SchemaCounts
<1>2. Uses(s) \in SUBSET (1..Len(ValuesOf(s)))
  BY DEF Uses
<1>3. k \in 1..Cardinality(Uses(s)) /\ Nth(Uses(s), k) = i
  BY <1>1, <1>2, PlaceOf
<1>. HIDE DEF k
<1>4. Schema(s)[k] = NameAt(s, i)
  BY <1>1, <1>3 DEF Schema
<1>5. Lower(s).schema = Schema(s)
  BY DEF Lower
<1>6. Bound(Lower(s), args)[k] = Sent(args[Schema(s)[k]])
  BY <1>1, <1>3, <1>5 DEF Bound
<1>. QED
  BY <1>4, <1>6 DEF k

\* An INSERT is accepted exactly when no parameter repeats.
LEMMA AcceptedWithoutRepeats ==
  ASSUME NEW s \in Known, s.verb = "insert"
  PROVE  Accepted(s) <=> ~ Repeats(s)
BY InsertAsks, SchemaCounts DEF Accepted

LEMMA RowsAreAsBound ==
  ASSUME NEW s \in Known, Accepted(s), NEW args, NEW c \in DOMAIN RowOf(Lower(s), Bound(Lower(s), args)),
         BindingOf(s, c).rhs.kind = "param"
  PROVE  RowOf(Lower(s), Bound(Lower(s), args))[c] = Stored(args[BindingOf(s, c).rhs.name])
<1>. DEFINE plan == Lower(s)
            bound == Bound(Lower(s), args)
            named == {i \in 1..Len(plan.slots) : plan.slots[i].column = c}
            n == Len(s.bindings)
            last == CHOOSE i \in named : \A j \in named : j <= i
<1>1. s.verb = "insert" /\ ~ Repeats(s)
  BY AcceptedWithoutRepeats DEF Accepted
<1>2. /\ ValuesOf(s) = s.bindings /\ n \in Nat /\ Len(plan.slots) = n
      /\ \A i \in 1..n : /\ plan.slots[i].column = s.bindings[i].column
                         /\ plan.slots[i].text = "?" <=> i \in Uses(s)
      /\ \A i \in Uses(s) : Asked(plan, i) = Cardinality({j \in Uses(s) : j < i}) + 1
  BY <1>1, InsertAsks
<1>3. RowOf(plan, bound) =
        [d \in {plan.slots[i].column : i \in 1..Len(plan.slots)} |->
           LET these == {i \in 1..Len(plan.slots) : plan.slots[i].column = d}
               i == CHOOSE i \in these : \A j \in these : j <= i
           IN  IF plan.slots[i].text = "?" THEN Kept(bound[Asked(plan, i)]) ELSE <<plan.slots[i].text>>]
  BY DEF RowOf
<1>4. c \in {plan.slots[i].column : i \in 1..Len(plan.slots)}
  BY <1>3
<1>5. named # {} /\ named \in SUBSET (1..n)
  BY <1>2, <1>4
<1>6. last \in named
  <2>1. \E i \in named : \A j \in named : j <= i
    BY <1>2, <1>5, LastPlace
  <2>. HIDE DEF named
  <2>. QED
    BY <2>1
<1>7. BindingOf(s, c) = s.bindings[last]
  <2>1. {i \in 1..n : s.bindings[i].column = c} = named
    BY <1>2
  <2>. HIDE DEF named
  <2>. QED
    BY <2>1 DEF BindingOf
<1>8. last \in 1..n
  BY <1>5, <1>6
<1>9. RowOf(plan, bound)[c] = IF plan.slots[last].text = "?" THEN Kept(bound[Asked(plan, last)])
                                  ELSE <<plan.slots[last].text>>
  BY <1>3, <1>4
<1>. HIDE DEF last, named, bound, plan
<1>10. last \in Uses(s)
  BY <1>2, <1>7, <1>8 DEF Uses, IsParam
<1>11. NameAt(s, last) = BindingOf(s, c).rhs.name
  BY <1>2, <1>7 DEF NameAt
<1>12. bound[Asked(plan, last)] = Sent(args[NameAt(s, last)])
  BY <1>1, <1>2, <1>10, BoundWhereAsked DEF bound
<1>. QED
  BY <1>2, <1>8, <1>9, <1>10, <1>11, <1>12 DEF plan, bound, Stored

-----------------------------------------------------------------------------
(* Plans, calls and rows.                                                  *)

LEMMA PlansInvInit == Init => PlansInv
<1>. SUFFICES ASSUME Init PROVE PlansInv
  OBVIOUS
<1>1. rows \in Seq(Rows)
  BY DEF Init
<1>. QED
  BY <1>1 DEF Init, PlansInv

\* A call returns.
LEMMA ReturnKeeps ==
  ASSUME PlansInv, NEW t \in Threads, NEW res, Return(t, res), rows' \in Seq(Rows)
  PROVE  PlansInv'
BY DEF PlansInv, Return

\* What the engine stores is the row of a call.
LEMMA StoreKeeps ==
  ASSUME PlansInv, NEW t \in Threads, pc[t] = "engine", running[t].plan.verb = "insert",
         Asked(running[t].plan, Len(running[t].plan.slots)) <= Len(running[t].bound),
         Store(t)
  PROVE  rows' \in Seq(Rows)
<1>1. PICK s \in Known, args \in Arguments : running[t] = Call(s, args)
  BY DEF PlansInv, Calls
<1>. DEFINE plan == Lower(s)
            bound == Bound(Lower(s), args)
<1>2. running[t].plan = plan /\ running[t].args = args /\ running[t].bound = bound
  BY <1>1 DEF Call
<1>3. plan.verb = s.verb /\ plan.source = s /\ plan.schema = Schema(s)
  BY DEF Lower
<1>4. Len(bound) = Len(Schema(s))
  BY <1>3, SchemaCounts DEF Bound
<1>. HIDE DEF plan, bound
<1>5. Accepted(s)
  BY <1>2, <1>3, <1>4 DEF Accepted, plan
<1>. DEFINE row == StoredBy(s, args)
<1>6. row \in Rows
  BY <1>5 DEF Rows
<1>7. rows' = Append(rows, row)
  BY <1>2, <1>3 DEF Store, StoredBy, plan, bound
<1>. HIDE DEF row
<1>. QED
  BY <1>6, <1>7 DEF PlansInv

LEMMA PlansInvStays ==
  ASSUME PlansInv, LoopInv, [Next]_vars
  PROVE  PlansInv'
<1>. DEFINE Plans == {NoPlan} \cup {Lower(s) : s \in Known}
<1>1. CASE UNCHANGED vars
  BY <1>1 DEF vars, PlansInv
<1>2. ASSUME NEW t \in Threads, NEW s \in Statements, NEW id \in LiqIds, Register(t, s, id)
      PROVE  PlansInv'
  <2>1. plans' = plans \/ (Compiles(s) /\ plans' = [plans EXCEPT ![id] = Lower(s)])
    BY <1>2 DEF Register
  <2>2. Compiles(s) => Lower(s) \in Plans
    BY DEF Known
  <2>. HIDE DEF Plans
  <2>3. plans' \in [LiqIds \cup FrozenIds -> Plans]
    BY <2>1, <2>2 DEF PlansInv, Plans
  <2>. QED
    BY <1>2, <2>3 DEF PlansInv, Register, Plans
<1>3. ASSUME NEW t \in Threads, NEW force, Construct(t, force)
      PROVE  PlansInv'
  BY <1>3 DEF PlansInv, Construct
<1>4. ASSUME NEW t \in Threads, RegisterFrozen(t)
      PROVE  PlansInv'
  <2>1. Head(todo[t]) \in Frozen
    BY <1>4 DEF RegisterFrozen, LoopInv
  <2>2. PICK i \in 1..Len(FrozenPlans) : Head(todo[t]) = FrozenPlans[i]
    BY <2>1 DEF Frozen
  <2>3. Lower(FrozenPlans[i].stmt) \in Plans
    BY DEF Known
  <2>4. plans' = [plans EXCEPT ![FrozenPlans[i].id] = Lower(FrozenPlans[i].stmt)]
    BY <1>4, <2>2 DEF RegisterFrozen
  <2>. HIDE DEF Plans
  <2>5. plans' \in [LiqIds \cup FrozenIds -> Plans]
    BY <2>3, <2>4 DEF PlansInv, Plans
  <2>. QED
    BY <1>4, <2>5 DEF PlansInv, RegisterFrozen, Plans
<1>5. ASSUME NEW t \in Threads, FinishRegistration(t)
      PROVE  PlansInv'
  BY <1>5 DEF PlansInv, FinishRegistration
<1>6. ASSUME NEW t \in Threads, NEW id \in LiqIds \cup FrozenIds, NEW args \in Arguments, Execute(t, id, args)
      PROVE  PlansInv'
  <2>. DEFINE call == [plan |-> plans[id], args |-> args, bound |-> Bound(plans[id], args)]
  <2>1. /\ \/ UNCHANGED <<pc, running>>
           \/ /\ plans[id] # NoPlan
              /\ pc' = [pc EXCEPT ![t] = "engine"] /\ running' = [running EXCEPT ![t] = call]
        /\ DOMAIN result' = DOMAIN result /\ UNCHANGED <<plans, rows>>
    BY <1>6 DEF Execute
  <2>2. plans[id] # NoPlan => call \in Calls
    <3>1. ASSUME plans[id] # NoPlan
          PROVE  call \in Calls
      <4>1. PICK s \in Known : plans[id] = Lower(s)
        BY <3>1 DEF PlansInv
      <4>2. call = Call(s, args)
        BY <4>1 DEF Call
      <4>. QED
        BY <4>2 DEF Calls
    <3>. QED
      BY <3>1
  <2>. HIDE DEF call
  <2>3. CASE UNCHANGED <<pc, running>>
    BY <2>1, <2>3 DEF PlansInv
  <2>4. CASE call \in Calls /\ pc' = [pc EXCEPT ![t] = "engine"] /\ running' = [running EXCEPT ![t] = call]
    BY <2>1, <2>4 DEF PlansInv
  <2>. QED
    BY <2>1, <2>2, <2>3, <2>4
<1>7. ASSUME NEW t \in Threads, ExecInsert(t) \/ ExecSelect(t) \/ ExecOther(t) \/ EngineLost(t)
      PROVE  PlansInv'
  <2>1. rows' \in Seq(Rows)
    <3>1. rows \in Seq(Rows)
      BY DEF PlansInv
    <3>2. \/ UNCHANGED rows
          \/ /\ pc[t] = "engine" /\ running[t].plan.verb = "insert" /\ Store(t)
             /\ Asked(running[t].plan, Len(running[t].plan.slots)) <= Len(running[t].bound)
      BY <1>7 DEF ExecInsert, ExecSelect, ExecOther, EngineLost
    <3>. QED
      BY <3>1, <3>2, StoreKeeps
  <2>2. \E res : Return(t, res)
    BY <1>7 DEF ExecInsert, ExecSelect, ExecOther, EngineLost
  <2>. QED
    BY <2>1, <2>2, ReturnKeeps
<1>8. CASE ClearPlans
  <2>1. plans' = [id \in LiqIds \cup FrozenIds |-> NoPlan]
    BY <1>8 DEF ClearPlans, PlansInv
  <2>. QED
    BY <1>8, <2>1 DEF ClearPlans, PlansInv
<1>. QED
  BY <1>1, <1>2, <1>3, <1>4, <1>5, <1>6, <1>7, <1>8 DEF Next

-----------------------------------------------------------------------------
(* The loop of register_registry_plans.                                    *)

LEMMA FrozenTypes ==
  /\ FrozenPlans \in Seq(Frozen) /\ Len(FrozenPlans) \in Nat
  /\ \A i \in 1..Len(FrozenPlans) : FrozenPlans[i].id \in FrozenIds /\ FrozenPlans[i].id \notin LiqIds
  /\ \A i, j \in 1..Len(FrozenPlans) : FrozenPlans[i].id = FrozenPlans[j].id => i = j
<1>1. FrozenPlans \in Seq(Frozen)
  BY PlansAssumption DEF Frozen
<1>2. Len(FrozenPlans) \in Nat
  BY <1>1
<1>3. ASSUME NEW i \in 1..Len(FrozenPlans)
      PROVE  FrozenPlans[i].id \in FrozenIds /\ FrozenPlans[i].id \notin LiqIds
  <2>1. FrozenPlans[i].id \in FrozenIds
    BY DEF FrozenIds
  <2>2. LiqIds \cap FrozenIds = {}
    BY PlansAssumption
  <2>. QED
    BY <2>1, <2>2
<1>4. \A i, j \in 1..Len(FrozenPlans) : FrozenPlans[i].id = FrozenPlans[j].id => i = j
  BY PlansAssumption
<1>. QED
  BY <1>1, <1>2, <1>3, <1>4

LEMMA LoopInvInit == Init => LoopInv
<1>. SUFFICES ASSUME Init PROVE LoopInv
  OBVIOUS
<1>1. \A t \in Threads : todo[t] = << >> /\ Len(todo[t]) = 0 /\ pc[t] = "idle"
  BY DEF Init
<1>2. todo \in [Threads -> Seq(Frozen)]
  BY DEF Init
<1>. QED
  BY <1>1, <1>2, FrozenTypes DEF Init, LoopInv

\* Steps that register nothing, and whose threads are at no loop they were not at before.
LEMMA LoopInvKept ==
  ASSUME LoopInv, UNCHANGED <<registered, todo, built, clears>>, DOMAIN plans' = DOMAIN plans,
         pc' \in [Threads -> {"idle", "registering", "engine"}],
         \A t \in Threads : pc'[t] = "registering" => pc[t] = "registering",
         \A i \in 1..Len(FrozenPlans) : plans'[FrozenPlans[i].id] = plans[FrozenPlans[i].id]
  PROVE  LoopInv'
<1>1. \A i \in 1..Len(FrozenPlans) : There(i)' <=> There(i)
  BY DEF There
<1>2. \A t \in Threads : \A i \in 1..Len(FrozenPlans) - Len(todo[t]) : i \in 1..Len(FrozenPlans)
  BY FrozenTypes DEF LoopInv
<1>. QED
  BY <1>1, <1>2 DEF LoopInv

LEMMA LoopInvStays ==
  ASSUME LoopInv, [Next]_vars
  PROVE  LoopInv'
<1>1. CASE UNCHANGED vars
  BY <1>1, LoopInvKept DEF vars, LoopInv
<1>2. ASSUME NEW t \in Threads, NEW s \in Statements, NEW id \in LiqIds, Register(t, s, id)
      PROVE  LoopInv'
  <2>1. UNCHANGED <<registered, todo, built, clears, pc>> /\ (plans' = plans \/ plans' = [plans EXCEPT ![id] = Lower(s)])
    BY <1>2 DEF Register
  <2>2. DOMAIN plans' = DOMAIN plans /\ \A i \in 1..Len(FrozenPlans) : plans'[FrozenPlans[i].id] = plans[FrozenPlans[i].id]
    <3>1. \A i \in 1..Len(FrozenPlans) : FrozenPlans[i].id # id /\ FrozenPlans[i].id \in DOMAIN plans
      BY FrozenTypes DEF LoopInv
    <3>2. CASE plans' = plans
      BY <3>2
    <3>3. CASE plans' = [plans EXCEPT ![id] = Lower(s)]
      <4>. DEFINE new == Lower(s)
      <4>. HIDE DEF new
      <4>1. plans' = [plans EXCEPT ![id] = new]
        BY <3>3 DEF new
      <4>2. DOMAIN plans' = DOMAIN plans
        BY <4>1
      <4>. QED
        BY <3>1, <4>1, <4>2
    <3>. QED
      BY <2>1, <3>2, <3>3
  <2>. QED
    BY <2>1, <2>2, LoopInvKept DEF LoopInv
<1>3. ASSUME NEW t \in Threads, NEW force, Construct(t, force)
      PROVE  LoopInv'
  <2>1. \/ /\ registered /\ built' = built \cup {t} /\ UNCHANGED <<pc, todo>>
        \/ /\ pc' = [pc EXCEPT ![t] = "registering"] /\ todo' = [todo EXCEPT ![t] = FrozenPlans]
           /\ UNCHANGED built
    BY <1>3 DEF Construct
  <2>2. UNCHANGED <<plans, registered, clears>>
    BY <1>3 DEF Construct
  <2>3. \A i \in 1..Len(FrozenPlans) : There(i)' <=> There(i)
    BY <2>2 DEF There
  <2>4. \A u \in Threads : \A i \in 1..Len(FrozenPlans) - Len(todo[u]) : i \in 1..Len(FrozenPlans)
    BY FrozenTypes DEF LoopInv
  <2>5. CASE registered /\ built' = built \cup {t} /\ UNCHANGED <<pc, todo>>
    BY <2>2, <2>3, <2>4, <2>5 DEF LoopInv
  <2>6. CASE /\ pc' = [pc EXCEPT ![t] = "registering"] /\ todo' = [todo EXCEPT ![t] = FrozenPlans]
             /\ UNCHANGED built
    <3>1. /\ pc' \in [Threads -> {"idle", "registering", "engine"}] /\ todo' \in [Threads -> Seq(Frozen)]
          /\ \A u \in Threads \ {t} : pc'[u] = pc[u] /\ todo'[u] = todo[u]
          /\ todo'[t] = FrozenPlans
      BY <2>6, FrozenTypes DEF LoopInv
    <3>2. /\ Len(todo'[t]) <= Len(FrozenPlans)
          /\ \A k \in 1..Len(todo'[t]) : todo'[t][k] = FrozenPlans[Len(FrozenPlans) - Len(todo'[t]) + k]
          /\ 1..Len(FrozenPlans) - Len(todo'[t]) = {}
      BY <3>1, FrozenTypes
    <3>3. /\ clears' \in Nat /\ DOMAIN plans' = LiqIds \cup FrozenIds
          /\ (registered' \/ built' # {}) /\ clears' = 0 => \A i \in 1..Len(FrozenPlans) : There(i)'
      BY <2>2, <2>3, <2>6 DEF LoopInv
    <3>4. ASSUME NEW u \in Threads
          PROVE  /\ Len(todo'[u]) <= Len(FrozenPlans)
                 /\ \A k \in 1..Len(todo'[u]) : todo'[u][k] = FrozenPlans[Len(FrozenPlans) - Len(todo'[u]) + k]
                 /\ pc'[u] = "registering" /\ clears' = 0 => \A i \in 1..Len(FrozenPlans) - Len(todo'[u]) : There(i)'
      <4>1. CASE u = t
        BY <3>2, <4>1
      <4>2. CASE u # t
        <5>1. Len(todo[u]) <= Len(FrozenPlans)
          BY DEF LoopInv
        <5>2. \A k \in 1..Len(todo[u]) : todo[u][k] = FrozenPlans[Len(FrozenPlans) - Len(todo[u]) + k]
          BY DEF LoopInv
        <5>3. pc[u] = "registering" /\ clears = 0 => \A i \in 1..Len(FrozenPlans) - Len(todo[u]) : There(i)
          BY DEF LoopInv
        <5>4. pc'[u] = pc[u] /\ todo'[u] = todo[u] /\ clears' = clears
          BY <2>2, <3>1, <4>2
        <5>. QED
          BY <2>3, <2>4, <5>1, <5>2, <5>3, <5>4
      <4>. QED
        BY <4>1, <4>2
    <3>. QED
      BY <3>1, <3>3, <3>4 DEF LoopInv
  <2>. QED
    BY <2>1, <2>5, <2>6
<1>4. ASSUME NEW t \in Threads, RegisterFrozen(t)
      PROVE  LoopInv'
  <2>. DEFINE n == Len(FrozenPlans)
              m == Len(todo[t])
              here == n - m + 1
  <2>1. /\ pc[t] = "registering" /\ todo[t] # << >> /\ todo[t] \in Seq(Frozen) /\ n \in Nat /\ m \in Nat
        /\ m <= n /\ UNCHANGED <<registered, pc, built, clears>>
        /\ todo' = [todo EXCEPT ![t] = Tail(todo[t])]
    BY <1>4, FrozenTypes DEF RegisterFrozen, LoopInv
  <2>2. m > 0 /\ Head(todo[t]) = todo[t][1] /\ here \in 1..n
    BY <2>1
  <2>3. Head(todo[t]) = FrozenPlans[here]
    BY <2>1, <2>2 DEF LoopInv
  <2>4. plans' = [plans EXCEPT ![FrozenPlans[here].id] = Lower(FrozenPlans[here].stmt)]
    BY <1>4, <2>3 DEF RegisterFrozen
  <2>5. /\ plans'[FrozenPlans[here].id] = Lower(FrozenPlans[here].stmt)
        /\ \A i \in 1..n : There(i) => There(i)'
    <3>. DEFINE new == Lower(FrozenPlans[here].stmt)
    <3>1. \A i \in 1..n : FrozenPlans[i].id \in DOMAIN plans /\ (FrozenPlans[i].id = FrozenPlans[here].id => i = here)
      BY <2>2, FrozenTypes DEF LoopInv
    <3>. HIDE DEF new
    <3>2. plans' = [plans EXCEPT ![FrozenPlans[here].id] = new]
      BY <2>4 DEF new
    <3>3. plans'[FrozenPlans[here].id] = new
      BY <2>2, <3>1, <3>2
    <3>4. \A i \in 1..n : i # here => plans'[FrozenPlans[i].id] = plans[FrozenPlans[i].id]
      BY <3>1, <3>2
    <3>5. ASSUME NEW i \in 1..n, There(i)
          PROVE  There(i)'
      <4>1. CASE i = here
        BY <3>3, <4>1 DEF There, new
      <4>2. CASE i # here
        BY <3>4, <3>5, <4>2 DEF There
      <4>. QED
        BY <4>1, <4>2
    <3>. QED
      BY <3>3, <3>5 DEF new
  <2>6. /\ Tail(todo[t]) \in Seq(Frozen) /\ Len(Tail(todo[t])) = m - 1
        /\ \A k \in 1..m - 1 : Tail(todo[t])[k] = todo[t][k + 1]
    BY <2>1, <2>2
  <2>7. /\ todo' \in [Threads -> Seq(Frozen)] /\ todo'[t] = Tail(todo[t])
        /\ \A u \in Threads \ {t} : todo'[u] = todo[u]
    BY <2>1, <2>6 DEF LoopInv
  <2>8. ASSUME NEW u \in Threads
        PROVE  /\ Len(todo'[u]) <= n
               /\ \A k \in 1..Len(todo'[u]) : todo'[u][k] = FrozenPlans[n - Len(todo'[u]) + k]
               /\ pc'[u] = "registering" /\ clears' = 0 => \A i \in 1..n - Len(todo'[u]) : There(i)'
    <3>1. CASE u = t
      <4>1. \A k \in 1..m - 1 : todo'[u][k] = FrozenPlans[n - (m - 1) + k]
        <5>1. ASSUME NEW k \in 1..m - 1
              PROVE  Tail(todo[t])[k] = FrozenPlans[n - (m - 1) + k]
          <6>1. k + 1 \in 1..m /\ n - m + (k + 1) = n - (m - 1) + k
            BY <2>1
          <6>2. todo[t][k + 1] = FrozenPlans[n - m + (k + 1)]
            BY <6>1 DEF LoopInv
          <6>. QED
            BY <2>6, <6>1, <6>2
        <5>. QED
          BY <2>7, <3>1, <5>1
      <4>2. clears' = 0 => \A i \in 1..n - (m - 1) : There(i)'
        <5>1. \A i \in 1..n - (m - 1) : i = here \/ i \in 1..n - m
          BY <2>1
        <5>2. \A i \in 1..n - m : i \in 1..n
          BY <2>1
        <5>3. clears = 0 => \A i \in 1..n - m : There(i)
          BY <2>1 DEF LoopInv
        <5>4. ASSUME clears' = 0, NEW i \in 1..n - (m - 1)
              PROVE  There(i)'
          <6>1. CASE i = here
            BY <2>5, <6>1 DEF There
          <6>2. CASE i \in 1..n - m
            BY <2>1, <2>5, <5>2, <5>3, <5>4, <6>2
          <6>. QED
            BY <5>1, <6>1, <6>2
        <5>. QED
          BY <5>4
      <4>. QED
        BY <2>1, <2>6, <2>7, <3>1, <4>1, <4>2
    <3>2. CASE u # t
      <4>1. Len(todo[u]) \in Nat /\ Len(todo[u]) <= n
        BY DEF LoopInv
      <4>2. \A i \in 1..n - Len(todo[u]) : i \in 1..n
        BY <2>1, <4>1
      <4>3. pc[u] = "registering" /\ clears = 0 => \A i \in 1..n - Len(todo[u]) : There(i)
        BY DEF LoopInv
      <4>4. \A k \in 1..Len(todo[u]) : todo[u][k] = FrozenPlans[n - Len(todo[u]) + k]
        BY DEF LoopInv
      <4>. QED
        BY <2>1, <2>5, <2>7, <3>2, <4>1, <4>2, <4>3, <4>4
    <3>. QED
      BY <3>1, <3>2
  <2>9. DOMAIN plans' = DOMAIN plans
    BY <2>4
  <2>10. (registered \/ built # {}) /\ clears = 0 => \A i \in 1..n : There(i)'
    BY <2>5 DEF LoopInv
  <2>. QED
    BY <2>1, <2>7, <2>8, <2>9, <2>10 DEF LoopInv
<1>5. ASSUME NEW t \in Threads, FinishRegistration(t)
      PROVE  LoopInv'
  <2>1. /\ pc[t] = "registering" /\ todo[t] = << >> /\ pc' = [pc EXCEPT ![t] = "idle"]
        /\ UNCHANGED <<plans, todo, clears>>
    BY <1>5 DEF FinishRegistration
  <2>2. Len(todo[t]) = 0 /\ 1..Len(FrozenPlans) - Len(todo[t]) = 1..Len(FrozenPlans)
    BY <2>1, FrozenTypes
  <2>3. clears = 0 => \A i \in 1..Len(FrozenPlans) : There(i)
    BY <2>1, <2>2 DEF LoopInv
  <2>4. \A i \in 1..Len(FrozenPlans) : There(i)' <=> There(i)
    BY <2>1 DEF There
  <2>5. \A u \in Threads : \A i \in 1..Len(FrozenPlans) - Len(todo[u]) : i \in 1..Len(FrozenPlans)
    BY FrozenTypes DEF LoopInv
  <2>6. /\ pc' \in [Threads -> {"idle", "registering", "engine"}]
        /\ \A u \in Threads : pc'[u] = "registering" => pc[u] = "registering"
    BY <2>1 DEF LoopInv
  <2>. QED
    BY <2>1, <2>3, <2>4, <2>5, <2>6 DEF LoopInv
<1>6. ASSUME NEW t \in Threads, NEW id \in LiqIds \cup FrozenIds, NEW args \in Arguments, Execute(t, id, args)
      PROVE  LoopInv'
  <2>1. (pc' = pc \/ pc' = [pc EXCEPT ![t] = "engine"]) /\ UNCHANGED <<plans, registered, todo, built, clears>>
    BY <1>6 DEF Execute
  <2>. QED
    BY <2>1, LoopInvKept DEF LoopInv
<1>7. ASSUME NEW t \in Threads, ExecInsert(t) \/ ExecSelect(t) \/ ExecOther(t) \/ EngineLost(t)
      PROVE  LoopInv'
  <2>1. pc' = [pc EXCEPT ![t] = "idle"] /\ UNCHANGED <<plans, registered, todo, built, clears>>
    BY <1>7 DEF ExecInsert, ExecSelect, ExecOther, EngineLost, Return
  <2>. QED
    BY <2>1, LoopInvKept DEF LoopInv
<1>8. CASE ClearPlans
  BY <1>8 DEF ClearPlans, LoopInv
<1>. QED
  BY <1>1, <1>2, <1>3, <1>4, <1>5, <1>6, <1>7, <1>8 DEF Next

LEMMA LiqInvHolds == Spec => [](PlansInv /\ LoopInv)
BY PlansInvInit, PlansInvStays, LoopInvInit, LoopInvStays, PTL DEF Spec

(* What is stored is what the statement says, by name, in the form that a  *)
(* value has after its way into the table: the compiler's placeholders, the*)
(* order of the dict and the question marks the engine counts agree for    *)
(* every statement, however many threads register, replace and execute     *)
(* plans (_lower_insert, execute, read_params_json, exec_insert).          *)
THEOREM StoredIsAsBound == Spec => []StoredAsBound
<1>1. PlansInv => StoredAsBound
  <2>. SUFFICES ASSUME PlansInv, NEW i \in 1..Len(rows), NEW c \in DOMAIN rows[i].row,
                       BindingOf(rows[i].stmt, c).rhs.kind = "param"
                PROVE  rows[i].row[c] = Stored(rows[i].args[BindingOf(rows[i].stmt, c).rhs.name])
    BY DEF StoredAsBound
  <2>1. rows[i] \in Rows
    BY DEF PlansInv
  <2>2. PICK s \in Known, args \in Arguments : Accepted(s) /\ rows[i] = StoredBy(s, args)
    BY <2>1 DEF Rows
  <2>3. rows[i].row = RowOf(Lower(s), Bound(Lower(s), args)) /\ rows[i].stmt = s /\ rows[i].args = args
    BY <2>2 DEF StoredBy
  <2>. QED
    BY <2>2, <2>3, RowsAreAsBound
<1>. QED
  BY <1>1, LiqInvHolds, PTL

(* Until the plans are cleared, a constructed RegistryOltp has all of its  *)
(* plans, whatever other threads register and construct at the same time   *)
(* (register_registry_plans sets its flag last).                           *)
THEOREM RegistryHasItsPlans == Spec => []RegistryPlansAreThere
<1>1. LoopInv => RegistryPlansAreThere
  BY DEF LoopInv, There, RegistryPlansAreThere
<1>. QED
  BY <1>1, LiqInvHolds, PTL

-----------------------------------------------------------------------------
(* The steps of the engine.                                                *)

\* A call leaves the engine by a step of its own thread.
LEMMA EngineSteps ==
  ASSUME PlansInv, LoopInv, [Next]_vars, NEW t \in Threads, pc[t] = "engine", pc'[t] = "idle"
  PROVE  ExecInsert(t) \/ ExecSelect(t) \/ ExecOther(t) \/ EngineLost(t)
<1>1. pc \in [Threads -> {"idle", "registering", "engine"}]
  BY DEF PlansInv
<1>2. CASE UNCHANGED vars
  BY <1>2 DEF vars
<1>3. ASSUME NEW u \in Threads, NEW s, NEW id, Register(u, s, id)
      PROVE  FALSE
  BY <1>3 DEF Register
<1>4. ASSUME NEW u \in Threads, NEW force, Construct(u, force)
      PROVE  FALSE
  BY <1>1, <1>4 DEF Construct
<1>5. ASSUME NEW u \in Threads, RegisterFrozen(u)
      PROVE  FALSE
  BY <1>5 DEF RegisterFrozen
<1>6. ASSUME NEW u \in Threads, FinishRegistration(u)
      PROVE  FALSE
  BY <1>1, <1>6 DEF FinishRegistration
<1>7. ASSUME NEW u \in Threads, NEW id, NEW args, Execute(u, id, args)
      PROVE  FALSE
  <2>1. pc' = pc \/ pc' = [pc EXCEPT ![u] = "engine"]
    BY <1>7 DEF Execute
  <2>. QED
    BY <1>1, <2>1
<1>8. ASSUME NEW u \in Threads, ExecInsert(u) \/ ExecSelect(u) \/ ExecOther(u) \/ EngineLost(u)
      PROVE  u = t
  <2>1. pc' = [pc EXCEPT ![u] = "idle"]
    BY <1>8 DEF ExecInsert, ExecSelect, ExecOther, EngineLost, Return
  <2>. QED
    BY <1>1, <2>1
<1>9. CASE ClearPlans
  BY <1>9 DEF ClearPlans
<1>. QED
  BY <1>2, <1>3, <1>4, <1>5, <1>6, <1>7, <1>8, <1>9 DEF Next

\* What a call in the engine holds.
LEMMA CallInEngine ==
  ASSUME PlansInv, NEW t \in Threads, pc[t] = "engine"
  PROVE  \E s \in Known, args \in Arguments :
           /\ running[t].plan = Lower(s) /\ running[t].args = args
           /\ running[t].bound = Bound(Lower(s), args)
           /\ Lower(s).verb = s.verb /\ Lower(s).source = s /\ Lower(s).schema = Schema(s)
           /\ Lower(s).columns = s.columns
           /\ Len(Bound(Lower(s), args)) = Len(Schema(s))
<1>1. PICK s \in Known, args \in Arguments : running[t] = Call(s, args)
  BY DEF PlansInv, Calls
<1>2. /\ Lower(s).verb = s.verb /\ Lower(s).source = s /\ Lower(s).schema = Schema(s)
      /\ Lower(s).columns = s.columns
  BY DEF Lower
<1>3. Len(Bound(Lower(s), args)) = Len(Schema(s))
  BY <1>2, SchemaCounts DEF Bound
<1>. QED
  BY <1>1, <1>2, <1>3 DEF Call

LEMMA InsertStep ==
  ASSUME PlansInv, LoopInv, [Next]_vars, NEW t \in Threads,
         pc[t] = "engine", running[t].plan.verb = "insert", pc'[t] = "idle"
  PROVE  /\ result'[t].status = "failed" => Repeats(running[t].plan.source)
         /\ result'[t].status = "ok" => ~ Repeats(running[t].plan.source)
<1>1. PICK s \in Known, args \in Arguments :
        /\ running[t].plan = Lower(s) /\ running[t].bound = Bound(Lower(s), args)
        /\ Lower(s).verb = s.verb /\ Lower(s).source = s
        /\ Len(Bound(Lower(s), args)) = Len(Schema(s))
  BY CallInEngine
<1>2. DOMAIN result = Threads
  BY DEF PlansInv
<1>3. (Asked(running[t].plan, Len(running[t].plan.slots)) <= Len(running[t].bound)) <=> ~ Repeats(running[t].plan.source)
  <2>1. Accepted(s) <=> ~ Repeats(s)
    BY <1>1, AcceptedWithoutRepeats
  <2>2. Accepted(s) <=> Asked(Lower(s), Len(Lower(s).slots)) <= Len(Bound(Lower(s), args))
    BY <1>1 DEF Accepted
  <2>. QED
    BY <1>1, <2>1, <2>2
<1>4. CASE ExecInsert(t)
  <2>1. \/ ~ Repeats(running[t].plan.source) /\ Return(t, Raised("ok"))
        \/ Repeats(running[t].plan.source) /\ Return(t, Raised("failed"))
    BY <1>3, <1>4 DEF ExecInsert
  <2>2. CASE ~ Repeats(running[t].plan.source) /\ Return(t, Raised("ok"))
    BY <1>2, <2>2 DEF Return, Raised
  <2>3. CASE Repeats(running[t].plan.source) /\ Return(t, Raised("failed"))
    BY <1>2, <2>3 DEF Return, Raised
  <2>. QED
    BY <2>1, <2>2, <2>3
<1>5. CASE EngineLost(t)
  <2>1. result'[t] = Raised("lost")
    BY <1>2, <1>5 DEF EngineLost, Return
  <2>. QED
    BY <2>1 DEF Raised
<1>6. ~ ExecSelect(t) /\ ~ ExecOther(t)
  BY DEF ExecSelect, ExecOther
<1>. QED
  BY <1>4, <1>5, <1>6, EngineSteps

(* An INSERT that execute accepted is refused by the engine exactly when   *)
(* it names a parameter twice: the question marks of its text are as many  *)
(* as the keys of the dict param_schema unless a parameter repeats         *)
(* (_lower_insert, exec_insert).                                           *)
THEOREM InsertsFailExactlyOnRepeats == Spec => InsertsFailOnlyOnRepeats
<1>. DEFINE A == \A t \in Threads :
       pc[t] = "engine" /\ running[t].plan.verb = "insert" /\ pc'[t] = "idle" =>
         /\ result'[t].status = "failed" => Repeats(running[t].plan.source)
         /\ result'[t].status = "ok" => ~ Repeats(running[t].plan.source)
<1>1. PlansInv /\ LoopInv /\ [Next]_vars => [A]_vars
  BY InsertStep
<1>2. InsertsFailOnlyOnRepeats <=> [][A]_vars
  BY DEF InsertsFailOnlyOnRepeats
<1>. HIDE DEF A
<1>. QED
  BY <1>1, <1>2, LiqInvHolds, PTL DEF Spec

-----------------------------------------------------------------------------
(* What a read answers.                                                    *)

\* With no projection a row is shown as it is.
LEMMA ShownWhole ==
  ASSUME NEW plan, plan.columns = {}, NEW r \in Rows
  PROVE  Projected(r.row, plan) = r.row
<1>1. PICK s \in Known, args \in Arguments : r = StoredBy(s, args)
  BY DEF Rows
<1>2. r.row = RowOf(Lower(s), Bound(Lower(s), args))
  BY <1>1 DEF StoredBy
<1>3. RowOf(Lower(s), Bound(Lower(s), args)) =
        [d \in DOMAIN RowOf(Lower(s), Bound(Lower(s), args)) |-> RowOf(Lower(s), Bound(Lower(s), args))[d]]
  BY DEF RowOf
<1>. QED
  BY <1>2, <1>3 DEF Projected

\* A read compares with what is sent of the argument its condition names.
LEMMA ReadsCompareByName ==
  ASSUME NEW s \in Known, s.verb = "read", Len(s.where) = 1, NEW args
  PROVE  /\ Lower(s).where = <<s.where[1].column>>
         /\ Bound(Lower(s), args)[1] = Sent(args[s.where[1].rhs.name])
<1>1. s.bindings = << >> /\ s.where \in Seq(Binding) /\ IsParam(s.where[1])
  BY KnownStatements DEF IsStatement
<1>2. ValuesOf(s) = s.where
  BY <1>1 DEF ValuesOf
<1>3. Uses(s) = {1}
  BY <1>1, <1>2 DEF Uses
<1>4. ~ Repeats(s)
  BY <1>3 DEF Repeats
<1>5. Cardinality({j \in Uses(s) : j < 1}) = 0
  <2>1. {j \in Uses(s) : j < 1} = {}
    BY <1>3
  <2>. QED
    BY <2>1, FS_EmptySet
<1>6. Bound(Lower(s), args)[0 + 1] = Sent(args[NameAt(s, 1)])
  <2>1. 1 \in Uses(s)
    BY <1>3
  <2>2. Bound(Lower(s), args)[Cardinality({j \in Uses(s) : j < 1}) + 1] = Sent(args[NameAt(s, 1)])
    BY <1>4, <2>1, BoundWhereAsked
  <2>. QED
    BY <1>5, <2>2
<1>7. Lower(s).where = [i \in 1..Len(s.where) |-> s.where[i].column]
  BY DEF Lower
<1>. QED
  BY <1>1, <1>2, <1>6, <1>7 DEF NameAt

\* A row meets the condition of the source, by name.
Matches(s, args, r) ==
  s.where = << >> \/ (s.where[1].column \in DOMAIN r /\ r[s.where[1].column] = Sent(args[s.where[1].rhs.name]))

LEMMA MeetsByName ==
  ASSUME NEW s \in Known, s.verb = "read", Len(s.where) <= 1, NEW args, NEW r
  PROVE  Meets(r, Lower(s), Bound(Lower(s), args)) <=> Matches(s, args, r)
<1>1. s.where \in Seq(Binding) /\ Len(s.where) \in Nat
  <2>1. s.where \in Seq(Binding)
    BY KnownStatements DEF IsStatement
  <2>. QED
    BY <2>1
<1>2. CASE Len(s.where) = 0
  <2>1. s.where = << >>
    BY <1>1, <1>2
  <2>2. Lower(s).where = << >>
    <3>1. Lower(s).where = [i \in 1..Len(s.where) |-> s.where[i].column]
      BY DEF Lower
    <3>. QED
      BY <1>2, <3>1
  <2>. QED
    BY <2>1, <2>2 DEF Meets, Matches
<1>3. CASE Len(s.where) = 1
  <2>1. s.where # << >>
    <3>1. Len(<< >>) # 1
      OBVIOUS
    <3>. QED
      BY <1>3, <3>1
  <2>2. Lower(s).where = <<s.where[1].column>> /\ Bound(Lower(s), args)[1] = Sent(args[s.where[1].rhs.name])
    BY <1>3, ReadsCompareByName
  <2>3. Lower(s).where # << >> /\ Lower(s).where[1] = s.where[1].column
    BY <2>2
  <2>. QED
    BY <2>1, <2>2, <2>3 DEF Meets, Matches
<1>4. Len(s.where) = 0 \/ Len(s.where) = 1
  <2>. DEFINE l == Len(s.where)
  <2>1. l \in Nat /\ l <= 1
    BY <1>1
  <2>. HIDE DEF l
  <2>2. l = 0 \/ l = 1
    BY <2>1
  <2>. QED
    BY <2>2 DEF l
<1>. QED
  BY <1>2, <1>3, <1>4

LEMMA ReadStep ==
  ASSUME PlansInv, LoopInv, [Next]_vars, NEW t \in Threads,
         pc[t] = "engine", running[t].plan.verb = "read", pc'[t] = "idle",
         Len(running[t].plan.source.where) <= 1, running[t].plan.columns = {}
  PROVE  LET hits == Wanted(running[t].plan.source, running[t].args)
         IN  /\ result'[t].status = "ok" =>
                  /\ ~ GarbledAmong(hits)
                  /\ result'[t].rows = [k \in 1..Cardinality(hits) |-> AsShown(rows[Nth(hits, k)].row)]
             /\ result'[t].status = "unreadable" => GarbledAmong(hits)
<1>1. PICK s \in Known, args \in Arguments :
        /\ running[t].plan = Lower(s) /\ running[t].args = args /\ running[t].bound = Bound(Lower(s), args)
        /\ Lower(s).verb = s.verb /\ Lower(s).source = s /\ Lower(s).columns = s.columns
  BY CallInEngine
<1>. DEFINE plan == Lower(s)
            bound == Bound(Lower(s), args)
            found == {i \in 1..Len(rows) : Meets(rows[i].row, plan, bound) /\ DOMAIN Projected(rows[i].row, plan) # {}}
            hits == Wanted(s, args)
            answer == Answer(plan, bound)
<1>2. DOMAIN result = Threads
  BY DEF PlansInv
<1>3. rows \in Seq(Rows) /\ \A i \in 1..Len(rows) : rows[i] \in Rows
  BY DEF PlansInv
<1>4. \A i \in 1..Len(rows) : Projected(rows[i].row, plan) = rows[i].row
  BY <1>1, <1>3, ShownWhole
<1>5. \A i \in 1..Len(rows) : Meets(rows[i].row, plan, bound) <=> Matches(s, args, rows[i].row)
  BY <1>1, MeetsByName
<1>6. found = hits
  BY <1>4, <1>5 DEF Wanted, Matches
<1>7. hits \in SUBSET (1..Len(rows)) /\ Len(rows) \in Nat
  BY <1>3 DEF Wanted
<1>8. /\ \A k \in 1..Cardinality(hits) : Nth(hits, k) \in hits
      /\ \A i \in hits : \E k \in 1..Cardinality(hits) : Nth(hits, k) = i
  <2>. HIDE DEF hits
  <2>1. \A k \in 1..Cardinality(hits) : Nth(hits, k) \in hits
    BY <1>7, NthIsThere
  <2>2. \A i \in hits : \E k \in 1..Cardinality(hits) : Nth(hits, k) = i
    BY <1>7, PlaceOf
  <2>. QED
    BY <2>1, <2>2
<1>9. answer = [k \in 1..Cardinality(hits) |-> rows[Nth(hits, k)].row]
  <2>1. answer = [k \in 1..Cardinality(found) |-> Projected(rows[Nth(found, k)].row, plan)]
    BY DEF Answer
  <2>. HIDE DEF plan, bound, found, hits, answer
  <2>. QED
    BY <1>4, <1>6, <1>7, <1>8, <2>1
<1>10. Unreadable(answer) <=> GarbledAmong(hits)
  <2>. HIDE DEF plan, bound, found, hits, answer
  <2>1. DOMAIN answer = 1..Cardinality(hits)
        /\ \A k \in DOMAIN answer : answer[k] = rows[Nth(hits, k)].row
    BY <1>9
  <2>. QED
    BY <1>8, <2>1 DEF Unreadable, GarbledAmong
<1>11. running[t].plan.source = s /\ running[t].args = args
  BY <1>1
<1>12. CASE EngineLost(t)
  <2>1. result'[t] = Raised("lost")
    BY <1>2, <1>12 DEF EngineLost, Return
  <2>. QED
    BY <2>1 DEF Raised
<1>13. CASE ExecSelect(t)
  <2>1. result'[t] = IF Unreadable(answer) THEN Raised("unreadable")
                     ELSE [status |-> "ok", rows |-> [k \in DOMAIN answer |-> AsShown(answer[k])]]
    BY <1>1, <1>2, <1>13 DEF ExecSelect, Return
  <2>. HIDE DEF plan, bound, found, hits, answer
  <2>2. CASE Unreadable(answer)
    <3>1. result'[t].status = "unreadable"
      BY <2>1, <2>2 DEF Raised
    <3>. QED
      BY <1>10, <1>11, <2>2, <3>1 DEF hits
  <2>3. CASE ~ Unreadable(answer)
    <3>1. result'[t].status = "ok" /\ result'[t].rows = [k \in DOMAIN answer |-> AsShown(answer[k])]
      BY <2>1, <2>3
    <3>2. [k \in DOMAIN answer |-> AsShown(answer[k])] =
            [k \in 1..Cardinality(hits) |-> AsShown(rows[Nth(hits, k)].row)]
      BY <1>9
    <3>. QED
      BY <1>10, <1>11, <2>3, <3>1, <3>2 DEF hits
  <2>. QED
    BY <2>2, <2>3
<1>14. ~ ExecInsert(t) /\ ~ ExecOther(t)
  BY DEF ExecInsert, ExecOther
<1>. QED
  BY <1>12, <1>13, <1>14, EngineSteps

(* A read of all columns with at most one condition returns the rows with  *)
(* what is sent of the argument its condition names, each as it reads, or  *)
(* raises for a garbled one: the value bound first is the one of the only  *)
(* parameter (_lower_read, _ordered_params, exec_select, exec_result_json).*)
THEOREM ReadsAnswerByName == Spec => ReadsAnswerTheirWhere
<1>. DEFINE A == \A t \in Threads :
       /\ pc[t] = "engine" /\ running[t].plan.verb = "read" /\ pc'[t] = "idle"
       /\ Len(running[t].plan.source.where) <= 1 /\ running[t].plan.columns = {}
       => LET hits == Wanted(running[t].plan.source, running[t].args)
          IN  /\ result'[t].status = "ok" =>
                   /\ ~ GarbledAmong(hits)
                   /\ result'[t].rows = [k \in 1..Cardinality(hits) |-> AsShown(rows[Nth(hits, k)].row)]
              /\ result'[t].status = "unreadable" => GarbledAmong(hits)
<1>1. PlansInv /\ LoopInv /\ [Next]_vars => [A]_vars
  BY ReadStep
<1>2. ReadsAnswerTheirWhere <=> [][A]_vars
  BY DEF ReadsAnswerTheirWhere
<1>. HIDE DEF A
<1>. QED
  BY <1>1, <1>2, LiqInvHolds, PTL DEF Spec

=============================================================================

--------------------------- MODULE AuditLogProofs ---------------------------
(***************************************************************************)
(* What TLAPS proves of the audit log, for any threads, profiles, grants   *)
(* and events, and any number of appends, checks and changed payloads.     *)
(*                                                                         *)
(* Two arguments: an entry keeps the hash it was built with, and the hash  *)
(* holds what it was built from, so a check that accepts an entry has seen *)
(* the payload it was built with; and two chains with the same last hash   *)
(* agree at every place, by the last place where they would not.           *)
(***************************************************************************)
EXTENDS AuditLog, FiniteSetTheorems, WellFoundedInduction, TLAPS

-----------------------------------------------------------------------------
(* The invariant.                                                          *)

\* Hashes nest without bound: they come from some set, as payloads do.
Entry(any) == [seq : Nat, payload : any, made : any, prev : any, hash : any]
Local(any) == [seq : Nat, prev : any, payload : any, chain : Seq(Nat)]
Types ==
  /\ \E any : objects \in Seq(Entry(any)) /\ local \in [Threads -> Local(any)]
  /\ entries \in Seq(Nat)
  /\ pc \in [Threads -> {"idle", "last", "build", "store", "checking"}]
  /\ clean \in [Threads -> BOOLEAN]
  /\ verdict \in [Threads -> {"none", "true", "false", "raised"}]

\* An entry that was built: its hash covers what it was built with.
Built ==
  \A k \in 1..Len(objects) :
    /\ objects[k].made \notin Refused
    /\ objects[k].hash = Hash(objects[k].seq, objects[k].made, objects[k].prev)

\* The log, and the tuples that threads hold, consist of entries that were built.
Places ==
  /\ \A i \in 1..Len(entries) : entries[i] \in 1..Len(objects)
  /\ \A t \in Threads : \A i \in 1..Len(local[t].chain) : local[t].chain[i] \in 1..Len(objects)
  /\ \A t \in Threads : pc[t] = "store" => local[t].chain # << >>
  /\ returned \subseteq 1..Len(objects)

\* What a check has accepted, and what it answered.
CheckedBy(t) ==
  /\ pc[t] # "idle" => verdict[t] = "none"
  /\ clean[t] /\ pc[t] = "checking" =>
       \A i \in 1..local[t].seq : i <= Len(local[t].chain) =>
         objects[local[t].chain[i]].payload = objects[local[t].chain[i]].made
  /\ clean[t] /\ pc[t] = "idle" /\ verdict[t] = "true" => Intact(local[t].chain)
Checked == \A t \in Threads : CheckedBy(t)

AuditInv == Types /\ Built /\ Places /\ Checked

\* What a call of append has read, before and after it built the entry.
HasRead(t) ==
  /\ pc[t] \in {"last", "build"} => local[t].seq = Len(entries)
  /\ pc[t] = "build" => local[t].prev = IF entries = << >> THEN Genesis ELSE objects[Last(entries)].hash
  /\ pc[t] = "store" =>
       /\ Len(local[t].chain) = Len(entries) + 1
       /\ \A i \in 1..Len(entries) : local[t].chain[i] = entries[i]
       /\ Last(local[t].chain) \notin returned

\* While calls of append have not overlapped: one of them at most is in progress, and the
\* log, like every tuple it ever was, is numbered and chained.
Unmixed ==
  /\ \A t, u \in Threads : pc[t] \notin {"idle", "checking"} /\ pc[u] \notin {"idle", "checking"} => t = u
  /\ \A i \in 1..Len(entries) : Linked(entries, i)
  /\ \A t \in Threads : \A i \in 1..Len(local[t].chain) : Linked(local[t].chain, i)
  /\ \A t \in Threads : HasRead(t)
Kept ==
  /\ \A k \in returned : objects[k].seq < Len(entries) /\ entries[objects[k].seq + 1] = k
  /\ \A i \in 1..Len(entries) : entries[i] \in returned
  /\ IsFiniteSet(returned) /\ Cardinality(returned) = Len(entries)
Answered ==
  \A t \in Threads : pc[t] = "idle" /\ clean[t] /\ verdict[t] \in {"false", "raised"} => ~ Intact(local[t].chain)
AloneInv == alone => Unmixed /\ Kept /\ Answered

\* The hashes of a chain that had these payloads and ended with this hash.
Hashes(hs, payloads, n) ==
  /\ payloads = [i \in 1..n |-> payloads[i]]
  /\ \A i \in 1..n : hs[i] = Hash(i - 1, payloads[i], IF i = 1 THEN Genesis ELSE hs[i - 1])
Anchored ==
  anchor # NoAnchor =>
    \E n \in Nat \ {0} : \E hs : Hashes(hs, anchor.payloads, n) /\ anchor.hash = hs[n]

-----------------------------------------------------------------------------
(* Facts about numbers and sequences.                                      *)

\* A set of numbers has a least one.
LEMMA LeastNumber ==
  ASSUME NEW numbers, numbers \subseteq Nat, numbers # {}
  PROVE  \E i \in numbers : \A j \in numbers : i <= j
<1>1. IsWellFoundedOn(OpToRel(<, Nat), Nat)
  BY NatLessThanWellFounded
<1>2. PICK i \in numbers : \A j \in numbers : ~ (<<j, i>> \in OpToRel(<, Nat))
  BY <1>1, WFMin
<1>3. \A j \in numbers : ~ (j < i)
  BY <1>2 DEF OpToRel
<1>. QED
  BY <1>3

LEMMA Places1 ==
  ASSUME NEW S, NEW s \in Seq(S)
  PROVE  Len(s) \in Nat /\ (\A k \in 1..Len(s) : s[k] \in S) /\ (s # << >> => Len(s) \in 1..Len(s) /\ Last(s) = s[Len(s)])
BY DEF Last

LEMMA Appended ==
  ASSUME NEW S, NEW s \in Seq(S), NEW e \in S
  PROVE  /\ Append(s, e) \in Seq(S) /\ Len(Append(s, e)) = Len(s) + 1
         /\ \A k \in 1..Len(s) : Append(s, e)[k] = s[k]
         /\ Append(s, e)[Len(s) + 1] = e /\ Last(Append(s, e)) = e
BY DEF Last

LEMMA WiderTypes ==
  ASSUME NEW any, NEW more, any \subseteq more, objects \in Seq(Entry(any)), local \in [Threads -> Local(any)]
  PROVE  objects \in Seq(Entry(more)) /\ local \in [Threads -> Local(more)]
<1>1. \A x \in Entry(any) : x \in Entry(more)
  BY DEF Entry
<1>2. \A x \in Local(any) : x \in Local(more)
  BY DEF Local
<1>. HIDE DEF Entry, Local
<1>3. local \in [Threads -> Local(more)]
  BY <1>2
<1>. DEFINE had == Entry(any)
            has == Entry(more)
<1>4. objects \in Seq(had) /\ \A x \in had : x \in has
  BY <1>1
<1>. HIDE DEF had, has
<1>5. objects \in Seq(has)
  BY <1>4
<1>. QED
  BY <1>3, <1>5 DEF has

-----------------------------------------------------------------------------
(* What the steps do.                                                      *)

\* An entry of the log, and what a thread works on.
LEMMA FieldTypes ==
  ASSUME Types
  PROVE  /\ Len(objects) \in Nat /\ \A k \in 1..Len(objects) : objects[k].seq \in Nat
         /\ Len(entries) \in Nat /\ \A i \in 1..Len(entries) : entries[i] \in Nat
         /\ \A t \in Threads :
              /\ local[t].seq \in Nat /\ local[t].chain \in Seq(Nat) /\ Len(local[t].chain) \in Nat
              /\ \A i \in 1..Len(local[t].chain) : local[t].chain[i] \in Nat
<1>1. PICK any : objects \in Seq(Entry(any)) /\ local \in [Threads -> Local(any)]
  BY DEF Types
<1>2. Len(objects) \in Nat /\ \A k \in 1..Len(objects) : objects[k] \in Entry(any)
  BY <1>1, Places1
<1>3. \A t \in Threads : local[t] \in Local(any)
  BY <1>1
<1>4. \A t \in Threads : local[t].seq \in Nat /\ local[t].chain \in Seq(Nat)
  BY <1>3 DEF Local
<1>5. \A k \in 1..Len(objects) : objects[k].seq \in Nat
  BY <1>2 DEF Entry
<1>. QED
  BY <1>2, <1>4, <1>5, Places1 DEF Types

LEMMA BuildDoes ==
  ASSUME Types, NEW t \in Threads, Build(t)
  PROVE  /\ pc[t] = "build" /\ pc'[t] = "store" /\ \A u \in Threads \ {t} : pc'[u] = pc[u] /\ local'[u] = local[u]
         /\ local[t].payload \notin Refused
         /\ Len(objects') = Len(objects) + 1
         /\ \A k \in 1..Len(objects) : objects'[k] = objects[k]
         /\ objects'[Len(objects) + 1] =
              [seq |-> local[t].seq, payload |-> local[t].payload, made |-> local[t].payload,
               prev |-> local[t].prev, hash |-> Hash(local[t].seq, local[t].payload, local[t].prev)]
         /\ local'[t].seq = local[t].seq /\ local'[t].chain = Append(entries, Len(objects) + 1)
         /\ \E any : objects' \in Seq(Entry(any)) /\ local' \in [Threads -> Local(any)]
         /\ UNCHANGED <<entries, appends, changes, checks, alone, returned, clean, verdict, anchor>>
<1>1. PICK any : objects \in Seq(Entry(any)) /\ local \in [Threads -> Local(any)]
  BY DEF Types
<1>. DEFINE hash == Hash(local[t].seq, local[t].payload, local[t].prev)
            more == any \cup {hash}
            new == [seq |-> local[t].seq, payload |-> local[t].payload, made |-> local[t].payload,
                    prev |-> local[t].prev, hash |-> hash]
<1>2. objects \in Seq(Entry(more)) /\ local \in [Threads -> Local(more)]
  BY <1>1, WiderTypes
<1>3. new \in Entry(more)
  <2>1. local[t] \in Local(any)
    BY <1>1
  <2>2. local[t].seq \in Nat /\ local[t].payload \in any /\ local[t].prev \in any
    BY <2>1 DEF Local
  <2>. HIDE DEF hash
  <2>. QED
    BY <2>2 DEF Entry
<1>4. /\ objects' = Append(objects, new) /\ pc[t] = "build" /\ pc' = [pc EXCEPT ![t] = "store"]
      /\ local' = [local EXCEPT ![t].chain = Append(entries, Len(objects) + 1)]
      /\ local[t].payload \notin Refused
      /\ UNCHANGED <<entries, appends, changes, checks, alone, returned, clean, verdict, anchor>>
  BY DEF Build, Goto
<1>5. new.seq = local[t].seq
  OBVIOUS
<1>. HIDE DEF new, more
<1>6. /\ Len(objects') = Len(objects) + 1 /\ objects'[Len(objects) + 1] = new
      /\ \A k \in 1..Len(objects) : objects'[k] = objects[k]
      /\ objects' \in Seq(Entry(more))
  BY <1>2, <1>3, <1>4, Appended
<1>7. Append(entries, Len(objects) + 1) \in Seq(Nat)
  BY FieldTypes, Appended DEF Types
<1>8. /\ local'[t].seq = local[t].seq /\ local'[t].chain = Append(entries, Len(objects) + 1)
      /\ \A u \in Threads \ {t} : local'[u] = local[u]
      /\ local' \in [Threads -> Local(more)]
  BY <1>2, <1>4, <1>7 DEF Local
<1>9. pc'[t] = "store" /\ \A u \in Threads \ {t} : pc'[u] = pc[u]
  BY <1>4 DEF Types
<1>. QED
  BY <1>4, <1>6, <1>8, <1>9 DEF new

LEMMA ChangeDoes ==
  ASSUME Types, NEW k \in 1..Len(objects), NEW payload, Change(k, payload)
  PROVE  /\ Len(objects') = Len(objects)
         /\ \A j \in 1..Len(objects) :
              /\ objects'[j].seq = objects[j].seq /\ objects'[j].made = objects[j].made
              /\ objects'[j].prev = objects[j].prev /\ objects'[j].hash = objects[j].hash
         /\ \A t \in Threads : ~ clean'[t]
         /\ \E any : objects' \in Seq(Entry(any)) /\ local' \in [Threads -> Local(any)]
         /\ UNCHANGED <<entries, pc, local, appends, checks, alone, returned, verdict, anchor>>
<1>1. PICK any : objects \in Seq(Entry(any)) /\ local \in [Threads -> Local(any)]
  BY DEF Types
<1>. DEFINE more == any \cup {payload}
            new == [objects[k] EXCEPT !.payload = payload]
<1>2. objects \in Seq(Entry(more)) /\ local \in [Threads -> Local(more)]
  BY <1>1, WiderTypes
<1>3. objects[k] \in Entry(more)
  BY <1>2, Places1
<1>4. /\ new \in Entry(more) /\ new.seq = objects[k].seq /\ new.made = objects[k].made
      /\ new.prev = objects[k].prev /\ new.hash = objects[k].hash
  BY <1>3 DEF Entry
<1>5. /\ objects' = [objects EXCEPT ![k] = new] /\ clean' = [t \in Threads |-> FALSE]
      /\ UNCHANGED <<entries, pc, local, appends, checks, alone, returned, verdict, anchor>>
  BY DEF Change
<1>. HIDE DEF new, more
<1>6. /\ objects' \in Seq(Entry(more)) /\ Len(objects') = Len(objects)
      /\ objects'[k] = new /\ \A j \in 1..Len(objects) : j # k => objects'[j] = objects[j]
  BY <1>2, <1>4, <1>5
<1>. QED
  BY <1>2, <1>4, <1>5, <1>6

\* Steps of a thread that neither build nor store: each changes what that thread works on.
Quiet(t) ==
  /\ \A u \in Threads \ {t} : /\ pc'[u] = pc[u] /\ local'[u] = local[u]
                              /\ clean'[u] = clean[u] /\ verdict'[u] = verdict[u]
  /\ UNCHANGED <<objects, entries, returned, anchor>>
LEMMA QuietSteps ==
  ASSUME Types, Places, NEW t \in Threads
  PROVE  /\ \A payload : StartAppend(t, payload) =>
              /\ Quiet(t) /\ pc[t] = "idle" /\ pc'[t] = "last"
              /\ local'[t].seq = Len(entries) /\ local'[t].chain = << >> /\ verdict'[t] = "none" /\ clean' = clean
              /\ alone' = (alone /\ \A o \in Threads : pc[o] \in {"idle", "checking"})
         /\ ReadLast(t) =>
              /\ Quiet(t) /\ pc[t] = "last" /\ pc'[t] = "build"
              /\ local'[t].seq = local[t].seq /\ local'[t].chain = local[t].chain
              /\ local'[t].prev = IF entries = << >> THEN Genesis ELSE objects[Last(entries)].hash
              /\ UNCHANGED <<verdict, clean, alone>>
         /\ AppendRaises(t) =>
              /\ Quiet(t) /\ pc[t] = "build" /\ pc'[t] = "idle" /\ local'[t].seq = 0 /\ local'[t].chain = << >>
              /\ UNCHANGED <<verdict, clean, alone>>
         /\ Check(t) =>
              /\ Quiet(t) /\ pc[t] = "idle" /\ pc'[t] = "checking"
              /\ local'[t].seq = 0 /\ local'[t].chain = entries /\ verdict'[t] = "none" /\ alone' = alone
<1>1. \A u \in Threads : \A there : pc' = [pc EXCEPT ![t] = there] => pc'[u] = IF u = t THEN there ELSE pc[u]
    BY DEF Types
<1>2. \A u \in Threads : \A x : local' = [local EXCEPT ![t] = x] => local'[u] = IF u = t THEN x ELSE local[u]
    BY DEF Types
<1>3. \A u \in Threads : \A v : verdict' = [verdict EXCEPT ![t] = v] => verdict'[u] = IF u = t THEN v ELSE verdict[u]
    BY DEF Types
<1>4. \A u \in Threads : \A v : clean' = [clean EXCEPT ![t] = v] => clean'[u] = IF u = t THEN v ELSE clean[u]
    BY DEF Types
<1>5. ASSUME NEW payload, StartAppend(t, payload)
        PROVE  /\ Quiet(t) /\ pc[t] = "idle" /\ pc'[t] = "last"
               /\ local'[t].seq = Len(entries) /\ local'[t].chain = << >> /\ verdict'[t] = "none" /\ clean' = clean
               /\ alone' = (alone /\ \A o \in Threads : pc[o] \in {"idle", "checking"})
    <2>. DEFINE x == [Nothing EXCEPT !.seq = Len(entries), !.payload = payload]
    <2>1. x.seq = Len(entries) /\ x.chain = << >>
      BY DEF Nothing
    <2>2. /\ pc[t] = "idle" /\ pc' = [pc EXCEPT ![t] = "last"] /\ local' = [local EXCEPT ![t] = x]
          /\ verdict' = [verdict EXCEPT ![t] = "none"]
          /\ alone' = (alone /\ \A o \in Threads : pc[o] \in {"idle", "checking"})
          /\ UNCHANGED <<objects, entries, returned, anchor, clean>>
      BY <1>5 DEF StartAppend, Goto
    <2>. HIDE DEF x
    <2>. QED
      BY <1>1, <1>2, <1>3, <2>1, <2>2 DEF Quiet
<1>6. ASSUME ReadLast(t)
        PROVE  /\ Quiet(t) /\ pc[t] = "last" /\ pc'[t] = "build"
               /\ local'[t].seq = local[t].seq /\ local'[t].chain = local[t].chain
               /\ local'[t].prev = IF entries = << >> THEN Genesis ELSE objects[Last(entries)].hash
               /\ UNCHANGED <<verdict, clean, alone>>
    <2>. DEFINE hash == IF entries = << >> THEN Genesis ELSE objects[Last(entries)].hash
    <2>1. PICK any : local \in [Threads -> Local(any)]
      BY DEF Types
    <2>2. /\ pc[t] = "last" /\ pc' = [pc EXCEPT ![t] = "build"] /\ local' = [local EXCEPT ![t].prev = hash]
          /\ UNCHANGED <<objects, entries, returned, anchor, verdict, clean, alone>>
      BY <1>6 DEF ReadLast, Goto
    <2>. HIDE DEF hash
    <2>3. /\ local'[t].seq = local[t].seq /\ local'[t].chain = local[t].chain /\ local'[t].prev = hash
          /\ \A u \in Threads \ {t} : local'[u] = local[u]
      BY <2>1, <2>2 DEF Local
    <2>. QED
      BY <1>1, <2>2, <2>3 DEF Quiet, hash
<1>7. ASSUME AppendRaises(t)
        PROVE  /\ Quiet(t) /\ pc[t] = "build" /\ pc'[t] = "idle" /\ local'[t].seq = 0 /\ local'[t].chain = << >>
               /\ UNCHANGED <<verdict, clean, alone>>
    <2>1. Nothing.seq = 0 /\ Nothing.chain = << >>
      BY DEF Nothing
    <2>. QED
      BY <1>1, <1>2, <1>7, <2>1 DEF Quiet, AppendRaises, Goto
<1>8. ASSUME Check(t)
        PROVE  /\ Quiet(t) /\ pc[t] = "idle" /\ pc'[t] = "checking"
               /\ local'[t].seq = 0 /\ local'[t].chain = entries /\ verdict'[t] = "none" /\ alone' = alone
    <2>. DEFINE x == [Nothing EXCEPT !.chain = entries]
    <2>1. x.seq = 0 /\ x.chain = entries
      BY DEF Nothing
    <2>2. /\ pc[t] = "idle" /\ pc' = [pc EXCEPT ![t] = "checking"] /\ local' = [local EXCEPT ![t] = x]
          /\ verdict' = [verdict EXCEPT ![t] = "none"] /\ clean' = [clean EXCEPT ![t] = TRUE]
          /\ UNCHANGED <<objects, entries, returned, anchor, alone>>
      BY <1>8 DEF Check, Goto
    <2>. HIDE DEF x
    <2>3. \A u \in Threads : pc'[u] = IF u = t THEN "checking" ELSE pc[u]
      BY <1>1, <2>2
    <2>4. \A u \in Threads : local'[u] = IF u = t THEN x ELSE local[u]
      BY <1>2, <2>2
    <2>5. \A u \in Threads : verdict'[u] = IF u = t THEN "none" ELSE verdict[u]
      BY <1>3, <2>2
    <2>6. \A u \in Threads \ {t} : clean'[u] = clean[u]
      BY <2>2 DEF Types
    <2>. QED
      BY <2>1, <2>2, <2>3, <2>4, <2>5, <2>6 DEF Quiet
<1>. QED
    BY <1>5, <1>6, <1>7, <1>8

LEMMA StoreDoes ==
  ASSUME Types, NEW t \in Threads, Store(t)
  PROVE  /\ pc[t] = "store" /\ pc'[t] = "idle" /\ local'[t].seq = 0 /\ local'[t].chain = << >>
         /\ \A u \in Threads \ {t} : pc'[u] = pc[u] /\ local'[u] = local[u]
         /\ entries' = local[t].chain /\ returned' = returned \cup {Last(local[t].chain)}
         /\ UNCHANGED <<objects, alone, clean, verdict, anchor>>
<1>1. Nothing.seq = 0 /\ Nothing.chain = << >>
  BY DEF Nothing
<1>. QED
  BY <1>1 DEF Store, Goto, Types

LEMMA CheckDoes ==
  ASSUME Types, NEW t \in Threads, CheckEntry(t) \/ CheckRaises(t)
  PROVE  /\ Quiet(t) /\ pc[t] = "checking" /\ UNCHANGED <<clean, alone>>
         /\ local'[t].chain = local[t].chain
         /\ \/ /\ local[t].seq + 1 > Len(local[t].chain)
               /\ pc'[t] = "idle" /\ verdict'[t] = "true" /\ local' = local
            \/ /\ local[t].seq + 1 <= Len(local[t].chain) /\ ~ Accepts(local[t].chain, local[t].seq + 1)
               /\ pc'[t] = "idle" /\ verdict'[t] = "false" /\ local' = local
            \/ /\ local[t].seq + 1 <= Len(local[t].chain) /\ Accepts(local[t].chain, local[t].seq + 1)
               /\ pc'[t] = "checking" /\ verdict' = verdict /\ local'[t].seq = local[t].seq + 1
            \/ /\ Raises(local[t].chain, local[t].seq + 1)
               /\ pc'[t] = "idle" /\ verdict'[t] = "raised" /\ local' = local
<1>. DEFINE chain == local[t].chain
            i == local[t].seq + 1
<1>1. /\ pc[t] = "checking" /\ i \in Nat /\ Len(chain) \in Nat
      /\ UNCHANGED <<objects, entries, returned, anchor, clean, alone>>
  BY FieldTypes DEF CheckEntry, CheckRaises
<1>2. ASSUME NEW answer, Done(t, answer)
      PROVE  /\ pc'[t] = "idle" /\ verdict'[t] = answer /\ local' = local
             /\ \A u \in Threads \ {t} : pc'[u] = pc[u] /\ verdict'[u] = verdict[u]
  BY <1>2 DEF Done, Goto, Types
<1>3. ASSUME local' = [local EXCEPT ![t].seq = i]
      PROVE  /\ local'[t].seq = i /\ local'[t].chain = chain
             /\ \A u \in Threads \ {t} : local'[u] = local[u]
  <2>1. PICK any : local \in [Threads -> Local(any)]
    BY DEF Types
  <2>. QED
    BY <1>1, <1>3, <2>1 DEF Local
<1>. HIDE DEF i, chain
<1>4. CASE CheckRaises(t)
  <2>1. Raises(chain, i) /\ Done(t, "raised")
    BY <1>4 DEF CheckRaises, i, chain
  <2>. QED
    BY <1>1, <1>2, <2>1 DEF Quiet, i, chain
<1>5. CASE CheckEntry(t)
  <2>1. IF i > Len(chain) THEN Done(t, "true")
        ELSE IF ~ Accepts(chain, i) THEN Done(t, "false")
        ELSE local' = [local EXCEPT ![t].seq = i] /\ UNCHANGED <<pc, verdict>>
    BY <1>5 DEF CheckEntry, i, chain
  <2>2. CASE i > Len(chain)
    <3>1. Done(t, "true")
      BY <2>1, <2>2
    <3>. QED
      BY <1>1, <1>2, <2>2, <3>1 DEF Quiet, i, chain
  <2>3. CASE i <= Len(chain) /\ ~ Accepts(chain, i)
    <3>1. Done(t, "false")
      BY <1>1, <2>1, <2>3
    <3>. QED
      BY <1>1, <1>2, <2>3, <3>1 DEF Quiet, i, chain
  <2>4. CASE i <= Len(chain) /\ Accepts(chain, i)
    <3>1. local' = [local EXCEPT ![t].seq = i] /\ UNCHANGED <<pc, verdict>>
      BY <1>1, <2>1, <2>4
    <3>. QED
      BY <1>1, <1>3, <2>4, <3>1 DEF Quiet, i, chain
  <2>. QED
    BY <1>1, <2>2, <2>3, <2>4
<1>. QED
  BY <1>4, <1>5

-----------------------------------------------------------------------------
(* Types, and what holds of every entry.                                   *)

LEMMA TypesInit == Init => Types
<1>. SUFFICES ASSUME Init PROVE Types
  OBVIOUS
<1>1. Nothing \in Local({<< >>})
  BY DEF Nothing, Local, Genesis
<1>2. objects \in Seq(Entry({<< >>})) /\ local \in [Threads -> Local({<< >>})]
  BY <1>1 DEF Init
<1>3. \E any : objects \in Seq(Entry(any)) /\ local \in [Threads -> Local(any)]
  BY <1>2
<1>. QED
  BY <1>3 DEF Init, Types

LEMMA TypesStay ==
  ASSUME Types, Places, [Next]_vars
  PROVE  Types'
<1>. DEFINE Typed == \E any : objects \in Seq(Entry(any)) /\ local \in [Threads -> Local(any)]
<1>1. PICK any : objects \in Seq(Entry(any)) /\ local \in [Threads -> Local(any)]
  BY DEF Types
<1>2. /\ entries \in Seq(Nat) /\ pc \in [Threads -> {"idle", "last", "build", "store", "checking"}]
      /\ clean \in [Threads -> BOOLEAN] /\ verdict \in [Threads -> {"none", "true", "false", "raised"}]
  BY DEF Types
<1>3. ASSUME UNCHANGED objects, NEW more, NEW t \in Threads, NEW x \in Local(any \cup more), local' = [local EXCEPT ![t] = x]
      PROVE  Typed'
  <2>1. objects \in Seq(Entry(any \cup more)) /\ local \in [Threads -> Local(any \cup more)]
    BY <1>1, WiderTypes
  <2>2. local' \in [Threads -> Local(any \cup more)]
    BY <1>3, <2>1
  <2>. QED
    BY <1>3, <2>1, <2>2
<1>4. Nothing \in Local(any \cup {Genesis})
  BY DEF Nothing, Local, Genesis
<1>. HIDE DEF Typed
<1>5. CASE UNCHANGED vars
  BY <1>5 DEF vars, Types
<1>6. ASSUME NEW t \in Threads, NEW payload, StartAppend(t, payload)
      PROVE  Types'
  <2>. DEFINE x == [Nothing EXCEPT !.seq = Len(entries), !.payload = payload]
  <2>1. x \in Local(any \cup {Genesis, payload})
    <3>1. Nothing \in Local(any \cup {Genesis, payload})
      BY DEF Nothing, Local, Genesis
    <3>2. Len(entries) \in Nat
      BY FieldTypes
    <3>. QED
      BY <3>1, <3>2 DEF Local
  <2>2. /\ local' = [local EXCEPT ![t] = x] /\ pc' = [pc EXCEPT ![t] = "last"]
        /\ verdict' = [verdict EXCEPT ![t] = "none"] /\ UNCHANGED <<objects, entries, clean>>
    BY <1>6 DEF StartAppend, Goto
  <2>. HIDE DEF x
  <2>3. Typed'
    BY <1>3, <2>1, <2>2
  <2>. QED
    BY <1>2, <2>2, <2>3 DEF Typed, Types
<1>7. ASSUME NEW t \in Threads, ReadLast(t)
      PROVE  Types'
  <2>. DEFINE hash == IF entries = << >> THEN Genesis ELSE objects[Last(entries)].hash
              x == [local[t] EXCEPT !.prev = hash]
  <2>1. hash \in any \cup {Genesis}
    <3>1. \A k \in 1..Len(objects) : objects[k] \in Entry(any)
      BY <1>1, Places1
    <3>2. \A k \in 1..Len(objects) : objects[k].hash \in any
      BY <3>1 DEF Entry
    <3>3. entries # << >> => Last(entries) \in 1..Len(objects)
      BY <1>2, Places1 DEF Places
    <3>. QED
      BY <3>2, <3>3
  <2>2. /\ local' = [local EXCEPT ![t].prev = hash] /\ pc' = [pc EXCEPT ![t] = "build"]
        /\ UNCHANGED <<objects, entries, clean, verdict>>
    BY <1>7 DEF ReadLast, Goto
  <2>. HIDE DEF hash
  <2>3. x \in Local(any \cup {Genesis}) /\ local' = [local EXCEPT ![t] = x]
    BY <1>1, <2>1, <2>2 DEF Local
  <2>. HIDE DEF x
  <2>4. Typed'
    BY <1>3, <2>2, <2>3
  <2>. QED
    BY <1>2, <2>2, <2>4 DEF Typed, Types
<1>8. ASSUME NEW t \in Threads, AppendRaises(t) \/ Store(t)
      PROVE  Types'
  <2>1. /\ local' = [local EXCEPT ![t] = Nothing] /\ pc' = [pc EXCEPT ![t] = "idle"]
        /\ UNCHANGED <<objects, clean, verdict>> /\ (entries' = entries \/ entries' = local[t].chain)
    BY <1>8 DEF AppendRaises, Store, Goto
  <2>2. Typed'
    BY <1>3, <1>4, <2>1
  <2>3. local[t].chain \in Seq(Nat)
    BY FieldTypes
  <2>. QED
    BY <1>2, <2>1, <2>2, <2>3 DEF Typed, Types
<1>9. ASSUME NEW t \in Threads, Build(t)
      PROVE  Types'
  <2>1. Typed' /\ UNCHANGED <<entries, clean, verdict>>
    BY <1>9, BuildDoes DEF Typed
  <2>2. pc' = [pc EXCEPT ![t] = "store"]
    BY <1>9 DEF Build, Goto
  <2>. QED
    BY <1>2, <2>1, <2>2 DEF Typed, Types
<1>10. ASSUME NEW k \in 1..Len(objects), NEW payload, Change(k, payload)
       PROVE  Types'
  <2>1. Typed' /\ UNCHANGED <<entries, pc, verdict>>
    BY <1>10, ChangeDoes DEF Typed
  <2>2. clean' \in [Threads -> BOOLEAN]
    BY <1>10 DEF Change
  <2>. QED
    BY <1>2, <2>1, <2>2 DEF Typed, Types
<1>11. ASSUME NEW t \in Threads, Check(t)
       PROVE  Types'
  <2>. DEFINE x == [Nothing EXCEPT !.chain = entries]
  <2>1. x \in Local(any \cup {Genesis})
    BY <1>2 DEF Nothing, Local, Genesis
  <2>2. /\ local' = [local EXCEPT ![t] = x] /\ pc' = [pc EXCEPT ![t] = "checking"]
        /\ verdict' = [verdict EXCEPT ![t] = "none"] /\ clean' = [clean EXCEPT ![t] = TRUE]
        /\ UNCHANGED <<objects, entries>>
    BY <1>11 DEF Check, Goto
  <2>. HIDE DEF x
  <2>3. Typed'
    BY <1>3, <2>1, <2>2
  <2>4. clean' \in [Threads -> BOOLEAN]
    BY <1>2, <2>2
  <2>. QED
    BY <1>2, <2>2, <2>3, <2>4 DEF Typed, Types
<1>12. ASSUME NEW t \in Threads, CheckEntry(t) \/ CheckRaises(t)
       PROVE  Types'
  <2>1. /\ UNCHANGED <<objects, entries, clean>>
        /\ local' = local \/ local' = [local EXCEPT ![t].seq = local[t].seq + 1]
        /\ pc' = pc \/ pc' = [pc EXCEPT ![t] = "idle"]
        /\ verdict' = verdict \/ \E v \in {"true", "false", "raised"} : verdict' = [verdict EXCEPT ![t] = v]
    BY <1>12 DEF CheckEntry, CheckRaises, Done, Goto
  <2>2. CASE local' = local
    BY <1>2, <2>1, <2>2 DEF Types
  <2>3. CASE local' = [local EXCEPT ![t].seq = local[t].seq + 1]
    <3>. DEFINE x == [local[t] EXCEPT !.seq = local[t].seq + 1]
    <3>1. x \in Local(any \cup {Genesis}) /\ local' = [local EXCEPT ![t] = x]
      <4>1. local[t] \in Local(any)
        BY <1>1
      <4>2. local[t].seq + 1 \in Nat
        BY FieldTypes
      <4>. QED
        BY <2>3, <4>1, <4>2 DEF Local
    <3>. HIDE DEF x
    <3>2. Typed'
      BY <1>3, <2>1, <3>1
    <3>. QED
      BY <1>2, <2>1, <3>2 DEF Typed, Types
  <2>. QED
    BY <2>1, <2>2, <2>3
<1>13. CASE Note
  BY <1>13 DEF Note, Types
<1>. QED
  BY <1>5, <1>6, <1>7, <1>8, <1>9, <1>10, <1>11, <1>12, <1>13 DEF Next, Deny

\* Only the payload of an entry ever changes.
LEMMA EntriesKeepTheirHash ==
  ASSUME Types, Places, [Next]_vars
  PROVE  /\ Len(objects) \in Nat /\ Len(objects') \in Nat /\ Len(objects) <= Len(objects')
         /\ \A k \in 1..Len(objects) :
              /\ objects'[k].seq = objects[k].seq /\ objects'[k].made = objects[k].made
              /\ objects'[k].prev = objects[k].prev /\ objects'[k].hash = objects[k].hash
<1>1. Len(objects) \in Nat
  BY FieldTypes
<1>2. CASE UNCHANGED objects
  BY <1>1, <1>2
<1>3. ASSUME NEW t \in Threads, Build(t)
      PROVE  /\ Len(objects') = Len(objects) + 1 /\ \A k \in 1..Len(objects) : objects'[k] = objects[k]
  BY <1>3, BuildDoes
<1>4. ASSUME NEW k \in 1..Len(objects), NEW payload, Change(k, payload)
      PROVE  /\ Len(objects') = Len(objects)
             /\ \A j \in 1..Len(objects) :
                  /\ objects'[j].seq = objects[j].seq /\ objects'[j].made = objects[j].made
                  /\ objects'[j].prev = objects[j].prev /\ objects'[j].hash = objects[j].hash
  BY <1>4, ChangeDoes
<1>5. \/ UNCHANGED objects
      \/ \E t \in Threads : Build(t)
      \/ \E k \in 1..Len(objects), payload \in Payloads : Change(k, payload)
  BY DEF Next, Deny, StartAppend, ReadLast, AppendRaises, Store, Check, CheckEntry, CheckRaises, Note, vars
<1>6. CASE \E t \in Threads : Build(t)
  BY <1>1, <1>3, <1>6
<1>7. CASE \E k \in 1..Len(objects), payload \in Payloads : Change(k, payload)
  BY <1>1, <1>4, <1>7
<1>. QED
  BY <1>2, <1>5, <1>6, <1>7

LEMMA BuiltStays ==
  ASSUME Types, Places, Built, [Next]_vars
  PROVE  Built'
<1>1. /\ Len(objects) \in Nat /\ Len(objects') \in Nat
      /\ \A k \in 1..Len(objects) :
           /\ objects'[k].seq = objects[k].seq /\ objects'[k].made = objects[k].made
           /\ objects'[k].prev = objects[k].prev /\ objects'[k].hash = objects[k].hash
  BY EntriesKeepTheirHash
<1>2. CASE Len(objects') = Len(objects)
  BY <1>1, <1>2 DEF Built, Hash
<1>3. ASSUME NEW t \in Threads, Build(t)
      PROVE  Built'
  <2>. DEFINE n == Len(objects) + 1
  <2>. DEFINE new == objects'[n]
              here == local[t]
  <2>0. /\ Len(objects') = n /\ here.payload \notin Refused
        /\ new = [seq |-> here.seq, payload |-> here.payload, made |-> here.payload,
                  prev |-> here.prev, hash |-> Hash(here.seq, here.payload, here.prev)]
    BY <1>3, BuildDoes
  <2>. HIDE DEF new, here
  <2>1. Len(objects') = n /\ new.made \notin Refused /\ new.hash = Hash(new.seq, new.made, new.prev)
    BY <2>0
  <2>2. \A k \in 1..Len(objects') : k = n \/ k \in 1..Len(objects)
    BY <1>1, <2>1
  <2>. HIDE DEF n
  <2>. QED
    BY <1>1, <2>1, <2>2 DEF Built, Hash, new
<1>4. \/ Len(objects') = Len(objects)
      \/ \E t \in Threads : Build(t)
  <2>1. ASSUME NEW k \in 1..Len(objects), NEW payload, Change(k, payload)
        PROVE  Len(objects') = Len(objects)
    BY <2>1, ChangeDoes
  <2>. QED
    BY <2>1 DEF Next, Deny, StartAppend, ReadLast, AppendRaises, Store, Check, CheckEntry, CheckRaises, Note, vars
<1>. QED
  BY <1>2, <1>3, <1>4

\* What a step does to the log and to the tuples that threads hold.
LEMMA ChainsMove ==
  ASSUME Types, Places, [Next]_vars
  PROVE  /\ UNCHANGED entries \/ \E t \in Threads : pc[t] = "store" /\ entries' = local[t].chain
         /\ \A u \in Threads :
              \/ local'[u].chain = local[u].chain
              \/ local'[u].chain = << >> /\ pc'[u] # "store"
              \/ local'[u].chain = entries /\ pc'[u] # "store"
              \/ Build(u)
         /\ \A u \in Threads : pc'[u] = "store" => pc[u] = "store" \/ Build(u)
<1>1. CASE UNCHANGED <<entries, pc, local>>
  BY <1>1
<1>2. ASSUME NEW t \in Threads, Quiet(t), pc'[t] # "store",
             local'[t].chain \in {local[t].chain, << >>, entries}
      PROVE  /\ UNCHANGED entries
             /\ \A u \in Threads :
                  \/ local'[u].chain = local[u].chain
                  \/ local'[u].chain = << >> /\ pc'[u] # "store"
                  \/ local'[u].chain = entries /\ pc'[u] # "store"
             /\ \A u \in Threads : pc'[u] = "store" => pc[u] = "store"
  BY <1>2 DEF Quiet
<1>3. ASSUME NEW t \in Threads, Build(t)
      PROVE  /\ UNCHANGED entries
             /\ \A u \in Threads : u # t => local'[u] = local[u] /\ pc'[u] = pc[u]
  BY <1>3, BuildDoes
<1>4. ASSUME NEW t \in Threads, Store(t)
      PROVE  /\ pc[t] = "store" /\ entries' = local[t].chain /\ local'[t].chain = << >> /\ pc'[t] # "store"
             /\ \A u \in Threads : u # t => local'[u] = local[u] /\ pc'[u] = pc[u]
  BY <1>4, StoreDoes
<1>5. ASSUME NEW k \in 1..Len(objects), NEW payload, Change(k, payload)
      PROVE  UNCHANGED <<entries, pc, local>>
  BY <1>5, ChangeDoes
<1>6. ASSUME NEW t \in Threads,
             \/ \E payload : StartAppend(t, payload)
             \/ ReadLast(t) \/ AppendRaises(t) \/ Check(t)
      PROVE  Quiet(t) /\ pc'[t] # "store" /\ local'[t].chain \in {local[t].chain, << >>, entries}
  BY <1>6, QuietSteps
<1>7. ASSUME NEW t \in Threads, CheckEntry(t) \/ CheckRaises(t)
      PROVE  Quiet(t) /\ pc'[t] # "store" /\ local'[t].chain \in {local[t].chain, << >>, entries}
  BY <1>7, CheckDoes
<1>8. \/ UNCHANGED <<entries, pc, local>>
      \/ \E t \in Threads : \E payload : StartAppend(t, payload)
      \/ \E t \in Threads : ReadLast(t) \/ AppendRaises(t) \/ Check(t)
      \/ \E t \in Threads : CheckEntry(t) \/ CheckRaises(t)
      \/ \E t \in Threads : Build(t)
      \/ \E t \in Threads : Store(t)
  BY <1>5 DEF Next, Deny, Note, vars
<1>. QED
  BY <1>1, <1>2, <1>3, <1>4, <1>6, <1>7, <1>8

LEMMA PlacesStay ==
  ASSUME Types, Places, [Next]_vars
  PROVE  Places'
<1>. DEFINE n == Len(objects)
            m == Len(objects')
<1>1. n \in Nat /\ m \in Nat /\ \A k \in 1..n : k \in 1..m
  BY EntriesKeepTheirHash
<1>2. \A i \in 1..Len(entries') : entries'[i] \in 1..m
  BY <1>1, ChainsMove DEF Places
<1>3. ASSUME NEW t \in Threads, Build(t)
      PROVE  /\ \A i \in 1..Len(local'[t].chain) : local'[t].chain[i] \in 1..m
             /\ local'[t].chain # << >>
  <2>1. /\ local'[t].chain = Append(entries, n + 1) /\ m = n + 1 /\ Len(entries) \in Nat
        /\ \A i \in 1..Len(entries) : entries[i] \in 1..n
    BY <1>3, BuildDoes, FieldTypes DEF Places
  <2>2. /\ Len(Append(entries, n + 1)) = Len(entries) + 1
        /\ \A k \in 1..Len(entries) : Append(entries, n + 1)[k] = entries[k]
        /\ Append(entries, n + 1)[Len(entries) + 1] = n + 1
    BY <1>1, Appended DEF Types
  <2>3. \A i \in 1..Len(entries) + 1 : Append(entries, n + 1)[i] \in 1..m
    <3>1. \A i \in 1..Len(entries) + 1 : i = Len(entries) + 1 \/ i \in 1..Len(entries)
      BY <2>1
    <3>2. n + 1 \in 1..m
      BY <1>1, <2>1
    <3>. QED
      BY <1>1, <2>1, <2>2, <3>1, <3>2
  <2>4. Append(entries, n + 1) # << >>
    BY <2>1, <2>2
  <2>. QED
    BY <2>1, <2>2, <2>3, <2>4
<1>4. \A t \in Threads : \A i \in 1..Len(local'[t].chain) : local'[t].chain[i] \in 1..m
  BY <1>1, <1>3, ChainsMove DEF Places
<1>5. \A t \in Threads : pc'[t] = "store" => local'[t].chain # << >>
  BY <1>3, ChainsMove DEF Places
<1>6. returned' \subseteq 1..m
  <2>1. ASSUME NEW t \in Threads, Store(t)
        PROVE  returned' \subseteq 1..n
    <3>1. local[t].chain # << >> /\ local[t].chain \in Seq(Nat) /\ returned' = returned \cup {Last(local[t].chain)}
      BY <2>1, StoreDoes, FieldTypes DEF Places
    <3>2. Last(local[t].chain) \in 1..n
      BY <3>1, Places1 DEF Places
    <3>. QED
      BY <3>1, <3>2 DEF Places
  <2>2. UNCHANGED returned \/ \E t \in Threads : Store(t)
    BY DEF Next, Deny, StartAppend, ReadLast, AppendRaises, Build, Check, CheckEntry, CheckRaises, Change, Note, vars
  <2>. QED
    BY <1>1, <2>1, <2>2 DEF Places
<1>. QED
  BY <1>2, <1>4, <1>5, <1>6 DEF Places

\* A thread that a step leaves alone, while the payloads it looks at stay.
LEMMA OthersStayChecked ==
  ASSUME Types, Places, NEW u \in Threads, CheckedBy(u),
         pc'[u] = pc[u], local'[u] = local[u], clean'[u] = clean[u], verdict'[u] = verdict[u],
         \A k \in 1..Len(objects) : objects'[k] = objects[k]
  PROVE  CheckedBy(u)'
<1>1. /\ local[u].seq \in Nat /\ Len(local[u].chain) \in Nat
      /\ \A i \in 1..Len(local[u].chain) : objects'[local[u].chain[i]] = objects[local[u].chain[i]]
  BY FieldTypes DEF Places
<1>. QED
  BY <1>1 DEF CheckedBy, Intact

\* An entry that is accepted holds the payload it was built with.
LEMMA AcceptedIsIntact ==
  ASSUME Built, NEW chain, NEW i, chain[i] \in 1..Len(objects)
  PROVE  /\ Accepts(chain, i) => objects[chain[i]].payload = objects[chain[i]].made
         /\ Linked(chain, i) /\ ~ Accepts(chain, i) => objects[chain[i]].payload # objects[chain[i]].made
         /\ Raises(chain, i) => objects[chain[i]].payload # objects[chain[i]].made
<1>. DEFINE entry == objects[chain[i]]
<1>1. entry.made \notin Refused /\ entry.hash = Hash(entry.seq, entry.made, entry.prev)
  BY DEF Built
<1>. HIDE DEF entry
<1>2. entry.hash = Hash(entry.seq, entry.payload, entry.prev) <=> entry.payload = entry.made
  BY <1>1 DEF Hash
<1>. QED
  BY <1>1, <1>2 DEF Accepts, Raises, entry

LEMMA CheckedStays ==
  ASSUME Types, Places, Built, Checked, [Next]_vars
  PROVE  Checked'
<1>1. CASE UNCHANGED <<objects, pc, local, clean, verdict>>
  BY <1>1 DEF Checked, CheckedBy, Intact
<1>2. ASSUME NEW t \in Threads, Quiet(t), CheckedBy(t)'
      PROVE  Checked'
  BY <1>2, OthersStayChecked DEF Checked, Quiet
<1>3. ASSUME NEW t \in Threads, local'[t].chain = << >>, pc'[t] = "idle" \/ verdict'[t] = "none", pc'[t] # "checking"
      PROVE  CheckedBy(t)'
  BY <1>3 DEF CheckedBy, Intact
<1>4. ASSUME NEW t \in Threads, NEW payload, StartAppend(t, payload)
      PROVE  Checked'
  BY <1>2, <1>3, <1>4, QuietSteps
<1>5. ASSUME NEW t \in Threads, ReadLast(t)
      PROVE  Checked'
  BY <1>2, <1>5, QuietSteps DEF Checked, CheckedBy
<1>6. ASSUME NEW t \in Threads, AppendRaises(t)
      PROVE  Checked'
  BY <1>2, <1>3, <1>6, QuietSteps
<1>7. ASSUME NEW t \in Threads, Check(t)
      PROVE  Checked'
  <2>1. Quiet(t) /\ pc'[t] = "checking" /\ local'[t].seq = 0 /\ verdict'[t] = "none"
    BY <1>7, QuietSteps
  <2>2. CheckedBy(t)'
    BY <2>1 DEF CheckedBy
  <2>. QED
    BY <1>2, <2>1, <2>2
<1>8. ASSUME NEW t \in Threads, CheckEntry(t) \/ CheckRaises(t)
      PROVE  Checked'
  <2>. DEFINE chain == local[t].chain
              n == local[t].seq
  <2>1. /\ Quiet(t) /\ pc[t] = "checking" /\ UNCHANGED clean /\ local'[t].chain = chain
        /\ \/ n + 1 > Len(chain) /\ pc'[t] = "idle" /\ local' = local
           \/ verdict'[t] # "true" /\ pc'[t] = "idle"
           \/ /\ n + 1 <= Len(chain) /\ Accepts(chain, n + 1)
              /\ pc'[t] = "checking" /\ verdict' = verdict /\ local'[t].seq = n + 1
    BY <1>8, CheckDoes
  <2>2. n \in Nat /\ Len(chain) \in Nat /\ \A i \in 1..Len(chain) : chain[i] \in 1..Len(objects)
    BY FieldTypes DEF Places
  <2>3. /\ verdict[t] = "none"
        /\ clean[t] => \A i \in 1..n : i <= Len(chain) => objects[chain[i]].payload = objects[chain[i]].made
    BY <2>1 DEF Checked, CheckedBy
  <2>4. UNCHANGED objects
    BY <2>1 DEF Quiet
  <2>. HIDE DEF chain, n
  <2>5. CASE n + 1 > Len(chain) /\ pc'[t] = "idle" /\ local' = local
    <3>1. \A i \in 1..Len(chain) : i \in 1..n /\ i <= Len(chain)
      BY <2>2, <2>5
    <3>. QED
      BY <1>2, <2>1, <2>3, <2>4, <2>5, <3>1 DEF CheckedBy, Intact
  <2>6. CASE verdict'[t] # "true" /\ pc'[t] = "idle"
    BY <1>2, <2>1, <2>6 DEF CheckedBy
  <2>7. CASE /\ n + 1 <= Len(chain) /\ Accepts(chain, n + 1)
             /\ pc'[t] = "checking" /\ verdict' = verdict /\ local'[t].seq = n + 1
    <3>1. n + 1 \in 1..Len(chain)
      BY <2>2, <2>7
    <3>2. objects[chain[n + 1]].payload = objects[chain[n + 1]].made
      BY <2>2, <2>7, <3>1, AcceptedIsIntact
    <3>3. \A i \in 1..n + 1 : i \in 1..n \/ i = n + 1
      BY <2>2
    <3>4. clean[t] => \A i \in 1..n + 1 : i <= Len(chain) => objects[chain[i]].payload = objects[chain[i]].made
      BY <2>3, <3>2, <3>3
    <3>. QED
      BY <1>2, <2>1, <2>3, <2>4, <2>7, <3>4 DEF CheckedBy
  <2>. QED
    BY <2>1, <2>5, <2>6, <2>7
<1>9. ASSUME NEW t \in Threads, Build(t)
      PROVE  Checked'
  <2>1. /\ pc[t] = "build" /\ pc'[t] = "store" /\ UNCHANGED <<clean, verdict>>
        /\ \A u \in Threads \ {t} : pc'[u] = pc[u] /\ local'[u] = local[u]
        /\ \A k \in 1..Len(objects) : objects'[k] = objects[k]
    BY <1>9, BuildDoes
  <2>2. CheckedBy(t)'
    BY <2>1 DEF Checked, CheckedBy
  <2>. QED
    BY <2>1, <2>2, OthersStayChecked DEF Checked
<1>10. ASSUME NEW t \in Threads, Store(t)
       PROVE  Checked'
  <2>1. /\ pc'[t] = "idle" /\ local'[t].chain = << >> /\ UNCHANGED <<objects, clean, verdict>>
        /\ \A u \in Threads \ {t} : pc'[u] = pc[u] /\ local'[u] = local[u]
    BY <1>10, StoreDoes
  <2>. QED
    BY <1>3, <2>1, OthersStayChecked DEF Checked
<1>11. ASSUME NEW k \in 1..Len(objects), NEW payload, Change(k, payload)
       PROVE  Checked'
  <2>1. (\A t \in Threads : ~ clean'[t]) /\ UNCHANGED <<pc, verdict>>
    BY <1>11, ChangeDoes
  <2>. QED
    BY <2>1 DEF Checked, CheckedBy
<1>. QED
  BY <1>1, <1>4, <1>5, <1>6, <1>7, <1>8, <1>9, <1>10, <1>11 DEF Next, Deny, Note, vars

LEMMA AuditInvHolds == Spec => []AuditInv
<1>1. Init => AuditInv
  <2>. SUFFICES ASSUME Init PROVE AuditInv
    OBVIOUS
  <2>1. /\ objects = << >> /\ entries = << >> /\ returned = {}
        /\ pc = [t \in Threads |-> "idle"] /\ verdict = [t \in Threads |-> "none"]
        /\ \A t \in Threads : local[t].chain = << >>
    BY DEF Init, Nothing
  <2>2. Types
    BY TypesInit
  <2>3. Built /\ Places /\ Checked
    BY <2>1 DEF Built, Places, Checked, CheckedBy
  <2>. QED
    BY <2>2, <2>3 DEF AuditInv
<1>2. AuditInv /\ [Next]_vars => AuditInv'
  BY TypesStay, BuiltStays, PlacesStay, CheckedStays DEF AuditInv
<1>. QED
  BY <1>1, <1>2, PTL DEF Spec

-----------------------------------------------------------------------------
(* While calls of append do not overlap.                                   *)

\* Entry i of a chain of these objects is numbered and chained.
Link(objs, chain, i) ==
  /\ objs[chain[i]].seq = i - 1
  /\ objs[chain[i]].prev = IF i = 1 THEN Genesis ELSE objs[chain[i - 1]].hash
LEMMA LinkedLinks ==
  /\ \A chain, i : Linked(chain, i) <=> Link(objects, chain, i)
  /\ \A chain, i : Linked(chain, i)' <=> Link(objects', chain, i)
BY DEF Linked, Link

\* It stays so, whatever is built or changed.
LEMMA LinksStay ==
  ASSUME Types, Places, [Next]_vars,
         NEW chain, NEW m \in Nat, \A i \in 1..m : chain[i] \in 1..Len(objects),
         NEW i \in 1..m, Link(objects, chain, i)
  PROVE  Link(objects', chain, i)
<1>1. i = 1 \/ i - 1 \in 1..m
  OBVIOUS
<1>2. \A k \in 1..Len(objects) :
        objects'[k].seq = objects[k].seq /\ objects'[k].prev = objects[k].prev /\ objects'[k].hash = objects[k].hash
  BY EntriesKeepTheirHash
<1>. QED
  BY <1>1, <1>2 DEF Link

Appending(t) == pc[t] \in {"last", "build", "store"}
LEMMA OneAppends ==
  ASSUME AuditInv, AloneInv, [Next]_vars, alone'
  PROVE  /\ alone
         /\ \A t, u \in Threads : pc'[t] \notin {"idle", "checking"} /\ pc'[u] \notin {"idle", "checking"} => t = u
<1>1. Types /\ Places /\ (alone => \A t, u \in Threads : Appending(t) /\ Appending(u) => t = u)
  BY DEF AuditInv, AloneInv, Unmixed, Appending, Types
<1>2. \A t \in Threads : pc[t] \notin {"idle", "checking"} <=> Appending(t)
  BY <1>1 DEF Types, Appending
<1>3. CASE UNCHANGED <<pc, alone>>
  BY <1>1, <1>2, <1>3
<1>4. ASSUME NEW t \in Threads, NEW payload, StartAppend(t, payload)
      PROVE  /\ alone /\ \A u \in Threads : u # t => pc'[u] \in {"idle", "checking"}
  BY <1>1, <1>4, QuietSteps DEF Quiet
<1>5. ASSUME NEW t \in Threads,
             \/ ReadLast(t) \/ AppendRaises(t) \/ Check(t) \/ CheckEntry(t) \/ CheckRaises(t)
             \/ Build(t) \/ Store(t)
      PROVE  /\ alone' = alone /\ \A u \in Threads : u # t => pc'[u] = pc[u]
             /\ Appending(t) \/ pc'[t] \in {"idle", "checking"}
  <2>1. CASE ReadLast(t) \/ AppendRaises(t) \/ Check(t)
    BY <1>1, <2>1, QuietSteps DEF Quiet, Appending
  <2>2. CASE CheckEntry(t) \/ CheckRaises(t)
    BY <1>1, <2>2, CheckDoes DEF Quiet
  <2>3. CASE Build(t)
    BY <1>1, <2>3, BuildDoes DEF Appending
  <2>4. CASE Store(t)
    BY <1>1, <2>4, StoreDoes
  <2>. QED
    BY <1>5, <2>1, <2>2, <2>3, <2>4
<1>6. \/ UNCHANGED <<pc, alone>>
      \/ \E t \in Threads : \E payload : StartAppend(t, payload)
      \/ \E t \in Threads : \/ ReadLast(t) \/ AppendRaises(t) \/ Check(t) \/ CheckEntry(t) \/ CheckRaises(t)
                            \/ Build(t) \/ Store(t)
  BY DEF Next, Deny, Change, Note, vars
<1>7. CASE \E t \in Threads : \E payload : StartAppend(t, payload)
  BY <1>4, <1>7
<1>8. CASE \E t \in Threads : \/ ReadLast(t) \/ AppendRaises(t) \/ Check(t) \/ CheckEntry(t) \/ CheckRaises(t)
                              \/ Build(t) \/ Store(t)
  BY <1>1, <1>2, <1>5, <1>8
<1>. QED
  BY <1>3, <1>6, <1>7, <1>8

\* The log and the tuples that threads hold stay chained.
LEMMA ChainsStayLinked ==
  ASSUME AuditInv, AloneInv, [Next]_vars, alone
  PROVE  /\ \A i \in 1..Len(entries') : Linked(entries, i)'
         /\ \A t \in Threads : \A i \in 1..Len(local'[t].chain) : Linked(local[t].chain, i)'
<1>1. /\ Types /\ Places /\ \A i \in 1..Len(entries) : Link(objects, entries, i)
      /\ \A t \in Threads : \A i \in 1..Len(local[t].chain) : Link(objects, local[t].chain, i)
      /\ \A t \in Threads : HasRead(t)
  BY LinkedLinks DEF AuditInv, AloneInv, Unmixed
<1>2. /\ Len(entries) \in Nat /\ \A t \in Threads : Len(local[t].chain) \in Nat
  BY <1>1, FieldTypes
<1>3. /\ \A i \in 1..Len(entries) : Link(objects', entries, i)
      /\ \A t \in Threads : \A i \in 1..Len(local[t].chain) : Link(objects', local[t].chain, i)
  <2>1. PICK log, tuples : log = entries /\ tuples = [t \in Threads |-> local[t].chain]
    OBVIOUS
  <2>2. \A i \in 1..Len(log) : Link(objects', log, i)
    BY <1>1, <1>2, <2>1, LinksStay DEF Places
  <2>3. ASSUME NEW t \in Threads
        PROVE  \A i \in 1..Len(tuples[t]) : Link(objects', tuples[t], i)
    BY <1>1, <1>2, <2>1, LinksStay DEF Places
  <2>. QED
    BY <2>1, <2>2, <2>3
<1>4. ASSUME NEW t \in Threads, Build(t)
      PROVE  \A i \in 1..Len(local'[t].chain) : Link(objects', local'[t].chain, i)
  <2>. DEFINE n == Len(entries) + 1
              k == Len(objects) + 1
              chain == local'[t].chain
  <2>1. /\ pc[t] = "build" /\ chain = Append(entries, k) /\ UNCHANGED entries
        /\ objects'[k].seq = local[t].seq /\ objects'[k].prev = local[t].prev
    <3>. DEFINE new == objects'[k]
                here == local[t]
    <3>1. /\ pc[t] = "build" /\ chain = Append(entries, k) /\ UNCHANGED entries
          /\ new = [seq |-> here.seq, payload |-> here.payload, made |-> here.payload,
                    prev |-> here.prev, hash |-> Hash(here.seq, here.payload, here.prev)]
      BY <1>1, <1>4, BuildDoes
    <3>. HIDE DEF new, here
    <3>2. new.seq = here.seq /\ new.prev = here.prev
      BY <3>1
    <3>. QED
      BY <3>1, <3>2 DEF new, here
  <2>2. Len(chain) = n /\ chain[n] = k /\ \A i \in 1..Len(entries) : chain[i] = entries[i]
    BY <1>1, <2>1, FieldTypes, Appended DEF Types
  <2>3. /\ local[t].seq = n - 1
        /\ local[t].prev = IF entries = << >> THEN Genesis ELSE objects[Last(entries)].hash
    BY <1>1, <1>2, <2>1 DEF HasRead
  <2>4. local[t].prev = IF n = 1 THEN Genesis ELSE objects'[chain[n - 1]].hash
    <3>1. CASE entries = << >>
      BY <2>3, <3>1
    <3>2. CASE entries # << >>
      <4>1. Last(entries) = entries[n - 1] /\ n - 1 \in 1..Len(entries) /\ n # 1
        BY <1>1, <1>2, <3>2, Places1 DEF Types
      <4>2. objects'[entries[n - 1]].hash = objects[entries[n - 1]].hash
        BY <1>1, <4>1, EntriesKeepTheirHash DEF Places
      <4>. QED
        BY <2>2, <2>3, <3>2, <4>1, <4>2
    <3>. QED
      BY <3>1, <3>2
  <2>5. ASSUME NEW i \in 1..n
        PROVE  Link(objects', chain, i)
    <3>1. CASE i = n
      BY <1>2, <2>1, <2>2, <2>3, <2>4, <3>1 DEF Link
    <3>2. CASE i \in 1..Len(entries)
      <4>1. Link(objects', entries, i) /\ (i # 1 => i - 1 \in 1..Len(entries))
        BY <1>2, <1>3, <3>2
      <4>. QED
        BY <2>2, <3>2, <4>1 DEF Link
    <3>. QED
      BY <1>2, <3>1, <3>2
  <2>. QED
    BY <2>2, <2>5
<1>5. /\ UNCHANGED entries \/ \E t \in Threads : entries' = local[t].chain
      /\ \A u \in Threads :
              \/ local'[u].chain = local[u].chain
              \/ local'[u].chain = << >>
              \/ local'[u].chain = entries
              \/ Build(u)
  BY <1>1, ChainsMove
<1>6. \A i \in 1..Len(entries') : Link(objects', entries', i)
  BY <1>3, <1>5
<1>7. \A t \in Threads : \A i \in 1..Len(local'[t].chain) : Link(objects', local'[t].chain, i)
  BY <1>3, <1>4, <1>5
<1>. QED
  BY <1>6, <1>7 DEF Linked, Link

\* What a call of append has read stays true: no other call is in progress.
LEMMA ReadsStay ==
  ASSUME AuditInv, AloneInv, [Next]_vars, alone', NEW u \in Threads
  PROVE  HasRead(u)'
<1>1. /\ Types /\ Places /\ HasRead(u) /\ Len(entries) \in Nat /\ Len(objects) \in Nat
      /\ \A t, v \in Threads : Appending(t) /\ Appending(v) => t = v
      /\ \A t, v \in Threads : Appending(t)' /\ Appending(v)' => t = v
  BY OneAppends, FieldTypes DEF AuditInv, AloneInv, Unmixed, Appending
<1>. DEFINE hash == IF entries = << >> THEN Genesis ELSE objects[Last(entries)].hash
<1>2. UNCHANGED entries => hash' = hash
  <2>1. entries # << >> => Last(entries) \in 1..Len(objects)
    BY <1>1, Places1 DEF Types, Places
  <2>. QED
    BY <1>1, <2>1, EntriesKeepTheirHash
<1>. HIDE DEF hash
<1>3. CASE pc'[u] = pc[u] /\ local'[u] = local[u] /\ UNCHANGED <<entries, returned>>
  BY <1>1, <1>2, <1>3 DEF HasRead, hash
<1>4. CASE ~ Appending(u)'
  BY <1>4 DEF HasRead, Appending
<1>5. ASSUME NEW t \in Threads, Quiet(t), u # t
      PROVE  HasRead(u)'
  BY <1>3, <1>5 DEF Quiet
<1>6. ASSUME NEW t \in Threads, NEW payload, StartAppend(t, payload)
      PROVE  HasRead(u)'
  <2>1. Quiet(t) /\ pc'[t] = "last" /\ local'[t].seq = Len(entries)
    BY <1>1, <1>6, QuietSteps
  <2>2. CASE u = t
    BY <2>1, <2>2 DEF HasRead, Quiet
  <2>. QED
    BY <1>5, <2>1, <2>2
<1>7. ASSUME NEW t \in Threads, ReadLast(t)
      PROVE  HasRead(u)'
  <2>1. Quiet(t) /\ pc[t] = "last" /\ pc'[t] = "build" /\ local'[t].seq = local[t].seq /\ local'[t].prev = hash
    BY <1>1, <1>7, QuietSteps DEF hash
  <2>2. CASE u = t
    BY <1>1, <1>2, <2>1, <2>2 DEF HasRead, Quiet, hash
  <2>. QED
    BY <1>5, <2>1, <2>2
<1>8. ASSUME NEW t \in Threads, AppendRaises(t) \/ Check(t)
      PROVE  HasRead(u)'
  <2>1. Quiet(t) /\ pc'[t] \in {"idle", "checking"}
    BY <1>1, <1>8, QuietSteps
  <2>. QED
    BY <1>4, <1>5, <2>1 DEF Appending
<1>9. ASSUME NEW t \in Threads, CheckEntry(t) \/ CheckRaises(t)
      PROVE  HasRead(u)'
  <2>1. Quiet(t) /\ pc'[t] \in {"idle", "checking"}
    BY <1>1, <1>9, CheckDoes
  <2>. QED
    BY <1>4, <1>5, <2>1 DEF Appending
<1>10. ASSUME NEW t \in Threads, Build(t)
       PROVE  HasRead(u)'
  <2>. DEFINE k == Len(objects) + 1
  <2>1. /\ pc'[t] = "store" /\ \A v \in Threads \ {t} : pc'[v] = pc[v] /\ local'[v] = local[v]
        /\ local'[t].chain = Append(entries, k) /\ UNCHANGED <<entries, returned>>
    BY <1>1, <1>10, BuildDoes
  <2>2. CASE u = t
    <3>1. /\ Len(Append(entries, k)) = Len(entries) + 1 /\ Last(Append(entries, k)) = k
          /\ \A i \in 1..Len(entries) : Append(entries, k)[i] = entries[i]
      BY <1>1, Appended DEF Types
    <3>2. k \notin returned
      BY <1>1 DEF Places
    <3>. QED
      BY <2>1, <2>2, <3>1, <3>2 DEF HasRead
  <2>. QED
    BY <1>3, <2>1, <2>2
<1>11. ASSUME NEW t \in Threads, Store(t)
       PROVE  HasRead(u)'
  <2>1. /\ pc[t] = "store" /\ pc'[t] = "idle"
        /\ \A v \in Threads \ {t} : pc'[v] = pc[v] /\ local'[v] = local[v]
    BY <1>1, <1>11, StoreDoes
  <2>2. ~ Appending(u)'
    BY <1>1, <2>1 DEF Appending
  <2>. QED
    BY <1>4, <2>2
<1>12. CASE UNCHANGED <<entries, pc, local, returned>>
  BY <1>3, <1>12
<1>. QED
  BY <1>6, <1>7, <1>8, <1>9, <1>10, <1>11, <1>12 DEF Next, Deny, Change, Note, vars

LEMMA KeptStays ==
  ASSUME AuditInv, AloneInv, [Next]_vars, alone'
  PROVE  Kept'
<1>1. Types /\ Places /\ alone /\ Kept /\ Len(entries) \in Nat /\ \A t \in Threads : HasRead(t)
  BY OneAppends, FieldTypes DEF AuditInv, AloneInv, Unmixed
<1>2. \A k \in returned : objects'[k].seq = objects[k].seq /\ objects[k].seq \in Nat
  BY <1>1, EntriesKeepTheirHash, FieldTypes DEF Places
<1>3. CASE UNCHANGED <<entries, returned>>
  BY <1>1, <1>2, <1>3 DEF Kept
<1>4. ASSUME NEW t \in Threads, Store(t)
      PROVE  Kept'
  <2>. DEFINE chain == local[t].chain
              n == Len(entries) + 1
              k == chain[n]
  <2>1. pc[t] = "store" /\ entries' = chain /\ returned' = returned \cup {Last(chain)} /\ UNCHANGED objects
    BY <1>1, <1>4, StoreDoes
  <2>2. /\ Len(chain) = n /\ Last(chain) = k /\ k \notin returned
        /\ \A i \in 1..Len(entries) : chain[i] = entries[i]
    BY <1>1, <2>1, FieldTypes, Places1 DEF HasRead, Places
  <2>3. Linked(chain, n)
    BY <1>1, <2>2 DEF AloneInv, Unmixed
  <2>4. objects[k].seq = n - 1
    BY <2>3 DEF Linked
  <2>. HIDE DEF chain, k
  <2>5. \A j \in returned' : objects'[j].seq < Len(entries') /\ entries'[objects'[j].seq + 1] = j
    <3>1. ASSUME NEW j \in returned
          PROVE  objects'[j].seq < Len(entries') /\ entries'[objects'[j].seq + 1] = j
      <4>1. objects[j].seq \in Nat /\ objects[j].seq < Len(entries) /\ entries[objects[j].seq + 1] = j
        BY <1>1, <1>2 DEF Kept
      <4>2. objects[j].seq + 1 \in 1..Len(entries)
        BY <1>1, <4>1
      <4>. QED
        BY <1>1, <2>1, <2>2, <4>1, <4>2
    <3>2. objects'[k].seq < Len(entries') /\ entries'[objects'[k].seq + 1] = k
      BY <1>1, <2>1, <2>2, <2>4 DEF k
    <3>. QED
      BY <2>1, <2>2, <3>1, <3>2
  <2>6. \A i \in 1..Len(entries') : entries'[i] \in returned'
    <3>1. \A i \in 1..n : i = n \/ i \in 1..Len(entries)
      BY <1>1
    <3>. QED
      BY <1>1, <2>1, <2>2, <3>1 DEF Kept, k
  <2>7. IsFiniteSet(returned') /\ Cardinality(returned') = Len(entries')
    BY <1>1, <2>1, <2>2, FS_AddElement DEF Kept
  <2>. QED
    BY <2>5, <2>6, <2>7 DEF Kept
<1>5. UNCHANGED <<entries, returned>> \/ \E t \in Threads : Store(t)
  BY DEF Next, Deny, StartAppend, ReadLast, AppendRaises, Build, Check, CheckEntry, CheckRaises, Change, Note, vars
<1>. QED
  BY <1>3, <1>4, <1>5

LEMMA AnsweredStays ==
  ASSUME AuditInv, AloneInv, [Next]_vars, alone'
  PROVE  Answered'
<1>. DEFINE Right(t) == pc[t] = "idle" /\ clean[t] /\ verdict[t] \in {"false", "raised"} => ~ Intact(local[t].chain)
<1>1. /\ Types /\ Places /\ Built /\ \A t \in Threads : Right(t) /\ (pc[t] # "idle" => verdict[t] = "none")
      /\ \A t \in Threads : \A i \in 1..Len(local[t].chain) : Linked(local[t].chain, i)
  BY OneAppends DEF AuditInv, AloneInv, Answered, Checked, CheckedBy, Unmixed
<1>2. ASSUME NEW u \in Threads, pc'[u] = pc[u], local'[u] = local[u], clean'[u] = clean[u], verdict'[u] = verdict[u],
             \A k \in 1..Len(objects) : objects'[k] = objects[k]
      PROVE  Right(u)'
  <2>1. \A i \in 1..Len(local[u].chain) : objects'[local[u].chain[i]] = objects[local[u].chain[i]]
    BY <1>1, <1>2 DEF Places
  <2>2. ~ Intact(local[u].chain) => ~ Intact(local[u].chain)'
    BY <1>2, <2>1 DEF Intact
  <2>3. Right(u)
    BY <1>1
  <2>. QED
    BY <1>2, <2>2, <2>3
<1>3. ASSUME NEW t \in Threads, Quiet(t), Right(t)'
      PROVE  Answered'
  BY <1>2, <1>3 DEF Answered, Quiet
<1>4. ASSUME NEW t \in Threads, pc'[t] # "idle" \/ verdict'[t] \in {"none", "true"}
      PROVE  Right(t)'
  BY <1>4
<1>. HIDE DEF Right
<1>5. CASE UNCHANGED <<objects, pc, local, clean, verdict>>
  BY <1>2, <1>5 DEF Answered, Right
<1>6. ASSUME NEW t \in Threads, NEW payload, StartAppend(t, payload)
      PROVE  Answered'
  BY <1>1, <1>3, <1>4, <1>6, QuietSteps
<1>7. ASSUME NEW t \in Threads, ReadLast(t) \/ AppendRaises(t) \/ Check(t)
      PROVE  Answered'
  <2>1. CASE ReadLast(t)
    BY <1>1, <1>3, <1>4, <2>1, QuietSteps
  <2>2. CASE AppendRaises(t)
    <3>1. Quiet(t) /\ pc[t] = "build" /\ verdict' = verdict
      BY <1>1, <2>2, QuietSteps
    <3>2. verdict'[t] = "none"
      BY <1>1, <3>1
    <3>. QED
      BY <1>3, <1>4, <3>1, <3>2
  <2>3. CASE Check(t)
    BY <1>1, <1>3, <1>4, <2>3, QuietSteps
  <2>. QED
    BY <1>7, <2>1, <2>2, <2>3
<1>8. ASSUME NEW t \in Threads, CheckEntry(t) \/ CheckRaises(t)
      PROVE  Answered'
  <2>. DEFINE chain == local[t].chain
              n == local[t].seq + 1
  <2>1. /\ Quiet(t) /\ local'[t].chain = chain
        /\ \/ verdict'[t] = "true"
           \/ n <= Len(chain) /\ ~ Accepts(chain, n)
           \/ pc'[t] = "checking"
           \/ Raises(chain, n)
    BY <1>1, <1>8, CheckDoes
  <2>2. n \in Nat \ {0} /\ Len(chain) \in Nat /\ \A i \in 1..Len(chain) : chain[i] \in 1..Len(objects) /\ Linked(chain, i)
    BY <1>1, FieldTypes DEF Places
  <2>3. CASE (n <= Len(chain) /\ ~ Accepts(chain, n)) \/ Raises(chain, n)
    <3>1. n \in 1..Len(chain)
      BY <2>2, <2>3 DEF Raises
    <3>2. objects[chain[n]].payload # objects[chain[n]].made
      BY <1>1, <2>2, <2>3, <3>1, AcceptedIsIntact
    <3>3. ~ Intact(chain)
      BY <3>1, <3>2 DEF Intact
    <3>4. ~ Intact(local[t].chain)'
      BY <2>1, <3>3 DEF Intact, Quiet
    <3>. QED
      BY <1>3, <2>1, <3>4 DEF Right
  <2>. QED
    BY <1>3, <1>4, <2>1, <2>3
<1>9. ASSUME NEW t \in Threads, Build(t) \/ Store(t)
      PROVE  Answered'
  <2>1. /\ pc[t] \in {"build", "store"} /\ UNCHANGED <<clean, verdict>>
        /\ \A u \in Threads \ {t} : pc'[u] = pc[u] /\ local'[u] = local[u]
        /\ \A k \in 1..Len(objects) : objects'[k] = objects[k]
    BY <1>1, <1>9, BuildDoes, StoreDoes
  <2>2. Right(t)'
    BY <1>1, <1>4, <2>1
  <2>. QED
    BY <1>2, <2>1, <2>2 DEF Answered, Right
<1>10. ASSUME NEW k \in 1..Len(objects), NEW payload, Change(k, payload)
       PROVE  Answered'
  BY <1>1, <1>10, ChangeDoes DEF Answered
<1>. QED
  BY <1>5, <1>6, <1>7, <1>8, <1>9, <1>10 DEF Next, Deny, Note, vars

LEMMA AloneInvHolds == Spec => []AloneInv
<1>1. Init => AloneInv
  <2>. SUFFICES ASSUME Init PROVE AloneInv
    OBVIOUS
  <2>1. /\ objects = << >> /\ entries = << >> /\ returned = {}
        /\ \A t \in Threads : pc[t] = "idle" /\ verdict[t] = "none" /\ local[t].chain = << >>
    BY DEF Init, Nothing
  <2>2. Unmixed /\ Answered
    BY <2>1 DEF Unmixed, Answered, HasRead
  <2>3. Kept
    BY <2>1, FS_EmptySet DEF Kept
  <2>. QED
    BY <2>2, <2>3 DEF AloneInv
<1>2. AuditInv /\ AloneInv /\ [Next]_vars => AloneInv'
  BY OneAppends, ChainsStayLinked, ReadsStay, KeptStays, AnsweredStays DEF AloneInv, Unmixed
<1>. QED
  BY <1>1, <1>2, AuditInvHolds, PTL DEF Spec

(* While calls of append have not overlapped, the log is append-only: every*)
(* entry that a call returned stays at the place its number says, and the  *)
(* log holds nothing else.                                                 *)
THEOREM TheLogOnlyGrows == Spec => []ReturnedEntriesStay
<1>1. AloneInv => ReturnedEntriesStay
  BY DEF AloneInv, Kept, ReturnedEntriesStay
<1>. QED
  BY <1>1, AloneInvHolds, PTL

(* What verify_chain answers about entries whose payloads stay put is      *)
(* right: "true" only when each holds what it was built with, and anything *)
(* else, unless calls of append overlapped, only when one does not.        *)
THEOREM VerifyChainIsRight == Spec => []VerdictsAreRight
<1>1. AuditInv /\ AloneInv => VerdictsAreRight
  BY DEF AuditInv, Checked, CheckedBy, AloneInv, Answered, VerdictsAreRight
<1>. QED
  BY <1>1, AuditInvHolds, AloneInvHolds, PTL

-----------------------------------------------------------------------------
(* The chain of hashes.                                                    *)

\* Two chains with the same last hash hold the same payloads: their lengths agree, since
\* the hash covers the number of the entry, and so does everything before the last place.
LEMMA SameLastHash ==
  ASSUME NEW hs, NEW gs, NEW ps, NEW qs, NEW m \in Nat \ {0}, NEW n \in Nat \ {0},
         Hashes(hs, ps, m), Hashes(gs, qs, n), hs[m] = gs[n]
  PROVE  ps = qs
<1>1. \A i \in 1..m : hs[i] = <<i - 1, ps[i], IF i = 1 THEN Genesis ELSE hs[i - 1]>>
  BY DEF Hashes, Hash
<1>2. \A i \in 1..n : gs[i] = <<i - 1, qs[i], IF i = 1 THEN Genesis ELSE gs[i - 1]>>
  BY DEF Hashes, Hash
<1>3. m = n
  <2>1. m - 1 = n - 1
    BY <1>1, <1>2
  <2>. QED
    BY <2>1
<1>4. \A i \in 1..n : hs[i] = gs[i]
  <2>. DEFINE Bad == {j \in 0..n - 1 : hs[n - j] # gs[n - j]}
  <2>1. CASE Bad = {}
    <3>1. \A i \in 1..n : n - i \in 0..n - 1 /\ n - (n - i) = i
      OBVIOUS
    <3>. QED
      BY <2>1, <3>1
  <2>2. CASE Bad # {}
    <3>. DEFINE bad == Bad
    <3>0. bad \subseteq Nat /\ bad # {}
      BY <2>2
    <3>. HIDE DEF bad
    <3>1. PICK j \in bad : \A k \in bad : j <= k
      BY <3>0, LeastNumber
    <3>2. j \in 0..n - 1 /\ hs[n - j] # gs[n - j]
      BY <3>1 DEF bad
    <3>3. j # 0
      BY <1>3, <3>2
    <3>4. j - 1 \in 0..n - 1 /\ ~ (j <= j - 1)
      BY <3>2, <3>3
    <3>5. hs[n - (j - 1)] = gs[n - (j - 1)]
      BY <3>1, <3>4 DEF bad
    <3>6. n - (j - 1) \in 1..n /\ n - (j - 1) # 1 /\ (n - (j - 1)) - 1 = n - j
      BY <3>2, <3>3
    <3>7. hs[n - j] = gs[n - j]
      <4>. DEFINE i == n - (j - 1)
      <4>1. i \in 1..n /\ i # 1 /\ i - 1 = n - j /\ hs[i] = gs[i]
        BY <3>5, <3>6
      <4>. HIDE DEF i
      <4>2. hs[i] = <<i - 1, ps[i], hs[i - 1]>> /\ gs[i] = <<i - 1, qs[i], gs[i - 1]>>
        BY <1>1, <1>2, <1>3, <4>1
      <4>3. hs[i - 1] = gs[i - 1]
        <5>1. \A a, b, c, d, e, f : <<a, b, c>> = <<d, e, f>> => c = f
          OBVIOUS
        <5>2. <<i - 1, ps[i], hs[i - 1]>> = <<i - 1, qs[i], gs[i - 1]>>
          BY <4>1, <4>2
        <5>. QED
          BY <5>1, <5>2
      <4>. QED
        BY <4>1, <4>3
    <3>. QED
      BY <3>2, <3>7
  <2>. QED
    BY <2>1, <2>2
<1>5. \A i \in 1..n : ps[i] = qs[i]
  BY <1>1, <1>2, <1>3, <1>4
<1>. QED
  BY <1>3, <1>5 DEF Hashes

\* The entries of a chain that is accepted up to place n.
LEMMA AcceptedHashes ==
  ASSUME NEW n \in Nat, \A i \in 1..n : Accepts(entries, i)
  PROVE  Hashes([i \in 1..n |-> objects[entries[i]].hash], [i \in 1..n |-> objects[entries[i]].payload], n)
<1>. DEFINE hs == [i \in 1..n |-> objects[entries[i]].hash]
            ps == [i \in 1..n |-> objects[entries[i]].payload]
<1>1. ASSUME NEW i \in 1..n
      PROVE  hs[i] = Hash(i - 1, ps[i], IF i = 1 THEN Genesis ELSE hs[i - 1])
  <2>. DEFINE entry == objects[entries[i]]
  <2>1. /\ entry.hash = Hash(entry.seq, entry.payload, entry.prev)
        /\ entry.seq = i - 1 /\ entry.prev = IF i = 1 THEN Genesis ELSE objects[entries[i - 1]].hash
    BY DEF Accepts, Linked
  <2>2. hs[i] = entry.hash /\ ps[i] = entry.payload
    OBVIOUS
  <2>3. i = 1 \/ hs[i - 1] = objects[entries[i - 1]].hash
    OBVIOUS
  <2>. HIDE DEF hs, ps, entry
  <2>. QED
    BY <2>1, <2>2, <2>3
<1>2. ps = [i \in 1..n |-> ps[i]]
  OBVIOUS
<1>. HIDE DEF hs, ps
<1>3. Hashes(hs, ps, n)
  BY <1>1, <1>2 DEF Hashes
<1>. QED
  BY <1>3 DEF hs, ps

LEMMA AnchoredHolds == Spec => []Anchored
<1>1. Init => Anchored
  BY DEF Init, Anchored
<1>2. AuditInv /\ Anchored /\ [Next]_vars => Anchored'
  <2>. SUFFICES ASSUME AuditInv, Anchored, [Next]_vars PROVE Anchored'
    OBVIOUS
  <2>1. CASE UNCHANGED anchor
    BY <2>1 DEF Anchored
  <2>2. CASE Note
    <3>. DEFINE n == Len(entries)
                hs == [i \in 1..n |-> objects[entries[i]].hash]
                ps == [i \in 1..n |-> objects[entries[i]].payload]
    <3>1. /\ n \in Nat \ {0} /\ Last(entries) = entries[n]
          /\ anchor' = [hash |-> objects[Last(entries)].hash, payloads |-> ps]
          /\ Verifies(entries)
      BY <2>2, FieldTypes, Places1 DEF Note, AuditInv, Types
    <3>2. Hashes(hs, ps, n)
      BY <3>1, AcceptedHashes DEF Verifies
    <3>3. hs[n] = objects[entries[n]].hash
      BY <3>1
    <3>. HIDE DEF n, hs, ps
    <3>4. anchor'.payloads = ps /\ anchor'.hash = hs[n]
      BY <3>1, <3>3
    <3>. QED
      BY <3>1, <3>2, <3>4 DEF Anchored
  <2>3. UNCHANGED anchor \/ Note
    BY DEF Next, Deny, StartAppend, ReadLast, AppendRaises, Build, Store, Check, CheckEntry, CheckRaises, Change, vars
  <2>. QED
    BY <2>1, <2>2, <2>3
<1>. QED
  BY <1>1, <1>2, AuditInvHolds, PTL DEF Spec

(* Whoever kept the last hash of a log that verified, and finds it in a log*)
(* that verifies, finds the same payloads before it: the lengths agree, and*)
(* so does every place, by the last one where they would not.              *)
THEOREM TheLastHashFixesThePast == Spec => []HashFixesThePast
<1>1. Types /\ Anchored => HashFixesThePast
  <2>. SUFFICES ASSUME Types, Anchored, NEW n \in 1..Len(entries),
                       objects[entries[n]].hash = anchor.hash, \A i \in 1..n : Accepts(entries, i)
                PROVE  anchor.payloads = [i \in 1..n |-> objects[entries[i]].payload]
    BY DEF HashFixesThePast
  <2>. DEFINE gs == [i \in 1..n |-> objects[entries[i]].hash]
              qs == [i \in 1..n |-> objects[entries[i]].payload]
  <2>1. n \in Nat \ {0} /\ gs[n] = anchor.hash
    BY FieldTypes
  <2>2. Hashes(gs, qs, n)
    BY <2>1, AcceptedHashes
  <2>. HIDE DEF gs, qs
  <2>3. anchor # NoAnchor
    <3>1. gs[n] = <<n - 1, qs[n], IF n = 1 THEN Genesis ELSE gs[n - 1]>>
      BY <2>1, <2>2 DEF Hashes, Hash
    <3>2. Len(gs[n]) = 3
      BY <3>1
    <3>3. NoAnchor.hash = << >> /\ Len(<< >>) = 0
      BY DEF NoAnchor
    <3>. QED
      BY <2>1, <3>2, <3>3
  <2>4. PICK m \in Nat \ {0} : \E hs : Hashes(hs, anchor.payloads, m) /\ anchor.hash = hs[m]
    BY <2>3 DEF Anchored
  <2>5. PICK hs : Hashes(hs, anchor.payloads, m) /\ anchor.hash = hs[m]
    BY <2>4
  <2>6. anchor.payloads = qs
    BY <2>1, <2>2, <2>5, SameLastHash
  <2>. QED
    BY <2>6 DEF qs
<1>. QED
  BY <1>1, AuditInvHolds, AnchoredHolds, PTL DEF AuditInv

=============================================================================

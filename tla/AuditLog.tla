------------------------------ MODULE AuditLog ------------------------------
(***************************************************************************)
(* The audit log of liorm/audit.py: a tuple of entries, each of which holds*)
(* the hash of the one before it, and its clients, which record attempts   *)
(* that liorm/capabilities.py denies.  Threads append and verify without a *)
(* lock: the places where append reads or replaces the tuple are steps of  *)
(* their own.                                                              *)
(*                                                                         *)
(* An entry is an object: the tuple is immutable, but the payload of an    *)
(* entry is a dict that every holder of the entry may change.  The hash is *)
(* taken to be injective, so it is the hashed body itself.                 *)
(***************************************************************************)
EXTENDS Naturals, Sequences, FiniteSets, SequencesExt

CONSTANTS
  Threads,
  Profiles, Caps, \* Profile, RawSqlCapability
  Granted,        \* _PROFILE_CAPS: the set of pairs that are allowed
  Events,         \* what callers append themselves
  Refused,        \* events whose payload json.dumps does not take
  MaxAppends,     \* bound: calls of append
  MaxChanges,     \* bound: changes of a payload
  MaxChecks       \* bound: calls of verify_chain

ASSUME AuditAssumption ==
  /\ Granted \subseteq Profiles \X Caps
  /\ Refused \subseteq Events
  /\ MaxAppends \in Nat /\ MaxChanges \in Nat /\ MaxChecks \in Nat

VARIABLES
  objects,  \* the entries built so far; `made` is history, the payload it was built with
  entries,  \* _entries: a sequence of objects
  pc,       \* where each thread is
  local,    \* what each thread has read: seq, prev, and the entry or the tuple it works on
  appends, changes, checks,
  alone,    \* history: no two calls of append have overlapped so far
  returned, \* history: the objects that calls of append returned
  clean,    \* history: no payload changed since the check of each thread began
  verdict,  \* what verify_chain returned to each thread, for local[t].chain
  anchor    \* history: a log that verified once: the hash of its last entry, and its payloads

vars == <<objects, entries, pc, local, appends, changes, checks, alone, returned, clean, verdict, anchor>>

Genesis == << >>
Denials == (Profiles \X Caps) \ Granted
Payloads == Denials \cup Events

\* mutant: the hash does not cover prev_hash
HashUnchained(seq, payload, prev) == <<seq, payload>>

\* _entry_hash
Hash(seq, payload, prev) == <<seq, payload, prev>>

NoAnchor == [hash |-> << >>, payloads |-> << >>]
Nothing == [seq |-> 0, prev |-> Genesis, payload |-> << >>, chain |-> << >>]
Intact(chain) == \A i \in 1..Len(chain) : objects[chain[i]].payload = objects[chain[i]].made

\* What verify_chain asks of entry i of a tuple.
Linked(chain, i) ==
  LET entry == objects[chain[i]]
  IN  entry.seq = i - 1 /\ entry.prev = IF i = 1 THEN Genesis ELSE objects[chain[i - 1]].hash
Accepts(chain, i) ==
  LET entry == objects[chain[i]]
  IN  Linked(chain, i) /\ entry.hash = Hash(entry.seq, entry.payload, entry.prev)
Verifies(chain) == \A i \in 1..Len(chain) : Accepts(chain, i)

Init ==
  /\ objects = << >> /\ entries = << >>
  /\ pc = [t \in Threads |-> "idle"]
  /\ local = [t \in Threads |-> Nothing]
  /\ appends = 0 /\ changes = 0 /\ checks = 0
  /\ alone = TRUE
  /\ returned = {}
  /\ clean = [t \in Threads |-> TRUE]
  /\ verdict = [t \in Threads |-> "none"]
  /\ anchor = NoAnchor

Goto(t, there) == pc' = [pc EXCEPT ![t] = there]

-----------------------------------------------------------------------------
(* append begins, with the length of the log.                              *)
StartAppend(t, payload) ==
  /\ pc[t] = "idle"
  /\ appends < MaxAppends
  /\ appends' = appends + 1
  /\ alone' = (alone /\ \A o \in Threads : pc[o] \in {"idle", "checking"})
  /\ local' = [local EXCEPT ![t] = [Nothing EXCEPT !.seq = Len(entries), !.payload = payload]]
  /\ verdict' = [verdict EXCEPT ![t] = "none"]
  /\ Goto(t, "last")
  /\ UNCHANGED <<objects, entries, changes, checks, returned, clean, anchor>>

(* A profile asks for a capability: if it is not granted, assert_capability*)
(* raises, and the caller calls record_capability_denial.                  *)
Deny(t, profile, cap) ==
  /\ <<profile, cap>> \notin Granted
  /\ StartAppend(t, <<profile, cap>>)

(* Mutant: the hash of the last entry is read before it is looked whether  *)
(* there is one, and kept from the call before.                            *)
ReadLastStale(t) ==
  /\ pc[t] = "last"
  /\ local' = [local EXCEPT ![t].prev = IF Len(entries) < 2 THEN Genesis ELSE objects[entries[Len(entries) - 1]].hash]
  /\ Goto(t, "build")
  /\ UNCHANGED <<objects, entries, appends, changes, checks, alone, returned, clean, verdict, anchor>>

(* The hash of the last entry.                                             *)
ReadLast(t) ==
  /\ pc[t] = "last"
  /\ local' = [local EXCEPT ![t].prev = IF entries = << >> THEN Genesis ELSE objects[Last(entries)].hash]
  /\ Goto(t, "build")
  /\ UNCHANGED <<objects, entries, appends, changes, checks, alone, returned, clean, verdict, anchor>>

(* json.dumps or float() raises: append has changed nothing yet.           *)
AppendRaises(t) ==
  /\ pc[t] = "build"
  /\ local[t].payload \in Refused
  /\ local' = [local EXCEPT ![t] = Nothing]
  /\ Goto(t, "idle")
  /\ UNCHANGED <<objects, entries, appends, changes, checks, alone, returned, clean, verdict, anchor>>

(* Mutant: of a longer log only the newest entry is kept.                  *)
BuildShortens(t) ==
  /\ pc[t] = "build"
  /\ local[t].payload \notin Refused
  /\ LET here == local[t] IN
       objects' = Append(objects, [seq |-> here.seq, payload |-> here.payload, made |-> here.payload,
                                   prev |-> here.prev, hash |-> Hash(here.seq, here.payload, here.prev)])
  /\ local' = [local EXCEPT ![t].chain = Append(IF Len(entries) < 2 THEN entries ELSE Tail(entries), Len(objects) + 1)]
  /\ Goto(t, "store")
  /\ UNCHANGED <<entries, appends, changes, checks, alone, returned, clean, verdict, anchor>>

(* The entry is built, and the tuple read that it will be added to.        *)
Build(t) ==
  /\ pc[t] = "build"
  /\ local[t].payload \notin Refused
  /\ LET here == local[t] IN
       objects' = Append(objects, [seq |-> here.seq, payload |-> here.payload, made |-> here.payload,
                                   prev |-> here.prev, hash |-> Hash(here.seq, here.payload, here.prev)])
  /\ local' = [local EXCEPT ![t].chain = Append(entries, Len(objects) + 1)]
  /\ Goto(t, "store")
  /\ UNCHANGED <<entries, appends, changes, checks, alone, returned, clean, verdict, anchor>>

(* The tuple is replaced, and the entry returned.                          *)
Store(t) ==
  /\ pc[t] = "store"
  /\ entries' = local[t].chain
  /\ returned' = returned \cup {Last(local[t].chain)}
  /\ local' = [local EXCEPT ![t] = Nothing]
  /\ Goto(t, "idle")
  /\ UNCHANGED <<objects, appends, changes, checks, alone, clean, verdict, anchor>>

(* A holder of an entry writes into its payload.                           *)
Change(k, payload) ==
  /\ changes < MaxChanges
  /\ changes' = changes + 1
  /\ payload # objects[k].payload
  /\ objects' = [objects EXCEPT ![k].payload = payload]
  /\ clean' = [t \in Threads |-> FALSE]
  /\ UNCHANGED <<entries, pc, local, appends, checks, alone, returned, verdict, anchor>>

-----------------------------------------------------------------------------
(* verify_chain reads the tuple once ...                                   *)
Check(t) ==
  /\ pc[t] = "idle"
  /\ checks < MaxChecks
  /\ checks' = checks + 1
  /\ local' = [local EXCEPT ![t] = [Nothing EXCEPT !.chain = entries]]
  /\ clean' = [clean EXCEPT ![t] = TRUE]
  /\ verdict' = [verdict EXCEPT ![t] = "none"]
  /\ Goto(t, "checking")
  /\ UNCHANGED <<objects, entries, appends, changes, alone, returned, anchor>>

(* ... and looks at one entry after the other: `seq` counts them.         *)
Raises(chain, i) == i <= Len(chain) /\ Linked(chain, i) /\ objects[chain[i]].payload \in Refused
Done(t, answer) ==
  /\ verdict' = [verdict EXCEPT ![t] = answer]
  /\ Goto(t, "idle")
  /\ UNCHANGED local

CheckEntry(t) ==
  /\ pc[t] = "checking"
  /\ LET chain == local[t].chain
         i == local[t].seq + 1
     IN  /\ ~ Raises(chain, i)
         /\ IF i > Len(chain) THEN Done(t, "true")
            ELSE IF ~ Accepts(chain, i) THEN Done(t, "false")
            ELSE local' = [local EXCEPT ![t].seq = i] /\ UNCHANGED <<pc, verdict>>
  /\ UNCHANGED <<objects, entries, appends, changes, checks, alone, returned, clean, anchor>>

(* A payload that json.dumps does not take any more.                       *)
CheckRaises(t) ==
  /\ pc[t] = "checking"
  /\ Raises(local[t].chain, local[t].seq + 1)
  /\ Done(t, "raised")
  /\ UNCHANGED <<objects, entries, appends, changes, checks, alone, returned, clean, anchor>>

(* Somebody notes down the last hash of a log that verifies.               *)
Note ==
  /\ anchor = NoAnchor /\ entries # << >> /\ Verifies(entries)
  /\ anchor' = [hash |-> objects[Last(entries)].hash,
                payloads |-> [i \in 1..Len(entries) |-> objects[entries[i]].payload]]
  /\ UNCHANGED <<objects, entries, pc, local, appends, changes, checks, alone, returned, clean, verdict>>

Next ==
  \/ \E t \in Threads :
       \/ \E profile \in Profiles, cap \in Caps : Deny(t, profile, cap)
       \/ \E event \in Events : StartAppend(t, event)
       \/ ReadLast(t) \/ AppendRaises(t) \/ Build(t) \/ Store(t)
       \/ Check(t) \/ CheckEntry(t) \/ CheckRaises(t)
  \/ \E k \in 1..Len(objects), payload \in Payloads : Change(k, payload)
  \/ Note

Spec == Init /\ [][Next]_vars

-----------------------------------------------------------------------------
(* While calls of append have not overlapped, the log is append-only: what *)
(* a call returned stays at the place its number says, and the log holds   *)
(* nothing else.  (Overlapping calls read the same tuple and the later one *)
(* drops the entry of the other.)                                          *)
ReturnedEntriesStay ==
  alone =>
    /\ \A k \in returned : objects[k].seq < Len(entries) /\ entries[objects[k].seq + 1] = k
    /\ Len(entries) = Cardinality(returned)

(* What verify_chain answers is right, when no payload changed during the  *)
(* call: "true" means that every entry still holds what it was built with, *)
(* even in a log where calls overlapped; any other answer means that an    *)
(* entry does not, unless calls overlapped.                                *)
VerdictsAreRight ==
  \A t \in Threads : pc[t] = "idle" /\ clean[t] =>
    /\ verdict[t] = "true" => Intact(local[t].chain)
    /\ verdict[t] \in {"false", "raised"} /\ alone => ~ Intact(local[t].chain)

(* The chain of hashes: whoever kept the last hash of a log, and finds it  *)
(* in a log that verifies, finds the same payloads before it, whatever was *)
(* changed, lost or written again since.                                   *)
HashFixesThePast ==
  \A n \in 1..Len(entries) :
    objects[entries[n]].hash = anchor.hash /\ (\A i \in 1..n : Accepts(entries, i)) =>
      anchor.payloads = [i \in 1..n |-> objects[entries[i]].payload]

=============================================================================

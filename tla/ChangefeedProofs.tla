-------------------------- MODULE ChangefeedProofs --------------------------
(***************************************************************************)
(* What holds of the change feed for any number of inserters, consumers,   *)
(* subscriptions, sockets and events.  An event is followed by its number: *)
(* the inserter that holds it is the only one, it enters the queue once,   *)
(* and what its inserter has still to do (callbacks to run, sockets to     *)
(* write) makes up for what subscribers and clients have not got yet.      *)
(*                                                                         *)
(* The order of the stream (PublishedInLsnOrder, SocketStreamsAreRuns)     *)
(* needs that there is one inserter.                                       *)
(***************************************************************************)
EXTENDS Changefeed, FiniteSetTheorems, SequenceTheorems, TLAPS

-----------------------------------------------------------------------------
(* The invariant.                                                          *)

Distinct(s) == \A j, k \in 1..Len(s) : s[j] = s[k] => j = k

\* An inserter holds an event while its call lasts, and no other holds it.
EventsAreHeld ==
  /\ \A i \in Inserters :
       /\ pc[i] = "idle" => event[i] = NoEvent
       /\ pc[i] # "idle" => event[i] \in Event /\ event[i].id <= inserts
  /\ \A i, j \in Inserters : pc[i] # "idle" /\ event[i].id = event[j].id => i = j

\* An event enters the queue once, when its inserter publishes it.
EventsEnterOnce ==
  /\ \A k \in 1..Len(enqueued) : enqueued[k].id <= inserts
  /\ \A j, k \in 1..Len(enqueued) : enqueued[j].id = enqueued[k].id => j = k
  /\ \A i \in Inserters, k \in 1..Len(enqueued) :
       pc[i] # "idle" /\ enqueued[k].id = event[i].id => pc[i] \in {"callbacks", "write"} /\ enqueued[k] = event[i]

\* The loops of publish and fanout_json have nothing left when they are not running.
LoopsAreDone ==
  \A i \in Inserters :
    /\ pc[i] # "callbacks" => callbacks[i] = << >>
    /\ pc[i] # "write" => targets[i] = << >> /\ dead[i] = {}

SubscriptionsAreDistinct ==
  /\ \A k \in 1..Len(subs) : subs[k].id < nextId
  /\ \A j, k \in 1..Len(subs) : subs[j].id = subs[k].id => j = k

\* The callbacks of an event: those that ran, and those its inserter has left.
CallbacksAreLeft ==
  /\ \A i \in Inserters :
       /\ pc[i] \in {"lsn", "bump", "publish"} => called[event[i].id] = {}
       /\ pc[i] \in {"callbacks", "write"} =>
            /\ called[event[i].id] \cup Elements(callbacks[i]) = due[event[i].id]
            /\ called[event[i].id] \cap Elements(callbacks[i]) = {}
            /\ Distinct(callbacks[i])
  /\ \A e \in 1..inserts : (\A i \in Inserters : event[i].id # e) => called[e] = due[e]
  /\ \A e \in (inserts + 1)..MaxEvents : called[e] = {}

\* A connected client is on the list, and only the sockets of clients that left are taken off.
SocketsAreListed ==
  /\ \A fd \in Fds : peer[fd] = "connected" => fd \in Elements(clients)
  /\ \A i \in Inserters : \A fd \in dead[i] : peer[fd] = "gone"
  /\ \A fd \in Fds : peer[fd] = "none" => inbox[fd] = << >> /\ fd \notin Elements(clients)
  /\ Distinct(clients) /\ \A i \in Inserters : Distinct(targets[i])

FeedInv ==
  /\ TypeOK /\ EventsAreHeld /\ EventsEnterOnce /\ LoopsAreDone /\ SubscriptionsAreDistinct
CallbackInv == FeedInv /\ CallbacksAreLeft
SocketInv == FeedInv /\ SocketsAreListed /\ ConnectedClientsMissNothing

\* With one inserter, what follows the queue in the WAL is the event on its way there.
Logged == IF \E i \in Inserters : pc[i] = "publish" THEN 1 ELSE 0
LsnInv ==
  /\ Len(wal) = Len(enqueued) + Logged
  /\ \A k \in 1..Len(enqueued) : enqueued[k] = wal[k]
  /\ \A k \in 1..Len(wal) : wal[k].lsn < nextLsn
  /\ \A j, k \in 1..Len(wal) : j < k => wal[j].lsn < wal[k].lsn
  /\ \A i \in Inserters :
       /\ pc[i] = "bump" => event[i].lsn = nextLsn
       /\ pc[i] = "publish" => event[i] = wal[Len(wal)]

\* What a socket got is the end of the first m events of the stream.
GotUpTo(fd, m) ==
  /\ Len(inbox[fd]) <= m
  /\ \A k \in 1..Len(inbox[fd]) : inbox[fd][k] = enqueued[m - Len(inbox[fd]) + k]

\* The event that is published last has still to be written to a socket.
Behind(fd) == \E i \in Inserters : pc[i] = "callbacks" \/ fd \in Elements(targets[i])

RunInv ==
  /\ \A i \in Inserters :
       pc[i] \in {"callbacks", "write"} => Len(enqueued) > 0 /\ event[i] = enqueued[Len(enqueued)]
  /\ \A fd \in Fds :
       /\ \E m \in 0..Len(enqueued) : GotUpTo(fd, m)
       /\ peer[fd] = "connected" => GotUpTo(fd, IF Behind(fd) THEN Len(enqueued) - 1 ELSE Len(enqueued))

-----------------------------------------------------------------------------
(* What is left of a vector.                                               *)

LEMMA CardinalityBelow ==
  ASSUME NEW A, NEW B, IsFiniteSet(B), NEW x \in B, A \subseteq B \ {x}
  PROVE  /\ IsFiniteSet(A) /\ Cardinality(A) \in Nat /\ Cardinality(B) \in Nat
         /\ Cardinality(A) + 1 <= Cardinality(B)
<1>1. IsFiniteSet(B \ {x}) /\ Cardinality(B \ {x}) = Cardinality(B) - 1
  BY FS_RemoveElement
<1>2. IsFiniteSet(A) /\ Cardinality(A) <= Cardinality(B \ {x})
  BY <1>1, FS_Subset
<1>3. Cardinality(A) \in Nat /\ Cardinality(B) \in Nat
  BY <1>2, FS_CardinalityType
<1>. QED
  BY <1>1, <1>2, <1>3

\* Places are numbered by how many others come before them.
LEMMA PlacesAreNumbered ==
  ASSUME NEW n \in Nat, NEW places \in SUBSET (1..n)
  PROVE  /\ IsFiniteSet(places) /\ Cardinality(places) \in Nat
         /\ \A k \in 1..Cardinality(places) : Nth(places, k) \in places
         /\ \A i \in places : \E k \in 1..Cardinality(places) : Nth(places, k) = i
         /\ \A j, k \in 1..Cardinality(places) : Nth(places, j) = Nth(places, k) => j = k
<1>. DEFINE below(i) == {j \in places : j < i}
            size == Cardinality(places)
            number == [i \in places |-> Cardinality(below(i)) + 1]
<1>1. IsFiniteSet(1..n)
  BY FS_Interval
<1>2. IsFiniteSet(places) /\ size \in Nat
  BY <1>1, FS_Subset, FS_CardinalityType
<1>3. \A i \in places : /\ IsFiniteSet(below(i)) /\ Cardinality(below(i)) \in Nat
                        /\ Cardinality(below(i)) + 1 \in 1..size
  <2>1. ASSUME NEW i \in places
        PROVE  IsFiniteSet(below(i)) /\ Cardinality(below(i)) \in Nat /\ Cardinality(below(i)) + 1 <= size
    <3>1. below(i) \subseteq places \ {i}
      OBVIOUS
    <3>. QED
      BY <1>2, <3>1, CardinalityBelow
  <2>. QED
    BY <1>2, <2>1
<1>4. ASSUME NEW i \in places, NEW j \in places, i < j
      PROVE  Cardinality(below(i)) + 1 <= Cardinality(below(j))
  <2>1. \A k \in places : k \in Nat
    OBVIOUS
  <2>2. i \in below(j) /\ \A k \in below(i) : k \in below(j) /\ k # i
    BY <1>4, <2>1
  <2>3. below(i) \subseteq below(j) \ {i}
    BY <2>2
  <2>. QED
    BY <1>3, <2>2, <2>3, CardinalityBelow
<1>5. ASSUME NEW i \in places, NEW j \in places, Cardinality(below(i)) = Cardinality(below(j))
      PROVE  i = j
  <2>1. i \in Nat /\ j \in Nat /\ Cardinality(below(i)) \in Nat
    BY <1>3
  <2>2. ~ (i < j) /\ ~ (j < i)
    BY <1>4, <1>5, <2>1
  <2>. QED
    BY <2>1, <2>2
<1>. HIDE DEF below
<1>6. number \in Injection(places, 1..size)
  <2>1. number \in [places -> 1..size]
    BY <1>3
  <2>2. \A i, j \in places : number[i] = number[j] => i = j
    BY <1>3, <1>5
  <2>. QED
    BY <2>1, <2>2 DEF Injection, IsInjective
<1>7. number \in Surjection(places, 1..size)
  <2>1. IsFiniteSet(1..size) /\ Cardinality(1..size) = size
    BY <1>2, FS_Interval
  <2>. HIDE DEF number
  <2>. QED
    BY <1>6, <2>1, FS_Injection
<1>8. \A k \in 1..size : \E i \in places : Cardinality(below(i)) + 1 = k
  BY <1>7 DEF Surjection
<1>9. \A k \in 1..size : Nth(places, k) \in places /\ Cardinality(below(Nth(places, k))) = k - 1
  <2>1. ASSUME NEW k \in 1..size
        PROVE  Nth(places, k) \in places /\ Cardinality(below(Nth(places, k))) = k - 1
    <3>1. \E i \in places : Cardinality({j \in places : j < i}) = k - 1
      BY <1>3, <1>8 DEF below
    <3>. QED
      BY <3>1 DEF Nth, below
  <2>. QED
    BY <2>1
<1>10. \A i \in places : \E k \in 1..size : Nth(places, k) = i
  <2>1. ASSUME NEW i \in places
        PROVE  \E k \in 1..size : Nth(places, k) = i
    <3>. DEFINE k == Cardinality(below(i)) + 1
    <3>1. k \in 1..size /\ k - 1 = Cardinality(below(i))
      BY <1>3
    <3>2. Nth(places, k) = i
      BY <1>5, <1>9, <3>1
    <3>. QED
      BY <3>1, <3>2
  <2>. QED
    BY <2>1
<1>11. \A j, k \in 1..size : Nth(places, j) = Nth(places, k) => j = k
  <2>1. ASSUME NEW j \in 1..size, NEW k \in 1..size, Nth(places, j) = Nth(places, k)
        PROVE  j = k
    <3>1. j - 1 = k - 1
      BY <1>9, <2>1
    <3>. QED
      BY <1>2, <3>1
  <2>. QED
    BY <2>1
<1>. QED
  BY <1>2, <1>9, <1>10, <1>11

\* The elements that are kept, each as often as it was there, in a sequence.
LEMMA KeptProperties ==
  ASSUME NEW S, NEW s \in Seq(S), NEW places \in SUBSET (1..Len(s))
  PROVE  /\ Kept(s, places) \in Seq(S)
         /\ Elements(Kept(s, places)) = {s[i] : i \in places}
         /\ \A j, k \in 1..Len(Kept(s, places)) : \E a, b \in places :
              Kept(s, places)[j] = s[a] /\ Kept(s, places)[k] = s[b] /\ (a = b => j = k)
<1>. DEFINE size == Cardinality(places)
            nth(k) == Nth(places, k)
<1>1. Len(s) \in Nat /\ \A i \in 1..Len(s) : s[i] \in S
  OBVIOUS
<1>2. /\ size \in Nat
      /\ \A k \in 1..size : nth(k) \in places
      /\ \A i \in places : \E k \in 1..size : nth(k) = i
      /\ \A j, k \in 1..size : nth(j) = nth(k) => j = k
  BY <1>1, PlacesAreNumbered
<1>3. Kept(s, places) = [k \in 1..size |-> s[nth(k)]]
  BY DEF Kept
<1>. HIDE DEF size, nth
<1>4. \A k \in 1..size : s[nth(k)] \in S
  BY <1>1, <1>2
<1>5. Kept(s, places) \in Seq(S) /\ Len(Kept(s, places)) = size
  BY <1>2, <1>3, <1>4
<1>6. \A k \in 1..size : Kept(s, places)[k] = s[nth(k)]
  BY <1>3
<1>. DEFINE kept == Kept(s, places)
<1>7. \A x : x \in Elements(kept) <=> \E i \in places : s[i] = x
  <2>1. ASSUME NEW k \in 1..Len(kept)
        PROVE  \E i \in places : s[i] = kept[k]
    BY <1>2, <1>5, <1>6
  <2>2. ASSUME NEW i \in places
        PROVE  \E k \in 1..Len(kept) : kept[k] = s[i]
    BY <1>2, <1>5, <1>6
  <2>. HIDE DEF kept
  <2>. QED
    BY <2>1, <2>2 DEF Elements
<1>8. Elements(Kept(s, places)) = {s[i] : i \in places}
  BY <1>7
<1>9. ASSUME NEW j \in 1..size, NEW k \in 1..size
      PROVE  \E a, b \in places : Kept(s, places)[j] = s[a] /\ Kept(s, places)[k] = s[b] /\ (a = b => j = k)
  BY <1>2, <1>6
<1>. QED
  BY <1>5, <1>8, <1>9

-----------------------------------------------------------------------------
(* Steps.                                                                  *)

LEMMA ElementsFit ==
  ASSUME NEW S, NEW s \in Seq(S)
  PROVE  /\ Len(s) \in Nat /\ \A k \in 1..Len(s) : s[k] \in S
         /\ Elements(s) \subseteq S
         /\ s # << >> => /\ Head(s) \in S /\ Tail(s) \in Seq(S)
                         /\ Len(s) > 0 /\ Len(Tail(s)) = Len(s) - 1
                         /\ Head(s) = s[1] /\ \A k \in 1..Len(Tail(s)) : Tail(s)[k] = s[k + 1]
BY DEF Elements

LEMMA Appended ==
  ASSUME NEW S, NEW s \in Seq(S), NEW e \in S
  PROVE  /\ Append(s, e) \in Seq(S) /\ Len(Append(s, e)) = Len(s) + 1
         /\ \A k \in 1..Len(s) : Append(s, e)[k] = s[k]
         /\ Append(s, e)[Len(s) + 1] = e
         /\ Elements(Append(s, e)) = Elements(s) \cup {e}
<1>1. /\ Append(s, e) \in Seq(S) /\ Len(Append(s, e)) = Len(s) + 1 /\ Len(s) \in Nat
      /\ \A k \in 1..Len(s) : Append(s, e)[k] = s[k]
      /\ Append(s, e)[Len(s) + 1] = e
  OBVIOUS
<1>2. \A x : x \in Elements(Append(s, e)) <=> x \in Elements(s) \/ x = e
  <2>. DEFINE longer == Append(s, e)
  <2>1. \A k \in 1..(Len(s) + 1) : longer[k] = e \/ (k \in 1..Len(s) /\ longer[k] = s[k])
    BY <1>1
  <2>2. Len(s) + 1 \in 1..(Len(s) + 1) /\ \A k \in 1..Len(s) : k \in 1..(Len(s) + 1)
    BY <1>1
  <2>. HIDE DEF longer
  <2>3. Len(longer) = Len(s) + 1 /\ longer[Len(s) + 1] = e /\ \A k \in 1..Len(s) : longer[k] = s[k]
    BY <1>1 DEF longer
  <2>4. \A x : x \in Elements(longer) <=> x \in Elements(s) \/ x = e
    BY <2>1, <2>2, <2>3 DEF Elements
  <2>. QED
    BY <2>4 DEF longer
<1>. QED
  BY <1>1, <1>2

\* What is left of a sequence without its head.
LEMMA TailElements ==
  ASSUME NEW S, NEW s \in Seq(S), s # << >>
  PROVE  /\ Elements(s) = {Head(s)} \cup Elements(Tail(s))
         /\ Distinct(s) => Distinct(Tail(s)) /\ Head(s) \notin Elements(Tail(s))
<1>1. /\ Len(s) \in Nat /\ Len(s) > 0 /\ Len(Tail(s)) = Len(s) - 1
      /\ Head(s) = s[1] /\ \A k \in 1..Len(Tail(s)) : Tail(s)[k] = s[k + 1]
  BY ElementsFit
<1>. DEFINE rest == Tail(s)
<1>2. \A k \in 1..Len(rest) : k + 1 \in 1..Len(s) /\ k + 1 # 1 /\ rest[k] = s[k + 1]
  BY <1>1
<1>3. \A k \in 1..Len(s) : k = 1 \/ (k - 1 \in 1..Len(rest) /\ s[k] = rest[k - 1])
  BY <1>1
<1>4. 1 \in 1..Len(s)
  BY <1>1
<1>. HIDE DEF rest
<1>5. \A x : x \in Elements(s) <=> x = Head(s) \/ x \in Elements(rest)
  BY <1>1, <1>2, <1>3, <1>4 DEF Elements
<1>6. ASSUME Distinct(s)
      PROVE  Distinct(rest) /\ Head(s) \notin Elements(rest)
  <2>1. \A k \in 1..Len(rest) : rest[k] # s[1]
    BY <1>2, <1>4, <1>6 DEF Distinct
  <2>2. ASSUME NEW j \in 1..Len(rest), NEW k \in 1..Len(rest), rest[j] = rest[k]
        PROVE  j = k
    <3>1. j + 1 = k + 1
      BY <1>2, <1>6, <2>2 DEF Distinct
    <3>. QED
      BY <1>1, <3>1 DEF rest
  <2>. QED
    BY <1>1, <2>1, <2>2 DEF Distinct, Elements
<1>. QED
  BY <1>5, <1>6 DEF rest

\* The subscriptions to an event, each once.
LEMMA MatchingProperties ==
  ASSUME subs \in Seq(Subscription), SubscriptionsAreDistinct, NEW e
  PROVE  Matching(e) \in Seq(SubId) /\ Distinct(Matching(e))
<1>. DEFINE places == {i \in 1..Len(subs) : Matches(subs[i], e)}
            hits == Kept(subs, places)
<1>1. places \in SUBSET (1..Len(subs))
  OBVIOUS
<1>. HIDE DEF places
<1>2. /\ hits \in Seq(Subscription)
      /\ \A j, k \in 1..Len(hits) : \E a, b \in places :
              hits[j] = subs[a] /\ hits[k] = subs[b] /\ (a = b => j = k)
  BY <1>1, KeptProperties
<1>3. Matching(e) = [k \in 1..Len(hits) |-> hits[k].id]
  BY DEF Matching, places
<1>. HIDE DEF hits
<1>4. Len(hits) \in Nat /\ \A k \in 1..Len(hits) : hits[k] \in Subscription
  BY <1>2, ElementsFit
<1>5. \A k \in 1..Len(hits) : hits[k].id \in SubId
  BY <1>4 DEF Subscription
<1>6. Matching(e) \in Seq(SubId) /\ Len(Matching(e)) = Len(hits)
  BY <1>3, <1>4, <1>5
<1>7. ASSUME NEW j \in 1..Len(hits), NEW k \in 1..Len(hits), hits[j].id = hits[k].id
      PROVE  j = k
  <2>1. PICK a, b \in places : hits[j] = subs[a] /\ hits[k] = subs[b] /\ (a = b => j = k)
    BY <1>2
  <2>2. a = b
    BY <1>1, <1>7, <2>1 DEF SubscriptionsAreDistinct
  <2>. QED
    BY <2>1, <2>2
<1>. QED
  BY <1>3, <1>6, <1>7 DEF Distinct

-----------------------------------------------------------------------------
(* Types.                                                                  *)

HubTypes ==
  /\ alive \in BOOLEAN /\ inserts \in 0..MaxEvents /\ nextLsn \in Nat
  /\ wal \in Seq(Event) /\ queue \in Seq(Event) /\ enqueued \in Seq(Event)
  /\ popped \in Seq([event : Event, returned : BOOLEAN])
SubTypes ==
  /\ subs \in Seq(Subscription) /\ nextId \in 1..(MaxSubs + 1)
  /\ due \in [1..MaxEvents -> SUBSET SubId] /\ called \in [1..MaxEvents -> SUBSET SubId]
SockTypes ==
  /\ clients \in Seq(Fds)
  /\ peer \in [Fds -> {"none", "connected", "gone"}]
  /\ inbox \in [Fds -> Seq(Event)]
  /\ unread \in [Fds -> 0..SockBuf]
  /\ joined \in [Fds -> 0..MaxEvents]
ThreadTypes ==
  /\ pc \in [Inserters -> Location]
  /\ event \in [Inserters -> Event \cup {NoEvent}]
  /\ callbacks \in [Inserters -> Seq(SubId)]
  /\ targets \in [Inserters -> Seq(Fds)]
  /\ dead \in [Inserters -> SUBSET Fds]

LEMMA TypeGroups == TypeOK <=> HubTypes /\ SubTypes /\ SockTypes /\ ThreadTypes
BY DEF TypeOK, HubTypes, SubTypes, SockTypes, ThreadTypes

\* A running inserter holds an event.
LEMMA RunningHoldEvents ==
  ASSUME FeedInv, NEW i \in Inserters, pc[i] # "idle"
  PROVE  /\ event[i] \in Event
         /\ event[i].id \in 1..MaxEvents /\ event[i].lsn \in Nat /\ event[i].table \in Tables
         /\ event[i].id <= inserts
BY DEF FeedInv, EventsAreHeld, Event

LEMMA HubTypesStay ==
  ASSUME FeedInv, [Next]_vars
  PROVE  HubTypes'
<1>1. HubTypes /\ ThreadTypes
  BY TypeGroups DEF FeedInv
<1>2. CASE UNCHANGED <<alive, inserts, nextLsn, wal, hubVars>>
  BY <1>1, <1>2 DEF HubTypes, hubVars
<1>3. ASSUME NEW i \in Inserters, NEW t \in Tables, NativeInsert(i, t)
      PROVE  HubTypes'
  <2>1. inserts' = inserts + 1 /\ inserts < MaxEvents /\ UNCHANGED <<alive, nextLsn, wal, hubVars>>
    BY <1>3 DEF NativeInsert
  <2>2. inserts' \in 0..MaxEvents
    BY <1>1, <2>1, FeedAssumption DEF HubTypes
  <2>. QED
    BY <1>1, <2>1, <2>2 DEF HubTypes, hubVars
<1>4. ASSUME NEW i \in Inserters, AppendRecord(i)
      PROVE  HubTypes'
  <2>1. nextLsn' = event[i].lsn + 1 /\ wal' = Append(wal, event[i]) /\ UNCHANGED <<alive, inserts, hubVars>>
    BY <1>4 DEF AppendRecord
  <2>2. event[i] \in Event /\ event[i].lsn \in Nat
    BY <1>4, RunningHoldEvents DEF AppendRecord, At
  <2>. QED
    BY <1>1, <2>1, <2>2, Appended DEF HubTypes, hubVars
<1>5. ASSUME NEW i \in Inserters, Publish(i)
      PROVE  HubTypes'
  <2>1. /\ queue' = Append(queue, event[i]) /\ enqueued' = Append(enqueued, event[i])
        /\ UNCHANGED <<alive, inserts, nextLsn, wal, popped>>
    BY <1>5 DEF Publish
  <2>2. event[i] \in Event
    BY <1>5, RunningHoldEvents DEF Publish, At
  <2>. QED
    BY <1>1, <2>1, <2>2, Appended DEF HubTypes
<1>6. ASSUME NEW i \in Inserters, WriteFails(i)
      PROVE  HubTypes'
  BY <1>1, <1>6 DEF WriteFails, HubTypes, hubVars
<1>7. CASE Poll
  <2>1. PICK fits \in BOOLEAN : popped' = Append(popped, [event |-> Head(queue), returned |-> fits])
    BY <1>7, FeedAssumption DEF Poll
  <2>2. queue # << >> /\ queue' = Tail(queue) /\ UNCHANGED <<alive, inserts, nextLsn, wal, enqueued>>
    BY <1>7 DEF Poll
  <2>3. Head(queue) \in Event /\ Tail(queue) \in Seq(Event)
    BY <1>1, <2>2, ElementsFit DEF HubTypes
  <2>4. [event |-> Head(queue), returned |-> fits] \in [event : Event, returned : BOOLEAN]
    BY <2>3
  <2>. QED
    BY <1>1, <2>1, <2>2, <2>3, <2>4, Appended DEF HubTypes
<1>8. CASE Next /\ ~ UNCHANGED <<alive, inserts, nextLsn, wal, hubVars>>
  <2>1. \/ \E i \in Inserters : AppendRecord(i) \/ Publish(i) \/ WriteFails(i) \/ \E t \in Tables : NativeInsert(i, t)
        \/ Poll
    BY <1>8 DEF Next, InsertStep, ReadLsn, Callback, CopyClients, WriteLine, Prune, Subscribe, Unsubscribe,
                Attach, ClientRead, ClientLeaves
  <2>. QED
    BY <1>3, <1>4, <1>5, <1>6, <1>7, <2>1
<1>. QED
  BY <1>2, <1>8 DEF vars

LEMMA SubTypesStay ==
  ASSUME FeedInv, [Next]_vars
  PROVE  SubTypes'
<1>1. SubTypes /\ ThreadTypes
  BY TypeGroups DEF FeedInv
<1>2. CASE UNCHANGED <<subVars, due, called>>
  BY <1>1, <1>2 DEF SubTypes, subVars
<1>3. ASSUME NEW i \in Inserters, Publish(i)
      PROVE  SubTypes'
  <2>1. due' = [due EXCEPT ![event[i].id] = Elements(Matching(event[i]))] /\ UNCHANGED <<subVars, called>>
    BY <1>3 DEF Publish
  <2>2. Matching(event[i]) \in Seq(SubId)
    BY <1>1, MatchingProperties DEF SubTypes, FeedInv
  <2>3. Elements(Matching(event[i])) \in SUBSET SubId
    BY <2>2, ElementsFit
  <2>. QED
    BY <1>1, <2>1, <2>3 DEF SubTypes, subVars
<1>4. ASSUME NEW i \in Inserters, Callback(i)
      PROVE  SubTypes'
  <2>1. /\ callbacks[i] # << >> /\ callbacks[i] \in Seq(SubId)
        /\ called' = [called EXCEPT ![event[i].id] = @ \cup {Head(callbacks[i])}] /\ UNCHANGED <<subVars, due>>
    BY <1>1, <1>4 DEF Callback, ThreadTypes
  <2>2. Head(callbacks[i]) \in SubId
    BY <2>1, ElementsFit
  <2>. QED
    BY <1>1, <2>1, <2>2 DEF SubTypes, subVars
<1>5. ASSUME NEW t \in Tables \cup {Wildcard}, Subscribe(t)
      PROVE  SubTypes'
  <2>1. /\ nextId <= MaxSubs /\ nextId' = nextId + 1
        /\ subs' = Append(subs, [id |-> nextId, table |-> t]) /\ UNCHANGED <<due, called>>
    BY <1>5 DEF Subscribe
  <2>2. nextId \in SubId /\ nextId' \in 1..(MaxSubs + 1)
    BY <1>1, <2>1, FeedAssumption DEF SubTypes, SubId
  <2>3. [id |-> nextId, table |-> t] \in Subscription
    BY <2>2 DEF Subscription
  <2>. QED
    BY <1>1, <2>1, <2>2, <2>3, Appended DEF SubTypes
<1>6. ASSUME NEW id \in SubId, Unsubscribe(id)
      PROVE  SubTypes'
  <2>1. subs' = Kept(subs, {i \in 1..Len(subs) : subs[i].id # id}) /\ UNCHANGED <<nextId, due, called>>
    BY <1>6 DEF Unsubscribe
  <2>2. subs' \in Seq(Subscription)
    BY <1>1, <2>1, KeptProperties DEF SubTypes
  <2>. QED
    BY <1>1, <2>1, <2>2 DEF SubTypes
<1>7. CASE Next /\ ~ UNCHANGED <<subVars, due, called>>
  <2>1. \/ \E i \in Inserters : Publish(i) \/ Callback(i)
        \/ \E t \in Tables \cup {Wildcard} : Subscribe(t)
        \/ \E id \in SubId : Unsubscribe(id)
    BY <1>7 DEF Next, InsertStep, ReadLsn, AppendRecord, CopyClients, WriteLine, WriteFails, Prune, NativeInsert,
                Poll, Attach, ClientRead, ClientLeaves
  <2>. QED
    BY <1>3, <1>4, <1>5, <1>6, <2>1
<1>. QED
  BY <1>2, <1>7 DEF vars

LEMMA FirstNumbers ==
  ASSUME NEW n \in Nat
  PROVE  IsFiniteSet(1..n) /\ Cardinality(1..n) = n
BY FS_Interval

\* No more events were published than inserted.
LEMMA StreamFits ==
  ASSUME FeedInv
  PROVE  Len(enqueued) \in 0..MaxEvents
<1>1. /\ Len(enqueued) \in Nat /\ inserts \in Nat /\ inserts <= MaxEvents /\ MaxEvents \in Nat
      /\ \A k \in 1..Len(enqueued) : enqueued[k] \in Event
  BY FeedAssumption, ElementsFit DEF FeedInv, TypeOK
<1>. DEFINE idOf == [k \in 1..Len(enqueued) |-> enqueued[k].id]
<1>2. \A k \in 1..Len(enqueued) : enqueued[k].id \in 1..inserts
  BY <1>1 DEF FeedInv, EventsEnterOnce, Event
<1>3. idOf \in Injection(1..Len(enqueued), 1..inserts)
  BY <1>2 DEF FeedInv, EventsEnterOnce, Injection, IsInjective
<1>4. IsFiniteSet(1..inserts) /\ Cardinality(1..inserts) = inserts /\ Cardinality(1..Len(enqueued)) = Len(enqueued)
  BY <1>1, FirstNumbers
<1>. HIDE DEF idOf
<1>5. Cardinality(1..Len(enqueued)) <= Cardinality(1..inserts)
  BY <1>3, <1>4, FS_Injection
<1>. QED
  BY <1>1, <1>4, <1>5

LEMMA SockTypesStay ==
  ASSUME FeedInv, [Next]_vars
  PROVE  SockTypes'
<1>1. SockTypes /\ ThreadTypes
  BY TypeGroups DEF FeedInv
<1>2. CASE UNCHANGED sockVars
  BY <1>1, <1>2 DEF SockTypes, sockVars
<1>3. ASSUME NEW i \in Inserters, WriteLine(i)
      PROVE  SockTypes'
  <2>. DEFINE fd == Head(targets[i])
  <2>1. /\ targets[i] # << >> /\ targets[i] \in Seq(Fds) /\ pc[i] # "idle" /\ unread[fd] < SockBuf
        /\ inbox' = [inbox EXCEPT ![fd] = Append(@, event[i])]
        /\ unread' = [unread EXCEPT ![fd] = @ + 1]
        /\ UNCHANGED <<clients, peer, joined>>
    BY <1>1, <1>3 DEF WriteLine, At, ThreadTypes
  <2>2. fd \in Fds /\ event[i] \in Event
    BY <2>1, ElementsFit, RunningHoldEvents
  <2>3. Append(inbox[fd], event[i]) \in Seq(Event)
    BY <1>1, <2>2 DEF SockTypes
  <2>4. unread[fd] + 1 \in 0..SockBuf
    <3>1. unread[fd] \in 0..SockBuf /\ SockBuf \in Nat
      BY <1>1, <2>2, FeedAssumption DEF SockTypes
    <3>. QED
      BY <2>1, <3>1
  <2>. HIDE DEF fd
  <2>. QED
    BY <1>1, <2>1, <2>2, <2>3, <2>4 DEF SockTypes
<1>4. ASSUME NEW i \in Inserters, Prune(i)
      PROVE  SockTypes'
  <2>1. clients' = Kept(clients, {k \in 1..Len(clients) : clients[k] \notin dead[i]}) /\ UNCHANGED <<peer, inbox, unread, joined>>
    BY <1>4 DEF Prune, Without
  <2>2. clients' \in Seq(Fds)
    BY <1>1, <2>1, KeptProperties DEF SockTypes
  <2>. QED
    BY <1>1, <2>1, <2>2 DEF SockTypes
<1>5. ASSUME NEW fd \in Fds, Attach(fd)
      PROVE  SockTypes'
  <2>1. /\ peer' = [peer EXCEPT ![fd] = "connected"] /\ clients' = Append(clients, fd)
        /\ joined' = [joined EXCEPT ![fd] = Len(enqueued)] /\ UNCHANGED <<inbox, unread>>
    BY <1>5 DEF Attach
  <2>. QED
    BY <1>1, <2>1, StreamFits, Appended DEF SockTypes
<1>6. ASSUME NEW fd \in Fds, ClientRead(fd) \/ ClientLeaves(fd)
      PROVE  SockTypes'
  <2>1. CASE ClientRead(fd)
    <3>1. unread[fd] \in 0..SockBuf /\ unread[fd] > 0 /\ SockBuf \in Nat
      BY <1>1, <2>1, FeedAssumption DEF SockTypes, ClientRead
    <3>2. unread[fd] - 1 \in 0..SockBuf
      BY <3>1
    <3>. QED
      BY <1>1, <2>1, <3>2 DEF ClientRead, SockTypes
  <2>2. CASE ClientLeaves(fd)
    BY <1>1, <2>2 DEF ClientLeaves, SockTypes
  <2>. QED
    BY <1>6, <2>1, <2>2
<1>7. CASE Next /\ ~ UNCHANGED sockVars
  <2>1. \/ \E i \in Inserters : WriteLine(i) \/ Prune(i)
        \/ \E fd \in Fds : Attach(fd) \/ ClientRead(fd) \/ ClientLeaves(fd)
    BY <1>7 DEF Next, InsertStep, ReadLsn, AppendRecord, Publish, Callback, CopyClients, WriteFails, NativeInsert,
                Poll, Subscribe, Unsubscribe
  <2>. QED
    BY <1>3, <1>4, <1>5, <1>6, <2>1
<1>. QED
  BY <1>2, <1>7 DEF vars

LEMMA ThreadTypesStay ==
  ASSUME FeedInv, [Next]_vars
  PROVE  ThreadTypes'
<1>1. ThreadTypes /\ HubTypes /\ SockTypes /\ SubTypes
  BY TypeGroups DEF FeedInv
<1>2. CASE UNCHANGED threadVars
  BY <1>1, <1>2 DEF ThreadTypes, threadVars
<1>3. ASSUME NEW i \in Inserters, NEW t \in Tables, NativeInsert(i, t)
      PROVE  ThreadTypes'
  <2>1. /\ event' = [event EXCEPT ![i] = [id |-> inserts + 1, lsn |-> 0, table |-> t]]
        /\ pc' = [pc EXCEPT ![i] = "lsn"] /\ UNCHANGED <<callbacks, targets, dead>>
    BY <1>3 DEF NativeInsert, Goto
  <2>2. inserts + 1 \in 1..MaxEvents
    BY <1>1, <1>3, FeedAssumption DEF HubTypes, NativeInsert
  <2>3. [id |-> inserts + 1, lsn |-> 0, table |-> t] \in Event
    BY <2>2 DEF Event
  <2>. QED
    BY <1>1, <2>1, <2>3 DEF ThreadTypes, Location
<1>4. ASSUME NEW i \in Inserters, ReadLsn(i)
      PROVE  ThreadTypes'
  <2>1. /\ event' = [event EXCEPT ![i].lsn = nextLsn] /\ pc[i] # "idle"
        /\ pc' = [pc EXCEPT ![i] = "bump"] /\ UNCHANGED <<callbacks, targets, dead>>
    BY <1>4 DEF ReadLsn, Goto, At
  <2>2. [event[i] EXCEPT !.lsn = nextLsn] \in Event
    BY <1>1, <2>1, RunningHoldEvents DEF Event, HubTypes
  <2>. QED
    BY <1>1, <2>1, <2>2 DEF ThreadTypes, Location
<1>5. ASSUME NEW i \in Inserters, Publish(i)
      PROVE  ThreadTypes'
  <2>1. /\ callbacks' = [callbacks EXCEPT ![i] = Matching(event[i])]
        /\ pc' = [pc EXCEPT ![i] = "callbacks"] /\ UNCHANGED <<event, targets, dead>>
    BY <1>5 DEF Publish, Goto
  <2>2. Matching(event[i]) \in Seq(SubId)
    BY <1>1, MatchingProperties DEF SubTypes, FeedInv
  <2>. QED
    BY <1>1, <2>1, <2>2 DEF ThreadTypes, Location
<1>6. ASSUME NEW i \in Inserters, Callback(i)
      PROVE  ThreadTypes'
  <2>1. /\ callbacks[i] # << >> /\ callbacks[i] \in Seq(SubId)
        /\ callbacks' = [callbacks EXCEPT ![i] = Tail(@)] /\ UNCHANGED <<pc, event, targets, dead>>
    BY <1>1, <1>6 DEF Callback, ThreadTypes
  <2>2. Tail(callbacks[i]) \in Seq(SubId)
    BY <2>1, ElementsFit
  <2>. QED
    BY <1>1, <2>1, <2>2 DEF ThreadTypes
<1>7. ASSUME NEW i \in Inserters, WriteLine(i) \/ WriteFails(i)
      PROVE  ThreadTypes'
  <2>1. targets[i] # << >> /\ targets[i] \in Seq(Fds) /\ UNCHANGED <<pc, event, callbacks>>
    BY <1>1, <1>7 DEF WriteLine, WriteFails, ThreadTypes
  <2>2. /\ targets' = targets \/ targets' = [targets EXCEPT ![i] = Tail(@)]
        /\ dead' = dead \/ dead' = [dead EXCEPT ![i] = @ \cup {Head(targets[i])}]
    BY <1>7 DEF WriteLine, WriteFails
  <2>3. Head(targets[i]) \in Fds /\ Tail(targets[i]) \in Seq(Fds)
    BY <2>1, ElementsFit
  <2>4. targets' \in [Inserters -> Seq(Fds)]
    BY <1>1, <2>2, <2>3 DEF ThreadTypes
  <2>5. dead' \in [Inserters -> SUBSET Fds]
    <3>1. dead \in [Inserters -> SUBSET Fds] /\ dead[i] \cup {Head(targets[i])} \in SUBSET Fds
      BY <1>1, <2>3 DEF ThreadTypes
    <3>. QED
      BY <2>2, <3>1
  <2>. QED
    BY <1>1, <2>1, <2>4, <2>5 DEF ThreadTypes
<1>8. ASSUME NEW i \in Inserters, AppendRecord(i) \/ CopyClients(i) \/ Prune(i)
      PROVE  ThreadTypes'
  <2>1. CASE AppendRecord(i)
    BY <1>1, <2>1 DEF AppendRecord, Goto, ThreadTypes, Location
  <2>2. CASE CopyClients(i)
    BY <1>1, <2>2 DEF CopyClients, Goto, ThreadTypes, SockTypes, Location
  <2>3. CASE Prune(i)
    <3>1. /\ pc' = [pc EXCEPT ![i] = "idle"] /\ event' = [event EXCEPT ![i] = NoEvent]
          /\ dead' = [dead EXCEPT ![i] = {}] /\ UNCHANGED <<callbacks, targets>>
      BY <2>3 DEF Prune, Goto
    <3>. QED
      BY <1>1, <3>1 DEF ThreadTypes, Location
  <2>. QED
    BY <1>8, <2>1, <2>2, <2>3
<1>9. CASE Next /\ ~ UNCHANGED threadVars
  <2>1. \E i \in Inserters : InsertStep(i) \/ \E t \in Tables : NativeInsert(i, t)
    BY <1>9 DEF Next, Poll, Subscribe, Unsubscribe, Attach, ClientRead, ClientLeaves
  <2>. QED
    BY <1>3, <1>4, <1>5, <1>6, <1>7, <1>8, <2>1 DEF InsertStep
<1>. QED
  BY <1>2, <1>9 DEF vars

-----------------------------------------------------------------------------
(* Events.                                                                 *)

Follows(here, there) ==
  \/ here = "bump" /\ there = "publish"
  \/ here = "publish" /\ there = "callbacks"
  \/ here = "callbacks" /\ there = "write"

\* What a step does to where the inserters are and what they hold.
LEMMA InsertersMove ==
  ASSUME FeedInv, [Next]_vars
  PROVE  \/ UNCHANGED <<pc, event, inserts>>
         \/ \E i \in Inserters, t \in Tables :
              /\ pc[i] = "idle" /\ inserts' = inserts + 1 /\ inserts < MaxEvents
              /\ event' = [event EXCEPT ![i] = [id |-> inserts + 1, lsn |-> 0, table |-> t]]
              /\ pc' = [pc EXCEPT ![i] = "lsn"]
         \/ \E i \in Inserters :
              /\ pc[i] = "lsn" /\ inserts' = inserts
              /\ event' = [event EXCEPT ![i].lsn = nextLsn]
              /\ pc' = [pc EXCEPT ![i] = "bump"]
         \/ \E i \in Inserters : \E there \in Location \ {"idle"} :
              /\ Follows(pc[i], there) /\ UNCHANGED <<event, inserts>>
              /\ pc' = [pc EXCEPT ![i] = there]
         \/ \E i \in Inserters :
              /\ pc[i] = "write" /\ inserts' = inserts
              /\ event' = [event EXCEPT ![i] = NoEvent]
              /\ pc' = [pc EXCEPT ![i] = "idle"]
<1>1. CASE UNCHANGED <<pc, event, inserts>>
  BY <1>1
<1>2. CASE Next /\ ~ UNCHANGED <<pc, event, inserts>>
  <2>1. \E i \in Inserters : ReadLsn(i) \/ AppendRecord(i) \/ Publish(i) \/ CopyClients(i) \/ Prune(i)
                             \/ \E t \in Tables : NativeInsert(i, t)
    BY <1>2 DEF Next, InsertStep, Callback, WriteLine, WriteFails, Poll, Subscribe, Unsubscribe, Attach,
                ClientRead, ClientLeaves, threadVars
  <2>2. ASSUME NEW i \in Inserters, AppendRecord(i) \/ Publish(i) \/ CopyClients(i)
        PROVE  \E there \in Location \ {"idle"} :
                 /\ Follows(pc[i], there) /\ UNCHANGED <<event, inserts>>
                 /\ pc' = [pc EXCEPT ![i] = there]
    BY <2>2 DEF AppendRecord, Publish, CopyClients, At, Goto, Location, Follows
  <2>. QED
    BY <2>1, <2>2 DEF ReadLsn, Prune, NativeInsert, At, Goto
<1>. QED
  BY <1>1, <1>2 DEF vars, threadVars

LEMMA EventsAreHeldStays ==
  ASSUME FeedInv, [Next]_vars
  PROVE  EventsAreHeld'
<1>1. EventsAreHeld /\ ThreadTypes /\ HubTypes
  BY TypeGroups DEF FeedInv
<1>2. ThreadTypes'
  BY ThreadTypesStay
<1>3. NoEvent.id = 0 /\ \A i \in Inserters : pc[i] # "idle" => event[i].id \in Nat /\ event[i].id > 0
  BY RunningHoldEvents DEF NoEvent
<1>4. CASE UNCHANGED <<pc, event, inserts>>
  BY <1>1, <1>4 DEF EventsAreHeld
<1>5. ASSUME NEW i \in Inserters, NEW t \in Tables,
             pc[i] = "idle", inserts' = inserts + 1, inserts < MaxEvents,
             event' = [event EXCEPT ![i] = [id |-> inserts + 1, lsn |-> 0, table |-> t]],
             pc' = [pc EXCEPT ![i] = "lsn"]
      PROVE  EventsAreHeld'
  <2>1. /\ pc'[i] = "lsn" /\ event'[i] = [id |-> inserts + 1, lsn |-> 0, table |-> t]
        /\ event'[i].id = inserts + 1
        /\ \A j \in Inserters \ {i} : pc'[j] = pc[j] /\ event'[j] = event[j]
    BY <1>1, <1>5 DEF ThreadTypes
  <2>2. inserts \in Nat /\ inserts + 1 \in 1..MaxEvents
    BY <1>1, <1>5, FeedAssumption DEF HubTypes
  <2>3. event'[i] \in Event
    BY <2>1, <2>2 DEF Event
  <2>4. \A j \in Inserters \ {i} :
          pc[j] # "idle" => event[j] \in Event /\ event[j].id \in Nat /\ event[j].id <= inserts
    BY <1>1, <1>3 DEF EventsAreHeld
  <2>5. \A j \in Inserters \ {i} : pc[j] = "idle" => event[j].id = 0
    BY <1>1, <1>3 DEF EventsAreHeld
  <2>6. ASSUME NEW k \in Inserters
        PROVE  /\ pc'[k] = "idle" => event'[k] = NoEvent
               /\ pc'[k] # "idle" => event'[k] \in Event /\ event'[k].id <= inserts'
    <3>1. CASE k = i
      BY <1>5, <2>1, <2>2, <2>3, <3>1
    <3>2. CASE k # i
      <4>1. pc'[k] = pc[k] /\ event'[k] = event[k] /\ (pc[k] = "idle" => event[k] = NoEvent)
        BY <1>1, <2>1, <3>2 DEF EventsAreHeld
      <4>. QED
        BY <1>5, <2>2, <2>4, <3>2, <4>1
    <3>. QED
      BY <3>1, <3>2
  <2>7. ASSUME NEW j \in Inserters, NEW k \in Inserters, pc'[j] # "idle", event'[j].id = event'[k].id
        PROVE  j = k
    <3>1. \A x \in Inserters \ {i} : event'[x].id # inserts + 1
      BY <2>1, <2>2, <2>4, <2>5
    <3>2. CASE j = i \/ k = i
      BY <2>1, <2>7, <3>1, <3>2
    <3>3. CASE j # i /\ k # i
      BY <1>1, <2>1, <2>7, <3>3 DEF EventsAreHeld
    <3>. QED
      BY <3>2, <3>3
  <2>. QED
    BY <2>6, <2>7 DEF EventsAreHeld
<1>6. ASSUME NEW i \in Inserters, pc[i] = "lsn", inserts' = inserts,
             event' = [event EXCEPT ![i].lsn = nextLsn], pc' = [pc EXCEPT ![i] = "bump"]
      PROVE  EventsAreHeld'
  <2>1. /\ pc'[i] = "bump" /\ event'[i] = [event[i] EXCEPT !.lsn = nextLsn]
        /\ \A j \in Inserters \ {i} : pc'[j] = pc[j] /\ event'[j] = event[j]
    BY <1>1, <1>6 DEF ThreadTypes
  <2>2. event[i] \in Event /\ event[i].id <= inserts
    BY <1>1, <1>6 DEF EventsAreHeld
  <2>3. event'[i] \in Event /\ event'[i].id = event[i].id
    BY <1>1, <2>1, <2>2 DEF Event, HubTypes
  <2>4. \A k \in Inserters : event'[k].id = event[k].id /\ (pc'[k] = "idle" <=> pc[k] = "idle")
    BY <1>6, <2>1, <2>3
  <2>. QED
    BY <1>1, <1>6, <2>1, <2>2, <2>3, <2>4 DEF EventsAreHeld
<1>7. ASSUME NEW i \in Inserters, NEW there \in Location \ {"idle"},
             Follows(pc[i], there), UNCHANGED <<event, inserts>>, pc' = [pc EXCEPT ![i] = there]
      PROVE  EventsAreHeld'
  <2>1. \A k \in Inserters : pc'[k] = "idle" <=> pc[k] = "idle"
    BY <1>1, <1>7 DEF ThreadTypes, Follows
  <2>. QED
    BY <1>1, <1>7, <2>1 DEF EventsAreHeld
<1>8. ASSUME NEW i \in Inserters, pc[i] = "write", inserts' = inserts,
             event' = [event EXCEPT ![i] = NoEvent], pc' = [pc EXCEPT ![i] = "idle"]
      PROVE  EventsAreHeld'
  <2>1. /\ pc'[i] = "idle" /\ event'[i] = NoEvent
        /\ \A j \in Inserters \ {i} : pc'[j] = pc[j] /\ event'[j] = event[j]
    BY <1>1, <1>8 DEF ThreadTypes
  <2>2. ASSUME NEW j \in Inserters, NEW k \in Inserters, pc'[j] # "idle", event'[j].id = event'[k].id
        PROVE  j = k
    <3>1. j # i /\ event'[j].id # 0
      BY <1>3, <2>1, <2>2
    <3>2. k # i
      BY <1>3, <2>1, <2>2, <3>1
    <3>. QED
      BY <1>1, <2>1, <2>2, <3>1, <3>2 DEF EventsAreHeld
  <2>. QED
    BY <1>1, <1>8, <2>1, <2>2 DEF EventsAreHeld
<1>. QED
  BY <1>4, <1>5, <1>6, <1>7, <1>8, InsertersMove

LEMMA EventsEnterOnceStays ==
  ASSUME FeedInv, [Next]_vars
  PROVE  EventsEnterOnce'
<1>1. EventsEnterOnce /\ EventsAreHeld /\ ThreadTypes /\ HubTypes
  BY TypeGroups DEF FeedInv
<1>2. Len(enqueued) \in Nat /\ inserts \in Nat /\ \A k \in 1..Len(enqueued) : enqueued[k].id \in Nat
  <2>1. Len(enqueued) \in Nat /\ \A k \in 1..Len(enqueued) : enqueued[k] \in Event
    BY <1>1, ElementsFit DEF HubTypes
  <2>. QED
    BY <1>1, <2>1, FeedAssumption DEF HubTypes, Event
<1>3. CASE UNCHANGED enqueued
  <2>1. CASE UNCHANGED <<pc, event, inserts>>
    BY <1>1, <1>3, <2>1 DEF EventsEnterOnce
  <2>2. ASSUME NEW i \in Inserters, NEW t \in Tables,
               inserts' = inserts + 1, event' = [event EXCEPT ![i] = [id |-> inserts + 1, lsn |-> 0, table |-> t]],
               pc' = [pc EXCEPT ![i] = "lsn"]
        PROVE  EventsEnterOnce'
    <3>1. /\ event'[i].id = inserts + 1
          /\ \A j \in Inserters \ {i} : pc'[j] = pc[j] /\ event'[j] = event[j]
      BY <1>1, <2>2 DEF ThreadTypes
    <3>2. \A k \in 1..Len(enqueued) : enqueued[k].id <= inserts + 1 /\ enqueued[k].id # event'[i].id
      BY <1>1, <1>2, <3>1 DEF EventsEnterOnce
    <3>. QED
      BY <1>1, <1>3, <2>2, <3>1, <3>2 DEF EventsEnterOnce
  <2>3. ASSUME NEW i \in Inserters, pc[i] = "lsn", inserts' = inserts,
               event' = [event EXCEPT ![i].lsn = nextLsn], pc' = [pc EXCEPT ![i] = "bump"]
        PROVE  EventsEnterOnce'
    <3>1. event[i] \in Event
      BY <1>1, <2>3 DEF EventsAreHeld
    <3>2. /\ event'[i].id = event[i].id
          /\ \A j \in Inserters \ {i} : pc'[j] = pc[j] /\ event'[j] = event[j]
      BY <1>1, <2>3, <3>1 DEF ThreadTypes, Event
    <3>3. \A k \in 1..Len(enqueued) : enqueued[k].id # event'[i].id
      BY <1>1, <2>3, <3>2 DEF EventsEnterOnce
    <3>. QED
      BY <1>1, <1>3, <2>3, <3>2, <3>3 DEF EventsEnterOnce
  <2>4. ASSUME NEW i \in Inserters, NEW there \in Location \ {"idle"},
               Follows(pc[i], there), UNCHANGED <<event, inserts>>, pc' = [pc EXCEPT ![i] = there]
        PROVE  EventsEnterOnce'
    <3>1. \A j \in Inserters : /\ pc'[j] = "idle" <=> pc[j] = "idle"
                               /\ pc[j] \in {"callbacks", "write"} => pc'[j] \in {"callbacks", "write"}
      BY <1>1, <2>4 DEF ThreadTypes, Follows
    <3>. QED
      BY <1>1, <1>3, <2>4, <3>1 DEF EventsEnterOnce
  <2>5. ASSUME NEW i \in Inserters, inserts' = inserts,
               event' = [event EXCEPT ![i] = NoEvent], pc' = [pc EXCEPT ![i] = "idle"]
        PROVE  EventsEnterOnce'
    <3>1. pc'[i] = "idle" /\ \A j \in Inserters \ {i} : pc'[j] = pc[j] /\ event'[j] = event[j]
      BY <1>1, <2>5 DEF ThreadTypes
    <3>. QED
      BY <1>1, <1>3, <2>5, <3>1 DEF EventsEnterOnce
  <2>. QED
    BY <2>1, <2>2, <2>3, <2>4, <2>5, InsertersMove
<1>4. ASSUME NEW i \in Inserters, Publish(i)
      PROVE  EventsEnterOnce'
  <2>1. /\ pc[i] = "publish" /\ pc' = [pc EXCEPT ![i] = "callbacks"]
        /\ enqueued' = Append(enqueued, event[i]) /\ UNCHANGED <<event, inserts>>
    BY <1>4 DEF Publish, At, Goto
  <2>2. event[i] \in Event /\ event[i].id <= inserts
    BY <2>1, RunningHoldEvents
  <2>. DEFINE n == Len(enqueued)
  <2>3. /\ Len(enqueued') = n + 1 /\ enqueued'[n + 1] = event[i]
        /\ \A k \in 1..n : enqueued'[k] = enqueued[k]
    BY <1>1, <2>1, <2>2, Appended DEF HubTypes
  <2>4. \A k \in 1..n : enqueued[k].id # event[i].id
    BY <1>1, <2>1 DEF EventsEnterOnce
  <2>5. pc'[i] = "callbacks" /\ \A j \in Inserters \ {i} : pc'[j] = pc[j]
    BY <1>1, <2>1 DEF ThreadTypes
  <2>6. \A j \in Inserters : pc[j] # "idle" /\ event[j].id = event[i].id => j = i
    BY <1>1, <2>1 DEF EventsAreHeld
  <2>7. n \in Nat
    BY <1>2
  <2>. HIDE DEF n
  <2>8. \A k \in 1..(n + 1) : k = n + 1 \/ k \in 1..n
    BY <2>7
  <2>9. \A k \in 1..n : enqueued[k].id <= inserts
    BY <1>1 DEF EventsEnterOnce, n
  <2>10. \A j, k \in 1..n : enqueued[j].id = enqueued[k].id => j = k
    BY <1>1 DEF EventsEnterOnce, n
  <2>11. \A j \in Inserters, k \in 1..n :
           pc[j] # "idle" /\ enqueued[k].id = event[j].id => pc[j] \in {"callbacks", "write"} /\ enqueued[k] = event[j]
    BY <1>1 DEF EventsEnterOnce, n
  <2>12. ASSUME NEW j \in Inserters, NEW k \in 1..(n + 1), pc'[j] # "idle", enqueued'[k].id = event[j].id
         PROVE  pc'[j] \in {"callbacks", "write"} /\ enqueued'[k] = event[j]
    <3>1. CASE k = n + 1
      BY <2>1, <2>3, <2>5, <2>6, <2>12, <3>1
    <3>2. CASE k \in 1..n
      <4>1. j # i
        BY <2>3, <2>4, <2>12, <3>2
      <4>. QED
        BY <2>3, <2>5, <2>11, <2>12, <3>2, <4>1
    <3>. QED
      BY <2>8, <3>1, <3>2
  <2>13. \A j, k \in 1..(n + 1) : enqueued'[j].id = enqueued'[k].id => j = k
    BY <2>3, <2>4, <2>8, <2>10
  <2>14. \A k \in 1..(n + 1) : enqueued'[k].id <= inserts
    BY <2>2, <2>3, <2>8, <2>9
  <2>. QED
    BY <2>1, <2>3, <2>12, <2>13, <2>14 DEF EventsEnterOnce
<1>5. CASE Next /\ ~ UNCHANGED enqueued
  <2>1. \E i \in Inserters : Publish(i)
    BY <1>5 DEF Next, InsertStep, NativeInsert, ReadLsn, AppendRecord, Callback, CopyClients, WriteLine, WriteFails,
                Prune, Poll, Subscribe, Unsubscribe, Attach, ClientRead, ClientLeaves, hubVars
  <2>. QED
    BY <1>4, <2>1
<1>. QED
  BY <1>3, <1>5 DEF vars, hubVars

LEMMA LoopsAreDoneStays ==
  ASSUME FeedInv, [Next]_vars
  PROVE  LoopsAreDone'
<1>1. LoopsAreDone /\ ThreadTypes
  BY TypeGroups DEF FeedInv
<1>2. CASE UNCHANGED threadVars
  BY <1>1, <1>2 DEF LoopsAreDone, threadVars
<1>3. ASSUME NEW i \in Inserters, pc' = [pc EXCEPT ![i] = "callbacks"], UNCHANGED <<targets, dead>>, pc[i] # "write",
             NEW matched, callbacks' = [callbacks EXCEPT ![i] = matched]
      PROVE  LoopsAreDone'
  BY <1>1, <1>3 DEF LoopsAreDone, ThreadTypes
<1>4. ASSUME NEW i \in Inserters, pc[i] = "callbacks", UNCHANGED <<pc, targets, dead>>,
             callbacks' = [callbacks EXCEPT ![i] = Tail(@)]
      PROVE  LoopsAreDone'
  BY <1>1, <1>4 DEF LoopsAreDone, ThreadTypes
<1>5. ASSUME NEW i \in Inserters, pc[i] = "callbacks", callbacks[i] = << >>, pc' = [pc EXCEPT ![i] = "write"],
             UNCHANGED <<callbacks, dead>>, targets' = [targets EXCEPT ![i] = clients]
      PROVE  LoopsAreDone'
  BY <1>1, <1>5 DEF LoopsAreDone, ThreadTypes
<1>6. ASSUME NEW i \in Inserters, pc[i] = "write", UNCHANGED <<pc, callbacks>>,
             \A j \in Inserters \ {i} : targets'[j] = targets[j] /\ dead'[j] = dead[j]
      PROVE  LoopsAreDone'
  BY <1>1, <1>6 DEF LoopsAreDone, ThreadTypes
<1>7. ASSUME NEW i \in Inserters, pc[i] = "write", targets[i] = << >>, UNCHANGED <<callbacks, targets>>,
             pc' = [pc EXCEPT ![i] = "idle"], dead' = [dead EXCEPT ![i] = {}]
      PROVE  LoopsAreDone'
  BY <1>1, <1>7 DEF LoopsAreDone, ThreadTypes
<1>8. ASSUME NEW i \in Inserters, NEW there \in {"lsn", "bump", "publish"},
             UNCHANGED <<callbacks, targets, dead>>, pc' = [pc EXCEPT ![i] = there],
             pc[i] \notin {"callbacks", "write"}
      PROVE  LoopsAreDone'
  BY <1>1, <1>8 DEF LoopsAreDone, ThreadTypes
<1>9. CASE Next /\ ~ UNCHANGED threadVars
  <2>1. PICK i \in Inserters : InsertStep(i) \/ \E t \in Tables : NativeInsert(i, t)
    BY <1>9 DEF Next, Poll, Subscribe, Unsubscribe, Attach, ClientRead, ClientLeaves
  <2>2. CASE \/ ReadLsn(i) \/ AppendRecord(i) \/ \E t \in Tables : NativeInsert(i, t)
    <3>1. PICK there \in {"lsn", "bump", "publish"} :
            /\ UNCHANGED <<callbacks, targets, dead>> /\ pc' = [pc EXCEPT ![i] = there]
            /\ pc[i] \notin {"callbacks", "write"}
      BY <2>2 DEF ReadLsn, AppendRecord, NativeInsert, At, Goto
    <3>. QED
      BY <1>8, <3>1
  <2>3. CASE Publish(i)
    BY <1>3, <2>3 DEF Publish, At, Goto
  <2>4. CASE Callback(i)
    BY <1>4, <2>4 DEF Callback, At
  <2>5. CASE CopyClients(i)
    BY <1>5, <2>5 DEF CopyClients, At, Goto
  <2>6. CASE WriteLine(i) \/ WriteFails(i)
    <3>1. /\ pc[i] = "write" /\ UNCHANGED <<pc, callbacks>>
          /\ targets' = targets \/ targets' = [targets EXCEPT ![i] = Tail(@)]
          /\ dead' = dead \/ dead' = [dead EXCEPT ![i] = @ \cup {Head(targets[i])}]
      BY <2>6 DEF WriteLine, WriteFails, At
    <3>2. \A j \in Inserters \ {i} : targets'[j] = targets[j] /\ dead'[j] = dead[j]
      BY <1>1, <3>1 DEF ThreadTypes
    <3>. QED
      BY <1>6, <3>1, <3>2
  <2>7. CASE Prune(i)
    BY <1>7, <2>7 DEF Prune, At, Goto
  <2>. QED
    BY <2>1, <2>2, <2>3, <2>4, <2>5, <2>6, <2>7 DEF InsertStep
<1>. QED
  BY <1>2, <1>9 DEF vars

LEMMA SubscriptionsAreDistinctStays ==
  ASSUME FeedInv, [Next]_vars
  PROVE  SubscriptionsAreDistinct'
<1>1. SubscriptionsAreDistinct /\ SubTypes
  BY TypeGroups DEF FeedInv
<1>2. Len(subs) \in Nat /\ nextId \in Nat /\ \A k \in 1..Len(subs) : subs[k].id \in Nat
  <2>1. Len(subs) \in Nat /\ \A k \in 1..Len(subs) : subs[k] \in Subscription
    BY <1>1, ElementsFit DEF SubTypes
  <2>. QED
    BY <1>1, <2>1, FeedAssumption DEF SubTypes, Subscription, SubId
<1>3. CASE UNCHANGED subVars
  BY <1>1, <1>3 DEF SubscriptionsAreDistinct, subVars
<1>4. ASSUME NEW t \in Tables \cup {Wildcard}, Subscribe(t)
      PROVE  SubscriptionsAreDistinct'
  <2>. DEFINE sub == [id |-> nextId, table |-> t]
              n == Len(subs)
  <2>1. nextId <= MaxSubs /\ nextId' = nextId + 1 /\ subs' = Append(subs, sub)
    BY <1>4 DEF Subscribe
  <2>2. sub \in Subscription /\ sub.id = nextId
    BY <1>1, <2>1, FeedAssumption DEF SubTypes, Subscription, SubId
  <2>. HIDE DEF sub
  <2>3. Len(subs') = n + 1 /\ subs'[n + 1] = sub /\ \A k \in 1..n : subs'[k] = subs[k]
    BY <1>1, <2>1, <2>2, Appended DEF SubTypes
  <2>4. \A k \in 1..(n + 1) : k = n + 1 \/ k \in 1..n
    BY <1>2
  <2>5. \A k \in 1..n : subs[k].id < nextId
    BY <1>1 DEF SubscriptionsAreDistinct
  <2>6. \A j, k \in 1..n : subs[j].id = subs[k].id => j = k
    BY <1>1 DEF SubscriptionsAreDistinct
  <2>. HIDE DEF n
  <2>7. \A k \in 1..n : subs[k].id # nextId /\ subs[k].id < nextId + 1
    BY <1>2, <2>5 DEF n
  <2>8. \A k \in 1..(n + 1) : subs'[k].id < nextId'
    BY <1>2, <2>1, <2>2, <2>3, <2>4, <2>7
  <2>9. \A j, k \in 1..(n + 1) : subs'[j].id = subs'[k].id => j = k
    BY <2>2, <2>3, <2>4, <2>6, <2>7
  <2>. QED
    BY <2>3, <2>8, <2>9 DEF SubscriptionsAreDistinct
<1>5. ASSUME NEW id \in SubId, Unsubscribe(id)
      PROVE  SubscriptionsAreDistinct'
  <2>. DEFINE places == {i \in 1..Len(subs) : subs[i].id # id}
  <2>1. subs' = Kept(subs, places) /\ nextId' = nextId
    BY <1>5 DEF Unsubscribe
  <2>2. places \in SUBSET (1..Len(subs)) /\ subs \in Seq(Subscription)
    BY <1>1 DEF SubTypes
  <2>. HIDE DEF places
  <2>3. \A j, k \in 1..Len(subs') : \E a, b \in places :
          subs'[j] = subs[a] /\ subs'[k] = subs[b] /\ (a = b => j = k)
    <3>. DEFINE kept == Kept(subs, places)
    <3>1. /\ kept \in Seq(Subscription)
          /\ \A j, k \in 1..Len(kept) : \E a, b \in places :
               kept[j] = subs[a] /\ kept[k] = subs[b] /\ (a = b => j = k)
      BY <2>2, KeptProperties
    <3>. HIDE DEF kept
    <3>2. subs' = kept
      BY <2>1 DEF kept
    <3>. QED
      BY <3>1, <3>2
  <2>4. ASSUME NEW j \in 1..Len(subs')
        PROVE  subs'[j].id < nextId'
    BY <1>1, <2>1, <2>2, <2>3 DEF SubscriptionsAreDistinct
  <2>5. ASSUME NEW j \in 1..Len(subs'), NEW k \in 1..Len(subs'), subs'[j].id = subs'[k].id
        PROVE  j = k
    <3>1. PICK a, b \in places : subs'[j] = subs[a] /\ subs'[k] = subs[b] /\ (a = b => j = k)
      BY <2>3
    <3>2. a = b
      BY <1>1, <2>2, <2>5, <3>1 DEF SubscriptionsAreDistinct
    <3>. QED
      BY <3>1, <3>2
  <2>. QED
    BY <2>4, <2>5 DEF SubscriptionsAreDistinct
<1>6. CASE Next /\ ~ UNCHANGED subVars
  <2>1. \/ \E t \in Tables \cup {Wildcard} : Subscribe(t)
        \/ \E id \in SubId : Unsubscribe(id)
    BY <1>6 DEF Next, InsertStep, NativeInsert, ReadLsn, AppendRecord, Publish, Callback, CopyClients, WriteLine,
                WriteFails, Prune, Poll, Attach, ClientRead, ClientLeaves
  <2>. QED
    BY <1>4, <1>5, <2>1
<1>. QED
  BY <1>3, <1>6 DEF vars

LEMMA FeedInvInit == Init => FeedInv
<1>. SUFFICES ASSUME Init PROVE FeedInv
  OBVIOUS
<1>1. TypeOK
  BY FeedAssumption DEF Init, TypeOK, Location
<1>2. EventsAreHeld /\ LoopsAreDone
  BY DEF Init, EventsAreHeld, LoopsAreDone
<1>3. EventsEnterOnce /\ SubscriptionsAreDistinct
  BY DEF Init, EventsEnterOnce, SubscriptionsAreDistinct
<1>. QED
  BY <1>1, <1>2, <1>3 DEF FeedInv

LEMMA FeedInvStep == FeedInv /\ [Next]_vars => FeedInv'
<1>. SUFFICES ASSUME FeedInv, [Next]_vars PROVE FeedInv'
  OBVIOUS
<1>1. HubTypes' /\ SubTypes' /\ SockTypes' /\ ThreadTypes'
  BY HubTypesStay, SubTypesStay, SockTypesStay, ThreadTypesStay
<1>2. TypeOK'
  BY <1>1 DEF TypeOK, HubTypes, SubTypes, SockTypes, ThreadTypes
<1>. QED
  BY <1>2, EventsAreHeldStays, EventsEnterOnceStays, LoopsAreDoneStays, SubscriptionsAreDistinctStays DEF FeedInv

\* The numbering of events and of subscriptions, and where inserters are, as claimed above.
LEMMA FeedInvHolds == Spec => []FeedInv
BY FeedInvInit, FeedInvStep, PTL DEF Spec

(* Every variable of the feed stays what it is declared to be: an event in *)
(* the queue has an LSN and a table, a socket never holds more lines than  *)
(* its buffer takes, identifiers of subscriptions and events never exceed  *)
(* what was handed out (HubSubscription, poll_queue_, next_id_).           *)
THEOREM TypeCorrect == Spec => []TypeOK
BY FeedInvHolds, PTL DEF FeedInv

-----------------------------------------------------------------------------
(* What was polled and what is queued.                                     *)

EventsOf(polls) == [k \in 1..Len(polls) |-> polls[k].event]
PollResult == [event : Event, returned : BOOLEAN]

LEMMA EventsOfAppend ==
  ASSUME NEW polls \in Seq(PollResult), NEW r \in PollResult
  PROVE  EventsOf(polls) \in Seq(Event) /\ EventsOf(Append(polls, r)) = Append(EventsOf(polls), r.event)
<1>. DEFINE longer == Append(polls, r)
<1>1. /\ Len(polls) \in Nat /\ \A k \in 1..Len(polls) : polls[k].event \in Event
      /\ longer \in Seq(PollResult) /\ Len(longer) = Len(polls) + 1 /\ longer[Len(polls) + 1] = r
      /\ \A k \in 1..Len(polls) : longer[k] = polls[k]
  <2>1. Len(polls) \in Nat /\ \A k \in 1..Len(polls) : polls[k] \in PollResult
    BY ElementsFit
  <2>2. \A k \in 1..Len(polls) : polls[k].event \in Event
    BY <2>1 DEF PollResult
  <2>. QED
    BY <2>1, <2>2, Appended
<1>2. r.event \in Event
  BY DEF PollResult
<1>. HIDE DEF longer
<1>3. EventsOf(polls) \in Seq(Event) /\ Len(EventsOf(polls)) = Len(polls)
  BY <1>1 DEF EventsOf
<1>4. \A k \in 1..Len(longer) : longer[k] \in PollResult
  BY <1>1, ElementsFit
<1>5. EventsOf(longer) \in Seq(Event) /\ Len(EventsOf(longer)) = Len(polls) + 1
  BY <1>1, <1>4 DEF EventsOf, PollResult
<1>. DEFINE appended == Append(EventsOf(polls), r.event)
<1>6. /\ appended \in Seq(Event) /\ Len(appended) = Len(polls) + 1 /\ appended[Len(polls) + 1] = r.event
      /\ \A k \in 1..Len(polls) : appended[k] = EventsOf(polls)[k]
  BY <1>2, <1>3, Appended
<1>7. \A k \in 1..Len(polls) : EventsOf(polls)[k] = polls[k].event
  BY DEF EventsOf
<1>8. \A k \in 1..(Len(polls) + 1) : EventsOf(longer)[k] = longer[k].event
  BY <1>1 DEF EventsOf
<1>. HIDE DEF appended
<1>9. \A k \in 1..(Len(polls) + 1) : EventsOf(longer)[k] = appended[k]
  <2>1. \A k \in 1..(Len(polls) + 1) : k \in 1..Len(polls) \/ k = Len(polls) + 1
    BY <1>1
  <2>. QED
    BY <1>1, <1>6, <1>7, <1>8, <2>1
<1>10. EventsOf(longer) = appended
  BY <1>5, <1>6, <1>9, SeqEqual
<1>. QED
  BY <1>3, <1>10 DEF longer, appended

LEMMA PolledThenQueuedStays ==
  ASSUME FeedInv, PolledThenQueued, [Next]_vars
  PROVE  PolledThenQueued'
<1>1. /\ popped \in Seq(PollResult) /\ queue \in Seq(Event) /\ enqueued \in Seq(Event)
      /\ enqueued = EventsOf(popped) \o queue
  BY DEF FeedInv, TypeOK, PolledThenQueued, EventsOf, PollResult
<1>2. EventsOf(popped) \in Seq(Event)
  <2>1. Len(popped) \in Nat /\ \A k \in 1..Len(popped) : popped[k] \in PollResult
    BY <1>1, ElementsFit
  <2>. QED
    BY <2>1 DEF EventsOf, PollResult
<1>3. CASE UNCHANGED hubVars
  BY <1>3 DEF hubVars, PolledThenQueued
<1>4. ASSUME NEW i \in Inserters, Publish(i)
      PROVE  PolledThenQueued'
  <2>1. queue' = Append(queue, event[i]) /\ enqueued' = Append(enqueued, event[i]) /\ popped' = popped
    BY <1>4 DEF Publish
  <2>2. event[i] \in Event
    BY <1>4, RunningHoldEvents DEF Publish, At
  <2>3. Append(EventsOf(popped) \o queue, event[i]) = EventsOf(popped) \o Append(queue, event[i])
    BY <1>1, <1>2, <2>2
  <2>. QED
    BY <1>1, <2>1, <2>3 DEF PolledThenQueued, EventsOf
<1>5. CASE Poll
  <2>1. PICK fits \in BOOLEAN : popped' = Append(popped, [event |-> Head(queue), returned |-> fits])
    BY <1>5, FeedAssumption DEF Poll
  <2>2. queue # << >> /\ queue' = Tail(queue) /\ enqueued' = enqueued
    BY <1>5 DEF Poll
  <2>3. Head(queue) \in Event /\ Tail(queue) \in Seq(Event)
    BY <1>1, <2>2, ElementsFit
  <2>4. [event |-> Head(queue), returned |-> fits] \in PollResult
    BY <2>3 DEF PollResult
  <2>5. EventsOf(popped') = Append(EventsOf(popped), Head(queue))
    BY <1>1, <2>1, <2>4, EventsOfAppend
  <2>6. Append(EventsOf(popped), Head(queue)) \o Tail(queue) = EventsOf(popped) \o queue
    BY <1>1, <1>2, <2>2, <2>3
  <2>. QED
    BY <1>1, <2>2, <2>5, <2>6 DEF PolledThenQueued, EventsOf
<1>6. CASE Next /\ ~ UNCHANGED hubVars
  <2>1. Poll \/ \E i \in Inserters : Publish(i)
    BY <1>6 DEF Next, InsertStep, NativeInsert, ReadLsn, AppendRecord, Callback, CopyClients, WriteLine, WriteFails,
                Prune, Subscribe, Unsubscribe, Attach, ClientRead, ClientLeaves
  <2>. QED
    BY <1>4, <1>5, <2>1
<1>. QED
  BY <1>3, <1>6 DEF vars

(* With any number of publishers and consumers in any interleaving, every  *)
(* event leaves the queue exactly once and in the order of publication,    *)
(* also when the buffer of a consumer was too small (publish,              *)
(* poll_json_line).                                                        *)
THEOREM ConsumersShareTheStream == Spec => []PolledThenQueued
<1>1. Init => PolledThenQueued
  BY DEF Init, PolledThenQueued
<1>2. FeedInv /\ PolledThenQueued /\ [Next]_vars => PolledThenQueued'
  BY PolledThenQueuedStays
<1>. QED
  BY <1>1, <1>2, FeedInvHolds, PTL DEF Spec

-----------------------------------------------------------------------------
(* Callbacks.                                                              *)

\* As many different elements as places.
LEMMA DistinctElements ==
  ASSUME NEW S, NEW s \in Seq(S), Distinct(s)
  PROVE  Cardinality(Elements(s)) = Len(s)
<1>1. /\ Len(s) \in Nat /\ Elements(s) = {s[i] : i \in 1..Len(s)}
      /\ \A j, k \in 1..Len(s) : s[j] = s[k] => j = k
  BY DEF Elements, Distinct
<1>2. IsFiniteSet(1..Len(s)) /\ Cardinality(1..Len(s)) = Len(s)
  BY <1>1, FirstNumbers
<1>. DEFINE f == [k \in 1..Len(s) |-> s[k]]
<1>3. f \in Surjection(1..Len(s), Elements(s))
  BY <1>1 DEF Surjection
<1>4. f \in Injection(1..Len(s), Elements(s))
  BY <1>1 DEF Injection, IsInjective
<1>. HIDE DEF f
<1>. QED
  BY <1>2, <1>3, <1>4, FS_Surjection

\* The callbacks of the inserters, and of the events nobody holds, stay accounted for.
InserterDone(i) ==
  /\ pc[i] \in {"lsn", "bump", "publish"} => called[event[i].id] = {}
  /\ pc[i] \in {"callbacks", "write"} =>
       /\ called[event[i].id] \cup Elements(callbacks[i]) = due[event[i].id]
       /\ called[event[i].id] \cap Elements(callbacks[i]) = {}
       /\ Distinct(callbacks[i])
LEMMA CallbacksAreLeftParts ==
  CallbacksAreLeft <=>
    /\ \A i \in Inserters : InserterDone(i)
    /\ \A e \in 1..inserts : (\A i \in Inserters : event[i].id # e) => called[e] = due[e]
    /\ \A e \in (inserts + 1)..MaxEvents : called[e] = {}
BY DEF CallbacksAreLeft, InserterDone

LEMMA CallbacksAreLeftStays ==
  ASSUME CallbackInv, [Next]_vars
  PROVE  CallbacksAreLeft'
<1>1. FeedInv /\ CallbacksAreLeft /\ ThreadTypes /\ SubTypes /\ HubTypes /\ EventsAreHeld /\ LoopsAreDone
  BY TypeGroups DEF CallbackInv, FeedInv
<1>2. \A i \in Inserters : /\ pc[i] # "idle" => event[i].id \in 1..MaxEvents /\ event[i].id <= inserts
                           /\ pc[i] = "idle" => event[i].id = 0
  BY <1>1, RunningHoldEvents DEF EventsAreHeld, NoEvent
<1>3. \A i, j \in Inserters : pc[i] # "idle" /\ event[i].id = event[j].id => i = j
  BY <1>1 DEF EventsAreHeld
<1>4. inserts \in Nat /\ MaxEvents \in Nat /\ inserts <= MaxEvents
  BY <1>1, FeedAssumption DEF HubTypes
<1>5. CASE UNCHANGED <<due, called, callbacks, pc, event, inserts>>
  BY <1>1, <1>5 DEF CallbacksAreLeft
<1>6. ASSUME NEW i \in Inserters, NEW t \in Tables, NativeInsert(i, t)
      PROVE  CallbacksAreLeft'
  <2>1. /\ inserts < MaxEvents /\ inserts' = inserts + 1 /\ UNCHANGED <<due, called, callbacks>>
        /\ pc[i] = "idle" /\ pc'[i] = "lsn" /\ event'[i].id = inserts + 1
        /\ \A j \in Inserters \ {i} : pc'[j] = pc[j] /\ event'[j] = event[j]
    BY <1>1, <1>6 DEF NativeInsert, At, Goto, ThreadTypes
  <2>2. called[inserts + 1] = {}
    BY <1>1, <1>4, <2>1 DEF CallbacksAreLeft
  <2>3. \A j \in Inserters : InserterDone(j)'
    BY <1>1, <2>1, <2>2 DEF CallbacksAreLeft, InserterDone
  <2>4. ASSUME NEW e \in 1..inserts', \A j \in Inserters : event'[j].id # e
        PROVE  called[e] = due[e]
    <3>1. e \in 1..inserts
      BY <1>4, <2>1, <2>4
    <3>2. \A j \in Inserters : event[j].id # e
      BY <1>2, <2>1, <2>4, <3>1
    <3>. QED
      BY <1>1, <3>1, <3>2 DEF CallbacksAreLeft
  <2>5. \A e \in (inserts' + 1)..MaxEvents : called[e] = {}
    BY <1>1, <1>4, <2>1 DEF CallbacksAreLeft
  <2>. QED
    BY <2>1, <2>3, <2>4, <2>5 DEF CallbacksAreLeft, InserterDone
<1>7. ASSUME NEW i \in Inserters, ReadLsn(i) \/ AppendRecord(i) \/ CopyClients(i)
      PROVE  CallbacksAreLeft'
  <2>1. /\ UNCHANGED <<due, called, callbacks, inserts>>
        /\ \A j \in Inserters : event'[j].id = event[j].id
        /\ \A j \in Inserters : \/ pc'[j] = pc[j]
                                \/ pc[j] \in {"lsn", "bump"} /\ pc'[j] \in {"bump", "publish"}
                                \/ pc[j] = "callbacks" /\ pc'[j] = "write"
    <3>1. CASE ReadLsn(i)
      <4>1. /\ event' = [event EXCEPT ![i].lsn = nextLsn] /\ pc[i] = "lsn" /\ pc' = [pc EXCEPT ![i] = "bump"]
            /\ UNCHANGED <<due, called, callbacks, inserts>>
        BY <3>1 DEF ReadLsn, At, Goto
      <4>2. event[i] \in Event
        BY <1>1, <4>1, RunningHoldEvents
      <4>3. event'[i].id = event[i].id /\ \A j \in Inserters \ {i} : event'[j] = event[j]
        BY <1>1, <4>1, <4>2 DEF Event, ThreadTypes
      <4>4. \A j \in Inserters : event'[j].id = event[j].id
        BY <4>3
      <4>. QED
        BY <1>1, <4>1, <4>4 DEF ThreadTypes
    <3>2. CASE AppendRecord(i)
      BY <1>1, <3>2 DEF AppendRecord, At, Goto, ThreadTypes
    <3>3. CASE CopyClients(i)
      BY <1>1, <3>3 DEF CopyClients, At, Goto, ThreadTypes
    <3>. QED
      BY <1>7, <3>1, <3>2, <3>3
  <2>2. \A j \in Inserters : InserterDone(j)'
    <3>1. \A j \in Inserters : InserterDone(j)
      BY <1>1, CallbacksAreLeftParts
    <3>. QED
      BY <2>1, <3>1 DEF InserterDone
  <2>. QED
    BY <1>1, <2>1, <2>2 DEF CallbacksAreLeft, InserterDone
<1>8. ASSUME NEW i \in Inserters, Publish(i)
      PROVE  CallbacksAreLeft'
  <2>. DEFINE matched == Matching(event[i])
              id == event[i].id
  <2>1. /\ pc[i] = "publish" /\ pc' = [pc EXCEPT ![i] = "callbacks"]
        /\ callbacks' = [callbacks EXCEPT ![i] = matched]
        /\ due' = [due EXCEPT ![id] = Elements(matched)] /\ UNCHANGED <<inserts, event, called>>
    BY <1>8 DEF Publish, At, Goto
  <2>2. Distinct(matched) /\ id \in 1..MaxEvents /\ called[id] = {} /\ id <= inserts
    BY <1>1, <1>2, <2>1, MatchingProperties DEF SubTypes, FeedInv, CallbacksAreLeft
  <2>. HIDE DEF matched
  <2>3. /\ pc'[i] = "callbacks" /\ callbacks'[i] = matched /\ due'[id] = Elements(matched)
        /\ \A j \in Inserters \ {i} : pc'[j] = pc[j] /\ callbacks'[j] = callbacks[j]
        /\ \A e \in 1..MaxEvents : e # id => due'[e] = due[e]
    BY <1>1, <2>1, <2>2 DEF ThreadTypes, SubTypes
  <2>4. ASSUME NEW j \in Inserters
        PROVE  InserterDone(j)'
    <3>1. CASE j = i
      BY <2>1, <2>2, <2>3, <3>1 DEF InserterDone
    <3>2. CASE j # i
      <4>1. pc[j] # "idle" => due'[event[j].id] = due[event[j].id]
        BY <1>2, <1>3, <2>3, <3>2
      <4>2. InserterDone(j)
        BY <1>1 DEF CallbacksAreLeft, InserterDone
      <4>. QED
        BY <2>1, <2>3, <3>2, <4>1, <4>2 DEF InserterDone
    <3>. QED
      BY <3>1, <3>2
  <2>5. \A e \in 1..inserts : (\A j \in Inserters : event[j].id # e) => called[e] = due'[e]
    BY <1>1, <1>4, <2>3 DEF CallbacksAreLeft
  <2>. QED
    BY <1>1, <2>1, <2>4, <2>5 DEF CallbacksAreLeft, InserterDone
<1>9. ASSUME NEW i \in Inserters, Callback(i)
      PROVE  CallbacksAreLeft'
  <2>. DEFINE id == event[i].id
              first == Head(callbacks[i])
              rest == Tail(callbacks[i])
  <2>1. /\ pc[i] = "callbacks" /\ callbacks[i] # << >> /\ callbacks[i] \in Seq(SubId)
        /\ callbacks' = [callbacks EXCEPT ![i] = rest]
        /\ called' = [called EXCEPT ![id] = @ \cup {first}] /\ UNCHANGED <<inserts, event, due, pc>>
    BY <1>1, <1>9 DEF Callback, At, ThreadTypes
  <2>2. /\ called[id] \cup Elements(callbacks[i]) = due[id] /\ called[id] \cap Elements(callbacks[i]) = {}
        /\ Distinct(callbacks[i]) /\ id \in 1..MaxEvents /\ id <= inserts
    BY <1>1, <1>2, <2>1 DEF CallbacksAreLeft
  <2>3. Elements(callbacks[i]) = {first} \cup Elements(rest) /\ Distinct(rest) /\ first \notin Elements(rest)
    BY <2>1, <2>2, TailElements
  <2>. HIDE DEF first, rest
  <2>4. /\ callbacks'[i] = rest /\ called'[id] = called[id] \cup {first}
        /\ \A j \in Inserters \ {i} : callbacks'[j] = callbacks[j]
        /\ \A e \in 1..MaxEvents : e # id => called'[e] = called[e]
    BY <1>1, <2>1, <2>2 DEF ThreadTypes, SubTypes
  <2>5. ASSUME NEW j \in Inserters
        PROVE  InserterDone(j)'
    <3>1. CASE j = i
      BY <2>1, <2>2, <2>3, <2>4, <3>1 DEF InserterDone
    <3>2. CASE j # i
      <4>1. pc[j] # "idle" => called'[event[j].id] = called[event[j].id]
        BY <1>2, <1>3, <2>4, <3>2
      <4>2. InserterDone(j)
        BY <1>1 DEF CallbacksAreLeft, InserterDone
      <4>. QED
        BY <2>1, <2>4, <3>2, <4>1, <4>2 DEF InserterDone
    <3>. QED
      BY <3>1, <3>2
  <2>6. \A e \in 1..inserts : (\A j \in Inserters : event[j].id # e) => called'[e] = due[e]
    BY <1>1, <1>4, <2>4 DEF CallbacksAreLeft
  <2>7. \A e \in (inserts + 1)..MaxEvents : called'[e] = {}
    BY <1>1, <1>4, <2>2, <2>4 DEF CallbacksAreLeft
  <2>. QED
    BY <2>1, <2>5, <2>6, <2>7 DEF CallbacksAreLeft, InserterDone
<1>10. ASSUME NEW i \in Inserters, Prune(i)
       PROVE  CallbacksAreLeft'
  <2>1. /\ pc[i] = "write" /\ pc'[i] = "idle" /\ event'[i] = NoEvent /\ UNCHANGED <<inserts, due, called, callbacks>>
        /\ \A j \in Inserters \ {i} : pc'[j] = pc[j] /\ event'[j] = event[j]
    BY <1>1, <1>10 DEF Prune, At, Goto, ThreadTypes
  <2>2. Elements(callbacks[i]) = {} /\ called[event[i].id] \cup Elements(callbacks[i]) = due[event[i].id]
    <3>1. callbacks[i] = << >>
      BY <1>1, <2>1 DEF LoopsAreDone
    <3>. QED
      BY <1>1, <2>1, <3>1 DEF CallbacksAreLeft, Elements
  <2>3. ASSUME NEW e \in 1..inserts, \A j \in Inserters : event'[j].id # e
        PROVE  called[e] = due[e]
    <3>1. CASE e = event[i].id
      BY <2>2, <3>1
    <3>2. CASE e # event[i].id
      BY <1>1, <2>1, <2>3, <3>2 DEF CallbacksAreLeft
    <3>. QED
      BY <3>1, <3>2
  <2>. QED
    BY <1>1, <2>1, <2>3 DEF CallbacksAreLeft
<1>11. CASE Next /\ ~ UNCHANGED <<due, called, callbacks, pc, event, inserts>>
  <2>1. \E i \in Inserters :
          \/ ReadLsn(i) \/ AppendRecord(i) \/ Publish(i) \/ Callback(i) \/ CopyClients(i) \/ Prune(i)
          \/ \E t \in Tables : NativeInsert(i, t)
    BY <1>11 DEF Next, InsertStep, WriteLine, WriteFails, Poll, Subscribe, Unsubscribe, Attach, ClientRead,
                 ClientLeaves, threadVars
  <2>. QED
    BY <1>6, <1>7, <1>8, <1>9, <1>10, <2>1
<1>. QED
  BY <1>5, <1>11 DEF vars, threadVars

(* An event is given to exactly the subscriptions that were there when it  *)
(* was published, to each once, whoever subscribes or unsubscribes while   *)
(* the callbacks run (HubSubscription, publish).                           *)
THEOREM SubscribersAreCalledOnce == Spec => []CallbacksRunOnce
<1>1. Init => CallbacksAreLeft
  <2>. SUFFICES ASSUME Init PROVE CallbacksAreLeft
    OBVIOUS
  <2>1. \A i \in Inserters : pc[i] = "idle"
    BY DEF Init
  <2>2. inserts = 0 /\ \A e \in 1..MaxEvents : called[e] = {}
    BY DEF Init
  <2>. QED
    BY <2>1, <2>2 DEF CallbacksAreLeft
<1>2. FeedInv /\ CallbacksAreLeft /\ [Next]_vars => CallbacksAreLeft'
  BY CallbacksAreLeftStays DEF CallbackInv
<1>3. FeedInv /\ CallbacksAreLeft => CallbacksRunOnce
  <2>. SUFFICES ASSUME FeedInv, CallbacksAreLeft, NEW e \in 1..inserts
                PROVE  LET running == {i \in Inserters : event[i].id = e}
                       IN  IF running = {} THEN called[e] = due[e]
                           ELSE \A i \in running :
                                  pc[i] \in {"callbacks", "write"} =>
                                    /\ called[e] \cup Elements(callbacks[i]) = due[e]
                                    /\ called[e] \cap Elements(callbacks[i]) = {}
                                    /\ Cardinality(Elements(callbacks[i])) = Len(callbacks[i])
    BY DEF CallbacksRunOnce
  <2>1. \A i \in Inserters : callbacks[i] \in Seq(SubId)
    BY DEF FeedInv, TypeOK
  <2>2. \A i \in Inserters : Distinct(callbacks[i]) => Cardinality(Elements(callbacks[i])) = Len(callbacks[i])
    BY <2>1, DistinctElements
  <2>. QED
    BY <2>2 DEF CallbacksAreLeft
<1>. QED
  BY <1>1, <1>2, <1>3, FeedInvHolds, PTL DEF Spec

-----------------------------------------------------------------------------
(* Sockets.                                                                *)

\* What Without leaves of a list: the sockets that are not erased, each once.
LEMMA WithoutProperties ==
  ASSUME NEW fds \in Seq(Fds), NEW gone
  PROVE  /\ \A fd : fd \in Elements(Without(fds, gone)) <=> fd \in Elements(fds) /\ fd \notin gone
         /\ Distinct(fds) => Distinct(Without(fds, gone))
<1>. DEFINE places == {k \in 1..Len(fds) : fds[k] \notin gone}
            left == Kept(fds, places)
<1>1. places \in SUBSET (1..Len(fds))
  OBVIOUS
<1>2. \A fd : (\E k \in places : fds[k] = fd) <=> fd \in Elements(fds) /\ fd \notin gone
  BY DEF Elements
<1>. HIDE DEF places
<1>3. /\ left \in Seq(Fds) /\ Elements(left) = {fds[k] : k \in places}
      /\ \A j, k \in 1..Len(left) : \E a, b \in places :
              left[j] = fds[a] /\ left[k] = fds[b] /\ (a = b => j = k)
  BY <1>1, KeptProperties
<1>. HIDE DEF left
<1>4. ASSUME Distinct(fds), NEW j \in 1..Len(left), NEW k \in 1..Len(left), left[j] = left[k]
      PROVE  j = k
  <2>1. PICK a, b \in places : left[j] = fds[a] /\ left[k] = fds[b] /\ (a = b => j = k)
    BY <1>3
  <2>2. a = b
    BY <1>1, <1>4, <2>1 DEF Distinct
  <2>. QED
    BY <2>1, <2>2
<1>5. Distinct(fds) => Distinct(left)
  BY <1>4 DEF Distinct
<1>6. \A fd : fd \in Elements(left) <=> fd \in Elements(fds) /\ fd \notin gone
  BY <1>2, <1>3
<1>. QED
  BY <1>5, <1>6 DEF left, places, Without

LEMMA SocketsAreListedStays ==
  ASSUME SocketInv, [Next]_vars
  PROVE  SocketsAreListed'
<1>1. SocketsAreListed /\ SockTypes /\ ThreadTypes
  BY TypeGroups DEF SocketInv, FeedInv
<1>2. CASE UNCHANGED <<clients, peer, inbox, targets, dead>>
  BY <1>1, <1>2 DEF SocketsAreListed
<1>3. ASSUME NEW i \in Inserters, CopyClients(i)
      PROVE  SocketsAreListed'
  <2>1. targets' = [targets EXCEPT ![i] = clients] /\ UNCHANGED <<clients, peer, inbox, dead>>
    BY <1>3 DEF CopyClients, sockVars
  <2>2. \A j \in Inserters : targets'[j] = clients \/ targets'[j] = targets[j]
    BY <1>1, <2>1 DEF ThreadTypes
  <2>. QED
    BY <1>1, <2>1, <2>2 DEF SocketsAreListed
<1>4. ASSUME NEW i \in Inserters, WriteLine(i) \/ WriteFails(i)
      PROVE  SocketsAreListed'
  <2>. DEFINE fd == Head(targets[i])
  <2>1. /\ targets[i] # << >> /\ targets[i] \in Seq(Fds) /\ peer[fd] \in {"connected", "gone"}
        /\ targets' = targets \/ targets' = [targets EXCEPT ![i] = Tail(@)]
        /\ UNCHANGED <<clients, peer>>
    BY <1>1, <1>4 DEF WriteLine, WriteFails, ThreadTypes, sockVars
  <2>2. fd \in Fds /\ (Distinct(targets[i]) => Distinct(Tail(targets[i])))
    BY <2>1, ElementsFit, TailElements
  <2>3. dead' = dead \/ (peer[fd] = "gone" /\ dead' = [dead EXCEPT ![i] = @ \cup {fd}])
    BY <1>4 DEF WriteLine, WriteFails
  <2>4. inbox' = inbox \/ \E line : inbox' = [inbox EXCEPT ![fd] = line]
    BY <1>4 DEF WriteLine, WriteFails, sockVars
  <2>. HIDE DEF fd
  <2>5. \A j \in Inserters : \A f \in dead'[j] : peer[f] = "gone"
    BY <1>1, <2>3 DEF SocketsAreListed, ThreadTypes
  <2>6. \A f \in Fds : f # fd => inbox'[f] = inbox[f]
    BY <1>1, <2>4 DEF SockTypes
  <2>7. \A j \in Inserters : targets'[j] = targets[j] \/ (j = i /\ targets'[j] = Tail(targets[i]))
    BY <1>1, <2>1 DEF ThreadTypes
  <2>8. \A j \in Inserters : Distinct(targets'[j])
    BY <1>1, <2>2, <2>7 DEF SocketsAreListed
  <2>9. \A f \in Fds : peer[f] = "none" => inbox'[f] = << >>
    BY <1>1, <2>1, <2>6 DEF SocketsAreListed
  <2>. QED
    BY <1>1, <2>1, <2>5, <2>8, <2>9 DEF SocketsAreListed
<1>5. ASSUME NEW i \in Inserters, Prune(i)
      PROVE  SocketsAreListed'
  <2>1. /\ clients' = Without(clients, dead[i]) /\ dead' = [dead EXCEPT ![i] = {}]
        /\ UNCHANGED <<peer, inbox, targets>>
    BY <1>5 DEF Prune
  <2>2. /\ \A fd : fd \in Elements(clients') <=> fd \in Elements(clients) /\ fd \notin dead[i]
        /\ Distinct(clients')
    BY <1>1, <2>1, WithoutProperties DEF SocketsAreListed, SockTypes
  <2>3. \A fd \in Fds : peer[fd] = "connected" => fd \notin dead[i]
    BY <1>1 DEF SocketsAreListed
  <2>4. \A j \in Inserters : dead'[j] \subseteq dead[j]
    BY <1>1, <2>1 DEF ThreadTypes
  <2>. QED
    BY <1>1, <2>1, <2>2, <2>3, <2>4 DEF SocketsAreListed
<1>6. ASSUME NEW fd \in Fds, Attach(fd)
      PROVE  SocketsAreListed'
  <2>1. /\ peer[fd] = "none" /\ peer' = [peer EXCEPT ![fd] = "connected"]
        /\ clients' = Append(clients, fd) /\ UNCHANGED <<inbox, targets, dead>>
    BY <1>6 DEF Attach, threadVars
  <2>2. /\ Len(clients') = Len(clients) + 1 /\ clients'[Len(clients) + 1] = fd
        /\ \A k \in 1..Len(clients) : clients'[k] = clients[k]
        /\ Elements(clients') = Elements(clients) \cup {fd}
    BY <1>1, <2>1, Appended DEF SockTypes
  <2>3. fd \notin Elements(clients)
    BY <1>1, <2>1 DEF SocketsAreListed
  <2>4. \A k \in 1..Len(clients) : clients[k] # fd
    BY <2>3 DEF Elements
  <2>. DEFINE n == Len(clients)
  <2>5. n \in Nat /\ \A k \in 1..(n + 1) : k \in 1..n \/ k = n + 1
    BY <1>1, ElementsFit DEF SockTypes
  <2>6. \A j, k \in 1..n : clients[j] = clients[k] => j = k
    BY <1>1 DEF SocketsAreListed, Distinct
  <2>. HIDE DEF n
  <2>7. \A j, k \in 1..(n + 1) : clients'[j] = clients'[k] => j = k
    BY <2>2, <2>4, <2>5, <2>6 DEF n
  <2>8. Distinct(clients')
    BY <2>2, <2>7 DEF Distinct, n
  <2>9. \A f \in Fds : peer'[f] = IF f = fd THEN "connected" ELSE peer[f]
    BY <1>1, <2>1 DEF SockTypes
  <2>. QED
    BY <1>1, <2>1, <2>2, <2>8, <2>9 DEF SocketsAreListed
<1>7. ASSUME NEW fd \in Fds, ClientLeaves(fd)
      PROVE  SocketsAreListed'
  <2>1. /\ peer[fd] = "connected" /\ peer' = [peer EXCEPT ![fd] = "gone"]
        /\ UNCHANGED <<clients, inbox, targets, dead>>
    BY <1>7 DEF ClientLeaves, threadVars
  <2>2. \A f \in Fds : peer'[f] = IF f = fd THEN "gone" ELSE peer[f]
    BY <1>1, <2>1 DEF SockTypes
  <2>3. \A i \in Inserters : dead[i] \subseteq Fds
    BY <1>1 DEF ThreadTypes
  <2>. QED
    BY <1>1, <2>1, <2>2, <2>3 DEF SocketsAreListed
<1>8. CASE Next /\ ~ UNCHANGED <<clients, peer, inbox, targets, dead>>
  <2>1. \/ \E i \in Inserters : CopyClients(i) \/ WriteLine(i) \/ WriteFails(i) \/ Prune(i)
        \/ \E fd \in Fds : Attach(fd) \/ ClientLeaves(fd)
    BY <1>8 DEF Next, InsertStep, NativeInsert, ReadLsn, AppendRecord, Publish, Callback, Poll, Subscribe,
                Unsubscribe, ClientRead, sockVars, threadVars
  <2>. QED
    BY <1>3, <1>4, <1>5, <1>6, <1>7, <2>1
<1>. QED
  BY <1>2, <1>8 DEF vars, sockVars, threadVars

\* An inserter is on its way to a socket with an event of the stream.
OnItsWay(i, fd, k) ==
  /\ event[i].id = enqueued[k].id
  /\ pc[i] = "callbacks" \/ fd \in Elements(targets[i])
Reaches(fd, k) == enqueued[k] \in Elements(inbox[fd]) \/ \E i \in Inserters : OnItsWay(i, fd, k)

LEMMA MissesNothing ==
  ConnectedClientsMissNothing <=>
    \A fd \in Fds : peer[fd] = "connected" => \A k \in (joined[fd] + 1)..Len(enqueued) : Reaches(fd, k)
BY DEF ConnectedClientsMissNothing, Reaches, OnItsWay

LEMMA OnlyPublishersAreOnTheirWay ==
  ASSUME FeedInv, NEW i \in Inserters, NEW fd, NEW k, OnItsWay(i, fd, k)
  PROVE  pc[i] \in {"callbacks", "write"} /\ (pc[i] = "write" => fd \in Elements(targets[i]))
<1>1. pc[i] # "write" => targets[i] = << >>
  BY DEF FeedInv, LoopsAreDone
<1>2. Elements(<< >>) = {}
  BY DEF Elements
<1>. QED
  BY <1>1, <1>2 DEF OnItsWay

LEMMA MissesNothingNext ==
  ConnectedClientsMissNothing' <=>
    \A fd \in Fds : peer'[fd] = "connected" => \A k \in (joined'[fd] + 1)..Len(enqueued') : Reaches(fd, k)'
BY DEF ConnectedClientsMissNothing, Reaches, OnItsWay

LEMMA ConnectedClientsMissNothingStays ==
  ASSUME SocketInv, [Next]_vars
  PROVE  ConnectedClientsMissNothing'
<1>1. FeedInv /\ SocketsAreListed /\ ConnectedClientsMissNothing /\ SockTypes /\ ThreadTypes /\ HubTypes
  BY TypeGroups DEF SocketInv, FeedInv
<1>2. \A fd \in Fds : joined[fd] \in Nat
  BY <1>1, FeedAssumption DEF SockTypes
<1>3. \A fd \in Fds : peer[fd] = "connected" => \A k \in (joined[fd] + 1)..Len(enqueued) : Reaches(fd, k)
  BY <1>1, MissesNothing
<1>4. Len(enqueued) \in Nat
  BY <1>1, ElementsFit DEF HubTypes
<1>5. ASSUME UNCHANGED <<enqueued, inbox, joined>>,
             \A fd \in Fds : peer'[fd] = "connected" => peer[fd] = "connected",
             \A i \in Inserters : pc[i] \in {"callbacks", "write"} =>
                                    pc'[i] = pc[i] /\ event'[i] = event[i] /\ targets'[i] = targets[i]
      PROVE  ConnectedClientsMissNothing'
  <2>1. ASSUME NEW fd \in Fds, NEW k, NEW i \in Inserters, OnItsWay(i, fd, k)
        PROVE  OnItsWay(i, fd, k)'
    BY <1>1, <1>5, <2>1, OnlyPublishersAreOnTheirWay DEF OnItsWay
  <2>2. \A fd \in Fds, k \in Nat : Reaches(fd, k) => Reaches(fd, k)'
    BY <1>5, <2>1 DEF Reaches
  <2>3. \A fd \in Fds : \A k \in (joined[fd] + 1)..Len(enqueued) : k \in Nat
    BY <1>2
  <2>. QED
    BY <1>3, <1>5, <2>2, <2>3, MissesNothingNext
<1>6. ASSUME NEW i \in Inserters, Publish(i)
      PROVE  ConnectedClientsMissNothing'
  <2>1. /\ pc[i] = "publish" /\ pc' = [pc EXCEPT ![i] = "callbacks"]
        /\ enqueued' = Append(enqueued, event[i]) /\ UNCHANGED <<event, targets, peer, inbox, joined>>
    BY <1>6 DEF Publish, At, Goto, sockVars
  <2>2. event[i] \in Event
    BY <1>1, <2>1, RunningHoldEvents
  <2>. PICK n \in Nat : n = Len(enqueued)
    BY <1>4
  <2>3. /\ Len(enqueued') = n + 1 /\ enqueued'[n + 1] = event[i]
        /\ \A k \in 1..n : enqueued'[k] = enqueued[k]
    BY <1>1, <2>1, <2>2, Appended DEF HubTypes
  <2>4. pc'[i] = "callbacks" /\ \A j \in Inserters \ {i} : pc'[j] = pc[j]
    BY <1>1, <2>1 DEF ThreadTypes
  <2>5. \A fd \in Fds : OnItsWay(i, fd, n + 1)'
    BY <2>1, <2>3, <2>4 DEF OnItsWay
  <2>6. \A fd \in Fds, k \in 1..n : Reaches(fd, k) => Reaches(fd, k)'
    <3>1. ASSUME NEW fd \in Fds, NEW k \in 1..n, NEW j \in Inserters, OnItsWay(j, fd, k)
          PROVE  OnItsWay(j, fd, k)'
      BY <2>1, <2>3, <2>4, <3>1 DEF OnItsWay
    <3>. QED
      BY <2>1, <2>3, <3>1 DEF Reaches
  <2>7. ASSUME NEW fd \in Fds, peer[fd] = "connected", NEW k \in (joined[fd] + 1)..(n + 1)
        PROVE  Reaches(fd, k)'
    <3>1. k = n + 1 \/ (k \in 1..n /\ k \in (joined[fd] + 1)..n)
      BY <1>2, <1>4
    <3>. QED
      BY <1>3, <2>5, <2>6, <2>7, <3>1 DEF Reaches
  <2>. QED
    BY <2>1, <2>3, <2>7, MissesNothingNext
<1>7. ASSUME NEW i \in Inserters, CopyClients(i)
      PROVE  ConnectedClientsMissNothing'
  <2>1. /\ pc[i] = "callbacks" /\ pc' = [pc EXCEPT ![i] = "write"] /\ targets' = [targets EXCEPT ![i] = clients]
        /\ UNCHANGED <<enqueued, event, peer, inbox, joined>>
    BY <1>7 DEF CopyClients, At, Goto, sockVars, hubVars
  <2>2. /\ targets'[i] = clients
        /\ \A j \in Inserters \ {i} : pc'[j] = pc[j] /\ targets'[j] = targets[j]
    BY <1>1, <2>1 DEF ThreadTypes
  <2>3. ASSUME NEW fd \in Fds, peer[fd] = "connected", NEW k, Reaches(fd, k)
        PROVE  Reaches(fd, k)'
    <3>1. fd \in Elements(clients)
      BY <1>1, <2>3 DEF SocketsAreListed
    <3>2. ASSUME NEW j \in Inserters, OnItsWay(j, fd, k)
          PROVE  OnItsWay(j, fd, k)'
      BY <2>1, <2>2, <3>1, <3>2 DEF OnItsWay
    <3>. QED
      BY <2>1, <2>3, <3>2 DEF Reaches
  <2>. QED
    BY <1>3, <2>1, <2>3, MissesNothingNext
<1>8. ASSUME NEW i \in Inserters, WriteLine(i) \/ WriteFails(i), targets' = [targets EXCEPT ![i] = Tail(@)]
      PROVE  ConnectedClientsMissNothing'
  <2>. DEFINE to == Head(targets[i])
  <2>1. /\ pc[i] = "write" /\ targets[i] # << >> /\ targets[i] \in Seq(Fds)
        /\ UNCHANGED <<enqueued, pc, event, peer, joined>>
    BY <1>1, <1>8 DEF WriteLine, WriteFails, At, ThreadTypes, sockVars, hubVars
  <2>2. Elements(targets[i]) = {to} \cup Elements(Tail(targets[i])) /\ to \in Fds
    BY <2>1, TailElements, ElementsFit
  <2>3. \/ inbox' = inbox /\ peer[to] = "gone"
        \/ inbox' = [inbox EXCEPT ![to] = Append(@, event[i])]
    BY <1>8 DEF WriteLine, WriteFails, sockVars
  <2>. HIDE DEF to
  <2>4. event[i] \in Event /\ inbox[to] \in Seq(Event)
    BY <1>1, <2>1, <2>2, RunningHoldEvents DEF SockTypes
  <2>5. /\ targets'[i] = Tail(targets[i])
        /\ \A j \in Inserters \ {i} : targets'[j] = targets[j]
    BY <1>1, <1>8 DEF ThreadTypes
  <2>6. /\ \A fd \in Fds : Elements(inbox[fd]) \subseteq Elements(inbox'[fd])
        /\ peer[to] = "connected" => event[i] \in Elements(inbox'[to])
    <3>1. CASE inbox' = inbox /\ peer[to] = "gone"
      BY <3>1
    <3>2. CASE inbox' = [inbox EXCEPT ![to] = Append(@, event[i])]
      <4>1. inbox'[to] = Append(inbox[to], event[i]) /\ \A fd \in Fds \ {to} : inbox'[fd] = inbox[fd]
        BY <1>1, <2>2, <3>2 DEF SockTypes
      <4>2. Elements(inbox'[to]) = Elements(inbox[to]) \cup {event[i]}
        BY <2>4, <4>1, Appended
      <4>. QED
        BY <4>1, <4>2
    <3>. QED
      BY <2>3, <3>1, <3>2
  <2>7. ASSUME NEW fd \in Fds, peer[fd] = "connected", NEW k \in 1..Len(enqueued), Reaches(fd, k)
        PROVE  Reaches(fd, k)'
    <3>1. CASE enqueued[k] \in Elements(inbox[fd])
      BY <2>1, <2>6, <3>1 DEF Reaches
    <3>2. ASSUME NEW j \in Inserters, OnItsWay(j, fd, k)
          PROVE  Reaches(fd, k)'
      <4>1. CASE j = i /\ fd = to
        <5>1. enqueued[k] = event[i]
          BY <1>1, <2>1, <3>2, <4>1 DEF OnItsWay, FeedInv, EventsEnterOnce
        <5>. QED
          BY <2>1, <2>6, <2>7, <4>1, <5>1 DEF Reaches
      <4>2. CASE ~ (j = i /\ fd = to)
        <5>1. OnItsWay(j, fd, k)'
          BY <2>1, <2>2, <2>5, <3>2, <4>2 DEF OnItsWay
        <5>. QED
          BY <5>1 DEF Reaches
      <4>. QED
        BY <4>1, <4>2
    <3>. QED
      BY <2>7, <3>1, <3>2 DEF Reaches
  <2>8. \A fd \in Fds : \A k \in (joined[fd] + 1)..Len(enqueued) : k \in 1..Len(enqueued)
    BY <1>2, <1>4
  <2>. QED
    BY <1>3, <2>1, <2>7, <2>8, MissesNothingNext
<1>9. ASSUME NEW i \in Inserters, Prune(i)
      PROVE  ConnectedClientsMissNothing'
  <2>1. /\ pc[i] = "write" /\ pc' = [pc EXCEPT ![i] = "idle"] /\ targets[i] = << >>
        /\ event' = [event EXCEPT ![i] = NoEvent]
        /\ UNCHANGED <<enqueued, targets, peer, inbox, joined>>
    BY <1>9 DEF Prune, At, Goto, hubVars
  <2>2. \A j \in Inserters \ {i} : pc'[j] = pc[j] /\ event'[j] = event[j]
    BY <1>1, <2>1 DEF ThreadTypes
  <2>3. ASSUME NEW fd \in Fds, NEW k, NEW j \in Inserters, OnItsWay(j, fd, k)
        PROVE  OnItsWay(j, fd, k)'
    <3>1. j # i
      BY <1>1, <2>1, <2>3, OnlyPublishersAreOnTheirWay DEF Elements
    <3>. QED
      BY <2>1, <2>2, <2>3, <3>1 DEF OnItsWay
  <2>4. \A fd \in Fds, k \in Nat : Reaches(fd, k) => Reaches(fd, k)'
    BY <2>1, <2>3 DEF Reaches
  <2>5. \A fd \in Fds : \A k \in (joined[fd] + 1)..Len(enqueued) : k \in Nat
    BY <1>2
  <2>. QED
    BY <1>3, <2>1, <2>4, <2>5, MissesNothingNext
<1>10. ASSUME NEW fd \in Fds, Attach(fd)
       PROVE  ConnectedClientsMissNothing'
  <2>1. /\ peer' = [peer EXCEPT ![fd] = "connected"] /\ joined' = [joined EXCEPT ![fd] = Len(enqueued)]
        /\ UNCHANGED <<enqueued, inbox, pc, event, targets>>
    BY <1>10 DEF Attach, hubVars, threadVars
  <2>2. joined'[fd] = Len(enqueued) /\ \A f \in Fds \ {fd} : peer'[f] = peer[f] /\ joined'[f] = joined[f]
    BY <1>1, <2>1 DEF SockTypes
  <2>3. \A k \in (joined'[fd] + 1)..Len(enqueued) : FALSE
    BY <1>4, <2>2
  <2>4. \A f \in Fds, k \in Nat : Reaches(f, k) => Reaches(f, k)'
    BY <2>1 DEF Reaches, OnItsWay
  <2>5. \A f \in Fds : \A k \in (joined[f] + 1)..Len(enqueued) : k \in Nat
    BY <1>2
  <2>6. ASSUME NEW f \in Fds, peer'[f] = "connected", NEW k \in (joined'[f] + 1)..Len(enqueued)
        PROVE  Reaches(f, k)'
    BY <1>3, <2>2, <2>3, <2>4, <2>5, <2>6
  <2>. QED
    BY <2>1, <2>6, MissesNothingNext
<1>11. CASE UNCHANGED vars
  <2>1. UNCHANGED <<enqueued, inbox, joined, peer, pc, event, targets>>
    BY <1>11 DEF vars, hubVars, sockVars, threadVars
  <2>. QED
    BY <1>5, <2>1
<1>12. CASE Next
  <2>1. CASE \/ Poll \/ \E t \in Tables \cup {Wildcard} : Subscribe(t)
             \/ \E id \in SubId : Unsubscribe(id)
    <3>1. UNCHANGED <<enqueued, inbox, joined, peer, pc, event, targets>>
      BY <2>1 DEF Poll, Subscribe, Unsubscribe, hubVars, sockVars, threadVars
    <3>. QED
      BY <1>5, <3>1
  <2>2. ASSUME NEW fd \in Fds, ClientRead(fd) \/ ClientLeaves(fd)
        PROVE  ConnectedClientsMissNothing'
    <3>1. /\ UNCHANGED <<enqueued, inbox, joined, pc, event, targets>>
          /\ peer' = peer \/ peer' = [peer EXCEPT ![fd] = "gone"]
      BY <2>2 DEF ClientRead, ClientLeaves, hubVars, threadVars
    <3>2. \A f \in Fds : peer'[f] = "connected" => peer[f] = "connected"
      BY <1>1, <3>1 DEF SockTypes
    <3>. QED
      BY <1>5, <3>1, <3>2
  <2>3. ASSUME NEW i \in Inserters, Callback(i)
        PROVE  ConnectedClientsMissNothing'
    <3>1. UNCHANGED <<enqueued, inbox, joined, peer, pc, event, targets>>
      BY <2>3 DEF Callback, hubVars, sockVars
    <3>. QED
      BY <1>5, <3>1
  <2>4. ASSUME NEW i \in Inserters, ReadLsn(i) \/ AppendRecord(i) \/ \E t \in Tables : NativeInsert(i, t)
        PROVE  ConnectedClientsMissNothing'
    <3>1. /\ UNCHANGED <<enqueued, inbox, joined, peer, targets>> /\ pc[i] \notin {"callbacks", "write"}
          /\ \A j \in Inserters \ {i} : pc'[j] = pc[j] /\ event'[j] = event[j]
      BY <1>1, <2>4 DEF ReadLsn, AppendRecord, NativeInsert, At, Goto, hubVars, sockVars, ThreadTypes
    <3>. QED
      BY <1>5, <3>1
  <2>5. ASSUME NEW i \in Inserters, WriteFails(i), targets' # [targets EXCEPT ![i] = Tail(@)]
        PROVE  ConnectedClientsMissNothing'
    <3>1. UNCHANGED <<enqueued, inbox, joined, peer, pc, event, targets>>
      BY <2>5 DEF WriteFails, hubVars, sockVars
    <3>. QED
      BY <1>5, <3>1
  <2>6. ASSUME NEW i \in Inserters, WriteLine(i)
        PROVE  ConnectedClientsMissNothing'
    BY <1>8, <2>6 DEF WriteLine
  <2>. QED
    BY <1>6, <1>7, <1>8, <1>9, <1>10, <1>12, <2>1, <2>2, <2>3, <2>4, <2>5, <2>6 DEF Next, InsertStep
<1>. QED
  BY <1>11, <1>12

LEMMA SocketInvInit == Init => SocketsAreListed /\ ConnectedClientsMissNothing
<1>. SUFFICES ASSUME Init PROVE SocketsAreListed /\ ConnectedClientsMissNothing
  OBVIOUS
<1>1. Elements(<< >>) = {} /\ Distinct(<< >>)
  BY DEF Elements, Distinct
<1>2. clients = << >> /\ \A fd \in Fds : peer[fd] = "none" /\ inbox[fd] = << >>
  BY DEF Init
<1>3. \A i \in Inserters : dead[i] = {} /\ targets[i] = << >>
  BY DEF Init
<1>4. SocketsAreListed
  BY <1>1, <1>2, <1>3 DEF SocketsAreListed
<1>. QED
  BY <1>2, <1>4 DEF ConnectedClientsMissNothing

LEMMA SocketInvHolds == Spec => []SocketInv
<1>1. Init => SocketInv
  BY FeedInvInit, SocketInvInit DEF SocketInv
<1>2. SocketInv /\ [Next]_vars => SocketInv'
  <2>. SUFFICES ASSUME SocketInv, [Next]_vars PROVE SocketInv'
    OBVIOUS
  <2>1. FeedInv'
    BY FeedInvStep DEF SocketInv
  <2>. QED
    BY <2>1, SocketsAreListedStays, ConnectedClientsMissNothingStays DEF SocketInv
<1>. QED
  BY <1>1, <1>2, PTL DEF Spec

(* A client that stays connected gets every event published since it was   *)
(* attached, or an inserter is still on its way to it, whatever other      *)
(* clients, publishers and subscribers do (attach_unix_client,             *)
(* fanout_json).                                                           *)
THEOREM ClientsMissNothing == Spec => []ConnectedClientsMissNothing
BY SocketInvHolds, PTL DEF SocketInv

-----------------------------------------------------------------------------
(* The order of the stream, with one inserter.                             *)

OneInserter == \A i, j \in Inserters : i = j

LEMMA LsnInvStays ==
  ASSUME OneInserter, FeedInv, LsnInv, [Next]_vars
  PROVE  LsnInv'
<1>1. ThreadTypes /\ HubTypes
  BY TypeGroups DEF FeedInv
<1>2. Len(wal) \in Nat /\ Len(enqueued) \in Nat /\ nextLsn \in Nat
  BY <1>1, ElementsFit DEF HubTypes
<1>3. CASE UNCHANGED <<wal, enqueued, nextLsn, pc, event>>
  BY <1>3 DEF LsnInv, Logged
<1>4. ASSUME NEW i \in Inserters, UNCHANGED <<wal, enqueued, nextLsn>>,
             pc[i] # "publish", pc'[i] # "publish", pc'[i] = "bump" => event'[i].lsn = nextLsn
      PROVE  LsnInv'
  <2>1. Logged = 0 /\ Logged' = 0
    BY <1>4 DEF OneInserter, Logged
  <2>. QED
    BY <1>4, <2>1 DEF LsnInv, OneInserter
<1>5. ASSUME NEW i \in Inserters, AppendRecord(i)
      PROVE  LsnInv'
  <2>1. /\ pc[i] = "bump" /\ pc'[i] = "publish" /\ nextLsn' = event[i].lsn + 1
        /\ wal' = Append(wal, event[i]) /\ UNCHANGED <<enqueued, event>>
    BY <1>1, <1>5 DEF AppendRecord, At, Goto, ThreadTypes, hubVars
  <2>2. event[i] \in Event
    BY <2>1, RunningHoldEvents
  <2>3. event[i].lsn = nextLsn /\ nextLsn' = nextLsn + 1
    BY <2>1 DEF LsnInv
  <2>. PICK n \in Nat : n = Len(wal)
    BY <1>2
  <2>4. Len(wal') = n + 1 /\ wal'[n + 1] = event[i] /\ \A k \in 1..n : wal'[k] = wal[k]
    BY <1>1, <2>1, <2>2, Appended DEF HubTypes
  <2>5. Logged = 0 /\ Logged' = 1
    BY <2>1 DEF OneInserter, Logged
  <2>6. Len(enqueued) = n /\ Len(wal') = Len(enqueued') + Logged'
    BY <1>2, <2>1, <2>4, <2>5 DEF LsnInv
  <2>7. \A k \in 1..n : enqueued[k] = wal[k] /\ wal[k].lsn < nextLsn
    BY <2>6 DEF LsnInv
  <2>8. \A j, k \in 1..n : j < k => wal[j].lsn < wal[k].lsn
    BY DEF LsnInv
  <2>9. \A k \in 1..(n + 1) : k \in 1..n \/ k = n + 1
    OBVIOUS
  <2>10. \A k \in 1..n : wal[k].lsn \in Nat
    <3>1. \A k \in 1..n : wal[k] \in Event
      BY <1>1, ElementsFit DEF HubTypes
    <3>. QED
      BY <3>1 DEF Event
  <2>11. \A k \in 1..(n + 1) : wal'[k].lsn < nextLsn'
    BY <1>2, <2>3, <2>4, <2>7, <2>9, <2>10
  <2>12. \A j, k \in 1..(n + 1) : j < k => wal'[j].lsn < wal'[k].lsn
    BY <2>3, <2>4, <2>7, <2>8, <2>9
  <2>13. \A j \in Inserters : j = i
    BY DEF OneInserter
  <2>. QED
    BY <2>1, <2>4, <2>6, <2>7, <2>11, <2>12, <2>13 DEF LsnInv
<1>6. ASSUME NEW i \in Inserters, Publish(i)
      PROVE  LsnInv'
  <2>1. /\ pc[i] = "publish" /\ pc'[i] = "callbacks"
        /\ enqueued' = Append(enqueued, event[i]) /\ UNCHANGED <<event, wal, nextLsn>>
    BY <1>1, <1>6 DEF Publish, At, Goto, ThreadTypes
  <2>2. event[i] \in Event /\ event[i] = wal[Len(wal)]
    BY <2>1, RunningHoldEvents DEF LsnInv
  <2>. PICK n \in Nat : n = Len(enqueued)
    BY <1>2
  <2>3. Len(enqueued') = n + 1 /\ enqueued'[n + 1] = event[i] /\ \A k \in 1..n : enqueued'[k] = enqueued[k]
    BY <1>1, <2>1, <2>2, Appended DEF HubTypes
  <2>4. Logged = 1 /\ Logged' = 0
    BY <2>1 DEF OneInserter, Logged
  <2>5. Len(wal) = n + 1 /\ \A k \in 1..n : enqueued[k] = wal[k]
    BY <1>2, <2>4 DEF LsnInv
  <2>6. \A k \in 1..(n + 1) : enqueued'[k] = wal[k]
    <3>1. \A k \in 1..(n + 1) : k \in 1..n \/ k = n + 1
      OBVIOUS
    <3>. QED
      BY <2>2, <2>3, <2>5, <3>1
  <2>7. \A j \in Inserters : j = i
    BY DEF OneInserter
  <2>. QED
    BY <2>1, <2>3, <2>4, <2>5, <2>6, <2>7 DEF LsnInv
<1>7. CASE Next /\ ~ UNCHANGED <<wal, enqueued, nextLsn, pc, event>>
  <2>1. PICK i \in Inserters :
          \/ ReadLsn(i) \/ AppendRecord(i) \/ Publish(i) \/ CopyClients(i) \/ Prune(i)
          \/ \E t \in Tables : NativeInsert(i, t)
    BY <1>7 DEF Next, InsertStep, Callback, WriteLine, WriteFails, Poll, Subscribe, Unsubscribe, Attach,
                ClientRead, ClientLeaves, hubVars, threadVars
  <2>2. CASE ReadLsn(i)
    <3>1. /\ event' = [event EXCEPT ![i].lsn = nextLsn] /\ pc[i] = "lsn" /\ pc' = [pc EXCEPT ![i] = "bump"]
          /\ UNCHANGED <<wal, enqueued, nextLsn>>
      BY <2>2 DEF ReadLsn, At, Goto, hubVars
    <3>2. event[i] \in Event
      BY <3>1, RunningHoldEvents
    <3>3. event'[i].lsn = nextLsn /\ pc'[i] = "bump"
      BY <1>1, <3>1, <3>2 DEF Event, ThreadTypes
    <3>. QED
      BY <1>4, <3>1, <3>3
  <2>3. CASE CopyClients(i) \/ Prune(i) \/ \E t \in Tables : NativeInsert(i, t)
    <3>1. /\ UNCHANGED <<wal, enqueued, nextLsn>>
          /\ pc[i] # "publish" /\ pc'[i] \notin {"bump", "publish"}
      BY <1>1, <2>3 DEF CopyClients, Prune, NativeInsert, At, Goto, ThreadTypes, hubVars
    <3>. QED
      BY <1>4, <3>1
  <2>. QED
    BY <1>5, <1>6, <2>1, <2>2, <2>3
<1>. QED
  BY <1>3, <1>7 DEF vars, hubVars, threadVars

(* With one inserting thread the stream is in the order of the WAL, and    *)
(* its LSNs strictly increase (NativeExecutor::insert appends, then        *)
(* publishes).                                                             *)
THEOREM StreamFollowsLog ==
  ASSUME OneInserter
  PROVE  Spec => []PublishedInLsnOrder
<1>1. Init => LsnInv
  <2>. SUFFICES ASSUME Init PROVE LsnInv
    OBVIOUS
  <2>1. wal = << >> /\ enqueued = << >> /\ \A i \in Inserters : pc[i] = "idle"
    BY DEF Init
  <2>. QED
    BY <2>1 DEF LsnInv, Logged
<1>2. FeedInv /\ LsnInv /\ [Next]_vars => LsnInv'
  BY LsnInvStays
<1>3. FeedInv /\ LsnInv => PublishedInLsnOrder
  <2>. SUFFICES ASSUME FeedInv, LsnInv PROVE PublishedInLsnOrder
    OBVIOUS
  <2>1. Len(enqueued) \in Nat
    BY ElementsFit DEF FeedInv, TypeOK
  <2>. QED
    BY <2>1 DEF LsnInv, Logged, PublishedInLsnOrder
<1>. QED
  BY <1>1, <1>2, <1>3, FeedInvHolds, PTL DEF Spec

\* Where the only inserter is says which sockets are behind.
LEMMA BehindIs ==
  ASSUME OneInserter, NEW i \in Inserters, NEW fd
  PROVE  /\ Behind(fd) <=> pc[i] = "callbacks" \/ fd \in Elements(targets[i])
         /\ Behind(fd)' <=> pc'[i] = "callbacks" \/ fd \in Elements(targets'[i])
BY DEF OneInserter, Behind

\* The stream only grows, and so do the runs sockets got of it.
LEMMA RunsStay ==
  ASSUME FeedInv, UNCHANGED inbox, Len(enqueued') \in Nat, Len(enqueued') >= Len(enqueued),
         \A k \in 1..Len(enqueued) : enqueued'[k] = enqueued[k],
         NEW fd \in Fds, NEW m \in 0..Len(enqueued), GotUpTo(fd, m)
  PROVE  m \in 0..Len(enqueued') /\ GotUpTo(fd, m)'
<1>1. inbox[fd] \in Seq(Event) /\ enqueued \in Seq(Event)
  BY DEF FeedInv, TypeOK
<1>2. Len(inbox[fd]) \in Nat /\ Len(enqueued) \in Nat
  BY <1>1, ElementsFit
<1>3. m \in Nat /\ m <= Len(enqueued)
  BY <1>2
<1>. DEFINE l == Len(inbox[fd])
<1>4. l \in Nat /\ l <= m /\ \A k \in 1..l : inbox[fd][k] = enqueued[m - l + k]
  BY <1>2 DEF GotUpTo
<1>. HIDE DEF l
<1>5. \A k \in 1..l : m - l + k \in 1..Len(enqueued)
  BY <1>2, <1>3, <1>4
<1>6. \A k \in 1..l : inbox[fd][k] = enqueued'[m - l + k]
  BY <1>4, <1>5
<1>7. m \in 0..Len(enqueued')
  BY <1>2, <1>3
<1>8. Len(inbox'[fd]) = l
  BY DEF l
<1>9. GotUpTo(fd, m)'
  BY <1>4, <1>6, <1>8 DEF GotUpTo
<1>. QED
  BY <1>7, <1>9

RunOf(fd) ==
  /\ \E m \in 0..Len(enqueued) : GotUpTo(fd, m)
  /\ peer[fd] = "connected" => GotUpTo(fd, IF Behind(fd) THEN Len(enqueued) - 1 ELSE Len(enqueued))
LastIsHeld ==
  \A i \in Inserters :
    pc[i] \in {"callbacks", "write"} => Len(enqueued) > 0 /\ event[i] = enqueued[Len(enqueued)]

\* Steps that publish nothing and write nothing.
LEMMA QuietRuns ==
  ASSUME FeedInv, UNCHANGED <<inbox, enqueued>>, NEW fd \in Fds, RunOf(fd),
         peer'[fd] = "connected" => peer[fd] = "connected" /\ (Behind(fd)' <=> Behind(fd))
  PROVE  RunOf(fd)'
<1>1. \A m : GotUpTo(fd, m) => GotUpTo(fd, m)'
  BY DEF GotUpTo
<1>2. \E m \in 0..Len(enqueued) : GotUpTo(fd, m)'
  BY <1>1 DEF RunOf
<1>3. ASSUME peer'[fd] = "connected"
      PROVE  GotUpTo(fd, IF Behind(fd) THEN Len(enqueued) - 1 ELSE Len(enqueued))'
  BY <1>1, <1>3 DEF RunOf, GotUpTo
<1>. QED
  BY <1>2, <1>3 DEF RunOf

LEMMA MinusPlus ==
  ASSUME NEW n \in Nat, NEW l \in Nat
  PROVE  n - (l + 1) + (l + 1) = n
OBVIOUS

\* A line that follows what the socket got.
LEMMA WrittenRun ==
  ASSUME FeedInv, UNCHANGED enqueued, NEW fd \in Fds, Len(enqueued) > 0,
         GotUpTo(fd, Len(enqueued) - 1), inbox'[fd] = Append(inbox[fd], enqueued[Len(enqueued)])
  PROVE  GotUpTo(fd, Len(enqueued))'
<1>1. inbox[fd] \in Seq(Event) /\ enqueued \in Seq(Event)
  BY DEF FeedInv, TypeOK
<1>. PICK n \in Nat, l \in Nat : n = Len(enqueued) /\ l = Len(inbox[fd])
  BY <1>1, ElementsFit
<1>2. enqueued[n] \in Event
  <2>1. n \in 1..n
    OBVIOUS
  <2>. QED
    BY <1>1, <2>1, ElementsFit
<1>3. /\ Len(inbox'[fd]) = l + 1 /\ inbox'[fd][l + 1] = enqueued[n]
      /\ \A k \in 1..l : inbox'[fd][k] = inbox[fd][k]
  BY <1>1, <1>2, Appended
<1>4. l <= n - 1 /\ \A k \in 1..l : inbox[fd][k] = enqueued[n - 1 - l + k]
  BY DEF GotUpTo
<1>5. \A k \in 1..l : n - 1 - l + k = n - (l + 1) + k
  OBVIOUS
<1>6. n - (l + 1) + (l + 1) = n /\ \A k \in 1..(l + 1) : k \in 1..l \/ k = l + 1
  <2>1. n - (l + 1) + (l + 1) = n
    BY MinusPlus
  <2>2. \A k \in 1..(l + 1) : k \in 1..l \/ k = l + 1
    OBVIOUS
  <2>. QED
    BY <2>1, <2>2
<1>7. \A k \in 1..(l + 1) : inbox'[fd][k] = enqueued[n - (l + 1) + k]
  BY <1>3, <1>4, <1>5, <1>6
<1>8. l + 1 <= n
  BY <1>4
<1>9. Len(inbox'[fd]) <= n /\ \A k \in 1..Len(inbox'[fd]) : inbox'[fd][k] = enqueued'[n - Len(inbox'[fd]) + k]
  BY <1>3, <1>7, <1>8
<1>. QED
  BY <1>9 DEF GotUpTo

LEMMA RunInvStays ==
  ASSUME OneInserter, SocketInv, RunInv, [Next]_vars
  PROVE  RunInv'
<1>1. FeedInv /\ SocketsAreListed /\ ThreadTypes /\ HubTypes /\ SockTypes /\ LastIsHeld /\ LoopsAreDone
  BY TypeGroups DEF SocketInv, FeedInv, RunInv, LastIsHeld
<1>2. \A fd \in Fds : RunOf(fd)
  BY DEF RunInv, RunOf
<1>3. Len(enqueued) \in Nat /\ Elements(<< >>) = {}
  BY <1>1, ElementsFit DEF HubTypes, Elements
<1>4. SUFFICES LastIsHeld' /\ \A fd \in Fds : RunOf(fd)'
  BY DEF RunInv, RunOf, LastIsHeld
<1>5. ASSUME UNCHANGED <<inbox, enqueued, pc, event, targets>>,
             \A fd \in Fds : peer'[fd] = "connected" => peer[fd] = "connected"
      PROVE  LastIsHeld' /\ \A fd \in Fds : RunOf(fd)'
  <2>1. \A fd \in Fds : Behind(fd)' <=> Behind(fd)
    BY <1>5 DEF Behind
  <2>2. \A fd \in Fds : RunOf(fd)'
    BY <1>1, <1>2, <1>5, <2>1, QuietRuns
  <2>. QED
    BY <1>1, <1>5, <2>2 DEF LastIsHeld
<1>6. ASSUME NEW i \in Inserters, UNCHANGED <<inbox, enqueued, peer>>,
             pc'[i] \in {"callbacks", "write"} => pc[i] \in {"callbacks", "write"} /\ event' = event,
             \A fd \in Fds : peer[fd] = "connected" =>
               (pc'[i] = "callbacks" \/ fd \in Elements(targets'[i]) <=>
                pc[i] = "callbacks" \/ fd \in Elements(targets[i]))
      PROVE  LastIsHeld' /\ \A fd \in Fds : RunOf(fd)'
  <2>1. \A fd \in Fds : peer[fd] = "connected" => (Behind(fd)' <=> Behind(fd))
    BY <1>6, BehindIs
  <2>2. \A fd \in Fds : RunOf(fd)'
    BY <1>1, <1>2, <1>6, <2>1, QuietRuns
  <2>. QED
    BY <1>1, <1>6, <2>2 DEF LastIsHeld, OneInserter
<1>7. ASSUME NEW i \in Inserters, ReadLsn(i) \/ AppendRecord(i) \/ Prune(i) \/ \E t \in Tables : NativeInsert(i, t)
      PROVE  LastIsHeld' /\ \A fd \in Fds : RunOf(fd)'
  <2>1. /\ UNCHANGED <<inbox, enqueued, peer, targets>> /\ pc[i] # "callbacks"
        /\ pc'[i] \notin {"callbacks", "write"}
    BY <1>1, <1>7 DEF ReadLsn, AppendRecord, Prune, NativeInsert, At, Goto, ThreadTypes, hubVars, sockVars
  <2>. QED
    BY <1>6, <2>1
<1>8. ASSUME NEW i \in Inserters, CopyClients(i)
      PROVE  LastIsHeld' /\ \A fd \in Fds : RunOf(fd)'
  <2>1. /\ UNCHANGED <<inbox, enqueued, peer, event>> /\ pc[i] = "callbacks" /\ pc'[i] = "write"
        /\ targets'[i] = clients
    BY <1>1, <1>8 DEF CopyClients, At, Goto, ThreadTypes, hubVars, sockVars
  <2>. QED
    BY <1>1, <1>6, <2>1 DEF SocketsAreListed
<1>9. ASSUME NEW i \in Inserters, Publish(i)
      PROVE  LastIsHeld' /\ \A fd \in Fds : RunOf(fd)'
  <2>1. /\ pc[i] = "publish" /\ pc'[i] = "callbacks" /\ enqueued' = Append(enqueued, event[i])
        /\ UNCHANGED <<event, inbox, peer, targets>>
    BY <1>1, <1>9 DEF Publish, At, Goto, ThreadTypes, sockVars
  <2>2. event[i] \in Event
    BY <1>1, <2>1, RunningHoldEvents
  <2>. PICK n \in Nat : n = Len(enqueued)
    BY <1>3
  <2>3. Len(enqueued') = n + 1 /\ enqueued'[n + 1] = event[i] /\ \A k \in 1..n : enqueued'[k] = enqueued[k]
    BY <1>1, <2>1, <2>2, Appended DEF HubTypes
  <2>4. LastIsHeld'
    BY <2>1, <2>3 DEF LastIsHeld, OneInserter
  <2>5. \A fd \in Fds : ~ Behind(fd) /\ Behind(fd)'
    BY <1>1, <1>3, <2>1, BehindIs DEF LoopsAreDone
  <2>6. ASSUME NEW fd \in Fds, NEW m \in 0..n, GotUpTo(fd, m)
        PROVE  m \in 0..Len(enqueued') /\ GotUpTo(fd, m)'
    <3>1. Len(enqueued') \in Nat /\ Len(enqueued') >= Len(enqueued) /\ inbox' = inbox
      BY <2>1, <2>3
    <3>. QED
      BY <1>1, <2>3, <2>6, <3>1, RunsStay
  <2>7. ASSUME NEW fd \in Fds
        PROVE  RunOf(fd)'
    <3>1. \E m \in 0..n : GotUpTo(fd, m)
      BY <1>2 DEF RunOf
    <3>2. \E m \in 0..Len(enqueued') : GotUpTo(fd, m)'
      BY <2>6, <3>1
    <3>3. peer[fd] = "connected" => GotUpTo(fd, n)'
      <4>1. n \in 0..n
        OBVIOUS
      <4>. QED
        BY <1>2, <2>5, <2>6, <4>1 DEF RunOf
    <3>4. Len(enqueued') - 1 = n
      BY <2>3
    <3>5. peer'[fd] = "connected" => GotUpTo(fd, IF Behind(fd) THEN Len(enqueued) - 1 ELSE Len(enqueued))'
      BY <2>1, <2>5, <3>3, <3>4 DEF GotUpTo
    <3>. QED
      BY <3>2, <3>5 DEF RunOf
  <2>. QED
    BY <2>4, <2>7
<1>10. ASSUME NEW i \in Inserters, WriteLine(i)
       PROVE  LastIsHeld' /\ \A fd \in Fds : RunOf(fd)'
  <2>1. /\ pc[i] = "write" /\ targets[i] # << >> /\ targets[i] \in Seq(Fds) /\ targets'[i] = Tail(targets[i])
        /\ UNCHANGED <<enqueued, pc, event, peer>> /\ peer[Head(targets[i])] = "connected"
        /\ inbox' = [inbox EXCEPT ![Head(targets[i])] = Append(@, event[i])]
    BY <1>1, <1>10 DEF WriteLine, At, ThreadTypes, hubVars
  <2>. DEFINE first == Head(targets[i])
  <2>2. /\ Elements(targets[i]) = {first} \cup Elements(targets'[i]) /\ first \in Fds
        /\ first \notin Elements(targets'[i])
    BY <1>1, <2>1, TailElements, ElementsFit DEF SocketsAreListed
  <2>3. PICK to \in Fds : to = first
    BY <2>2
  <2>. HIDE DEF first
  <2>4. inbox'[to] = Append(inbox[to], event[i]) /\ \A fd \in Fds \ {to} : inbox'[fd] = inbox[fd]
    BY <1>1, <2>1, <2>3 DEF SockTypes, first
  <2>5. Behind(to) /\ ~ Behind(to)' /\ \A fd \in Fds \ {to} : Behind(fd)' <=> Behind(fd)
    BY <2>1, <2>2, <2>3, BehindIs
  <2>6. peer[to] = "connected"
    BY <2>1, <2>3 DEF first
  <2>7. Len(enqueued) > 0 /\ event[i] = enqueued[Len(enqueued)]
    BY <1>1, <2>1 DEF LastIsHeld
  <2>8. GotUpTo(to, Len(enqueued) - 1)
    BY <1>2, <2>5, <2>6 DEF RunOf
  <2>9. GotUpTo(to, Len(enqueued))'
    BY <1>1, <2>1, <2>4, <2>7, <2>8, WrittenRun
  <2>10. RunOf(to)'
    <3>1. Len(enqueued) \in 0..Len(enqueued) /\ Len(enqueued') = Len(enqueued)
      BY <1>3, <2>1
    <3>2. \E m \in 0..Len(enqueued') : GotUpTo(to, m)'
      BY <2>9, <3>1 DEF GotUpTo
    <3>3. GotUpTo(to, IF Behind(to) THEN Len(enqueued) - 1 ELSE Len(enqueued))'
      BY <2>5, <2>9 DEF GotUpTo
    <3>. QED
      BY <3>2, <3>3 DEF RunOf
  <2>11. ASSUME NEW fd \in Fds \ {to}
         PROVE  RunOf(fd)'
    <3>1. RunOf(fd)
      BY <1>2
    <3>2. /\ \A m : GotUpTo(fd, m) => GotUpTo(fd, m)'
          /\ GotUpTo(fd, IF Behind(fd) THEN Len(enqueued) - 1 ELSE Len(enqueued)) =>
               GotUpTo(fd, IF Behind(fd) THEN Len(enqueued) - 1 ELSE Len(enqueued))'
      BY <2>1, <2>4, <2>5 DEF GotUpTo
    <3>3. \E m \in 0..Len(enqueued') : GotUpTo(fd, m)'
      BY <2>1, <3>1, <3>2 DEF RunOf
    <3>. QED
      BY <2>1, <3>1, <3>2, <3>3 DEF RunOf
  <2>12. LastIsHeld'
    BY <1>1, <2>1 DEF LastIsHeld
  <2>. QED
    BY <2>10, <2>11, <2>12
<1>11. ASSUME NEW i \in Inserters, WriteFails(i)
       PROVE  LastIsHeld' /\ \A fd \in Fds : RunOf(fd)'
  <2>1. /\ pc[i] = "write" /\ targets[i] # << >> /\ targets[i] \in Seq(Fds)
        /\ UNCHANGED <<enqueued, inbox, pc, event, peer>> /\ peer[Head(targets[i])] = "gone"
        /\ targets' = targets \/ targets'[i] = Tail(targets[i])
    BY <1>1, <1>11 DEF WriteFails, At, ThreadTypes, hubVars, sockVars
  <2>2. Elements(targets[i]) = {Head(targets[i])} \cup Elements(Tail(targets[i]))
    BY <2>1, TailElements
  <2>3. \A fd \in Fds : peer[fd] = "connected" => (fd \in Elements(targets'[i]) <=> fd \in Elements(targets[i]))
    BY <2>1, <2>2
  <2>. QED
    BY <1>6, <2>1, <2>3
<1>12. ASSUME NEW fd \in Fds, Attach(fd)
       PROVE  LastIsHeld' /\ \A f \in Fds : RunOf(f)'
  <2>1. /\ UNCHANGED <<enqueued, inbox, pc, event, targets>> /\ peer[fd] = "none"
        /\ peer' = [peer EXCEPT ![fd] = "connected"]
    BY <1>12 DEF Attach, hubVars, threadVars
  <2>2. inbox[fd] = << >> /\ \A f \in Fds \ {fd} : peer'[f] = peer[f]
    BY <1>1, <2>1 DEF SocketsAreListed, SockTypes
  <2>3. \A f \in Fds : Behind(f)' <=> Behind(f)
    BY <2>1 DEF Behind
  <2>4. \A f \in Fds \ {fd} : RunOf(f)'
    BY <1>1, <1>2, <2>1, <2>2, <2>3, QuietRuns
  <2>5. Behind(fd) => Len(enqueued) > 0
    BY <1>1, <1>3 DEF Behind, LastIsHeld, LoopsAreDone
  <2>6. \A m \in Nat : GotUpTo(fd, m)'
    BY <2>1, <2>2 DEF GotUpTo
  <2>7. RunOf(fd)'
    <3>1. 0 \in 0..Len(enqueued')
      BY <1>3, <2>1
    <3>2. (Behind(fd) => Len(enqueued) - 1 \in Nat) /\ Len(enqueued) \in Nat
      BY <1>3, <2>5
    <3>3. GotUpTo(fd, IF Behind(fd) THEN Len(enqueued) - 1 ELSE Len(enqueued))'
      BY <2>1, <2>3, <2>6, <3>2 DEF GotUpTo
    <3>4. \E m \in 0..Len(enqueued') : GotUpTo(fd, m)'
      BY <2>6, <3>1
    <3>. QED
      BY <3>3, <3>4 DEF RunOf
  <2>8. LastIsHeld'
    BY <1>1, <2>1 DEF LastIsHeld
  <2>. QED
    BY <2>4, <2>7, <2>8
<1>13. CASE Next /\ ~ UNCHANGED vars
  <2>1. CASE \/ Poll \/ \E t \in Tables \cup {Wildcard} : Subscribe(t)
             \/ \E id \in SubId : Unsubscribe(id)
             \/ \E i \in Inserters : Callback(i)
    <3>1. UNCHANGED <<enqueued, inbox, peer, pc, event, targets>>
      BY <2>1 DEF Poll, Subscribe, Unsubscribe, Callback, hubVars, sockVars, threadVars
    <3>. QED
      BY <1>5, <3>1
  <2>2. ASSUME NEW fd \in Fds, ClientRead(fd) \/ ClientLeaves(fd)
        PROVE  LastIsHeld' /\ \A f \in Fds : RunOf(f)'
    <3>1. /\ UNCHANGED <<enqueued, inbox, pc, event, targets>>
          /\ peer' = peer \/ peer' = [peer EXCEPT ![fd] = "gone"]
      BY <2>2 DEF ClientRead, ClientLeaves, hubVars, threadVars
    <3>2. \A f \in Fds : peer'[f] = "connected" => peer[f] = "connected"
      BY <1>1, <3>1 DEF SockTypes
    <3>. QED
      BY <1>5, <3>1, <3>2
  <2>. QED
    BY <1>7, <1>8, <1>9, <1>10, <1>11, <1>12, <1>13, <2>1, <2>2 DEF Next, InsertStep
<1>14. CASE UNCHANGED vars
  <2>1. UNCHANGED <<enqueued, inbox, peer, pc, event, targets>>
    BY <1>14 DEF vars, hubVars, sockVars, threadVars
  <2>. QED
    BY <1>5, <2>1
<1>. QED
  BY <1>13, <1>14

(* With one inserting thread each socket receives a run of the published   *)
(* stream: nothing twice, nothing out of order, no gap (fanout_json writes *)
(* each line to each socket before the insert returns).                    *)
THEOREM SocketsGetRuns ==
  ASSUME OneInserter
  PROVE  Spec => []SocketStreamsAreRuns
<1>1. Init => RunInv
  <2>. SUFFICES ASSUME Init PROVE RunInv
    OBVIOUS
  <2>1. /\ enqueued = << >> /\ \A i \in Inserters : pc[i] = "idle"
        /\ \A fd \in Fds : inbox[fd] = << >> /\ peer[fd] = "none"
    BY DEF Init
  <2>2. 0 \in 0..Len(enqueued) /\ \A fd \in Fds : GotUpTo(fd, 0)
    BY <2>1 DEF GotUpTo
  <2>. QED
    BY <2>1, <2>2 DEF RunInv
<1>2. SocketInv /\ RunInv /\ [Next]_vars => RunInv'
  BY RunInvStays
<1>3. FeedInv /\ RunInv => SocketStreamsAreRuns
  <2>. SUFFICES ASSUME FeedInv, RunInv, NEW fd \in Fds
                PROVE  \E first \in 0..Len(enqueued) :
                         /\ first + Len(inbox[fd]) <= Len(enqueued)
                         /\ inbox[fd] = SubSeq(enqueued, first + 1, first + Len(inbox[fd]))
    BY DEF SocketStreamsAreRuns
  <2>1. inbox[fd] \in Seq(Event) /\ enqueued \in Seq(Event)
    BY DEF FeedInv, TypeOK
  <2>. DEFINE l == Len(inbox[fd])
              n == Len(enqueued)
  <2>2. l \in Nat /\ n \in Nat
    BY <2>1, ElementsFit
  <2>3. PICK m \in 0..n : l <= m /\ \A k \in 1..l : inbox[fd][k] = enqueued[m - l + k]
    BY DEF RunInv, GotUpTo
  <2>. HIDE DEF l, n
  <2>. DEFINE first == m - l
  <2>4. PICK from \in Int, to \in Int : from = first + 1 /\ to = first + l
    BY <2>2, <2>3
  <2>5. \A k \in from..to : k \in 1..n
    BY <2>2, <2>3, <2>4
  <2>6. \A k \in from..to : enqueued[k] \in Event
    BY <2>1, <2>5, ElementsFit DEF n
  <2>. DEFINE run == SubSeq(enqueued, from, to)
  <2>7. /\ run \in Seq(Event) /\ Len(run) = IF from <= to THEN to - from + 1 ELSE 0
        /\ \A k \in 1..(to - from + 1) : run[k] = enqueued[from + k - 1]
    BY <2>6, SubSeqProperties
  <2>. HIDE DEF run
  <2>8. to - from + 1 = l /\ \A k \in 1..l : from + k - 1 = m - l + k
    BY <2>2, <2>3, <2>4
  <2>9. Len(run) = l /\ \A k \in 1..l : run[k] = inbox[fd][k]
    BY <2>2, <2>3, <2>4, <2>7, <2>8
  <2>10. run = inbox[fd]
    BY <2>1, <2>7, <2>9, SeqEqual DEF l
  <2>11. first \in 0..n /\ first + l <= n
    BY <2>2, <2>3
  <2>. QED
    BY <2>4, <2>10, <2>11 DEF run, l, n
<1>. QED
  BY <1>1, <1>2, <1>3, SocketInvHolds, FeedInvHolds, PTL DEF Spec

=============================================================================

----------------------------- MODULE Changefeed -----------------------------
(***************************************************************************)
(* The change feed of one open database, used by several threads           *)
(* (engine/changefeed.cpp, changefeed_c.cpp, native_exec.cpp): inserters   *)
(* append WAL records and publish, consumers poll, the embedding program   *)
(* subscribes and unsubscribes, and the socket server attaches clients.    *)
(*                                                                         *)
(* The sections under mutex_ neither block nor call out, so each of them is*)
(* one action; what publish does after it released the mutex is one action *)
(* per callback and per socket.                                            *)
(***************************************************************************)
EXTENDS Naturals, Sequences, FiniteSets

CONSTANTS
  Inserters,   \* threads that call NativeExecutor::insert
  Tables,      \* table names
  Wildcard,    \* the subscription "*"
  Fds,         \* sockets the server may accept
  SockBuf,     \* lines a socket holds that its client has not read
  SmallBuffer, \* TRUE if a consumer may poll with a buffer too small
  Sigpipe,     \* TRUE if the program may have left SIGPIPE at its default
  MaxEvents,   \* bound: inserts
  MaxSubs      \* bound: subscriptions

ASSUME FeedAssumption ==
  /\ Wildcard \notin Tables
  /\ SockBuf \in Nat \ {0}
  /\ SmallBuffer \in BOOLEAN /\ Sigpipe \in BOOLEAN
  /\ MaxEvents \in Nat /\ MaxSubs \in Nat

VARIABLES
  alive,     \* the program has not been killed
  inserts,   \* inserts begun; it numbers the events
  nextLsn,   \* WalWriter::next_lsn_
  wal,       \* HeapInsert records, in the order of the segment
  queue,     \* poll_queue_
  popped,    \* history: what polls took from the queue, and whether they returned it
  enqueued,  \* history: every event that entered the queue, in order
  subs,      \* subscriptions_
  nextId,    \* next_id_
  due,       \* history: the subscriptions that matched each event
  called,    \* history: the callbacks run for each event
  clients,   \* unix_clients_
  peer,      \* the far end of each socket
  inbox,     \* every line written to each socket
  unread,    \* how many of them the client has not read
  joined,    \* history: the length of `enqueued` when each socket was attached
  pc, event, callbacks, targets, dead  \* publish and fanout_json of each inserter

hubVars == <<queue, popped, enqueued>>
subVars == <<subs, nextId>>
sockVars == <<clients, peer, inbox, unread, joined>>
threadVars == <<pc, event, callbacks, targets, dead>>
vars == <<alive, inserts, nextLsn, wal, hubVars, subVars, due, called, sockVars, threadVars>>

\* An event and its JSON line; `id` is history, the line has LSN and table.
Event == [id : 1..MaxEvents, lsn : Nat, table : Tables]
NoEvent == [id |-> 0, lsn |-> 0, table |-> Wildcard]
SubId == 1..MaxSubs
Subscription == [id : SubId, table : Tables \cup {Wildcard}]
Elements(s) == {s[i] : i \in 1..Len(s)}

\* What a loop that erases the other elements leaves of a vector: those at
\* `places`, in their order.
Nth(places, k) == CHOOSE i \in places : Cardinality({j \in places : j < i}) = k - 1
Kept(s, places) == [k \in 1..Cardinality(places) |-> s[Nth(places, k)]]

\* idle; lsn, bump: WalWriter::append; publish: before the mutex;
\* callbacks: the mutex released; write: in fanout_json, the sockets copied
Location == {"idle", "lsn", "bump", "publish", "callbacks", "write"}

TypeOK ==
  /\ alive \in BOOLEAN
  /\ inserts \in 0..MaxEvents
  /\ nextLsn \in Nat
  /\ wal \in Seq(Event)
  /\ queue \in Seq(Event)
  /\ popped \in Seq([event : Event, returned : BOOLEAN])
  /\ enqueued \in Seq(Event)
  /\ subs \in Seq(Subscription)
  /\ nextId \in 1..(MaxSubs + 1)
  /\ due \in [1..MaxEvents -> SUBSET SubId]
  /\ called \in [1..MaxEvents -> SUBSET SubId]
  /\ clients \in Seq(Fds)
  /\ peer \in [Fds -> {"none", "connected", "gone"}]
  /\ inbox \in [Fds -> Seq(Event)]
  /\ unread \in [Fds -> 0..SockBuf]
  /\ joined \in [Fds -> 0..MaxEvents]
  /\ pc \in [Inserters -> Location]
  /\ event \in [Inserters -> Event \cup {NoEvent}]
  /\ callbacks \in [Inserters -> Seq(SubId)]
  /\ targets \in [Inserters -> Seq(Fds)]
  /\ dead \in [Inserters -> SUBSET Fds]

Init ==
  /\ alive = TRUE
  /\ inserts = 0
  /\ nextLsn = 2            \* open() appended the Noop record
  /\ wal = << >> /\ queue = << >> /\ popped = << >> /\ enqueued = << >>
  /\ subs = << >>
  /\ nextId = 1
  /\ due = [e \in 1..MaxEvents |-> {}]
  /\ called = [e \in 1..MaxEvents |-> {}]
  /\ clients = << >>
  /\ peer = [f \in Fds |-> "none"]
  /\ inbox = [f \in Fds |-> << >>]
  /\ unread = [f \in Fds |-> 0]
  /\ joined = [f \in Fds |-> 0]
  /\ pc = [i \in Inserters |-> "idle"]
  /\ event = [i \in Inserters |-> NoEvent]
  /\ callbacks = [i \in Inserters |-> << >>]
  /\ targets = [i \in Inserters |-> << >>]
  /\ dead = [i \in Inserters |-> {}]

At(i, here) == alive /\ pc[i] = here
Goto(i, there) == pc' = [pc EXCEPT ![i] = there]

-----------------------------------------------------------------------------
(* lidb_changefeed_native_insert.                                          *)
NativeInsert(i, t) ==
  /\ At(i, "idle")
  /\ inserts < MaxEvents
  /\ inserts' = inserts + 1
  /\ event' = [event EXCEPT ![i] = [id |-> inserts + 1, lsn |-> 0, table |-> t]]
  /\ Goto(i, "lsn")
  /\ UNCHANGED <<alive, nextLsn, wal, hubVars, subVars, due, called, sockVars, callbacks, targets, dead>>

(* "header.lsn = next_lsn_++": nothing orders the read of one thread and   *)
(* the write of another.                                                   *)
ReadLsn(i) ==
  /\ At(i, "lsn")
  /\ event' = [event EXCEPT ![i].lsn = nextLsn]
  /\ Goto(i, "bump")
  /\ UNCHANGED <<alive, inserts, nextLsn, wal, hubVars, subVars, due, called, sockVars, callbacks, targets, dead>>

(* Mutant: the event is appended with the LSN but the counter stays.       *)
AppendRecordSameLsn(i) ==
  /\ At(i, "bump")
  /\ wal' = Append(wal, event[i])
  /\ Goto(i, "publish")
  /\ UNCHANGED <<alive, inserts, nextLsn, hubVars, subVars, due, called, sockVars, event, callbacks, targets, dead>>

(* The increment is stored and the record written.                         *)
AppendRecord(i) ==
  /\ At(i, "bump")
  /\ nextLsn' = event[i].lsn + 1
  /\ wal' = Append(wal, event[i])
  /\ Goto(i, "publish")
  /\ UNCHANGED <<alive, inserts, hubVars, subVars, due, called, sockVars, event, callbacks, targets, dead>>

Matches(sub, e) == sub.table \in {e.table, Wildcard}

\* The ids of the subscriptions to e, in the order of subscriptions_.
Matching(e) == LET hits == Kept(subs, {i \in 1..Len(subs) : Matches(subs[i], e)})
               IN  [k \in 1..Len(hits) |-> hits[k].id]

(* Mutant: the event is published to the front of the queue.               *)
PublishInFront(i) ==
  /\ At(i, "publish")
  /\ callbacks' = [callbacks EXCEPT ![i] = Matching(event[i])]
  /\ due' = [due EXCEPT ![event[i].id] = Elements(Matching(event[i]))]
  /\ queue' = <<event[i]>> \o queue
  /\ enqueued' = Append(enqueued, event[i])
  /\ Goto(i, "callbacks")
  /\ UNCHANGED <<alive, inserts, nextLsn, wal, popped, subVars, called, sockVars, event, targets, dead>>

(* The section of publish under the mutex: the callbacks to run are copied *)
(* and the line enters the queue.                                          *)
Publish(i) ==
  /\ At(i, "publish")
  /\ callbacks' = [callbacks EXCEPT ![i] = Matching(event[i])]
  /\ due' = [due EXCEPT ![event[i].id] = Elements(Matching(event[i]))]
  /\ queue' = Append(queue, event[i])
  /\ enqueued' = Append(enqueued, event[i])
  /\ Goto(i, "callbacks")
  /\ UNCHANGED <<alive, inserts, nextLsn, wal, popped, subVars, called, sockVars, event, targets, dead>>

(* Mutant: a subscription that is gone by now is skipped.                  *)
CallbackIfSubscribed(i) ==
  /\ At(i, "callbacks")
  /\ callbacks[i] # << >>
  /\ callbacks' = [callbacks EXCEPT ![i] = Tail(@)]
  /\ called' = [called EXCEPT ![event[i].id] =
                  @ \cup ({Head(callbacks[i])} \cap {sub.id : sub \in Elements(subs)})]
  /\ UNCHANGED <<alive, inserts, nextLsn, wal, hubVars, subVars, due, sockVars, pc, event, targets, dead>>

(* One callback runs, outside the mutex.                                   *)
Callback(i) ==
  /\ At(i, "callbacks")
  /\ callbacks[i] # << >>
  /\ callbacks' = [callbacks EXCEPT ![i] = Tail(@)]
  /\ called' = [called EXCEPT ![event[i].id] = @ \cup {Head(callbacks[i])}]
  /\ UNCHANGED <<alive, inserts, nextLsn, wal, hubVars, subVars, due, sockVars, pc, event, targets, dead>>

(* fanout_json copies the list of sockets under the mutex.                 *)
CopyClients(i) ==
  /\ At(i, "callbacks")
  /\ callbacks[i] = << >>
  /\ targets' = [targets EXCEPT ![i] = clients]
  /\ Goto(i, "write")
  /\ UNCHANGED <<alive, inserts, nextLsn, wal, hubVars, subVars, due, called, sockVars, event, callbacks, dead>>

(* Mutant: the line is offered to the same socket again.                   *)
WriteLineTwice(i) ==
  /\ At(i, "write")
  /\ targets[i] # << >>
  /\ LET fd == Head(targets[i]) IN
       /\ peer[fd] = "connected"
       /\ unread[fd] < SockBuf
       /\ inbox' = [inbox EXCEPT ![fd] = Append(@, event[i])]
       /\ unread' = [unread EXCEPT ![fd] = @ + 1]
       /\ Len(inbox[fd]) < 2 * MaxEvents
  /\ targets' \in {targets, [targets EXCEPT ![i] = Tail(@)]}
  /\ UNCHANGED <<alive, inserts, nextLsn, wal, hubVars, subVars, due, called, clients, peer, joined, pc, event, callbacks, dead>>

(* Mutant: the write does not wait for room in the socket.                 *)
WriteLineOverfull(i) ==
  /\ At(i, "write")
  /\ targets[i] # << >>
  /\ LET fd == Head(targets[i]) IN
       /\ peer[fd] = "connected"
       /\ inbox' = [inbox EXCEPT ![fd] = Append(@, event[i])]
       /\ unread' = [unread EXCEPT ![fd] = @ + 1]
  /\ targets' = [targets EXCEPT ![i] = Tail(@)]
  /\ UNCHANGED <<alive, inserts, nextLsn, wal, hubVars, subVars, due, called, clients, peer, joined, pc, event, callbacks, dead>>

(* write() to a socket whose client is there: it blocks while the socket   *)
(* is full, and so does the insert.                                        *)
WriteLine(i) ==
  /\ At(i, "write")
  /\ targets[i] # << >>
  /\ LET fd == Head(targets[i]) IN
       /\ peer[fd] = "connected"
       /\ unread[fd] < SockBuf
       /\ inbox' = [inbox EXCEPT ![fd] = Append(@, event[i])]
       /\ unread' = [unread EXCEPT ![fd] = @ + 1]
  /\ targets' = [targets EXCEPT ![i] = Tail(@)]
  /\ UNCHANGED <<alive, inserts, nextLsn, wal, hubVars, subVars, due, called, clients, peer, joined, pc, event, callbacks, dead>>

(* Mutant: a failed write is tried again until it succeeds.                *)
WriteFailsRetried(i) ==
  /\ At(i, "write")
  /\ targets[i] # << >>
  /\ peer[Head(targets[i])] = "gone"
  /\ UNCHANGED vars

(* write() to a socket whose client has gone: an error, or the signal that *)
(* ends the program.                                                       *)
WriteFails(i) ==
  /\ At(i, "write")
  /\ targets[i] # << >>
  /\ peer[Head(targets[i])] = "gone"
  /\ \/ Sigpipe /\ alive' = FALSE /\ UNCHANGED <<targets, dead>>
     \/ /\ dead' = [dead EXCEPT ![i] = @ \cup {Head(targets[i])}]
        /\ targets' = [targets EXCEPT ![i] = Tail(@)]
        /\ UNCHANGED alive
  /\ UNCHANGED <<inserts, nextLsn, wal, hubVars, subVars, due, called, sockVars, pc, event, callbacks>>

\* mutant: as many sockets are erased, from the end of the list
WithoutLast(fds, gone) == SubSeq(fds, 1, Len(fds) - Cardinality(gone))

\* The sockets of a list that are not in a set.
Without(fds, gone) == Kept(fds, {i \in 1..Len(fds) : fds[i] \notin gone})

(* The sockets that failed are taken off the list, under the mutex, and    *)
(* the insert returns.                                                     *)
Prune(i) ==
  /\ At(i, "write")
  /\ targets[i] = << >>
  /\ clients' = Without(clients, dead[i])
  /\ dead' = [dead EXCEPT ![i] = {}]
  /\ event' = [event EXCEPT ![i] = NoEvent]
  /\ Goto(i, "idle")
  /\ UNCHANGED <<alive, inserts, nextLsn, wal, hubVars, subVars, due, called, peer, inbox, unread, joined, callbacks, targets>>

-----------------------------------------------------------------------------
(* Mutant: publish holds the mutex until fanout_json is done.              *)
PollWithoutSockets ==
  /\ alive
  /\ queue # << >>
  /\ \A i \in Inserters : pc[i] = "idle"
  /\ queue' = Tail(queue)
  /\ popped' = Append(popped, [event |-> Head(queue), returned |-> TRUE])
  /\ UNCHANGED <<alive, inserts, nextLsn, wal, enqueued, subVars, due, called, sockVars, threadVars>>

(* lidb_changefeed_poll with an event waiting: the event leaves the queue, *)
(* and is returned unless the buffer of the caller is too small for it.    *)
Poll ==
  /\ alive
  /\ queue # << >>
  /\ queue' = Tail(queue)
  /\ \E fits \in IF SmallBuffer THEN BOOLEAN ELSE {TRUE} :
       popped' = Append(popped, [event |-> Head(queue), returned |-> fits])
  /\ UNCHANGED <<alive, inserts, nextLsn, wal, enqueued, subVars, due, called, sockVars, threadVars>>

Subscribe(t) ==
  /\ alive
  /\ nextId <= MaxSubs
  /\ subs' = Append(subs, [id |-> nextId, table |-> t])
  /\ nextId' = nextId + 1
  /\ UNCHANGED <<alive, inserts, nextLsn, wal, hubVars, due, called, sockVars, threadVars>>

Unsubscribe(id) ==
  /\ alive
  /\ id \in {sub.id : sub \in Elements(subs)}
  /\ subs' = Kept(subs, {i \in 1..Len(subs) : subs[i].id # id})
  /\ UNCHANGED <<alive, inserts, nextLsn, wal, hubVars, nextId, due, called, sockVars, threadVars>>

(* The accept loop of lidb_changefeed_serve_unix attaches a client.  A     *)
(* socket is never closed, so its number is never accepted again.          *)
Attach(fd) ==
  /\ alive
  /\ peer[fd] = "none"
  /\ peer' = [peer EXCEPT ![fd] = "connected"]
  /\ clients' = Append(clients, fd)
  /\ joined' = [joined EXCEPT ![fd] = Len(enqueued)]
  /\ UNCHANGED <<alive, inserts, nextLsn, wal, hubVars, subVars, due, called, inbox, unread, threadVars>>

(* The client reads a line ...                                             *)
ClientRead(fd) ==
  /\ peer[fd] = "connected"
  /\ unread[fd] > 0
  /\ unread' = [unread EXCEPT ![fd] = @ - 1]
  /\ UNCHANGED <<alive, inserts, nextLsn, wal, hubVars, subVars, due, called, clients, peer, inbox, joined, threadVars>>

(* ... or closes its end; nothing in the program closes the other.         *)
ClientLeaves(fd) ==
  /\ peer[fd] = "connected"
  /\ peer' = [peer EXCEPT ![fd] = "gone"]
  /\ UNCHANGED <<alive, inserts, nextLsn, wal, hubVars, subVars, due, called, clients, inbox, unread, joined, threadVars>>

InsertStep(i) ==
  \/ ReadLsn(i) \/ AppendRecord(i) \/ Publish(i) \/ Callback(i)
  \/ CopyClients(i) \/ WriteLine(i) \/ WriteFails(i) \/ Prune(i)

Next ==
  \/ \E i \in Inserters : InsertStep(i) \/ \E t \in Tables : NativeInsert(i, t)
  \/ Poll
  \/ \E t \in Tables \cup {Wildcard} : Subscribe(t)
  \/ \E id \in SubId : Unsubscribe(id)
  \/ \E fd \in Fds : Attach(fd) \/ ClientRead(fd) \/ ClientLeaves(fd)

Spec == Init /\ [][Next]_vars

\* Threads run, and docs/changefeed.md has a background thread poll every 50 to
\* 200 ms.  Socket clients owe nothing.
FairSpec == Spec /\ WF_vars(Poll) /\ \A i \in Inserters : WF_vars(InsertStep(i))

-----------------------------------------------------------------------------
(* However publishers and consumers interleave, the consumers together take*)
(* every event exactly once and in the order in which it was published:    *)
(* what was polled, followed by what is still queued, is what was          *)
(* published (publish, poll_json_line).                                    *)
PolledThenQueued ==
  enqueued = [k \in 1..Len(popped) |-> popped[k].event] \o queue

(* An event is given to exactly the subscriptions that were there when it  *)
(* was published, and to each of them once: none of the callbacks still to *)
(* run has run, and when the insert has returned all of them have, even if *)
(* the subscription was removed in between (publish copies the callbacks). *)
CallbacksRunOnce ==
  \A e \in 1..inserts :
    LET running == {i \in Inserters : event[i].id = e}
    IN  IF running = {} THEN called[e] = due[e]
        ELSE \A i \in running :
               pc[i] \in {"callbacks", "write"} =>
                 /\ called[e] \cup Elements(callbacks[i]) = due[e]
                 /\ called[e] \cap Elements(callbacks[i]) = {}
                 /\ Cardinality(Elements(callbacks[i])) = Len(callbacks[i])

(* A socket client that stays connected misses no event published since it *)
(* was attached, whatever other clients do: only sockets whose write failed*)
(* are taken off the list.  An insert still on its way to the socket is the*)
(* only exception (attach_unix_client, fanout_json).                       *)
ConnectedClientsMissNothing ==
  \A fd \in Fds : peer[fd] = "connected" =>
    \A k \in (joined[fd] + 1)..Len(enqueued) :
      \/ enqueued[k] \in Elements(inbox[fd])
      \/ \E i \in Inserters :
           /\ event[i].id = enqueued[k].id
           /\ pc[i] = "callbacks" \/ fd \in Elements(targets[i])

(* With one inserting thread, each socket receives a run of the published  *)
(* stream: nothing twice, nothing out of order, no gap (fanout_json writes *)
(* each line to each socket before the insert returns).                    *)
SocketStreamsAreRuns ==
  \A fd \in Fds : \E first \in 0..Len(enqueued) :
    /\ first + Len(inbox[fd]) <= Len(enqueued)
    /\ inbox[fd] = SubSeq(enqueued, first + 1, first + Len(inbox[fd]))

(* With one inserting thread, the stream is in the order of the WAL and its*)
(* LSNs strictly increase (NativeExecutor::insert appends, then publishes).*)
PublishedInLsnOrder ==
  /\ Len(enqueued) <= Len(wal)
  /\ \A k \in 1..Len(enqueued) : enqueued[k] = wal[k]
  /\ \A j, k \in 1..Len(wal) : j < k => wal[j].lsn < wal[k].lsn

(* A published event is polled, even when a socket client that does not    *)
(* read holds the publisher up: it is queued before the sockets are        *)
(* written.                                                                *)
EventsArePolled ==
  \A n \in 1..MaxEvents : Len(enqueued) >= n ~> (Len(popped) >= n \/ ~ alive)

(* Nothing but a full socket can hold an insert up for ever (write blocks; *)
(* the program may also be killed by it).                                  *)
HeldUp(i) ==
  /\ pc[i] = "write"
  /\ targets[i] # << >>
  /\ peer[Head(targets[i])] = "connected"
  /\ unread[Head(targets[i])] = SockBuf
InsertsReturnOrBlock ==
  \A i \in Inserters : pc[i] # "idle" ~> (pc[i] = "idle" \/ HeldUp(i) \/ ~ alive)

=============================================================================

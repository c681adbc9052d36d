---------------------------- MODULE SessionProofs ----------------------------
(***************************************************************************)
(* What TLAPS proves of the threads of one interpreter and the children    *)
(* they start, for any number of threads, any tables and rows, and any     *)
(* faults: the two locks of embed_engine.py keep the children apart, so    *)
(* what is proved of one open process at a time holds of the session.      *)
(***************************************************************************)
EXTENDS EmbedSession, EmbeddedDatabaseProofs

\* The lines of ensure_session inside "with _SESSION_LOCK".
Opening == {"session2", "ready2", "open_spawn", "open", "migrate_spawn", "migrate", "catalog", "set_ready"}

\* Those where _SESSION is still None, and those after it was seen or set.
Unopened == {"ready2", "open_spawn", "open", "migrate_spawn", "migrate", "catalog"}
Opened == {"set_ready", "exec_lock", "exec_spawn", "exec"}

\* The places where a thread has a child.
WithChild == {"open", "migrate", "exec"}

\* A statement is inserted under the name of its row.
RequestsNameRows ==
  /\ request \in [Procs -> Request]
  /\ \A t \in Procs : request[t].op = "insert" => request[t].row \in Rows

\* The locks are held where the code holds them ...
LocksAreHeld ==
  \A t \in Procs : /\ at[t] \in Opening <=> sessionLock = t
                   /\ at[t] \in {"exec_spawn", "exec"} <=> execLock = t
                   /\ at[t] \in WithChild <=> pc[t] # "down"

\* ... and what was read under them is still so.
ChecksAreFresh ==
  /\ \A t \in Procs : (at[t] \in Unopened => ~ hasSession) /\ (at[t] \in Opened => hasSession)
  /\ ready = "False" => /\ ~ hasSession
                        /\ \A t \in Procs : at[t] \notin (Unopened \ {"ready2"}) \cup Opened

-----------------------------------------------------------------------------
(* The children of the session use the directory like any other process.   *)

LEMMA InitNames == SessionInit => RequestsNameRows
<1>. SUFFICES ASSUME SessionInit PROVE RequestsNameRows
  OBVIOUS
<1>1. (CHOOSE u \in DataTables : TRUE) \in DataTables
  BY SessionAssumption
<1>2. [op |-> "select", table |-> CHOOSE u \in DataTables : TRUE, row |-> MigRow] \in Request
  BY <1>1 DEF Request
<1>3. request = [t \in Procs |-> [op |-> "select", table |-> CHOOSE u \in DataTables : TRUE, row |-> MigRow]]
  BY DEF SessionInit
<1>. QED
  BY <1>2, <1>3 DEF RequestsNameRows

(* A call is an INSERT of a row or a SELECT.                               *)
LEMMA CallRequests ==
  ASSUME NEW t \in Procs, Call(t)
  PROVE  \E req \in Request : /\ request' = [request EXCEPT ![t] = req]
                              /\ req.op = "insert" => req.row \in Rows
<1>1. PICK u \in DataTables :
        \/ \E r \in Rows : request' = [request EXCEPT ![t] = [op |-> "insert", table |-> u, row |-> r]]
        \/ request' = [request EXCEPT ![t] = [op |-> "select", table |-> u, row |-> MigRow]]
  BY DEF Call
<1>2. [op |-> "select", table |-> u, row |-> MigRow] \in Request
  BY DEF Request
<1>3. \A r \in Rows : [op |-> "insert", table |-> u, row |-> r] \in Request
  BY DEF Request
<1>4. CASE \E r \in Rows : request' = [request EXCEPT ![t] = [op |-> "insert", table |-> u, row |-> r]]
  <2>1. PICK r \in Rows : request' = [request EXCEPT ![t] = [op |-> "insert", table |-> u, row |-> r]]
    BY <1>4
  <2>. QED
    BY <1>3, <2>1
<1>5. CASE request' = [request EXCEPT ![t] = [op |-> "select", table |-> u, row |-> MigRow]]
  BY <1>2, <1>5
<1>. QED
  BY <1>1, <1>4, <1>5

(* Only a call names a row.                                                *)
LEMMA NamesStep ==
  ASSUME RequestsNameRows, [SessionNext]_allVars
  PROVE  RequestsNameRows'
<1>1. ASSUME NEW t \in Procs, Call(t)
      PROVE  RequestsNameRows'
  <2>1. PICK req \in Request : /\ request' = [request EXCEPT ![t] = req]
                               /\ req.op = "insert" => req.row \in Rows
    BY <1>1, CallRequests
  <2>. QED
    BY <2>1 DEF RequestsNameRows
<1>2. ASSUME NEW t \in Procs, ThreadStep(t) \/ ChildFails(t) \/ RunRaises(t)
      PROVE  UNCHANGED request
  BY <1>2 DEF ThreadStep, RunRaises, CheckReady, CheckSession, AcquireSession, RecheckSession, RecheckReady, Spawn,
     ChildStep, OpenExits, MigrateExits, CheckCatalog, SetReady, AcquireExec, ExecExits, ChildFails, python
<1>3. CASE UNCHANGED request
  BY <1>3 DEF RequestsNameRows
<1>. QED
  BY <1>1, <1>2, <1>3 DEF SessionNext, Reset, allVars, python

LEMMA ChildWorks ==
  ASSUME RequestsNameRows, NEW t \in Procs, ChildStep(t)
  PROVE  Work(t)
<1>1. request[t].table \in Tables /\ (request[t].op = "insert" => request[t].row \in Rows)
  BY DEF RequestsNameRows, Request, DataTables
<1>. QED
  BY <1>1 DEF ChildStep, Work, Step

(* A step of the session is a step of a child, of a client that names its  *)
(* row, or leaves the directory alone.                                     *)
LEMMA SessionStepOnDirectory ==
  ASSUME RequestsNameRows, used \subseteq Rows, [SessionNext]_allVars
  PROVE  [DirectoryNext]_vars
<1>1. ASSUME NEW t \in Procs, Call(t)
      PROVE  Reserve
  BY <1>1 DEF Call, Reserve, inProcess
<1>2. ASSUME NEW t \in Procs, ChildStep(t)
      PROVE  Work(t)
  BY <1>2, ChildWorks
<1>3. ASSUME NEW t \in Procs, Spawn(t)
      PROVE  Work(t)
  BY <1>3 DEF Spawn, Work, Step
<1>4. ASSUME NEW t \in Procs, OpenExits(t) \/ MigrateExits(t) \/ ExecExits(t)
      PROVE  Work(t)
  BY <1>4 DEF OpenExits, MigrateExits, ExecExits, Work, Step
<1>5. ASSUME NEW t \in Procs, ChildFails(t) \/ RunRaises(t)
      PROVE  Work(t) \/ UNCHANGED vars
  BY <1>5 DEF ChildFails, RunRaises, NoChild, Work, Step
<1>6. ASSUME NEW t \in Procs,
             CheckReady(t) \/ CheckSession(t) \/ AcquireSession(t) \/ RecheckSession(t) \/ RecheckReady(t)
               \/ CheckCatalog(t) \/ SetReady(t) \/ AcquireExec(t)
      PROVE  UNCHANGED vars
  BY <1>6 DEF CheckReady, CheckSession, AcquireSession, RecheckSession, RecheckReady, CheckCatalog,
     SetReady, AcquireExec
<1>. QED
  BY <1>1, <1>2, <1>3, <1>4, <1>5, <1>6 DEF SessionNext, ThreadStep, Reset, DirectoryNext, allVars

LEMMA SessionIsDirectory == SessionSpec => Directory /\ []RequestsNameRows
<1>1. SessionInit => Init
  BY DEF SessionInit
<1>2. Init => used \subseteq Rows
  BY DEF Init
<1>3. used \subseteq Rows /\ [DirectoryNext]_vars => (used \subseteq Rows)'
  <2>1. ASSUME NEW p \in Procs, NEW t \in Tables, NEW r \in Rows, Insert(p, t, r)
        PROVE  used' = used \cup {r}
    BY <2>1 DEF Insert
  <2>2. ASSUME NEW p \in Procs, Step(p)
        PROVE  UNCHANGED used \/ \E t \in Tables, r \in Rows : Insert(p, t, r)
    BY <2>2 DEF Step, Open, AppendNoop, MigrateDone, Bootstrap, InsertRejected, Select, SaveTruncate,
       SaveNotOpened, SaveFlush, SaveClose, SaveLost, HeapInsert, Close, Crash, Leave
  <2>. QED
    BY <2>1, <2>2 DEF DirectoryNext, Work, Reserve, vars
<1>. QED
  BY <1>1, <1>2, <1>3, InitNames, NamesStep, SessionStepOnDirectory, PTL DEF SessionSpec, Directory

-----------------------------------------------------------------------------
(* Type correctness.                                                       *)

PythonTypes ==
  /\ hasSession \in BOOLEAN
  /\ ready \in {"None", "True", "False"}
  /\ sessionLock \in Procs \cup {Free}
  /\ execLock \in Procs \cup {Free}
  /\ at \in [Procs -> Place]
  /\ request \in [Procs -> Request]
  /\ outcome \in [Procs -> Reply \cup {Done("lost")}]
  /\ calls \in 0..MaxCalls
  /\ resets \in 0..MaxResets

LEMMA SessionConstants == Free \notin Procs /\ MaxCalls \in Nat /\ MaxResets \in Nat
BY SessionAssumption

LEMMA RepliesAreTyped == NoReply \in Reply /\ Done("ok") \in Reply /\ Done("failed") \in Reply
BY DEF NoReply, Done, Reply

LEMMA PythonTypesInit == SessionInit => PythonTypes
<1>. SUFFICES ASSUME SessionInit PROVE PythonTypes
  OBVIOUS
<1>1. request \in [Procs -> Request]
  BY InitNames DEF RequestsNameRows
<1>2. /\ hasSession = FALSE /\ ready = "None" /\ sessionLock = Free /\ execLock = Free
      /\ at = [t \in Procs |-> "idle"]
      /\ outcome = [t \in Procs |-> NoReply]
      /\ calls = 0 /\ resets = 0
  BY DEF SessionInit
<1>3. calls \in 0..MaxCalls /\ resets \in 0..MaxResets
  BY <1>2, SessionConstants
<1>4. at \in [Procs -> Place] /\ outcome \in [Procs -> Reply \cup {Done("lost")}]
  BY <1>2, RepliesAreTyped DEF Place
<1>. QED
  BY <1>1, <1>2, <1>3, <1>4 DEF PythonTypes

LEMMA PythonTypesStep ==
  ASSUME TypeOK, PythonTypes, RequestsNameRows', [SessionNext]_allVars
  PROVE  PythonTypes'
<1>. USE RepliesAreTyped
<1>0. request' \in [Procs -> Request]
  BY DEF RequestsNameRows
<1>1. ASSUME NEW t \in Procs, Call(t)
      PROVE  PythonTypes'
  BY <1>0, <1>1, SessionConstants DEF Call, PythonTypes, Goto, Place
<1>2. ASSUME NEW t \in Procs, CheckReady(t) \/ CheckSession(t) \/ AcquireSession(t) \/ RecheckSession(t)
      PROVE  PythonTypes'
  BY <1>2 DEF CheckReady, CheckSession, AcquireSession, RecheckSession, Unavailable, PythonTypes, Goto, Place
<1>3. ASSUME NEW t \in Procs, RecheckReady(t) \/ SetReady(t) \/ AcquireExec(t) \/ OpenExits(t)
      PROVE  PythonTypes'
  BY <1>3 DEF RecheckReady, SetReady, AcquireExec, OpenExits, Unavailable, PythonTypes, Goto, Place
<1>4. ASSUME NEW t \in Procs, Spawn(t)
      PROVE  PythonTypes'
  BY <1>4 DEF Spawn, Spawned, PythonTypes, Goto, Place
<1>5. ASSUME NEW t \in Procs, ChildStep(t)
      PROVE  PythonTypes'
  BY <1>5 DEF ChildStep, python, PythonTypes
<1>6. ASSUME NEW t \in Procs, MigrateExits(t) \/ CheckCatalog(t) \/ ChildFails(t) \/ RunRaises(t)
      PROVE  PythonTypes'
  BY <1>6 DEF MigrateExits, CheckCatalog, ChildFails, RunRaises, OpenFailed, Unavailable, PythonTypes, Goto, Place
<1>7. ASSUME NEW t \in Procs, ExecExits(t)
      PROVE  PythonTypes'
  <2>1. reply[t] \in Reply
    BY DEF TypeOK
  <2>. QED
    BY <1>7, <2>1 DEF ExecExits, PythonTypes, Goto, Place
<1>8. CASE Reset
  <2>1. hasSession' \in BOOLEAN /\ ready' \in {"None", "True", "False"}
    BY <1>8 DEF Reset
  <2>2. resets' \in 0..MaxResets
    BY <1>8, SessionConstants DEF Reset, PythonTypes
  <2>. QED
    BY <1>8, <2>1, <2>2 DEF Reset, PythonTypes
<1>9. CASE UNCHANGED allVars
  BY <1>9 DEF allVars, python, PythonTypes
<1>. QED
  BY <1>1, <1>2, <1>3, <1>4, <1>5, <1>6, <1>7, <1>8, <1>9 DEF SessionNext, ThreadStep

(* The session's variables keep to their types, whatever the threads and   *)
(* their children do and whatever fails (embed_engine.py).                 *)
THEOREM SessionTypeCorrect == SessionSpec => []SessionTypeOK
<1>1. TypeOK /\ PythonTypes => SessionTypeOK
  BY DEF PythonTypes, SessionTypeOK
<1>. QED
  BY <1>1, SessionIsDirectory, DirectoryTypes, PythonTypesInit, PythonTypesStep, PTL DEF SessionSpec

-----------------------------------------------------------------------------
(* The two locks.                                                          *)

(* A child is there until the thread that started it sees it exit.         *)
LEMMA ChildStays ==
  ASSUME TypeOK, NEW t \in Procs, ChildStep(t)
  PROVE  /\ at[t] \in WithChild
         /\ UNCHANGED python
         /\ \A o \in Procs : pc'[o] = "down" <=> pc[o] = "down"
<1>1. pc[t] # "down" /\ pc'[t] # "down" /\ \A o \in Procs \ {t} : pc'[o] = pc[o]
  BY DEF ChildStep, TypeOK, AppendNoop, MigrateDone, Bootstrap, Insert, InsertRejected, Select,
     SaveTruncate, SaveNotOpened, SaveFlush, SaveClose, SaveLost, SaveReturns, HeapInsert, inProcess
<1>. QED
  BY <1>1 DEF ChildStep, WithChild

LEMMA LocksInit == SessionInit => LocksAreHeld /\ ChecksAreFresh
BY SessionConstants
DEF SessionInit, Init, LocksAreHeld, ChecksAreFresh, Opening, Unopened, Opened, WithChild

LEMMA LocksStep ==
  ASSUME TypeOK, PythonTypes, LocksAreHeld, ChecksAreFresh, [SessionNext]_allVars
  PROVE  LocksAreHeld' /\ ChecksAreFresh'
<1>. USE DEF LocksAreHeld, ChecksAreFresh, Opening, Unopened, Opened, WithChild
<1>1. ASSUME NEW t \in Procs, Call(t)
      PROVE  LocksAreHeld' /\ ChecksAreFresh'
  BY <1>1 DEF Call, PythonTypes, Goto
<1>2. ASSUME NEW t \in Procs, CheckReady(t) \/ CheckSession(t)
      PROVE  LocksAreHeld' /\ ChecksAreFresh'
  BY <1>2 DEF CheckReady, CheckSession, Unavailable, PythonTypes, Goto, vars
<1>3. ASSUME NEW t \in Procs, AcquireSession(t) \/ RecheckSession(t)
      PROVE  LocksAreHeld' /\ ChecksAreFresh'
  BY <1>3, SessionConstants DEF AcquireSession, RecheckSession, PythonTypes, Goto, vars
<1>4. ASSUME NEW t \in Procs, RecheckReady(t)
      PROVE  LocksAreHeld' /\ ChecksAreFresh'
  BY <1>4, SessionConstants DEF RecheckReady, Unavailable, PythonTypes, Goto, vars
<1>5. ASSUME NEW t \in Procs, Spawn(t)
      PROVE  LocksAreHeld' /\ ChecksAreFresh'
  BY <1>5 DEF Spawn, Spawned, Open, TypeOK, PythonTypes, Goto
<1>6. ASSUME NEW t \in Procs, ChildStep(t)
      PROVE  LocksAreHeld' /\ ChecksAreFresh'
  BY <1>6, ChildStays DEF python
<1>7. ASSUME NEW t \in Procs, OpenExits(t) \/ ExecExits(t)
      PROVE  LocksAreHeld' /\ ChecksAreFresh'
  BY <1>7, SessionConstants DEF OpenExits, ExecExits, Close, Leave, TypeOK, PythonTypes, Goto
<1>8. ASSUME NEW t \in Procs, MigrateExits(t)
      PROVE  LocksAreHeld' /\ ChecksAreFresh'
  BY <1>8, SessionConstants
  DEF MigrateExits, OpenFailed, Unavailable, Close, Leave, TypeOK, PythonTypes, Goto
<1>9. ASSUME NEW t \in Procs, CheckCatalog(t) \/ SetReady(t)
      PROVE  LocksAreHeld' /\ ChecksAreFresh'
  <2>1. CASE CheckCatalog(t)
    <3>1. /\ at[t] = "catalog"
          /\ UNCHANGED <<pc, execLock>>
          /\ \/ /\ hasSession' = TRUE /\ at' = [at EXCEPT ![t] = "set_ready"]
                /\ UNCHANGED <<ready, sessionLock>>
             \/ /\ ready' = "False" /\ hasSession' = FALSE /\ sessionLock' = Free
                /\ at' = [at EXCEPT ![t] = "idle"]
      BY <2>1 DEF CheckCatalog, OpenFailed, Unavailable, Goto, vars
    <3>. QED
      BY <3>1, SessionConstants DEF PythonTypes
  <2>2. CASE SetReady(t)
    BY <2>2, SessionConstants DEF SetReady, PythonTypes, Goto, vars
  <2>. QED
    BY <1>9, <2>1, <2>2
<1>10. ASSUME NEW t \in Procs, AcquireExec(t)
       PROVE  LocksAreHeld' /\ ChecksAreFresh'
  BY <1>10, SessionConstants DEF AcquireExec, PythonTypes, Goto, vars
<1>11. ASSUME NEW t \in Procs, ChildFails(t)
       PROVE  LocksAreHeld' /\ ChecksAreFresh'
  <2>1. /\ pc'[t] = "down"
        /\ \A o \in Procs \ {t} : pc'[o] = pc[o]
    BY <1>11 DEF ChildFails, NoChild, Spawned, Crash, Leave, TypeOK, vars
  <2>2. CASE at[t] \in {"exec_spawn", "exec"}
    BY <1>11, <2>1, <2>2, SessionConstants DEF ChildFails, PythonTypes, Goto
  <2>3. CASE at[t] \in {"open_spawn", "open", "migrate_spawn", "migrate"}
    <3>1. /\ ready' = "False" /\ hasSession' = FALSE /\ sessionLock' = Free
          /\ at' = [at EXCEPT ![t] = "idle"] /\ UNCHANGED execLock
      BY <1>11, <2>3 DEF ChildFails, OpenFailed, Unavailable, Goto
    <3>. QED
      BY <2>1, <2>3, <3>1, SessionConstants DEF PythonTypes
  <2>. QED
    BY <1>11, <2>2, <2>3 DEF ChildFails, NoChild, Spawned
<1>12. ASSUME NEW t \in Procs, RunRaises(t)
       PROVE  LocksAreHeld' /\ ChecksAreFresh'
  <2>1. /\ pc'[t] = "down"
        /\ \A o \in Procs \ {t} : pc'[o] = pc[o]
    BY <1>12 DEF RunRaises, NoChild, Spawned, Crash, Leave, TypeOK, vars
  <2>2. /\ at[t] \in {"open_spawn", "open", "migrate_spawn", "migrate"}
        /\ sessionLock' = Free /\ at' = [at EXCEPT ![t] = "idle"]
        /\ UNCHANGED <<hasSession, ready, execLock>>
    BY <1>12 DEF RunRaises, Unavailable, Goto
  <2>. QED
    BY <2>1, <2>2, SessionConstants DEF PythonTypes
<1>13. CASE Reset
  BY <1>13 DEF Reset, vars
<1>14. CASE UNCHANGED allVars
  BY <1>14 DEF allVars, python, vars
<1>. QED
  BY <1>1, <1>2, <1>3, <1>4, <1>5, <1>6, <1>7, <1>8, <1>9, <1>10, <1>11, <1>12, <1>13, <1>14
  DEF SessionNext, ThreadStep

LEMMA LocksInvariant == SessionSpec => [](LocksAreHeld /\ ChecksAreFresh)
BY SessionIsDirectory, DirectoryTypes, PythonTypesInit, PythonTypesStep, LocksInit, LocksStep, PTL
DEF SessionSpec

LEMMA LocksExclude == LocksAreHeld /\ ChecksAreFresh => OneChildAtATime
BY DEF LocksAreHeld, ChecksAreFresh, OneChildAtATime, Opening, Unopened, Opened, WithChild

(* Whatever fails, and for any number of threads that call execute_sql at  *)
(* once: at most one child has the data directory open.  _SESSION_LOCK     *)
(* keeps the opening children apart and _EXEC_LOCK the executing ones; the *)
(* two kinds are apart because a thread opens only while _SESSION is None, *)
(* and executes only when it is not.                                       *)
THEOREM OnlyOneChild == SessionSpec => []OneChildAtATime
BY LocksInvariant, LocksExclude, PTL

(* An open_and_migrate that returns False is final until the interpreter   *)
(* is restarted, also for the threads that were already waiting for        *)
(* _SESSION_LOCK (ensure_session).  Nothing is latched by one that raises. *)
THEOREM FailureIsFinal == SessionSpec => FailureIsLatched
<1>1. TypeOK /\ PythonTypes /\ LocksAreHeld /\ ChecksAreFresh /\ LocksAreHeld' /\ ChecksAreFresh'
        /\ [SessionNext]_allVars
      => [ready = "False" /\ resets' = resets => ready' = "False" /\ ~ hasSession']_allVars
  <2>. SUFFICES ASSUME PythonTypes, ChecksAreFresh, ChecksAreFresh', SessionNext,
                       ready = "False", resets' = resets
                PROVE  ready' = "False"
    BY DEF ChecksAreFresh, allVars
  <2>1. ASSUME NEW t \in Procs, SetReady(t)
        PROVE  FALSE
    BY <2>1 DEF SetReady, ChecksAreFresh, Unopened, Opened
  <2>2. ASSUME NEW t \in Procs, Call(t) \/ CheckReady(t) \/ CheckSession(t) \/ AcquireSession(t)
                 \/ RecheckSession(t) \/ RecheckReady(t) \/ Spawn(t) \/ ChildStep(t) \/ OpenExits(t)
                 \/ AcquireExec(t) \/ ExecExits(t) \/ RunRaises(t)
        PROVE  UNCHANGED ready
    BY <2>2 DEF Call, RunRaises, CheckReady, CheckSession, AcquireSession, RecheckSession, RecheckReady, Spawn,
       ChildStep, OpenExits, AcquireExec, ExecExits, python
  <2>3. ASSUME NEW t \in Procs, MigrateExits(t) \/ CheckCatalog(t) \/ ChildFails(t)
        PROVE  UNCHANGED ready \/ ready' = "False"
    BY <2>3 DEF MigrateExits, CheckCatalog, ChildFails, OpenFailed
  <2>4. ~ Reset
    BY DEF Reset, PythonTypes
  <2>. QED
    BY <2>1, <2>2, <2>3, <2>4 DEF SessionNext, ThreadStep
<1>. QED
  BY <1>1, SessionIsDirectory, DirectoryTypes, PythonTypesInit, PythonTypesStep, LocksInvariant, PTL
  DEF SessionSpec, FailureIsLatched

-----------------------------------------------------------------------------
(* What the engine promises to one open process at a time, it promises to  *)
(* the threads of the session.                                             *)

LEMMA SessionHasOneOpen == SessionSpec => []OneOpen
<1>1. OneChildAtATime => OneOpen
  BY DEF OneChildAtATime, OneOpen
<1>. QED
  BY <1>1, OnlyOneChild, PTL

(* Through execute_sql, nothing has to be assumed of the opens: until a    *)
(* save is torn, a row whose insertion was logged in a migrated catalogue  *)
(* is never lost, whatever children die or fail and however often the      *)
(* interpreter is restarted.                                               *)
THEOREM SessionKeepsRows == SessionSpec => []LoggedRowsStayStored
BY SessionIsDirectory, SessionHasOneOpen, DirectoryKeepsRows, PTL

(* After a torn save too, a catalogue that the session finds marked as     *)
(* migrated has all the rows logged on it since it was marked, of the      *)
(* tables before the marker in map order.                                  *)
THEOREM SessionIsComplete == SessionSpec => []MarkedCatalogIsComplete
BY SessionIsDirectory, SessionHasOneOpen, DirectoryIsComplete, PTL

-----------------------------------------------------------------------------
(* As long as a save that was begun is completed, children may die outside *)
(* the write of the snapshot, and the snapshot may fail to open.  Then     *)
(* statements see a migrated catalogue, and the session is the atomic store*)
(* of RowStore, step by step.                                              *)

SavesComplete == Faults \subseteq {"crash", "open_fail"}

NoWriter == \A p \in Procs : pc[p] # "write"

\* A child executes the request of its thread, or the migration, and replies
\* when it is done.
Serves(t) ==
  /\ pc[t] \in {"save", "write", "log"} =>
       /\ reply[t].status = "none"
       /\ \/ at[t] = "migrate" /\ pc[t] # "log" /\ cmd[t].op = "migrate"
          \/ /\ at[t] = "exec" /\ request[t].op = "insert"
             /\ cmd[t] = [op |-> "insert", table |-> request[t].table, row |-> request[t].row]
  /\ reply[t].status # "none" => pc[t] = "idle" /\ at[t] \in {"migrate", "exec"}
  /\ reply[t].status = "failed" => reply[t] = Done("failed")

\* The rows of a table before the statement that a child has in memory.
Before(t, u) ==
  {r \in mem[t][u] \cap Rows : ~ (cmd[t].op = "insert" /\ cmd[t].table = u /\ cmd[t].row = r)}

\* The bootstrap is in the file for good, and before it the file is empty.
SnapshotIsWhole ==
  NoWriter => /\ \A u \in DataTables : disk[u] \subseteq Rows
              /\ disk = EmptyCatalog \/ MigRow \in disk[MigTable]
              /\ hasSession => MigRow \in disk[MigTable]

\* What a child has in memory is what was committed, and its own statement.
SeesCommitted(t) ==
  pc[t] # "down" =>
    /\ \A u \in DataTables : mem[t][u] \subseteq Rows
    /\ pc[t] \in {"save", "write", "log"} \/ at[t] = "exec" => MigRow \in mem[t][MigTable]
    /\ pc[t] \in {"noop", "idle"} /\ reply[t].status = "none" =>
         /\ \A u \in DataTables : mem[t][u] = disk[u]
         /\ MigRow \in disk[MigTable] => MigRow \in mem[t][MigTable]
    /\ pc[t] = "save" => \A u \in DataTables : Before(t, u) = disk[u]

\* A thread is inserting a row, and its child has not begun to.
Inserting(t) == at[t] # "idle" /\ request[t].op = "insert"
Begun(t) == at[t] = "exec" /\ (pc[t] \in {"save", "write", "log"} \/ reply[t].status # "none")
NotTried(t) == Inserting(t) /\ ~ Begun(t)

\* Rows are named before they are stored, ...
StoredRowsAreNamed ==
  /\ NoWriter => \A u \in DataTables : disk[u] \subseteq used
  /\ \A p \in Procs : \A u \in DataTables : mem[p][u] \subseteq used

\* ... each by one thread, ...
NamesAreOwn ==
  \A t \in Procs : Inserting(t) =>
    /\ request[t].row \in used
    /\ \A o \in Procs \ {t} : Inserting(o) => request[o].row # request[t].row

\* ... and are not stored before its child begins to.
RowsAreNew ==
  \A t \in Procs : NotTried(t) =>
    /\ NoWriter => \A u \in DataTables : request[t].row \notin disk[u]
    /\ \A p \in Procs : \A u \in DataTables : request[t].row \notin mem[p][u]

StoreInv ==
  /\ \A t \in Procs : Serves(t) /\ SeesCommitted(t)
  /\ SnapshotIsWhole
  /\ StoredRowsAreNamed
  /\ NamesAreOwn
  /\ RowsAreNew

\* What is known of the session under any faults.
SessionInv ==
  /\ TypeOK /\ PythonTypes /\ RequestsNameRows
  /\ LocksAreHeld /\ ChecksAreFresh /\ OneOpen
  /\ AllSole /\ StatementsAreInMemory

-----------------------------------------------------------------------------
LEMMA SessionInvariant == SessionSpec => []SessionInv
<1>1. Init => AllSole /\ StatementsAreInMemory
  BY DEF Init, AllSole, StatementsAreInMemory
<1>2. TypeOK /\ OneOpen /\ OneOpen' /\ AllSole /\ StatementsAreInMemory /\ [DirectoryNext]_vars
      => AllSole' /\ StatementsAreInMemory'
  <2>1. CASE Reserve \/ UNCHANGED vars
    BY <2>1 DEF Reserve, vars, inProcess, AllSole, StatementsAreInMemory
  <2>. QED
    BY <2>1, AllSoleStep, StatementsStep DEF DirectoryNext
<1>3. Directory /\ []OneOpen => [](AllSole /\ StatementsAreInMemory)
  BY <1>1, <1>2, DirectoryTypes, PTL DEF Directory
<1>. QED
  BY <1>3, SessionIsDirectory, DirectoryTypes, SessionHasOneOpen, LocksInvariant, PythonTypesInit,
     PythonTypesStep, PTL DEF SessionSpec, SessionInv

LEMMA StoreInit == SessionInit => StoreInv
<1>. SUFFICES ASSUME SessionInit PROVE StoreInv
  OBVIOUS
<1>1. /\ disk = EmptyCatalog
      /\ pc = [p \in Procs |-> "down"]
      /\ mem = [p \in Procs |-> EmptyCatalog]
      /\ reply = [p \in Procs |-> NoReply]
      /\ at = [t \in Procs |-> "idle"]
      /\ hasSession = FALSE
  BY DEF SessionInit, Init
<1>2. \A u \in DataTables : EmptyCatalog[u] = {}
  BY DEF EmptyCatalog, DataTables
<1>. QED
  BY <1>1, <1>2 DEF StoreInv, Serves, SeesCommitted, SnapshotIsWhole, StoredRowsAreNamed, NamesAreOwn,
     RowsAreNew, NotTried, Inserting, NoReply

(* A step of a thread that leaves the directory and its children alone.    *)
LEMMA PythonStepKeeps ==
  ASSUME StoreInv, UNCHANGED <<vars, request>>,
         \A t \in Procs : pc[t] # "down" => at'[t] = at[t],
         \A t \in Procs : at[t] = "idle" => at'[t] = "idle",
         hasSession' => hasSession \/ disk # EmptyCatalog
  PROVE  StoreInv'
<1>1. UNCHANGED <<disk, used, pc, mem, cmd, reply, request>>
  BY DEF vars, inProcess
<1>2. \A t \in Procs : Serves(t)' /\ SeesCommitted(t)'
  BY <1>1 DEF StoreInv, Serves, SeesCommitted, Before
<1>3. SnapshotIsWhole'
  BY <1>1 DEF StoreInv, SnapshotIsWhole, NoWriter
<1>4. StoredRowsAreNamed' /\ NamesAreOwn'
  BY <1>1 DEF StoreInv, StoredRowsAreNamed, NamesAreOwn, Inserting, NoWriter
<1>5. \A t \in Procs : NotTried(t)' => NotTried(t)
  BY <1>1 DEF NotTried, Begun, Inserting, StoreInv, Serves
<1>6. RowsAreNew'
  BY <1>1, <1>5 DEF StoreInv, RowsAreNew, NoWriter
<1>. QED
  BY <1>2, <1>3, <1>4, <1>6 DEF StoreInv

(* A call names a row that nobody has.                                     *)
LEMMA CallKeeps ==
  ASSUME SessionInv, StoreInv, NEW t \in Procs, Call(t)
  PROVE  StoreInv'
<1>1. /\ UNCHANGED <<disk, pc, mem, cmd, reply, hasSession>>
      /\ at[t] = "idle" /\ at' = [at EXCEPT ![t] = "ready1"]
      /\ \A o \in Procs \ {t} : request'[o] = request[o]
      /\ \/ request'[t].op = "insert" /\ request'[t].row \notin used /\ used' = used \cup {request'[t].row}
         \/ request'[t].op = "select" /\ UNCHANGED used
  BY DEF Call, inProcess, Goto, SessionInv, PythonTypes
<1>2. /\ at'[t] = "ready1" /\ pc[t] = "down"
      /\ \A o \in Procs \ {t} : at'[o] = at[o]
  BY <1>1 DEF SessionInv, PythonTypes, LocksAreHeld, WithChild
<1>3. ASSUME NEW o \in Procs
      PROVE  Serves(o)' /\ SeesCommitted(o)'
  <2>1. Serves(o) /\ SeesCommitted(o)
    BY DEF StoreInv
  <2>2. CASE o = t
    BY <1>1, <1>2, <2>1, <2>2 DEF Serves, SeesCommitted
  <2>3. CASE o # t
    <3>1. UNCHANGED <<at[o], request[o], pc[o], mem[o], cmd[o], reply[o], disk>>
      BY <1>1, <1>2, <2>3
    <3>. QED
      BY <2>1, <3>1 DEF Serves, SeesCommitted, Before
  <2>. QED
    BY <2>2, <2>3
<1>4. SnapshotIsWhole' /\ StoredRowsAreNamed'
  BY <1>1 DEF StoreInv, SnapshotIsWhole, StoredRowsAreNamed, NoWriter
<1>5. \A o \in Procs \ {t} : /\ Inserting(o)' = Inserting(o)
                             /\ NotTried(o)' = NotTried(o)
  BY <1>1, <1>2 DEF Inserting, NotTried, Begun
<1>6. NamesAreOwn'
  BY <1>1, <1>5 DEF StoreInv, NamesAreOwn, Inserting
<1>7. RowsAreNew'
  BY <1>1, <1>5 DEF StoreInv, RowsAreNew, StoredRowsAreNamed, NotTried, Inserting, NoWriter
<1>. QED
  BY <1>3, <1>4, <1>6, <1>7 DEF StoreInv

(* A child reads what was committed.                                       *)
LEMMA SpawnKeeps ==
  ASSUME SessionInv, StoreInv, NEW t \in Procs, Spawn(t)
  PROVE  StoreInv'
<1>1. PICK skipped \in SUBSET {u \in Tables : Junk \in disk[u]} :
        mem' = [mem EXCEPT ![t] = ReadBack(disk, skipped)]
  BY DEF Spawn, Open
<1>2. /\ pc[t] = "down" /\ pc' = [pc EXCEPT ![t] = "noop"]
      /\ UNCHANGED <<disk, used, cmd, reply, hasSession, request>>
      /\ at' = [at EXCEPT ![t] = Spawned[at[t]]]
      /\ at[t] \in {"open_spawn", "migrate_spawn", "exec_spawn"}
  BY DEF Spawn, Open, Goto, Spawned
<1>3. /\ pc'[t] = "noop" /\ \A o \in Procs \ {t} : pc'[o] = pc[o] /\ at'[o] = at[o] /\ mem'[o] = mem[o]
      /\ mem'[t] = ReadBack(disk, skipped)
      /\ at'[t] \in WithChild /\ (at'[t] = "exec" => at[t] = "exec_spawn")
      /\ at[t] # "idle" /\ at[t] # "exec"
  BY <1>1, <1>2 DEF SessionInv, TypeOK, PythonTypes, Spawned, WithChild
<1>4. \A o \in Procs \ {t} : pc[o] = "down"
  BY <1>2, <1>3 DEF SessionInv, OneOpen, LocksAreHeld, ChecksAreFresh, Opening, Unopened, Opened, WithChild
<1>5. NoWriter /\ NoWriter'
  BY <1>2, <1>3, <1>4 DEF NoWriter
<1>6. /\ \A u \in DataTables : mem'[t][u] = disk[u] /\ disk[u] \subseteq Rows
      /\ MigRow \in disk[MigTable] => MigRow \in mem'[t][MigTable]
  BY <1>3, <1>5, ConstantsAssumption DEF StoreInv, SnapshotIsWhole, ReadBack, DataTables
<1>7. reply[t].status = "none"
  BY <1>2 DEF StoreInv, Serves
<1>8. at'[t] = "exec" => MigRow \in disk[MigTable]
  BY <1>3, <1>5 DEF SessionInv, ChecksAreFresh, Opened, StoreInv, SnapshotIsWhole
<1>9. \A o \in Procs : Serves(o)' /\ SeesCommitted(o)'
  BY <1>2, <1>3, <1>4, <1>6, <1>7, <1>8 DEF StoreInv, Serves, SeesCommitted
<1>10. SnapshotIsWhole' /\ StoredRowsAreNamed'
  BY <1>2, <1>3, <1>5, <1>6 DEF StoreInv, SnapshotIsWhole, StoredRowsAreNamed
<1>11. \A o \in Procs : Inserting(o)' = Inserting(o) /\ (NotTried(o)' => NotTried(o))
  BY <1>2, <1>3, <1>7 DEF Inserting, NotTried, Begun, WithChild
<1>12. NamesAreOwn'
  BY <1>2, <1>11 DEF StoreInv, NamesAreOwn
<1>13. RowsAreNew'
  BY <1>2, <1>3, <1>5, <1>6, <1>11 DEF StoreInv, RowsAreNew
<1>. QED
  BY <1>9, <1>10, <1>12, <1>13 DEF StoreInv

(* A child that ends, not while it writes, leaves what was committed.      *)
LEMMA LeavingKeeps ==
  ASSUME SessionInv, StoreInv, NEW t \in Procs, Leave(t), pc[t] # "write",
         UNCHANGED request, hasSession' => hasSession,
         \A o \in Procs \ {t} : at'[o] = at[o],
         at'[t] = "idle" \/ at[t] \in {"open", "migrate"}
  PROVE  StoreInv'
<1>1. /\ UNCHANGED <<disk, used>>
      /\ pc'[t] = "down" /\ reply'[t] = NoReply
      /\ \A u \in DataTables : mem'[t][u] = {}
      /\ \A o \in Procs \ {t} : /\ pc'[o] = pc[o] /\ mem'[o] = mem[o] /\ cmd'[o] = cmd[o]
                                /\ reply'[o] = reply[o]
  BY DEF Leave, SessionInv, TypeOK, EmptyCatalog, DataTables
<1>2. NoWriter' => NoWriter
  BY <1>1 DEF NoWriter
<1>3. ASSUME NEW o \in Procs
      PROVE  Serves(o)' /\ SeesCommitted(o)'
  <2>1. CASE o = t
    BY <1>1, <2>1 DEF Serves, SeesCommitted, NoReply
  <2>2. CASE o # t
    BY <1>1, <2>2 DEF StoreInv, Serves, SeesCommitted, Before
  <2>. QED
    BY <2>1, <2>2
<1>4. SnapshotIsWhole'
  BY <1>1, <1>2 DEF StoreInv, SnapshotIsWhole
<1>5. StoredRowsAreNamed'
  <2>1. ASSUME NEW o \in Procs, NEW u \in DataTables
        PROVE  mem'[o][u] \subseteq used'
    BY <1>1 DEF StoreInv, StoredRowsAreNamed
  <2>. QED
    BY <1>1, <1>2, <2>1 DEF StoreInv, StoredRowsAreNamed
<1>6. \A o \in Procs : (Inserting(o)' => Inserting(o)) /\ (NotTried(o)' => NotTried(o))
  BY <1>1 DEF Inserting, NotTried, Begun
<1>7. NamesAreOwn'
  BY <1>1, <1>6 DEF StoreInv, NamesAreOwn
<1>8. RowsAreNew'
  <2>1. ASSUME NEW o \in Procs, NotTried(o)', NEW p \in Procs, NEW u \in DataTables
        PROVE  request'[o].row \notin mem'[p][u]
    BY <1>1, <1>6, <2>1 DEF StoreInv, RowsAreNew
  <2>. QED
    BY <1>1, <1>2, <1>6, <2>1 DEF StoreInv, RowsAreNew
<1>. QED
  BY <1>3, <1>4, <1>5, <1>7, <1>8 DEF StoreInv

(* What there is to show of a step of a child.                             *)
LEMMA ChildKeeps ==
  ASSUME SessionInv, StoreInv, NEW t \in Procs, UNCHANGED <<python, used>>,
         \A o \in Procs \ {t} : /\ pc[o] = "down" /\ pc'[o] = "down" /\ mem'[o] = mem[o]
                                /\ cmd'[o] = cmd[o] /\ reply'[o] = reply[o],
         Serves(t)', SeesCommitted(t)', SnapshotIsWhole',
         Begun(t) => Begun(t)',
         \A u \in DataTables : \A r \in mem'[t][u] :
           r \in mem[t][u] \/ (Begun(t)' /\ Inserting(t) /\ r = request[t].row),
         NoWriter' => (NoWriter /\ UNCHANGED disk) \/ \A u \in DataTables : disk'[u] \subseteq mem[t][u]
  PROVE  StoreInv'
<1>0. UNCHANGED <<hasSession, at, request>>
  BY DEF python
<1>1. ASSUME NEW o \in Procs \ {t}
      PROVE  Serves(o)' /\ SeesCommitted(o)'
  BY <1>0 DEF StoreInv, Serves, SeesCommitted
<1>2. \A o \in Procs : Inserting(o)' = Inserting(o) /\ (NotTried(o)' => NotTried(o))
  BY <1>0 DEF Inserting, NotTried, Begun
<1>3. NamesAreOwn'
  BY <1>0, <1>2 DEF StoreInv, NamesAreOwn
<1>4. \A u \in DataTables : mem'[t][u] \subseteq used
  BY DEF StoreInv, StoredRowsAreNamed, NamesAreOwn
<1>5. StoredRowsAreNamed'
  BY <1>4 DEF StoreInv, StoredRowsAreNamed
<1>6. ASSUME NEW o \in Procs, NotTried(o)', NEW u \in DataTables
      PROVE  request[o].row \notin mem'[t][u]
  <2>1. NotTried(o) /\ Inserting(o) /\ request[o].row \notin mem[t][u]
    BY <1>2, <1>6 DEF StoreInv, RowsAreNew, NotTried
  <2>2. Begun(t)' /\ Inserting(t) => request[t].row # request[o].row
    BY <1>6, <2>1 DEF StoreInv, NamesAreOwn, NotTried
  <2>. QED
    BY <2>1, <2>2
<1>7. RowsAreNew'
  <2>1. ASSUME NEW o \in Procs, NotTried(o)', NEW p \in Procs, NEW u \in DataTables
        PROVE  request'[o].row \notin mem'[p][u]
    BY <1>0, <1>2, <1>6, <2>1 DEF StoreInv, RowsAreNew
  <2>2. ASSUME NEW o \in Procs, NotTried(o)', NoWriter', NEW u \in DataTables
        PROVE  request'[o].row \notin disk'[u]
    BY <1>0, <1>2, <2>2 DEF StoreInv, RowsAreNew
  <2>. QED
    BY <2>1, <2>2 DEF RowsAreNew
<1>. QED
  BY <1>1, <1>3, <1>5, <1>7 DEF StoreInv

(* The other children of a session are down while one works.               *)
LEMMA ChildIsAlone ==
  ASSUME SessionInv, NEW t \in Procs, ChildStep(t)
  PROVE  /\ at[t] \in WithChild /\ pc[t] # "down" /\ UNCHANGED python
         /\ \A o \in Procs \ {t} : /\ pc[o] = "down" /\ pc'[o] = "down" /\ mem'[o] = mem[o]
                                   /\ cmd'[o] = cmd[o] /\ reply'[o] = reply[o]
<1>1. at[t] \in WithChild /\ UNCHANGED python /\ \A o \in Procs : pc'[o] = "down" <=> pc[o] = "down"
  BY ChildStays DEF SessionInv
<1>2. pc[t] # "down" /\ \A o \in Procs \ {t} : pc[o] = "down"
  BY <1>1 DEF SessionInv, LocksAreHeld, OneOpen
<1>3. \A o \in Procs \ {t} : mem'[o] = mem[o] /\ cmd'[o] = cmd[o] /\ reply'[o] = reply[o]
  BY DEF ChildStep, SessionInv, TypeOK, AppendNoop, MigrateDone, Bootstrap, Insert, InsertRejected, Select,
     SaveTruncate, SaveNotOpened, SaveFlush, SaveClose, SaveLost, SaveReturns, HeapInsert, inProcess
<1>. QED
  BY <1>1, <1>2, <1>3

(* A child executes its request in memory.                                 *)
LEMMA InsertKeeps ==
  ASSUME SessionInv, StoreInv, NEW t \in Procs, ChildStep(t),
         at[t] = "exec", reply[t].status = "none", request[t].op = "insert",
         Insert(t, request[t].table, request[t].row)
  PROVE  StoreInv'
<1>. DEFINE u == request[t].table
            r == request[t].row
<1>0. u \in DataTables /\ u \in Tables /\ u # MigTable /\ r \in Rows
  BY DEF SessionInv, RequestsNameRows, Request, DataTables
<1>1. /\ pc[t] = "idle" /\ pc'[t] = "save"
      /\ cmd'[t] = [op |-> "insert", table |-> u, row |-> r]
      /\ reply'[t] = NoReply
      /\ mem'[t] = [mem[t] EXCEPT ![u] = @ \cup {r}]
      /\ UNCHANGED <<disk, python>> /\ used' = used \cup {r}
      /\ UNCHANGED <<at, request, hasSession>>
  BY ChildIsAlone DEF Insert, SessionInv, TypeOK, python
<1>2. mem'[t][u] = mem[t][u] \cup {r} /\ \A v \in Tables \ {u} : mem'[t][v] = mem[t][v]
  BY <1>0, <1>1 DEF SessionInv, TypeOK, Catalog
<1>3. NotTried(t) /\ Inserting(t)
  BY <1>1 DEF NotTried, Inserting, Begun
<1>4. UNCHANGED used
  BY <1>1, <1>3 DEF StoreInv, NamesAreOwn
<1>5. \A o \in Procs \ {t} : pc[o] = "down" /\ pc'[o] = "down"
  BY ChildIsAlone
<1>6. NoWriter /\ NoWriter'
  BY <1>1, <1>5 DEF NoWriter
<1>7. \A v \in DataTables : mem[t][v] = disk[v] /\ r \notin disk[v]
  BY <1>1, <1>3, <1>6 DEF StoreInv, SeesCommitted, RowsAreNew
<1>8. Serves(t)'
  BY <1>1 DEF Serves, NoReply
<1>9. \A v \in DataTables : mem'[t][v] \subseteq Rows
  BY <1>0, <1>1, <1>2 DEF StoreInv, SeesCommitted, DataTables
<1>10. MigRow \in mem'[t][MigTable]
  BY <1>0, <1>1, <1>2, ConstantsAssumption DEF StoreInv, SeesCommitted
<1>11. \A v \in DataTables : Before(t, v)' = disk[v]
  BY <1>0, <1>1, <1>2, <1>6, <1>7 DEF Before, DataTables, StoreInv, SnapshotIsWhole
<1>12. SeesCommitted(t)'
  BY <1>1, <1>9, <1>10, <1>11 DEF SeesCommitted
<1>13. SnapshotIsWhole'
  BY <1>1, <1>6 DEF StoreInv, SnapshotIsWhole
<1>14. Begun(t)'
  BY <1>1 DEF Begun
<1>15. \A v \in DataTables : \A x \in mem'[t][v] : x \in mem[t][v] \/ x = r
  BY <1>0, <1>2 DEF DataTables
<1>. QED
  BY <1>1, <1>3, <1>4, <1>6, <1>8, <1>12, <1>13, <1>14, <1>15, ChildIsAlone, ChildKeeps

(* The bootstrap finds an empty snapshot.                                  *)
LEMMA BootstrapKeeps ==
  ASSUME SessionInv, StoreInv, NEW t \in Procs, ChildStep(t),
         at[t] = "migrate", reply[t].status = "none", Bootstrap(t)
  PROVE  StoreInv'
<1>1. /\ pc[t] = "idle" /\ pc'[t] = "save"
      /\ cmd'[t].op = "migrate" /\ reply'[t] = NoReply
      /\ mem'[t] = [EmptyCatalog EXCEPT ![MigTable] = {MigRow}]
      /\ ~ Migrated(mem[t])
      /\ UNCHANGED <<disk, used, python>>
      /\ UNCHANGED <<at, request, hasSession>>
  BY ChildIsAlone DEF Bootstrap, SessionInv, TypeOK, python
<1>2. MigRow \in mem'[t][MigTable] /\ \A u \in DataTables : mem'[t][u] = {}
  BY <1>1, ConstantsAssumption DEF EmptyCatalog, DataTables
<1>3. \A o \in Procs \ {t} : pc[o] = "down" /\ pc'[o] = "down"
  BY ChildIsAlone
<1>4. NoWriter /\ NoWriter'
  BY <1>1, <1>3 DEF NoWriter
<1>5. MigRow \notin disk[MigTable]
  BY <1>1 DEF Migrated, StoreInv, SeesCommitted
<1>6. \A u \in DataTables : disk[u] = {}
  BY <1>4, <1>5 DEF StoreInv, SnapshotIsWhole, EmptyCatalog, DataTables
<1>7. Serves(t)'
  BY <1>1 DEF Serves, NoReply
<1>8. SeesCommitted(t)'
  BY <1>1, <1>2, <1>6 DEF SeesCommitted, Before
<1>9. SnapshotIsWhole'
  BY <1>1, <1>4 DEF StoreInv, SnapshotIsWhole
<1>10. ~ Begun(t)
  BY <1>1 DEF Begun
<1>. QED
  BY <1>1, <1>2, <1>4, <1>7, <1>8, <1>9, <1>10, ChildIsAlone, ChildKeeps

(* A save goes from a whole snapshot to the next one.                      *)
LEMMA SaveKeeps ==
  ASSUME SessionInv, StoreInv, NEW t \in Procs, ChildStep(t),
         SaveTruncate(t) \/ SaveNotOpened(t) \/ SaveFlush(t) \/ SaveClose(t)
  PROVE  StoreInv'
<1>0. UNCHANGED <<at, request, hasSession, python>>
  BY ChildIsAlone DEF python
<1>1. UNCHANGED <<mem, used>> /\ \A o \in Procs \ {t} : pc[o] = "down" /\ pc'[o] = "down"
  BY ChildIsAlone DEF SaveTruncate, SaveNotOpened, SaveFlush, SaveClose, inProcess
<1>2. Serves(t) /\ SeesCommitted(t) /\ pc[t] \in {"save", "write"}
  BY DEF StoreInv, SaveTruncate, SaveNotOpened, SaveFlush, SaveClose
<1>3. Begun(t) => at[t] = "exec"
  BY DEF Begun
<1>4. CASE SaveTruncate(t) \/ SaveFlush(t)
  <2>1. pc'[t] = "write" /\ UNCHANGED <<cmd, reply>>
    BY <1>4 DEF SaveTruncate, SaveFlush, inProcess, SessionInv, TypeOK
  <2>2. ~ NoWriter'
    BY <2>1 DEF NoWriter
  <2>3. Serves(t)' /\ SeesCommitted(t)' /\ SnapshotIsWhole'
    BY <1>0, <1>1, <1>2, <2>1, <2>2 DEF Serves, SeesCommitted, SnapshotIsWhole
  <2>4. Begun(t) => Begun(t)'
    BY <1>0, <2>1 DEF Begun
  <2>. QED
    BY <1>0, <1>1, <2>2, <2>3, <2>4, ChildIsAlone, ChildKeeps
<1>5. CASE SaveNotOpened(t)
  <2>1. /\ pc[t] = "save" /\ pc'[t] = "idle" /\ reply'[t] = Done("failed") /\ UNCHANGED disk
    BY <1>5 DEF SaveNotOpened, SessionInv, TypeOK
  <2>2. NoWriter /\ NoWriter'
    BY <1>1, <2>1 DEF NoWriter
  <2>3. Serves(t)' /\ SeesCommitted(t)' /\ SnapshotIsWhole'
    BY <1>0, <1>1, <1>2, <2>1, <2>2 DEF Serves, SeesCommitted, StoreInv, SnapshotIsWhole, Done
  <2>4. Begun(t) => Begun(t)'
    BY <1>0, <1>3, <2>1 DEF Begun, Done
  <2>. QED
    BY <1>0, <1>1, <2>1, <2>2, <2>3, <2>4, ChildIsAlone, ChildKeeps
<1>6. CASE SaveClose(t)
  <2>1. pc[t] = "write" /\ disk' = mem[t]
    BY <1>6 DEF SaveClose, SessionInv, AllSole
  <2>2. \/ cmd[t].op = "insert" /\ pc'[t] = "log" /\ UNCHANGED <<cmd, reply>>
        \/ cmd[t].op # "insert" /\ pc'[t] = "idle" /\ reply'[t] = Done("ok")
    BY <1>6 DEF SaveClose, SaveReturns, SessionInv, TypeOK
  <2>3. NoWriter'
    BY <1>1, <2>2 DEF NoWriter
  <2>4. /\ MigRow \in mem[t][MigTable] /\ \A u \in DataTables : mem[t][u] \subseteq Rows
        /\ at[t] \in {"migrate", "exec"} /\ (cmd[t].op = "insert" <=> at[t] = "exec")
    BY <1>2, <2>1 DEF Serves, SeesCommitted
  <2>5. Serves(t)'
    BY <1>0, <1>2, <2>1, <2>2, <2>4 DEF Serves, Done
  <2>6. SeesCommitted(t)' /\ SnapshotIsWhole'
    BY <1>0, <1>1, <2>1, <2>2, <2>4 DEF SeesCommitted, SnapshotIsWhole, Done
  <2>7. Begun(t) => Begun(t)'
    BY <1>0, <1>3, <2>2 DEF Begun, Done
  <2>. QED
    BY <1>0, <1>1, <2>1, <2>5, <2>6, <2>7, ChildIsAlone, ChildKeeps
<1>. QED
  BY <1>4, <1>5, <1>6

(* The other steps of a child only reply.                                  *)
LEMMA ReplyKeeps ==
  ASSUME SessionInv, StoreInv, NEW t \in Procs, ChildStep(t),
         \/ AppendNoop(t) \/ HeapInsert(t)
         \/ at[t] = "migrate" /\ reply[t].status = "none" /\ MigrateDone(t)
         \/ at[t] = "exec" /\ reply[t].status = "none" /\ (InsertRejected(t) \/ \E u \in DataTables : Select(t, u))
  PROVE  StoreInv'
<1>0. UNCHANGED <<at, request, hasSession, python>>
  BY ChildIsAlone DEF python
<1>1. UNCHANGED <<mem, used, disk>> /\ \A o \in Procs \ {t} : pc[o] = "down" /\ pc'[o] = "down"
  BY ChildIsAlone DEF AppendNoop, HeapInsert, MigrateDone, InsertRejected, Select
<1>2. Serves(t) /\ SeesCommitted(t)
  BY DEF StoreInv
<1>3. /\ pc[t] \in {"noop", "log", "idle"} /\ pc'[t] = "idle"
      /\ \/ pc[t] = "noop" /\ UNCHANGED reply
         \/ pc[t] # "noop" /\ at[t] \in {"migrate", "exec"} /\ reply'[t] = Done("failed")
         \/ pc[t] # "noop" /\ at[t] \in {"migrate", "exec"} /\ reply'[t].status = "ok"
  <2>1. CASE AppendNoop(t)
    BY <2>1 DEF AppendNoop, SessionInv, TypeOK
  <2>2. CASE HeapInsert(t)
    BY <1>2, <2>2 DEF HeapInsert, SessionInv, TypeOK, Done, Serves
  <2>3. CASE at[t] = "migrate" /\ MigrateDone(t)
    BY <2>3 DEF MigrateDone, SessionInv, TypeOK, Done
  <2>4. CASE at[t] = "exec" /\ InsertRejected(t)
    BY <2>4 DEF InsertRejected, SessionInv, TypeOK
  <2>5. CASE at[t] = "exec" /\ \E u \in DataTables : Select(t, u)
    BY <2>5 DEF Select, SessionInv, TypeOK
  <2>. QED
    BY <2>1, <2>2, <2>3, <2>4, <2>5
<1>4. NoWriter /\ NoWriter'
  BY <1>1, <1>3 DEF NoWriter
<1>5. Serves(t)'
  BY <1>0, <1>2, <1>3 DEF Serves, Done
<1>6. SeesCommitted(t)'
  BY <1>0, <1>1, <1>2, <1>3 DEF SeesCommitted, Done
<1>7. SnapshotIsWhole'
  BY <1>0, <1>1, <1>4 DEF StoreInv, SnapshotIsWhole
<1>8. Begun(t) => Begun(t)'
  BY <1>0, <1>2, <1>3 DEF Begun, Serves, Done
<1>. QED
  BY <1>0, <1>1, <1>4, <1>5, <1>6, <1>7, <1>8, ChildIsAlone, ChildKeeps

LEMMA ChildStepKeeps ==
  ASSUME SavesComplete, SessionInv, StoreInv, NEW t \in Procs, ChildStep(t)
  PROVE  StoreInv'
<1>1. ~ SaveLost(t)
  BY DEF SavesComplete, SaveLost
<1>2. request[t].table \in DataTables
  BY DEF SessionInv, RequestsNameRows, Request
<1>. QED
  BY <1>1, <1>2, InsertKeeps, BootstrapKeeps, SaveKeeps, ReplyKeeps DEF ChildStep

(* Only a save that was begun tears the snapshot.                          *)
LEMMA NothingIsTorn ==
  ASSUME SavesComplete
  PROVE  SessionSpec => [](~ torn)
<1>1. Init => ~ torn
  BY DEF Init
<1>0. "tear" \notin Faults /\ "write_fail" \notin Faults
  BY DEF SavesComplete
<1>2. ASSUME ~ torn, NEW p \in Procs, Work(p)
      PROVE  ~ torn'
  <2>1. CASE Crash(p)
    <3>1. pc[p] # "write"
      BY <1>0, <2>1 DEF Crash
    <3>2. torn' = (torn \/ pc[p] = "write")
      BY <2>1 DEF Crash
    <3>. QED
      BY <1>2, <3>1, <3>2
  <2>2. ~ SaveLost(p)
    BY <1>0 DEF SaveLost
  <2>3. CASE Close(p)
    BY <1>2, <2>3 DEF Close
  <2>4. CASE Open(p) \/ AppendNoop(p) \/ MigrateDone(p) \/ Bootstrap(p) \/ InsertRejected(p)
               \/ (\E t \in Tables : Select(p, t)) \/ (\E t \in Tables, r \in Rows : Insert(p, t, r))
    BY <1>2, <2>4 DEF Open, AppendNoop, MigrateDone, Bootstrap, Insert, InsertRejected, Select
  <2>5. CASE SaveTruncate(p) \/ SaveNotOpened(p) \/ SaveFlush(p) \/ SaveClose(p) \/ HeapInsert(p)
    BY <1>2, <2>5 DEF SaveTruncate, SaveNotOpened, SaveFlush, SaveClose, HeapInsert
  <2>. QED
    BY <1>2, <2>1, <2>2, <2>3, <2>4, <2>5 DEF Work, Step
<1>3. ~ torn /\ [DirectoryNext]_vars => ~ torn'
  BY <1>2 DEF DirectoryNext, Reserve, vars
<1>. QED
  BY <1>1, <1>3, SessionIsDirectory, PTL DEF Directory

LEMMA StoreStep ==
  ASSUME SavesComplete, SessionInv, StoreInv, ~ torn, [SessionNext]_allVars
  PROVE  StoreInv'
<1>1. ASSUME NEW t \in Procs, Call(t)
      PROVE  StoreInv'
  BY <1>1, CallKeeps
<1>2. ASSUME NEW t \in Procs, Spawn(t)
      PROVE  StoreInv'
  BY <1>2, SpawnKeeps
<1>3. ASSUME NEW t \in Procs, ChildStep(t)
      PROVE  StoreInv'
  BY <1>3, ChildStepKeeps
<1>4. ASSUME NEW t \in Procs, OpenExits(t) \/ MigrateExits(t) \/ ExecExits(t)
      PROVE  StoreInv'
  <2>1. /\ Leave(t) /\ pc[t] # "write" /\ UNCHANGED request /\ (hasSession' => hasSession)
        /\ \A o \in Procs \ {t} : at'[o] = at[o]
        /\ at'[t] = "idle" \/ at[t] \in {"open", "migrate"}
    BY <1>4 DEF OpenExits, MigrateExits, ExecExits, OpenFailed, Unavailable, Close, Goto,
       SessionInv, PythonTypes
  <2>. QED
    BY <2>1, LeavingKeeps
<1>5. ASSUME NEW t \in Procs, ChildFails(t) \/ RunRaises(t)
      PROVE  StoreInv'
  <2>0. /\ UNCHANGED request /\ (hasSession' => hasSession)
        /\ \A o \in Procs \ {t} : at'[o] = at[o]
        /\ at'[t] = "idle"
    BY <1>5 DEF ChildFails, RunRaises, OpenFailed, Unavailable, Goto, SessionInv, PythonTypes
  <2>1. CASE Crash(t)
    <3>1. Leave(t) /\ pc[t] # "write"
      BY <2>1 DEF Crash, SavesComplete
    <3>. QED
      BY <2>0, <3>1, LeavingKeeps
  <2>2. CASE UNCHANGED vars /\ at[t] \in DOMAIN Spawned
    <3>1. \A o \in Procs : pc[o] # "down" => at'[o] = at[o]
      BY <2>0, <2>2 DEF SessionInv, LocksAreHeld, WithChild, Spawned
    <3>2. \A o \in Procs : at[o] = "idle" => at'[o] = "idle"
      BY <2>0
    <3>. QED
      BY <2>0, <2>2, <3>1, <3>2, PythonStepKeeps
  <2>. QED
    BY <1>5, <2>1, <2>2 DEF ChildFails, RunRaises, NoChild
<1>6. ASSUME NEW t \in Procs,
             CheckReady(t) \/ CheckSession(t) \/ AcquireSession(t) \/ RecheckSession(t) \/ RecheckReady(t)
               \/ CheckCatalog(t) \/ SetReady(t) \/ AcquireExec(t)
      PROVE  StoreInv'
  <2>1. /\ UNCHANGED <<vars, request>> /\ at[t] \notin WithChild \cup {"idle"}
        /\ \A o \in Procs \ {t} : at'[o] = at[o]
        /\ hasSession' => hasSession \/ disk # EmptyCatalog
    BY <1>6 DEF CheckReady, CheckSession, AcquireSession, RecheckSession, RecheckReady, CheckCatalog,
       SetReady, AcquireExec, OpenFailed, Unavailable, Goto, WithChild, SessionInv, PythonTypes
  <2>2. \A o \in Procs : pc[o] # "down" => at'[o] = at[o]
    BY <2>1 DEF SessionInv, LocksAreHeld
  <2>3. \A o \in Procs : at[o] = "idle" => at'[o] = "idle"
    BY <2>1
  <2>. QED
    BY <2>1, <2>2, <2>3, PythonStepKeeps
<1>7. CASE Reset \/ UNCHANGED allVars
  BY <1>7, PythonStepKeeps DEF Reset, allVars, python
<1>. QED
  BY <1>1, <1>2, <1>3, <1>4, <1>5, <1>6, <1>7 DEF SessionNext, ThreadStep

LEMMA StoreInvariant ==
  ASSUME SavesComplete
  PROVE  SessionSpec => [](SessionInv /\ StoreInv)
BY SessionInvariant, NothingIsTorn, StoreInit, StoreStep, PTL DEF SessionSpec

(* As long as saves complete: no statement runs on a catalogue that is not *)
(* migrated (ensure_session returns a session only after a migration that  *)
(* a child committed, and nothing that may fail takes it back).            *)
THEOREM MigrationIsSeen ==
  ASSUME SavesComplete
  PROVE  SessionSpec => []StatementsSeeMigration
<1>1. StoreInv => StatementsSeeMigration
  BY DEF StoreInv, SeesCommitted, StatementsSeeMigration, Migrated
<1>. QED
  BY <1>1, StoreInvariant, PTL

-----------------------------------------------------------------------------
(* The refinement mapping, thread by thread.                               *)

StatusOf(t) == IF at[t] = "idle" THEN "idle" ELSE IF Applied(t) THEN "applied" ELSE "called"
AnswerOf(t) == IF ~ Applied(t) THEN outcome[t] ELSE IF pc[t] = "log" THEN Done("ok") ELSE reply[t]

RowsKept == \A u \in DataTables : CommittedRows(u)' = CommittedRows(u)

\* All threads but t are where they were.
OthersKept(t) == \A o \in Procs \ {t} : /\ StatusOf(o)' = StatusOf(o)
                                        /\ AnswerOf(o)' = AnswerOf(o)

\* The rows of the directory, without the CHOOSE of their definition.
RowsAreMapped ==
  \A u \in DataTables :
    /\ NoWriter => CommittedRows(u) = disk[u] \cap Rows
    /\ \A w \in Procs : pc[w] = "write" => CommittedRows(u) = Before(w, u)

LEMMA CommittedRowsAre == OneOpen => RowsAreMapped
<1>. SUFFICES ASSUME OneOpen, NEW u \in DataTables
     PROVE  /\ NoWriter => CommittedRows(u) = disk[u] \cap Rows
            /\ \A w \in Procs : pc[w] = "write" => CommittedRows(u) = Before(w, u)
  BY DEF RowsAreMapped
<1>1. NoWriter => CommittedRows(u) = disk[u] \cap Rows
  BY DEF NoWriter, CommittedRows
<1>2. ASSUME NEW w \in Procs, pc[w] = "write"
      PROVE  CommittedRows(u) = Before(w, u)
  <2>1. (CHOOSE t \in Procs : pc[t] = "write") = w
    BY <1>2 DEF OneOpen
  <2>. QED
    BY <1>2, <2>1 DEF CommittedRows, Before
<1>. QED
  BY <1>1, <1>2

LEMMA NextCommittedRowsAre == OneOpen' => RowsAreMapped'
BY CommittedRowsAre, PTL

(* The steps of the store, as changes of the mapped state.                 *)
LEMMA Stutters ==
  ASSUME NEW t \in Procs, RowsKept, OthersKept(t), UNCHANGED request,
         StatusOf(t)' = StatusOf(t), AnswerOf(t)' = AnswerOf(t)
  PROVE  UNCHANGED Store!vars
<1>1. \A o \in Procs : StatusOf(o)' = StatusOf(o) /\ AnswerOf(o)' = AnswerOf(o)
  BY DEF OthersKept
<1>. QED
  BY <1>1 DEF Store!vars, RowsKept, StatusOf, AnswerOf

LEMMA Refuses ==
  ASSUME NEW t \in Procs, RowsKept, OthersKept(t), UNCHANGED request,
         StatusOf(t) = "called", StatusOf(t)' = "idle", AnswerOf(t)' = Done("failed")
  PROVE  Store!Refuse(t)
<1>1. [o \in Procs |-> StatusOf(o)'] = [[o \in Procs |-> StatusOf(o)] EXCEPT ![t] = "idle"]
  BY DEF OthersKept
<1>2. [o \in Procs |-> AnswerOf(o)'] = [[o \in Procs |-> AnswerOf(o)] EXCEPT ![t] = Done("failed")]
  BY DEF OthersKept
<1>. QED
  BY <1>1, <1>2 DEF Store!Refuse, Store!Failed, RowsKept, StatusOf, AnswerOf, Done

LEMMA Calls ==
  ASSUME NEW t \in Procs, NEW req \in Request, RowsKept, OthersKept(t),
         request' = [request EXCEPT ![t] = req],
         StatusOf(t) = "idle", StatusOf(t)' = "called", AnswerOf(t)' = NoReply
  PROVE  Store!Call(t, req)
<1>1. [o \in Procs |-> StatusOf(o)'] = [[o \in Procs |-> StatusOf(o)] EXCEPT ![t] = "called"]
  BY DEF OthersKept
<1>2. [o \in Procs |-> AnswerOf(o)'] = [[o \in Procs |-> AnswerOf(o)] EXCEPT ![t] = NoReply]
  BY DEF OthersKept
<1>. QED
  BY <1>1, <1>2 DEF Store!Call, Store!Nothing, RowsKept, StatusOf, AnswerOf, NoReply

LEMMA Returns ==
  ASSUME NEW t \in Procs, RowsKept, OthersKept(t), UNCHANGED request,
         StatusOf(t) = "applied", StatusOf(t)' = "idle", AnswerOf(t)' = AnswerOf(t)
  PROVE  Store!Return(t)
<1>1. [o \in Procs |-> StatusOf(o)'] = [[o \in Procs |-> StatusOf(o)] EXCEPT ![t] = "idle"]
  BY DEF OthersKept
<1>2. \A o \in Procs : AnswerOf(o)' = AnswerOf(o)
  BY DEF OthersKept
<1>. QED
  BY <1>1, <1>2 DEF Store!Return, RowsKept, StatusOf, AnswerOf

LEMMA Loses ==
  ASSUME NEW t \in Procs, RowsKept, OthersKept(t), UNCHANGED request,
         StatusOf(t) \in {"called", "applied"}, StatusOf(t)' = "idle", AnswerOf(t)' = Done("lost")
  PROVE  Store!Lose(t)
<1>1. [o \in Procs |-> StatusOf(o)'] = [[o \in Procs |-> StatusOf(o)] EXCEPT ![t] = "idle"]
  BY DEF OthersKept
<1>2. [o \in Procs |-> AnswerOf(o)'] = [[o \in Procs |-> AnswerOf(o)] EXCEPT ![t] = Done("lost")]
  BY DEF OthersKept
<1>. QED
  BY <1>1, <1>2 DEF Store!Lose, Store!Lost, RowsKept, StatusOf, AnswerOf, Done

LEMMA Selects ==
  ASSUME NEW t \in Procs, RowsKept, OthersKept(t), UNCHANGED request,
         request[t].op = "select", request[t].table \in DataTables,
         StatusOf(t) = "called", StatusOf(t)' = "applied",
         AnswerOf(t)' = [status |-> "ok", rows |-> CommittedRows(request[t].table)]
  PROVE  Store!ApplySelect(t)
<1>. DEFINE ans == [status |-> "ok", rows |-> CommittedRows(request[t].table)]
<1>1. [o \in Procs |-> StatusOf(o)'] = [[o \in Procs |-> StatusOf(o)] EXCEPT ![t] = "applied"]
  BY DEF OthersKept
<1>2. [o \in Procs |-> AnswerOf(o)'] = [[o \in Procs |-> AnswerOf(o)] EXCEPT ![t] = ans]
  BY DEF OthersKept
<1>3. [u \in DataTables |-> CommittedRows(u)][request[t].table] = CommittedRows(request[t].table)
  OBVIOUS
<1>. QED
  BY <1>1, <1>2, <1>3 DEF Store!ApplySelect, RowsKept, StatusOf, AnswerOf

LEMMA Inserts ==
  ASSUME NEW t \in Procs, OthersKept(t), UNCHANGED request,
         request[t].op = "insert", request[t].table \in DataTables,
         \A u \in DataTables \ {request[t].table} : CommittedRows(u)' = CommittedRows(u),
         CommittedRows(request[t].table)' = CommittedRows(request[t].table) \cup {request[t].row},
         StatusOf(t) = "called", StatusOf(t)' = "applied", AnswerOf(t)' = Done("ok")
  PROVE  Store!ApplyInsert(t)
<1>1. [o \in Procs |-> StatusOf(o)'] = [[o \in Procs |-> StatusOf(o)] EXCEPT ![t] = "applied"]
  BY DEF OthersKept
<1>2. [o \in Procs |-> AnswerOf(o)'] = [[o \in Procs |-> AnswerOf(o)] EXCEPT ![t] = Done("ok")]
  BY DEF OthersKept
<1>3. [u \in DataTables |-> CommittedRows(u)'] =
        [[u \in DataTables |-> CommittedRows(u)] EXCEPT ![request[t].table] = @ \cup {request[t].row}]
  OBVIOUS
<1>. QED
  BY <1>1, <1>2, <1>3 DEF Store!ApplyInsert, StatusOf, AnswerOf, Done

-----------------------------------------------------------------------------
(* What the steps of the session do to the mapped state.                   *)

LEMMA UnchangedRowsKept ==
  ASSUME OneOpen, OneOpen', UNCHANGED <<disk, pc, mem, cmd>>
  PROVE  RowsKept
<1>1. RowsAreMapped /\ RowsAreMapped'
  BY CommittedRowsAre, NextCommittedRowsAre
<1>2. CASE NoWriter
  <2>1. NoWriter'
    BY <1>2 DEF NoWriter
  <2>. QED
    BY <1>1, <1>2, <2>1 DEF RowsAreMapped, RowsKept
<1>3. CASE ~ NoWriter
  <2>1. PICK w \in Procs : pc[w] = "write"
    BY <1>3 DEF NoWriter
  <2>2. \A u \in DataTables : Before(w, u)' = Before(w, u)
    BY DEF Before
  <2>. QED
    BY <1>1, <2>1, <2>2 DEF RowsAreMapped, RowsKept
<1>. QED
  BY <1>2, <1>3

LEMMA UnwrittenRowsKept ==
  ASSUME OneOpen, OneOpen', NoWriter, NoWriter', UNCHANGED disk
  PROVE  RowsKept
BY CommittedRowsAre, NextCommittedRowsAre DEF RowsAreMapped, RowsKept

LEMMA OtherThreadsKept ==
  ASSUME NEW t \in Procs,
         \A o \in Procs \ {t} : /\ at'[o] = at[o] /\ pc'[o] = pc[o] /\ reply'[o] = reply[o]
                                /\ outcome'[o] = outcome[o]
  PROVE  OthersKept(t)
BY DEF OthersKept, StatusOf, AnswerOf, Applied

\* A step of the session is one of the store, or none.
Simulates == Store!Next \/ UNCHANGED Store!vars

(* A thread without a child has not been answered yet.                     *)
LEMMA NotApplied ==
  ASSUME StoreInv, NEW t \in Procs, pc[t] = "down" \/ at[t] # "exec"
  PROVE  ~ Applied(t)
BY DEF StoreInv, Serves, Applied

LEMMA NextNotApplied ==
  ASSUME StoreInv', NEW t \in Procs, pc'[t] = "down" \/ at'[t] # "exec"
  PROVE  ~ Applied(t)'
BY DEF StoreInv, Serves, Applied

(* Outside the children, a thread only raises or goes on.                  *)
LEMMA RaiseSimulates ==
  ASSUME SessionInv, StoreInv, SessionInv', StoreInv', NEW t \in Procs, RowsKept, OthersKept(t),
         UNCHANGED request, at[t] # "idle", ~ Applied(t),
         \/ at'[t] # "idle" /\ ~ Applied(t)' /\ outcome'[t] = outcome[t]
         \/ at'[t] = "idle" /\ outcome'[t] \in {Done("failed"), Done("lost")}
  PROVE  Simulates
<1>1. StatusOf(t) = "called" /\ AnswerOf(t) = outcome[t]
  BY DEF StatusOf, AnswerOf
<1>2. CASE at'[t] # "idle" /\ ~ Applied(t)' /\ outcome'[t] = outcome[t]
  <2>1. StatusOf(t)' = "called" /\ AnswerOf(t)' = outcome[t]
    BY <1>2 DEF StatusOf, AnswerOf
  <2>. QED
    BY <1>1, <2>1, Stutters DEF Simulates
<1>3. CASE at'[t] = "idle" /\ outcome'[t] \in {Done("failed"), Done("lost")}
  <2>1. ~ Applied(t)'
    BY <1>3, NextNotApplied
  <2>2. StatusOf(t)' = "idle" /\ AnswerOf(t)' = outcome'[t]
    BY <1>3, <2>1 DEF StatusOf, AnswerOf
  <2>3. Store!Refuse(t) \/ Store!Lose(t)
    BY <1>1, <1>3, <2>2, Refuses, Loses
  <2>. QED
    BY <2>3 DEF Simulates, Store!Next
<1>. QED
  BY <1>2, <1>3

LEMMA PythonSimulates ==
  ASSUME SessionInv, StoreInv, SessionInv', StoreInv', NEW t \in Procs,
         CheckReady(t) \/ CheckSession(t) \/ AcquireSession(t) \/ RecheckSession(t) \/ RecheckReady(t)
           \/ CheckCatalog(t) \/ SetReady(t) \/ AcquireExec(t)
  PROVE  Simulates
<1>1. /\ UNCHANGED <<vars, request>>
      /\ at[t] \notin {"idle", "exec"} /\ at'[t] # "exec"
      /\ \A o \in Procs \ {t} : at'[o] = at[o] /\ outcome'[o] = outcome[o]
      /\ \/ at'[t] # "idle" /\ outcome'[t] = outcome[t]
         \/ at'[t] = "idle" /\ outcome'[t] = Done("failed")
  BY DEF CheckReady, CheckSession, AcquireSession, RecheckSession, RecheckReady, CheckCatalog,
     SetReady, AcquireExec, OpenFailed, Unavailable, Goto, SessionInv, PythonTypes
<1>2. UNCHANGED <<disk, pc, mem, cmd, reply>>
  BY <1>1 DEF vars, inProcess
<1>3. RowsKept
  BY <1>2, UnchangedRowsKept DEF SessionInv
<1>4. OthersKept(t)
  BY <1>1, <1>2, OtherThreadsKept
<1>5. ~ Applied(t) /\ ~ Applied(t)'
  BY <1>1, NotApplied, NextNotApplied
<1>. QED
  BY <1>1, <1>3, <1>4, <1>5, RaiseSimulates

LEMMA CallSimulates ==
  ASSUME SessionInv, StoreInv, SessionInv', StoreInv', NEW t \in Procs, Call(t)
  PROVE  Simulates
<1>1. PICK req \in Request : request' = [request EXCEPT ![t] = req]
  BY CallRequests
<1>2. /\ UNCHANGED <<disk, pc, mem, cmd, reply>>
      /\ at[t] = "idle" /\ at'[t] = "ready1" /\ outcome'[t] = NoReply
      /\ \A o \in Procs \ {t} : at'[o] = at[o] /\ outcome'[o] = outcome[o]
  BY DEF Call, inProcess, Goto, SessionInv, PythonTypes
<1>3. RowsKept
  BY <1>2, UnchangedRowsKept DEF SessionInv
<1>4. OthersKept(t)
  BY <1>2, OtherThreadsKept
<1>5. ~ Applied(t)'
  BY <1>2, NextNotApplied
<1>6. StatusOf(t) = "idle" /\ StatusOf(t)' = "called" /\ AnswerOf(t)' = NoReply
  BY <1>2, <1>5 DEF StatusOf, AnswerOf
<1>7. Store!Call(t, req)
  BY <1>1, <1>3, <1>4, <1>6, Calls
<1>8. req \in Store!Request
  BY <1>1 DEF Request, Store!Request
<1>. QED
  BY <1>7, <1>8 DEF Simulates, Store!Next

(* Starting and ending a child, and its death outside a save.              *)
LEMMA SpawnSimulates ==
  ASSUME SessionInv, StoreInv, SessionInv', StoreInv', NEW t \in Procs, Spawn(t)
  PROVE  Simulates
<1>1. /\ UNCHANGED <<disk, cmd, reply, request, outcome>>
      /\ pc[t] = "down" /\ pc'[t] = "noop"
      /\ at[t] # "idle" /\ at'[t] \in WithChild
      /\ \A o \in Procs \ {t} : at'[o] = at[o] /\ pc'[o] = pc[o]
  BY DEF Spawn, Open, Goto, Spawned, WithChild, SessionInv, TypeOK, PythonTypes
<1>2. \A o \in Procs \ {t} : pc'[o] = "down"
  BY <1>1 DEF SessionInv, OneOpen
<1>3. NoWriter /\ NoWriter'
  BY <1>1, <1>2 DEF NoWriter
<1>4. RowsKept
  BY <1>1, <1>3, UnwrittenRowsKept DEF SessionInv
<1>5. OthersKept(t)
  BY <1>1, OtherThreadsKept
<1>6. ~ Applied(t)
  BY <1>1, NotApplied
<1>7. ~ Applied(t)'
  BY <1>1, <1>6 DEF Applied, StoreInv, Serves
<1>. QED
  BY <1>1, <1>4, <1>5, <1>6, <1>7, RaiseSimulates DEF WithChild

(* A child that ends outside a save leaves the rows as they are.           *)
LEMMA LeavingSimulates ==
  ASSUME SessionInv, SessionInv', NEW t \in Procs, pc[t] \notin {"down", "write"}, Leave(t)
  PROVE  /\ RowsKept /\ pc'[t] = "down"
         /\ \A o \in Procs \ {t} : pc'[o] = pc[o] /\ reply'[o] = reply[o]
<1>1. /\ UNCHANGED disk /\ pc'[t] = "down"
      /\ \A o \in Procs \ {t} : pc'[o] = pc[o] /\ reply'[o] = reply[o]
  BY DEF Leave, SessionInv, TypeOK
<1>2. \A o \in Procs \ {t} : pc[o] = "down"
  BY DEF SessionInv, OneOpen
<1>3. NoWriter /\ NoWriter'
  BY <1>1, <1>2 DEF NoWriter
<1>. QED
  BY <1>1, <1>3, UnwrittenRowsKept DEF SessionInv

LEMMA ExitSimulates ==
  ASSUME SessionInv, StoreInv, SessionInv', StoreInv', NEW t \in Procs,
         OpenExits(t) \/ MigrateExits(t) \/ ExecExits(t)
  PROVE  Simulates
<1>1. Leave(t) /\ pc[t] = "idle" /\ UNCHANGED request
  BY DEF OpenExits, MigrateExits, ExecExits, Close
<1>2. \A o \in Procs \ {t} : at'[o] = at[o] /\ outcome'[o] = outcome[o]
  BY DEF OpenExits, MigrateExits, ExecExits, OpenFailed, Unavailable, Goto, SessionInv, PythonTypes
<1>3. /\ RowsKept /\ pc'[t] = "down"
      /\ \A o \in Procs \ {t} : pc'[o] = pc[o] /\ reply'[o] = reply[o]
  BY <1>1, LeavingSimulates
<1>4. OthersKept(t)
  BY <1>2, <1>3, OtherThreadsKept
<1>5. ~ Applied(t)'
  BY <1>3, NextNotApplied
<1>6. CASE OpenExits(t) \/ MigrateExits(t)
  <2>1. /\ at[t] \in {"open", "migrate"}
        /\ \/ at'[t] # "idle" /\ outcome'[t] = outcome[t]
           \/ at'[t] = "idle" /\ outcome'[t] = Done("failed")
    BY <1>6 DEF OpenExits, MigrateExits, OpenFailed, Unavailable, Goto, SessionInv, PythonTypes
  <2>2. ~ Applied(t)
    BY <2>1, NotApplied
  <2>. QED
    BY <1>1, <1>3, <1>4, <1>5, <2>1, <2>2, RaiseSimulates
<1>7. CASE ExecExits(t)
  <2>1. /\ at[t] = "exec" /\ at'[t] = "idle" /\ outcome'[t] = reply[t]
        /\ reply[t].status # "none"
    BY <1>7 DEF ExecExits, Goto, SessionInv, PythonTypes
  <2>2. StatusOf(t)' = "idle" /\ AnswerOf(t)' = reply[t]
    BY <1>5, <2>1 DEF StatusOf, AnswerOf
  <2>3. CASE reply[t].status = "ok"
    <3>1. StatusOf(t) = "applied" /\ AnswerOf(t) = reply[t]
      BY <1>1, <2>1, <2>3 DEF StatusOf, AnswerOf, Applied
    <3>2. Store!Return(t)
      BY <1>1, <1>3, <1>4, <2>2, <3>1, Returns
    <3>. QED
      BY <3>2 DEF Simulates, Store!Next
  <2>4. CASE reply[t].status = "failed"
    <3>1. reply[t] = Done("failed")
      BY <2>4 DEF StoreInv, Serves
    <3>2. StatusOf(t) = "called"
      BY <1>1, <2>1, <2>4 DEF StatusOf, Applied
    <3>3. Store!Refuse(t)
      BY <1>1, <1>3, <1>4, <2>2, <3>1, <3>2, Refuses
    <3>. QED
      BY <3>3 DEF Simulates, Store!Next
  <2>5. reply[t].status \in {"none", "ok", "failed"}
    BY DEF SessionInv, TypeOK, Reply
  <2>. QED
    BY <2>1, <2>3, <2>4, <2>5
<1>. QED
  BY <1>6, <1>7

LEMMA FailureSimulates ==
  ASSUME SavesComplete, SessionInv, StoreInv, SessionInv', StoreInv', NEW t \in Procs,
         ChildFails(t) \/ RunRaises(t)
  PROVE  Simulates
<1>1. /\ UNCHANGED request /\ at[t] # "idle" /\ at'[t] = "idle"
      /\ \A o \in Procs \ {t} : at'[o] = at[o] /\ outcome'[o] = outcome[o]
      /\ at[t] = "exec" => outcome'[t] = Done("lost")
      /\ outcome'[t] \in {Done("failed"), Done("lost")}
  BY DEF ChildFails, RunRaises, NoChild, Spawned, OpenFailed, Unavailable, Goto, SessionInv, PythonTypes
<1>2. CASE Crash(t)
  <2>1. Leave(t) /\ pc[t] \notin {"down", "write"}
    BY <1>2 DEF Crash, SavesComplete
  <2>2. /\ RowsKept /\ pc'[t] = "down"
        /\ \A o \in Procs \ {t} : pc'[o] = pc[o] /\ reply'[o] = reply[o]
    BY <2>1, LeavingSimulates
  <2>3. OthersKept(t)
    BY <1>1, <2>2, OtherThreadsKept
  <2>4. CASE Applied(t)
    <3>1. at[t] = "exec" /\ StatusOf(t) = "applied"
      BY <1>1, <2>4 DEF Applied, StatusOf
    <3>2. ~ Applied(t)'
      BY <2>2, NextNotApplied
    <3>3. StatusOf(t)' = "idle" /\ AnswerOf(t)' = Done("lost")
      BY <1>1, <3>1, <3>2 DEF StatusOf, AnswerOf
    <3>4. Store!Lose(t)
      BY <1>1, <2>2, <2>3, <3>1, <3>3, Loses
    <3>. QED
      BY <3>4 DEF Simulates, Store!Next
  <2>5. CASE ~ Applied(t)
    BY <1>1, <2>2, <2>3, <2>5, RaiseSimulates
  <2>. QED
    BY <2>4, <2>5
<1>3. CASE UNCHANGED vars /\ at[t] \in DOMAIN Spawned
  <2>1. UNCHANGED <<disk, pc, mem, cmd, reply>>
    BY <1>3 DEF vars, inProcess
  <2>2. RowsKept
    BY <2>1, UnchangedRowsKept DEF SessionInv
  <2>3. OthersKept(t)
    BY <1>1, <2>1, OtherThreadsKept
  <2>4. ~ Applied(t)
    BY <1>3 DEF Spawned, Applied
  <2>. QED
    BY <1>1, <2>2, <2>3, <2>4, RaiseSimulates
<1>. QED
  BY <1>2, <1>3 DEF ChildFails, RunRaises, NoChild

-----------------------------------------------------------------------------
(* A save is where an INSERT takes effect, when it is closed.              *)
LEMMA SaveSimulates ==
  ASSUME SessionInv, StoreInv, SessionInv', StoreInv', NEW t \in Procs, ChildStep(t),
         SaveTruncate(t) \/ SaveNotOpened(t) \/ SaveFlush(t) \/ SaveClose(t)
  PROVE  Simulates
<1>0. UNCHANGED <<at, request, outcome>> /\ at[t] \in WithChild
  BY ChildIsAlone DEF python
<1>1. \A o \in Procs \ {t} : pc[o] = "down" /\ pc'[o] = "down" /\ reply'[o] = reply[o]
  BY ChildIsAlone
<1>2. OthersKept(t)
  BY <1>0, <1>1, OtherThreadsKept
<1>3. UNCHANGED mem /\ Serves(t) /\ SeesCommitted(t)
  BY DEF StoreInv, SaveTruncate, SaveNotOpened, SaveFlush, SaveClose, inProcess
<1>4. RowsAreMapped /\ RowsAreMapped'
  BY CommittedRowsAre, NextCommittedRowsAre DEF SessionInv
<1>5. pc[t] \in {"save", "write"} /\ ~ Applied(t)
  BY <1>3 DEF SaveTruncate, SaveNotOpened, SaveFlush, SaveClose, Serves, Applied
<1>6. CASE SaveTruncate(t) \/ SaveFlush(t)
  <2>1. pc'[t] = "write" /\ UNCHANGED <<cmd, reply>>
    BY <1>6 DEF SaveTruncate, SaveFlush, inProcess, SessionInv, TypeOK
  <2>2. \A u \in DataTables : Before(t, u)' = Before(t, u)
    BY <1>3, <2>1 DEF Before
  <2>3. pc[t] = "save" => NoWriter
    BY <1>1 DEF NoWriter
  <2>4. NoWriter => \A u \in DataTables : disk[u] \cap Rows = disk[u]
    BY DEF StoreInv, SnapshotIsWhole
  <2>5. \A u \in DataTables : CommittedRows(u) = Before(t, u)
    BY <1>3, <1>4, <1>5, <2>3, <2>4 DEF RowsAreMapped, SeesCommitted
  <2>6. RowsKept
    BY <1>4, <2>1, <2>2, <2>5 DEF RowsAreMapped, RowsKept
  <2>7. ~ Applied(t)'
    BY <1>5, <2>1, <1>0 DEF Applied
  <2>. QED
    BY <1>0, <1>2, <1>5, <2>6, <2>7, RaiseSimulates DEF WithChild
<1>7. CASE SaveNotOpened(t)
  <2>1. pc[t] = "save" /\ pc'[t] = "idle" /\ reply'[t] = Done("failed") /\ UNCHANGED disk
    BY <1>7 DEF SaveNotOpened, SessionInv, TypeOK
  <2>2. NoWriter /\ NoWriter'
    BY <1>1, <2>1 DEF NoWriter
  <2>3. RowsKept
    BY <2>1, <2>2, UnwrittenRowsKept DEF SessionInv
  <2>4. ~ Applied(t)'
    BY <2>1 DEF Applied, Done
  <2>. QED
    BY <1>0, <1>2, <1>5, <2>3, <2>4, RaiseSimulates DEF WithChild
<1>8. CASE SaveClose(t)
  <2>1. pc[t] = "write" /\ disk' = mem[t]
    BY <1>8 DEF SaveClose, SessionInv, AllSole
  <2>2. \A u \in DataTables : mem[t][u] \subseteq Rows /\ CommittedRows(u) = Before(t, u)
    BY <1>3, <1>4, <2>1 DEF SeesCommitted, RowsAreMapped
  <2>3. CASE cmd[t].op = "insert"
    <3>1. /\ pc'[t] = "log"
          /\ at[t] = "exec" /\ request[t].op = "insert"
          /\ cmd[t] = [op |-> "insert", table |-> request[t].table, row |-> request[t].row]
      <4>1. pc'[t] = "log"
        BY <1>8, <2>3 DEF SaveClose, SaveReturns, SessionInv, TypeOK
      <4>2. cmd[t].op # "migrate"
        BY <2>3
      <4>3. /\ at[t] = "exec" /\ request[t].op = "insert"
            /\ cmd[t] = [op |-> "insert", table |-> request[t].table, row |-> request[t].row]
        BY <1>3, <2>1, <4>2 DEF Serves
      <4>. QED
        BY <4>1, <4>3
    <3>2. NoWriter'
      BY <1>1, <3>1 DEF NoWriter
    <3>3. request[t].table \in DataTables /\ request[t].row \in mem[t][request[t].table]
      <4>1. request[t].table \in DataTables
        BY DEF SessionInv, RequestsNameRows, Request
      <4>2. cmd[t].op = "insert" /\ cmd[t].table = request[t].table /\ cmd[t].row = request[t].row
        BY <3>1
      <4>. QED
        BY <2>1, <4>1, <4>2 DEF SessionInv, StatementsAreInMemory
    <3>4. \A u \in DataTables : CommittedRows(u)' = mem[t][u]
      BY <1>4, <2>1, <2>2, <3>2 DEF RowsAreMapped
    <3>a. cmd[t].op = "insert" /\ cmd[t].table = request[t].table /\ cmd[t].row = request[t].row
      BY <3>1
    <3>b. ASSUME NEW u \in DataTables
          PROVE  Before(t, u) = {r \in mem[t][u] : ~ (u = request[t].table /\ r = request[t].row)}
      BY <2>2, <3>a DEF Before
    <3>5. \A u \in DataTables \ {request[t].table} : CommittedRows(u)' = CommittedRows(u)
      <4>1. \A u \in DataTables \ {request[t].table} : Before(t, u) = mem[t][u]
        BY <3>b
      <4>. QED
        BY <2>2, <3>4, <4>1
    <3>6. CommittedRows(request[t].table)' = CommittedRows(request[t].table) \cup {request[t].row}
      <4>1. Before(t, request[t].table) \cup {request[t].row} = mem[t][request[t].table]
        BY <3>3, <3>b
      <4>2. CommittedRows(request[t].table)' = mem[t][request[t].table]
        <5>1. ASSUME NEW u \in DataTables, u = request'[t].table
              PROVE  CommittedRows(u)' = mem[t][u]
          BY <3>4
        <5>. QED
          BY <1>0, <3>3, <5>1
      <4>3. CommittedRows(request[t].table) = Before(t, request[t].table)
        BY <2>2, <3>3
      <4>. QED
        BY <4>1, <4>2, <4>3
    <3>7. Applied(t)'
      BY <1>0, <3>1 DEF Applied
    <3>8. StatusOf(t) = "called" /\ StatusOf(t)' = "applied" /\ AnswerOf(t)' = Done("ok")
      BY <1>0, <1>5, <3>1, <3>7 DEF StatusOf, AnswerOf
    <3>9. Store!ApplyInsert(t)
      BY <1>0, <1>2, <3>1, <3>3, <3>5, <3>6, <3>8, Inserts
    <3>. QED
      BY <3>9 DEF Simulates, Store!Next
  <2>4. CASE cmd[t].op # "insert"
    <3>1. pc'[t] = "idle" /\ at[t] = "migrate"
      BY <1>3, <1>8, <2>1, <2>4 DEF SaveClose, SaveReturns, SessionInv, TypeOK, Serves
    <3>2. NoWriter'
      BY <1>1, <3>1 DEF NoWriter
    <3>3. RowsKept
      BY <1>4, <2>1, <2>2, <2>4, <3>2 DEF RowsAreMapped, RowsKept, Before
    <3>4. ~ Applied(t)'
      BY <1>0, <3>1 DEF Applied
    <3>. QED
      BY <1>0, <1>2, <1>5, <3>1, <3>3, <3>4, RaiseSimulates
  <2>. QED
    BY <2>3, <2>4
<1>. QED
  BY <1>6, <1>7, <1>8

(* A SELECT takes effect when the child reads its memory; the other steps  *)
(* of a child are not seen.                                                *)
LEMMA ChildSimulates ==
  ASSUME SavesComplete, SessionInv, StoreInv, SessionInv', StoreInv', NEW t \in Procs, ChildStep(t)
  PROVE  Simulates
<1>0. UNCHANGED <<at, request, outcome>> /\ at[t] \in WithChild
  BY ChildIsAlone DEF python
<1>1. \A o \in Procs \ {t} : pc[o] = "down" /\ pc'[o] = "down" /\ reply'[o] = reply[o]
  BY ChildIsAlone
<1>2. OthersKept(t)
  BY <1>0, <1>1, OtherThreadsKept
<1>3. Serves(t) /\ SeesCommitted(t)
  BY DEF StoreInv
<1>4. ASSUME UNCHANGED disk, pc[t] # "write", pc'[t] # "write"
      PROVE  RowsKept
  <2>1. NoWriter /\ NoWriter'
    BY <1>1, <1>4 DEF NoWriter
  <2>. QED
    BY <1>4, <2>1, UnwrittenRowsKept DEF SessionInv
<1>5. ~ SaveLost(t)
  BY DEF SavesComplete, SaveLost
<1>6. CASE at[t] = "exec" /\ reply[t].status = "none" /\ request[t].op = "select" /\ Select(t, request[t].table)
  <2>1. /\ pc[t] = "idle" /\ UNCHANGED <<disk, pc>>
        /\ reply'[t] = [status |-> "ok", rows |-> mem[t][request[t].table]]
    BY <1>6 DEF Select, SessionInv, TypeOK
  <2>2. RowsKept
    BY <1>4, <2>1
  <2>3. request[t].table \in DataTables
    BY DEF SessionInv, RequestsNameRows, Request
  <2>4. NoWriter
    BY <1>1, <2>1 DEF NoWriter
  <2>5. CommittedRows(request[t].table) = mem[t][request[t].table]
    <3>1. RowsAreMapped
      BY CommittedRowsAre DEF SessionInv
    <3>2. mem[t][request[t].table] = disk[request[t].table] /\ disk[request[t].table] \subseteq Rows
      BY <1>3, <1>6, <2>1, <2>3, <2>4 DEF SeesCommitted, StoreInv, SnapshotIsWhole
    <3>. QED
      BY <2>3, <2>4, <3>1, <3>2 DEF RowsAreMapped
  <2>6. StatusOf(t) = "called" /\ StatusOf(t)' = "applied" /\ AnswerOf(t)' = reply'[t]
    BY <1>0, <1>6, <2>1 DEF StatusOf, AnswerOf, Applied
  <2>7. Store!ApplySelect(t)
    BY <1>0, <1>2, <1>6, <2>1, <2>2, <2>3, <2>5, <2>6, Selects
  <2>. QED
    BY <2>7 DEF Simulates, Store!Next
<1>7. CASE SaveTruncate(t) \/ SaveNotOpened(t) \/ SaveFlush(t) \/ SaveClose(t)
  BY <1>7, SaveSimulates
<1>8. CASE HeapInsert(t)
  <2>1. pc[t] = "log" /\ pc'[t] = "idle" /\ reply'[t] = Done("ok") /\ UNCHANGED disk
    BY <1>8 DEF HeapInsert, SessionInv, TypeOK
  <2>2. RowsKept
    BY <1>4, <2>1
  <2>3. Applied(t) /\ Applied(t)' /\ at[t] = "exec"
    BY <1>0, <1>3, <2>1 DEF Applied, Serves, Done
  <2>4. StatusOf(t)' = StatusOf(t) /\ AnswerOf(t)' = AnswerOf(t)
    BY <1>0, <2>1, <2>3 DEF StatusOf, AnswerOf
  <2>. QED
    BY <1>0, <1>2, <2>2, <2>4, Stutters DEF Simulates
<1>9. CASE \/ AppendNoop(t)
           \/ at[t] = "migrate" /\ reply[t].status = "none" /\ (MigrateDone(t) \/ Bootstrap(t))
           \/ at[t] = "exec" /\ reply[t].status = "none"
                /\ (Insert(t, request[t].table, request[t].row) \/ InsertRejected(t))
  <2>1. /\ pc[t] \in {"noop", "idle"} /\ pc'[t] \in {"idle", "save"} /\ UNCHANGED disk
        /\ \/ pc[t] = "noop" /\ UNCHANGED reply
           \/ at[t] = "migrate" /\ pc[t] = "idle"
           \/ pc[t] = "idle" /\ reply[t].status = "none" /\ reply'[t] \in {NoReply, Done("failed")}
    BY <1>9 DEF AppendNoop, MigrateDone, Bootstrap, Insert, InsertRejected, SessionInv, TypeOK
  <2>2. RowsKept
    BY <1>4, <2>1
  <2>3. ~ Applied(t) /\ ~ Applied(t)'
    BY <1>0, <1>3, <2>1 DEF Applied, Serves, NoReply, Done
  <2>. QED
    BY <1>0, <1>2, <2>2, <2>3, RaiseSimulates DEF WithChild
<1>. QED
  BY <1>5, <1>6, <1>7, <1>8, <1>9 DEF ChildStep

LEMMA SessionSimulates ==
  ASSUME SavesComplete, SessionInv, StoreInv, SessionInv', StoreInv', [SessionNext]_allVars
  PROVE  Simulates
<1>1. CASE Reset \/ UNCHANGED allVars
  <2>1. UNCHANGED <<disk, pc, mem, cmd, reply, at, request, outcome>>
    BY <1>1 DEF Reset, allVars, vars, python, inProcess
  <2>2. RowsKept
    BY <2>1, UnchangedRowsKept DEF SessionInv
  <2>3. \A o \in Procs : StatusOf(o)' = StatusOf(o) /\ AnswerOf(o)' = AnswerOf(o)
    BY <2>1 DEF StatusOf, AnswerOf, Applied
  <2>. QED
    BY <2>1, <2>2, <2>3 DEF Simulates, Store!vars, RowsKept, StatusOf, AnswerOf
<1>. QED
  BY <1>1, CallSimulates, PythonSimulates, SpawnSimulates, ChildSimulates, ExitSimulates, FailureSimulates
  DEF SessionNext, ThreadStep

LEMMA StoreStarts == SessionInit => Store!Init
<1>. SUFFICES ASSUME SessionInit PROVE Store!Init
  OBVIOUS
<1>1. /\ disk = EmptyCatalog /\ pc = [p \in Procs |-> "down"]
      /\ at = [t \in Procs |-> "idle"]
      /\ outcome = [t \in Procs |-> NoReply]
  BY DEF SessionInit, Init
<1>2. \A u \in DataTables : CommittedRows(u) = {}
  BY <1>1 DEF CommittedRows, EmptyCatalog, DataTables
<1>3. \A t \in Procs : ~ Applied(t)
  BY <1>1 DEF Applied
<1>4. request \in [Procs -> Store!Request]
  BY InitNames DEF RequestsNameRows, Request, Store!Request
<1>. QED
  BY <1>1, <1>2, <1>3, <1>4 DEF Store!Init, Store!Nothing, NoReply

(* As long as saves complete, the threads, their locks, their children and *)
(* the snapshot file together are the atomic store of RowStore, for any    *)
(* number of threads, tables and rows and any number of restarts: an INSERT*)
(* takes effect when its save is closed, a SELECT when its child reads, and*)
(* whatever fails before that has no effect then or later.                 *)
THEOREM SessionIsRowStore ==
  ASSUME SavesComplete
  PROVE  SessionSpec => ImplementsRowStore
<1>1. SessionInv /\ StoreInv /\ SessionInv' /\ StoreInv' /\ [SessionNext]_allVars
      => [Store!Next]_(Store!vars)
  BY SessionSimulates DEF Simulates
<1>. QED
  BY <1>1, StoreStarts, StoreInvariant, PTL DEF SessionSpec, ImplementsRowStore, Store!Spec

=============================================================================

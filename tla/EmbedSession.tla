---------------------------- MODULE EmbedSession ----------------------------
(***************************************************************************)
(* One Python interpreter on one data directory (liorm/embed_engine.py).   *)
(* Its threads call execute_sql: ensure_session, which the first callers   *)
(* race to run, opens and migrates the directory under _SESSION_LOCK, and  *)
(* exec_parameterized runs each statement under _EXEC_LOCK.  Both run the  *)
(* engine as a child process, one per command; the child of thread t is    *)
(* process t of EmbeddedDatabase, opened and closed for that one command   *)
(* (engine/cli/embed_main.cpp).                                            *)
(***************************************************************************)
EXTENDS EmbeddedDatabase

CONSTANTS
  Free,       \* the owner of a lock that nobody holds
  MaxCalls,   \* bound: number of calls of execute_sql
  MaxResets   \* bound: number of restarts of the interpreter

ASSUME SessionAssumption ==
  /\ Free \notin Procs
  /\ DataTables # {}
  /\ MaxCalls \in Nat
  /\ MaxResets \in Nat
  /\ MaxOpens >= 3 * MaxCalls  \* the bound on opens never bites

VARIABLES
  hasSession,  \* _SESSION is not None
  ready,       \* _READY
  sessionLock, \* owner of _SESSION_LOCK
  execLock,    \* owner of _EXEC_LOCK
  at,          \* the line of embed_engine.py each thread is at
  request,     \* the statement each thread wants executed
  outcome,     \* what the last call of each thread returned or raised
  calls,
  resets

python == <<hasSession, ready, sessionLock, execLock, at, request, outcome, calls, resets>>
allVars == <<vars, python>>

\* ready1 .. ready2: ensure_session, lines 108 to 115
\* open_spawn .. set: open_and_migrate and what ensure_session does after it
\* exec_lock .. exec: exec_parameterized
Place == {"idle", "ready1", "session1", "session_lock", "session2", "ready2",
          "open_spawn", "open", "migrate_spawn", "migrate", "catalog", "set_ready",
          "exec_lock", "exec_spawn", "exec"}

Request == [op : {"insert", "select"}, table : DataTables, row : Rows \cup {MigRow}]

SessionTypeOK ==
  /\ TypeOK
  /\ hasSession \in BOOLEAN
  /\ ready \in {"None", "True", "False"}
  /\ sessionLock \in Procs \cup {Free}
  /\ execLock \in Procs \cup {Free}
  /\ at \in [Procs -> Place]
  /\ request \in [Procs -> Request]
  /\ outcome \in [Procs -> Reply \cup {Done("lost")}]
  /\ calls \in 0..MaxCalls
  /\ resets \in 0..MaxResets

SessionInit ==
  /\ Init
  /\ hasSession = FALSE
  /\ ready = "None"
  /\ sessionLock = Free
  /\ execLock = Free
  /\ at = [t \in Procs |-> "idle"]
  /\ request = [t \in Procs |-> [op |-> "select", table |-> CHOOSE u \in DataTables : TRUE, row |-> MigRow]]
  /\ outcome = [t \in Procs |-> NoReply]
  /\ calls = 0
  /\ resets = 0

Goto(t, place) == at' = [at EXCEPT ![t] = place]

-----------------------------------------------------------------------------
(* A thread calls execute_sql with an INSERT of a new row, or a SELECT.    *)
Call(t) ==
  /\ at[t] = "idle"
  /\ calls < MaxCalls
  /\ calls' = calls + 1
  /\ \E u \in DataTables :
       \/ \E r \in Rows \ used :
            /\ request' = [request EXCEPT ![t] = [op |-> "insert", table |-> u, row |-> r]]
            /\ used' = used \cup {r}
       \/ /\ request' = [request EXCEPT ![t] = [op |-> "select", table |-> u, row |-> MigRow]]
          /\ UNCHANGED used
  /\ outcome' = [outcome EXCEPT ![t] = NoReply]
  /\ Goto(t, "ready1")
  /\ UNCHANGED <<disk, wal, opens, torn, epoch, pc, mem, inProcess,
                 hasSession, ready, sessionLock, execLock, resets>>

(* ensure_session returned None: execute_sql raises RuntimeError.          *)
Unavailable(t) ==
  /\ outcome' = [outcome EXCEPT ![t] = Done("failed")]
  /\ Goto(t, "idle")

(* "if _READY is False: return None", outside the lock.                    *)
CheckReady(t) ==
  /\ at[t] = "ready1"
  /\ IF ready = "False" THEN Unavailable(t)
     ELSE Goto(t, "session1") /\ UNCHANGED outcome
  /\ UNCHANGED <<vars, hasSession, ready, sessionLock, execLock, request, calls, resets>>

(* "if _SESSION: return _SESSION", outside the lock.                       *)
CheckSession(t) ==
  /\ at[t] = "session1"
  /\ Goto(t, IF hasSession THEN "exec_lock" ELSE "session_lock")
  /\ UNCHANGED <<vars, hasSession, ready, sessionLock, execLock, request, outcome, calls, resets>>

AcquireSession(t) ==
  /\ at[t] = "session_lock"
  /\ sessionLock = Free
  /\ sessionLock' = t
  /\ Goto(t, "session2")
  /\ UNCHANGED <<vars, hasSession, ready, execLock, request, outcome, calls, resets>>

(* Mutant: no second check of _SESSION.                                    *)
RecheckSessionSkipped(t) ==
  /\ at[t] = "session2"
  /\ Goto(t, "ready2")
  /\ UNCHANGED <<vars, hasSession, ready, sessionLock, execLock, request, outcome, calls, resets>>

(* The second check of _SESSION, now under the lock.                       *)
RecheckSession(t) ==
  /\ at[t] = "session2"
  /\ IF hasSession THEN sessionLock' = Free /\ Goto(t, "exec_lock")
     ELSE Goto(t, "ready2") /\ UNCHANGED sessionLock
  /\ UNCHANGED <<vars, hasSession, ready, execLock, request, outcome, calls, resets>>

(* Mutant: no second check of _READY.                                      *)
RecheckReadySkipped(t) ==
  /\ at[t] = "ready2"
  /\ Goto(t, "open_spawn")
  /\ UNCHANGED <<vars, hasSession, ready, sessionLock, execLock, request, outcome, calls, resets>>

(* The second check of _READY.                                             *)
RecheckReady(t) ==
  /\ at[t] = "ready2"
  /\ IF ready = "False" THEN sessionLock' = Free /\ Unavailable(t)
     ELSE Goto(t, "open_spawn") /\ UNCHANGED <<sessionLock, outcome>>
  /\ UNCHANGED <<vars, hasSession, ready, execLock, request, calls, resets>>

-----------------------------------------------------------------------------
(* subprocess.run starts lidb_embed, which opens the directory.            *)
Spawned == [open_spawn |-> "open", migrate_spawn |-> "migrate", exec_spawn |-> "exec"]

Spawn(t) ==
  /\ at[t] \in DOMAIN Spawned
  /\ Open(t)
  /\ Goto(t, Spawned[at[t]])
  /\ UNCHANGED <<hasSession, ready, sessionLock, execLock, request, outcome, calls, resets>>

(* The child works: open() ends with the Noop record, then the one command *)
(* of the child runs, of which the thread sees nothing yet.                *)
ChildStep(t) ==
  /\ at[t] \in {"open", "migrate", "exec"}
  /\ \/ AppendNoop(t)
     \/ /\ at[t] = "migrate" /\ reply[t].status = "none"
        /\ MigrateDone(t) \/ Bootstrap(t)
     \/ /\ at[t] = "exec" /\ reply[t].status = "none" /\ request[t].op = "insert"
        /\ Insert(t, request[t].table, request[t].row) \/ InsertRejected(t)
     \/ /\ at[t] = "exec" /\ reply[t].status = "none" /\ request[t].op = "select"
        /\ Select(t, request[t].table)
     \/ SaveTruncate(t) \/ SaveNotOpened(t) \/ SaveFlush(t) \/ SaveClose(t) \/ SaveLost(t)
     \/ HeapInsert(t)
  /\ UNCHANGED python

(* Mutant: the lock is kept on the failure path.                           *)
OpenFailedKeepsLock(t) ==
  /\ ready' = "False"
  /\ hasSession' = FALSE
  /\ UNCHANGED sessionLock
  /\ Unavailable(t)

(* open_and_migrate returned False: the failure is latched.                *)
OpenFailed(t) ==
  /\ ready' = "False"
  /\ hasSession' = FALSE
  /\ sessionLock' = Free
  /\ Unavailable(t)

(* Mutant: _SESSION is published before the migration.                     *)
OpenExitsPublishing(t) ==
  /\ at[t] = "open"
  /\ Close(t)
  /\ hasSession' = TRUE
  /\ Goto(t, "migrate_spawn")
  /\ UNCHANGED <<ready, sessionLock, execLock, request, outcome, calls, resets>>

(* The child of "open" exits.                                              *)
OpenExits(t) ==
  /\ at[t] = "open"
  /\ Close(t)
  /\ Goto(t, "migrate_spawn")
  /\ UNCHANGED <<hasSession, ready, sessionLock, execLock, request, outcome, calls, resets>>

(* The child of "migrate" exits, with 1 when migrate() returned false.     *)
MigrateExits(t) ==
  /\ at[t] = "migrate"
  /\ reply[t].status # "none"
  /\ Close(t)
  /\ IF reply[t].status = "ok"
       THEN Goto(t, "catalog") /\ UNCHANGED <<hasSession, ready, sessionLock, outcome>>
       ELSE OpenFailed(t)
  /\ UNCHANGED <<execLock, request, calls, resets>>

(* "catalog.is_file() and catalog.stat().st_size > 0", and _SESSION is set.*)
(* A torn file without a row may still have a header.                      *)
CheckCatalog(t) ==
  /\ at[t] = "catalog"
  /\ \/ /\ disk # EmptyCatalog \/ torn
        /\ hasSession' = TRUE
        /\ Goto(t, "set_ready")
        /\ UNCHANGED <<ready, sessionLock, outcome>>
     \/ /\ disk = EmptyCatalog
        /\ OpenFailed(t)
  /\ UNCHANGED <<vars, execLock, request, calls, resets>>

(* _READY is set after _SESSION, and the lock released.                    *)
SetReady(t) ==
  /\ at[t] = "set_ready"
  /\ ready' = "True"
  /\ sessionLock' = Free
  /\ Goto(t, "exec_lock")
  /\ UNCHANGED <<vars, hasSession, execLock, request, outcome, calls, resets>>

-----------------------------------------------------------------------------
(* Mutant: statements run without _EXEC_LOCK.                              *)
AcquireExecUnguarded(t) ==
  /\ at[t] = "exec_lock"
  /\ execLock' = t
  /\ Goto(t, "exec_spawn")
  /\ UNCHANGED <<vars, hasSession, ready, sessionLock, request, outcome, calls, resets>>

(* "with _EXEC_LOCK" of exec_parameterized.                                *)
AcquireExec(t) ==
  /\ at[t] = "exec_lock"
  /\ execLock = Free
  /\ execLock' = t
  /\ Goto(t, "exec_spawn")
  /\ UNCHANGED <<vars, hasSession, ready, sessionLock, request, outcome, calls, resets>>

(* The child of "exec-json" exits: its rows are returned, or RuntimeError  *)
(* is raised when a statement other than a SELECT affected no row.         *)
ExecExits(t) ==
  /\ at[t] = "exec"
  /\ reply[t].status # "none"
  /\ Close(t)
  /\ outcome' = [outcome EXCEPT ![t] = reply[t]]
  /\ execLock' = Free
  /\ Goto(t, "idle")
  /\ UNCHANGED <<hasSession, ready, sessionLock, request, calls, resets>>

\* Thread t has no child any more, or was about to start one.
NoChild(t) ==
  \/ at[t] \in {"open", "migrate", "exec"} /\ Crash(t)
  \/ at[t] \in DOMAIN Spawned /\ "crash" \in Faults /\ UNCHANGED vars

(* The child dies, or its binary is not found: a return code that is not 0 *)
(* makes open_and_migrate return False, and exec_parameterized raise.  The *)
(* latter also raises when the child cannot be started at all.             *)
ChildFails(t) ==
  /\ NoChild(t)
  /\ IF at[t] \in {"exec_spawn", "exec"}
       THEN /\ outcome' = [outcome EXCEPT ![t] = Done("lost")]
            /\ execLock' = Free
            /\ Goto(t, "idle")
            /\ UNCHANGED <<hasSession, ready, sessionLock>>
       ELSE OpenFailed(t) /\ UNCHANGED execLock
  /\ UNCHANGED <<request, calls, resets>>

(* subprocess.run raises in open_and_migrate, because the child cannot be  *)
(* forked or executed, or because the wait for it is interrupted, which    *)
(* kills it.  The exception leaves "with _SESSION_LOCK" before the lines   *)
(* that latch, so _READY is still None and the next call tries again.      *)
RunRaises(t) ==
  /\ NoChild(t)
  /\ at[t] \in {"open_spawn", "open", "migrate_spawn", "migrate"}
  /\ sessionLock' = Free
  /\ Unavailable(t)
  /\ UNCHANGED <<hasSession, ready, execLock, request, calls, resets>>

(* A new interpreter on the same LIDB_DATA_DIR, or reset_session_for_tests,*)
(* when no call is in progress: an interpreter killed in a call would leave*)
(* its child running on the directory.                                     *)
Reset ==
  /\ \A t \in Procs : at[t] = "idle"
  /\ resets < MaxResets
  /\ resets' = resets + 1
  /\ hasSession' = FALSE
  /\ ready' = "None"
  /\ UNCHANGED <<vars, sessionLock, execLock, at, request, outcome, calls>>

ThreadStep(t) ==
  \/ CheckReady(t) \/ CheckSession(t) \/ AcquireSession(t) \/ RecheckSession(t)
  \/ RecheckReady(t) \/ Spawn(t) \/ ChildStep(t) \/ OpenExits(t) \/ MigrateExits(t)
  \/ CheckCatalog(t) \/ SetReady(t) \/ AcquireExec(t) \/ ExecExits(t)

SessionNext ==
  \/ \E t \in Procs : Call(t) \/ ThreadStep(t) \/ ChildFails(t) \/ RunRaises(t)
  \/ Reset

SessionSpec == SessionInit /\ [][SessionNext]_allVars

\* The scheduler runs every thread and every child that can run, and a stream
\* has finitely many bytes to flush before it is closed.
Fairness ==
  \A t \in Procs : /\ WF_allVars(ThreadStep(t))
                   /\ WF_allVars(SaveClose(t) /\ UNCHANGED python)

FairSessionSpec == SessionSpec /\ Fairness

-----------------------------------------------------------------------------
\* The call of thread t took effect: its row is saved, or its answer read.
Applied(t) == at[t] = "exec" /\ (pc[t] = "log" \/ reply[t].status = "ok")

\* The rows of the directory, a save in progress counted as not yet done.
CommittedRows(u) ==
  IF \E t \in Procs : pc[t] = "write"
    THEN LET w == CHOOSE t \in Procs : pc[t] = "write"
         IN  {r \in mem[w][u] \cap Rows : ~ (cmd[w].op = "insert" /\ cmd[w].table = u /\ cmd[w].row = r)}
    ELSE disk[u] \cap Rows

Store == INSTANCE RowStore WITH
  Clients <- Procs,
  Tables  <- DataTables,
  NoRow   <- MigRow,
  rows    <- [u \in DataTables |-> CommittedRows(u)],
  status  <- [t \in Procs |-> IF at[t] = "idle" THEN "idle"
                             ELSE IF Applied(t) THEN "applied" ELSE "called"],
  answer  <- [t \in Procs |-> IF ~ Applied(t) THEN outcome[t]
                             ELSE IF pc[t] = "log" THEN Done("ok") ELSE reply[t]]

(* The threads, the two locks, the children and the snapshot file together *)
(* are an atomic store of rows.  Each call of execute_sql takes effect at  *)
(* most once, at one instant before it returns; a SELECT reads what was    *)
(* committed at that instant; nothing is lost when a child dies outside the*)
(* write of the snapshot.  A statement the engine refused, because the     *)
(* snapshot could not be opened, has no effect then or later: its row was  *)
(* only in the memory of a child that is gone (compare                     *)
(* CommittedRowsAreLogged).                                                *)
ImplementsRowStore == Store!Spec

(* The engine is never open twice, although nothing in it locks the        *)
(* directory: the child that opens or migrates (_SESSION_LOCK) is never    *)
(* there with one that executes (_EXEC_LOCK), because the second check of  *)
(* _SESSION lets only one thread migrate.                                  *)
OneChildAtATime == \A t, o \in Procs : pc[t] # "down" /\ pc[o] # "down" => t = o

(* No statement runs on a catalogue that is not migrated: a thread reaches *)
(* exec_parameterized only after some thread's open_and_migrate committed  *)
(* the bootstrap (ensure_session).                                         *)
StatementsSeeMigration == \A t \in Procs : at[t] = "exec" /\ pc[t] # "down" => Migrated(mem[t])

(* An open_and_migrate that returns False is final: until the interpreter  *)
(* is restarted _READY stays False and no thread gets a session, not even  *)
(* one that was already past the first check (ensure_session, lines 115    *)
(* and 119).  One that raises is not: _READY stays None (RunRaises).       *)
FailureIsLatched ==
  [][ready = "False" /\ resets' = resets => ready' = "False" /\ ~ hasSession']_allVars

(* Every call of execute_sql returns or raises: no lock is left held on an *)
(* error path, and the two locks cannot deadlock.                          *)
CallsReturn == \A t \in Procs : at[t] # "idle" ~> at[t] = "idle"

=============================================================================

-------------------------- MODULE EmbeddedDatabase --------------------------
(***************************************************************************)
(* The processes of lidb that open one data directory: the catalogue       *)
(* snapshot .lidb/catalog.heap and the WAL segment 00000001.seg they share,*)
(* and the EmbeddedDatabase object each of them holds (engine/embedded.cpp,*)
(* native_catalog.cpp, native_exec.cpp, wal.cpp).                          *)
(*                                                                         *)
(* A process is one EmbeddedDatabase: the command line opens it for one    *)
(* command, a library client keeps it open for many.  Nothing in the       *)
(* engine locks the directory, so any number of them may be open.          *)
(*                                                                         *)
(* Data.  A catalogue is a function from tables to sets of rows.  Rows have*)
(* identities, so the vector of a table is the set of its rows; a table    *)
(* that is absent from the std::map and one that is empty are the same,    *)
(* which is how every reader of the map treats them.                       *)
(***************************************************************************)
EXTENDS Naturals, Sequences, FiniteSets

CONSTANTS
  Procs,     \* processes that may open the data directory
  Tables,    \* table names
  MigTable,  \* "schema_migrations"
  Rank,      \* the order in which std::map yields the tables
  Rows,      \* identities of the rows that clients insert
  MigRow,    \* the row apply_bootstrap_schema writes
  Junk,      \* a row read from a line that is not one whole written line
  Faults,    \* the faults of the environment, see Fault
  MaxOpens   \* bound: number of opens of the data directory

Fault ==
  { "crash",       \* a process dies, not while it writes the snapshot
    "tear",        \* a process dies while it writes the snapshot
    "open_fail",   \* the snapshot cannot be opened for writing
    "write_fail" } \* the snapshot is opened but its bytes are not written

ASSUME ConstantsAssumption ==
  /\ MigTable \in Tables
  /\ Rank \in [Tables -> Nat]
  /\ \A t, u \in Tables : Rank[t] = Rank[u] => t = u
  /\ MigRow \notin Rows
  /\ Junk \notin Rows \cup {MigRow}
  /\ Faults \subseteq Fault
  /\ MaxOpens \in Nat

VARIABLES
  disk,     \* the catalogue a reader of the snapshot file would replay
  wal,      \* the records of the WAL segment
  opens,    \* number of opens so far; it numbers the sessions
  torn,     \* history: some save_snapshot did not write all of its bytes
  epoch,    \* history: how often a catalogue without a schema_migrations row got one
  used,     \* rows some client has inserted (each is inserted once)
  pc,       \* where each process is
  mem,      \* NativeCatalog::tables_ of each process
  session,  \* the number of the session each process is in
  nextLsn,  \* WalWriter::next_lsn_ of each process
  cmd,      \* the statement each process is executing
  reply,    \* what the last statement of each process returned
  sole,     \* no other process opened the snapshot for writing meanwhile
  feed      \* LSNs of the change events of each session, in order

vars == <<disk, wal, opens, torn, epoch, used, pc, mem, session, nextLsn, cmd, reply, sole, feed>>
inProcess == <<session, nextLsn, cmd, reply, sole, feed>>

AllRows == Rows \cup {MigRow, Junk}
DataTables == Tables \ {MigTable}
BeforeMarker == {t \in Tables : Rank[t] < Rank[MigTable]}
Catalog == [Tables -> SUBSET AllRows]
EmptyCatalog == [t \in Tables |-> {}]

\* down:  no open database        noop:  catalogue loaded, no WAL record yet
\* idle:  open, between calls     save:  about to open the snapshot file
\* write: snapshot truncated, not yet closed
\* log:   snapshot saved, HeapInsert record not yet appended
Location == {"down", "noop", "idle", "save", "write", "log"}

Command == [op : {"none", "migrate", "insert"}, table : Tables, row : Rows \cup {MigRow}]
NoCommand == [op |-> "none", table |-> MigTable, row |-> MigRow]
Reply == [status : {"none", "ok", "failed"}, rows : SUBSET AllRows]
NoReply == [status |-> "none", rows |-> {}]
Done(s) == [status |-> s, rows |-> {}]

\* `session`, `row`, `marked` (the catalogue in memory had a schema_migrations
\* row) and `epoch` are history: the record in the segment holds the type, the
\* LSN and the table, with an empty row payload.
WalRecord == [type : {"noop", "insert"}, lsn : Nat \ {0}, table : Tables,
              session : Nat, row : Rows \cup {MigRow}, marked : BOOLEAN, epoch : Nat]

Migrated(c) == c[MigTable] # {}

FirstLsnZero == 0  \* mutant: next_lsn_ starts at 0
FirstLsn == 1

\* The rows that may be read of table k when the file changes from snapshot a
\* to snapshot b in the middle of it.  A line cut at that place, of the table or
\* the header of the next one, is read as a row of its own.
CutTable(a, b, k) ==
  a[k] \cup b[k] \cup
    (IF a[k] \cup b[k] # {} \/ \E t \in Tables : Rank[t] > Rank[k] THEN {Junk} ELSE {})

\* The content of a file whose bytes up to somewhere in table k are those of
\* snapshot a and whose bytes after it are those of snapshot b.
Splices(a, b) ==
  UNION { { [t \in Tables |-> IF Rank[t] < Rank[k] THEN a[t] ELSE IF t = k THEN S ELSE b[t]] :
            S \in SUBSET CutTable(a, b, k) } : k \in Tables }

\* mutant: the tables are written in no particular order (an unordered_map)
UnorderedPrefixes(a) ==
  {[t \in Tables |-> IF t \in T THEN a[t] ELSE {}] : T \in SUBSET Tables}

\* What is in the file after some of the bytes of save_snapshot reached it.
TornSaves(a) == Splices(a, EmptyCatalog)

-----------------------------------------------------------------------------
Init ==
  /\ disk = EmptyCatalog
  /\ wal = << >>
  /\ opens = 0
  /\ torn = FALSE
  /\ epoch = 0
  /\ used = {}
  /\ pc = [p \in Procs |-> "down"]
  /\ mem = [p \in Procs |-> EmptyCatalog]
  /\ session = [p \in Procs |-> 0]
  /\ nextLsn = [p \in Procs |-> FirstLsn]
  /\ cmd = [p \in Procs |-> NoCommand]
  /\ reply = [p \in Procs |-> NoReply]
  /\ sole = [p \in Procs |-> TRUE]
  /\ feed = [p \in Procs |-> << >>]

-----------------------------------------------------------------------------
(* Mutant: the counter is read but not advanced.                           *)
AppendSameLsn(p, type, table, row) ==
  /\ wal' = Append(wal, [type |-> type, lsn |-> nextLsn[p], table |-> table,
                         session |-> session[p], row |-> row,
                         marked |-> Migrated(mem[p]), epoch |-> epoch])
  /\ UNCHANGED nextLsn

(* WalWriter::append: the record goes to the end of the segment with the   *)
(* LSN of this writer's own counter, which starts at 1 in every process.   *)
Append2Wal(p, type, table, row) ==
  /\ wal' = Append(wal, [type |-> type, lsn |-> nextLsn[p], table |-> table,
                         session |-> session[p], row |-> row,
                         marked |-> Migrated(mem[p]), epoch |-> epoch])
  /\ nextLsn' = [nextLsn EXCEPT ![p] = @ + 1]

\* What is read back of a catalogue that holds rows without a column: each of
\* them was written as an empty line, and empty lines are skipped.
ReadBack(c, skipped) == [t \in Tables |-> IF t \in skipped THEN c[t] \ {Junk} ELSE c[t]]

(* EmbeddedDatabase::open, up to and including load_or_create.  A row from *)
(* a cut line may have no columns; what the file holds of it is then read  *)
(* as a row only until it is written again.                                *)
Open(p) ==
  /\ pc[p] = "down"
  /\ opens < MaxOpens
  /\ opens' = opens + 1
  /\ session' = [session EXCEPT ![p] = opens + 1]
  /\ \E skipped \in SUBSET {t \in Tables : Junk \in disk[t]} :
       mem' = [mem EXCEPT ![p] = ReadBack(disk, skipped)]
  /\ pc' = [pc EXCEPT ![p] = "noop"]
  /\ UNCHANGED <<disk, wal, torn, epoch, used, nextLsn, cmd, reply, sole, feed>>

(* The Noop record with which open() ends.                                 *)
AppendNoop(p) ==
  /\ pc[p] = "noop"
  /\ Append2Wal(p, "noop", MigTable, MigRow)
  /\ pc' = [pc EXCEPT ![p] = "idle"]
  /\ UNCHANGED <<disk, opens, torn, epoch, used, mem, session, cmd, reply, sole, feed>>

(* EmbeddedDatabase::migrate when schema_migrations has a row.             *)
MigrateDone(p) ==
  /\ pc[p] = "idle"
  /\ Migrated(mem[p])
  /\ reply' = [reply EXCEPT ![p] = Done("ok")]
  /\ UNCHANGED <<disk, wal, opens, torn, epoch, used, pc, mem, session, nextLsn, cmd, sole, feed>>

(* Mutant: migrate without the test of table_count.                        *)
BootstrapAlways(p) ==
  /\ pc[p] = "idle"
  /\ mem' = [mem EXCEPT ![p] = [EmptyCatalog EXCEPT ![MigTable] = {MigRow}]]
  /\ epoch' = epoch + 1
  /\ cmd' = [cmd EXCEPT ![p] = [op |-> "migrate", table |-> MigTable, row |-> MigRow]]
  /\ reply' = [reply EXCEPT ![p] = NoReply]
  /\ pc' = [pc EXCEPT ![p] = "save"]
  /\ UNCHANGED <<disk, wal, opens, torn, used, session, nextLsn, sole, feed>>

(* EmbeddedDatabase::migrate otherwise: apply_bootstrap_schema clears the  *)
(* catalogue, adds the row of 001_registry and saves.                      *)
Bootstrap(p) ==
  /\ pc[p] = "idle"
  /\ ~ Migrated(mem[p])
  /\ mem' = [mem EXCEPT ![p] = [EmptyCatalog EXCEPT ![MigTable] = {MigRow}]]
  /\ epoch' = epoch + 1
  /\ cmd' = [cmd EXCEPT ![p] = [op |-> "migrate", table |-> MigTable, row |-> MigRow]]
  /\ reply' = [reply EXCEPT ![p] = NoReply]
  /\ pc' = [pc EXCEPT ![p] = "save"]
  /\ UNCHANGED <<disk, wal, opens, torn, used, session, nextLsn, sole, feed>>

(* exec_insert up to save_snapshot: the row is in memory before the save.  *)
(* Any table may be named, schema_migrations too: such a row marks the     *)
(* catalogue as migrated without a bootstrap.                              *)
Insert(p, t, r) ==
  /\ pc[p] = "idle"
  /\ epoch' = IF t = MigTable /\ ~ Migrated(mem[p]) THEN epoch + 1 ELSE epoch
  /\ mem' = [mem EXCEPT ![p][t] = @ \cup {r}]
  /\ cmd' = [cmd EXCEPT ![p] = [op |-> "insert", table |-> t, row |-> r]]
  /\ reply' = [reply EXCEPT ![p] = NoReply]
  /\ used' = used \cup {r}
  /\ pc' = [pc EXCEPT ![p] = "save"]
  /\ UNCHANGED <<disk, wal, opens, torn, session, nextLsn, sole, feed>>

(* exec_insert of a statement it rejects (no VALUES, too few parameters).  *)
InsertRejected(p) ==
  /\ pc[p] = "idle"
  /\ reply' = [reply EXCEPT ![p] = Done("failed")]
  /\ UNCHANGED <<disk, wal, opens, torn, epoch, used, pc, mem, session, nextLsn, cmd, sole, feed>>

(* exec_select answers from memory.                                        *)
Select(p, t) ==
  /\ pc[p] = "idle"
  /\ reply' = [reply EXCEPT ![p] = [status |-> "ok", rows |-> mem[p][t]]]
  /\ UNCHANGED <<disk, wal, opens, torn, epoch, used, pc, mem, session, nextLsn, cmd, sole, feed>>

(* save_snapshot opens the file with ios::trunc ...                        *)
SaveTruncate(p) ==
  /\ pc[p] = "save"
  /\ disk' = EmptyCatalog
  /\ sole' = [q \in Procs |-> IF q = p THEN \A o \in Procs \ {p} : pc[o] # "write"
                              ELSE sole[q] /\ pc[q] # "write"]
  /\ pc' = [pc EXCEPT ![p] = "write"]
  /\ UNCHANGED <<wal, opens, torn, epoch, used, mem, session, nextLsn, cmd, reply, feed>>

(* ... or fails to, and the statement reports 0 rows; memory keeps them.   *)
SaveNotOpened(p) ==
  /\ pc[p] = "save"
  /\ "open_fail" \in Faults
  /\ reply' = [reply EXCEPT ![p] = Done("failed")]
  /\ cmd' = [cmd EXCEPT ![p] = NoCommand]
  /\ pc' = [pc EXCEPT ![p] = "idle"]
  /\ UNCHANGED <<disk, wal, opens, torn, epoch, used, mem, session, nextLsn, sole, feed>>

(* The stream flushes a part of the snapshot: a longer prefix of it when   *)
(* the file is this process's alone, and otherwise bytes over or between   *)
(* those of the other writers.                                             *)
SaveFlush(p) ==
  /\ pc[p] = "write"
  /\ disk' \in IF sole[p]
                 THEN {c \in TornSaves(mem[p]) : \A t \in Tables : disk[t] \ {Junk} \subseteq c[t]}
                 ELSE Splices(mem[p], disk) \cup Splices(disk, mem[p])
  /\ UNCHANGED <<wal, opens, torn, epoch, used, pc, mem, inProcess>>

(* Mutant: save_snapshot reports failure after a complete write.           *)
SaveReturnsFalse(p) ==
  /\ pc' = [pc EXCEPT ![p] = "idle"]
  /\ cmd' = [cmd EXCEPT ![p] = NoCommand]
  /\ reply' = [reply EXCEPT ![p] = Done("failed")]

(* What follows save_snapshot, which returns true without looking at the   *)
(* state of the stream: exec_parameterized goes on to the WAL record, and  *)
(* migrate returns.                                                        *)
SaveReturns(p) ==
  IF cmd[p].op = "insert"
    THEN /\ pc' = [pc EXCEPT ![p] = "log"]
         /\ UNCHANGED <<cmd, reply>>
    ELSE /\ pc' = [pc EXCEPT ![p] = "idle"]
         /\ cmd' = [cmd EXCEPT ![p] = NoCommand]
         /\ reply' = [reply EXCEPT ![p] = Done("ok")]

(* The stream is closed with all of the snapshot written ...               *)
SaveClose(p) ==
  /\ pc[p] = "write"
  /\ IF sole[p] THEN disk' = mem[p]
     ELSE disk' \in Splices(mem[p], disk) \cup Splices(disk, mem[p])
  /\ SaveReturns(p)
  /\ UNCHANGED <<wal, opens, torn, epoch, used, mem, session, nextLsn, sole, feed>>

\* The snapshot of a catalogue without a schema_migrations row, cut in the header
\* of the table after it, is read as one with a row there.
EpochAfterTear(p) == IF Migrated(disk) /\ ~ Migrated(mem[p]) THEN epoch + 1 ELSE epoch

(* ... or with the rest of it lost to an error nobody checks.              *)
SaveLost(p) ==
  /\ pc[p] = "write"
  /\ "write_fail" \in Faults
  /\ torn' = TRUE
  /\ epoch' = EpochAfterTear(p)
  /\ SaveReturns(p)
  /\ UNCHANGED <<disk, wal, opens, used, mem, session, nextLsn, sole, feed>>

(* Mutant: the event carries the LSN of the next record.                   *)
HeapInsertLateLsn(p) ==
  /\ pc[p] = "log"
  /\ Append2Wal(p, "insert", cmd[p].table, cmd[p].row)
  /\ feed' = [feed EXCEPT ![p] = Append(@, nextLsn[p] + 1)]
  /\ reply' = [reply EXCEPT ![p] = Done("ok")]
  /\ cmd' = [cmd EXCEPT ![p] = NoCommand]
  /\ pc' = [pc EXCEPT ![p] = "idle"]
  /\ UNCHANGED <<disk, opens, torn, epoch, used, mem, session, sole>>

(* NativeExecutor::insert: the HeapInsert record, the change event, and    *)
(* the statement returns.                                                  *)
HeapInsert(p) ==
  /\ pc[p] = "log"
  /\ Append2Wal(p, "insert", cmd[p].table, cmd[p].row)
  /\ feed' = [feed EXCEPT ![p] = Append(@, nextLsn[p])]
  /\ reply' = [reply EXCEPT ![p] = Done("ok")]
  /\ cmd' = [cmd EXCEPT ![p] = NoCommand]
  /\ pc' = [pc EXCEPT ![p] = "idle"]
  /\ UNCHANGED <<disk, opens, torn, epoch, used, mem, session, sole>>

(* The database object is gone: what a process holds is as before open().  *)
Leave(p) ==
  /\ pc' = [pc EXCEPT ![p] = "down"]
  /\ mem' = [mem EXCEPT ![p] = EmptyCatalog]
  /\ session' = [session EXCEPT ![p] = 0]
  /\ nextLsn' = [nextLsn EXCEPT ![p] = FirstLsn]
  /\ cmd' = [cmd EXCEPT ![p] = NoCommand]
  /\ reply' = [reply EXCEPT ![p] = NoReply]
  /\ sole' = [sole EXCEPT ![p] = TRUE]
  /\ feed' = [feed EXCEPT ![p] = << >>]
  /\ UNCHANGED <<disk, wal, opens, used>>

(* EmbeddedDatabase::close, or the end of the process that opened it.      *)
Close(p) == pc[p] = "idle" /\ Leave(p) /\ UNCHANGED <<torn, epoch>>

(* The process dies; bytes it has not flushed are lost.                    *)
Crash(p) ==
  /\ pc[p] # "down"
  /\ (IF pc[p] = "write" THEN "tear" ELSE "crash") \in Faults
  /\ torn' = (torn \/ pc[p] = "write")
  /\ epoch' = IF pc[p] = "write" THEN EpochAfterTear(p) ELSE epoch
  /\ Leave(p)

Step(p) ==
  \/ Open(p) \/ AppendNoop(p) \/ MigrateDone(p) \/ Bootstrap(p)
  \/ \E t \in Tables, r \in Rows \ used : Insert(p, t, r)
  \/ InsertRejected(p)
  \/ \E t \in Tables : Select(p, t)
  \/ SaveTruncate(p) \/ SaveNotOpened(p) \/ SaveFlush(p) \/ SaveClose(p) \/ SaveLost(p)
  \/ HeapInsert(p) \/ Close(p) \/ Crash(p)

Next == \E p \in Procs : Step(p)

Spec == Init /\ [][Next]_vars

-----------------------------------------------------------------------------
(* Every variable keeps to its type: catalogues hold known rows, a process *)
(* is at one location, LSNs are positive (the fields of EmbeddedDatabase,  *)
(* NativeCatalog and WalWriter).                                           *)
TypeOK ==
  /\ disk \in Catalog
  /\ wal \in Seq(WalRecord)
  /\ opens \in Nat
  /\ torn \in BOOLEAN
  /\ epoch \in Nat
  /\ used \subseteq Rows
  /\ pc \in [Procs -> Location]
  /\ mem \in [Procs -> Catalog]
  /\ session \in [Procs -> Nat]
  /\ nextLsn \in [Procs -> Nat \ {0}]
  /\ cmd \in [Procs -> Command]
  /\ reply \in [Procs -> Reply]
  /\ sole \in [Procs -> BOOLEAN]
  /\ feed \in [Procs -> Seq(Nat)]

(* However the processes interleave in the one segment, the records of one *)
(* session are a log of their own: its first record is the Noop of open()  *)
(* with LSN 1, and each later one follows the one with the LSN before it   *)
(* (wal.cpp: one counter per WalWriter).                                   *)
SessionLogsAreSequential ==
  \A j \in 1..Len(wal) :
    /\ wal[j].lsn = 1 <=> wal[j].type = "noop"
    /\ wal[j].lsn > 1 => \E i \in 1..(j - 1) : /\ wal[i].session = wal[j].session
                                               /\ wal[i].lsn = wal[j].lsn - 1
    /\ \A i \in 1..(j - 1) : wal[i].session = wal[j].session => wal[i].lsn < wal[j].lsn

(* Change events and HeapInsert records of a session tell the same story:  *)
(* what the session published is, in LSN order, the LSNs of its HeapInsert *)
(* records and nothing else (NativeExecutor::insert).                      *)
FeedFollowsWal ==
  \A p \in Procs :
    /\ \A i, j \in 1..Len(feed[p]) : i < j => feed[p][i] < feed[p][j]
    /\ {feed[p][i] : i \in 1..Len(feed[p])} =
         {wal[i].lsn : i \in {k \in 1..Len(wal) : wal[k].session = session[p] /\ wal[k].type = "insert"}}

(* While a process is the only one to write the snapshot, what is in the   *)
(* file has a schema_migrations row only when every table before it in map *)
(* order is whole: of these, a snapshot torn by a crash that is taken for a*)
(* migrated one misses nothing.  Of the tables after it, which a bootstrap *)
(* does not create but an insert does (yanks), rows may be missing, and of *)
(* schema_migrations itself (save_snapshot writes in the order of std::map)*)
MarkerFollowsEarlierTables ==
  \A p \in Procs :
    pc[p] = "write" /\ sole[p] /\ Migrated(disk) => \A t \in BeforeMarker : disk[t] = mem[p][t]

\* What the data directory holds, a save in progress counted as done.
Stored(t) == IF \E p \in Procs : pc[p] = "write"
             THEN UNION {mem[p][t] : p \in {q \in Procs : pc[q] = "write"}}
             ELSE disk[t]

(* For one process at a time, and until a crash or a write error tears the *)
(* snapshot: a row whose HeapInsert record a migrated session appended     *)
(* stays in the directory, whatever later sessions open, migrate, insert,  *)
(* fail to save or die of (exec_parameterized saves before it logs; migrate*)
(* does not bootstrap a migrated catalogue).                               *)
LoggedRowsStayStored ==
  ~ torn =>
    \A i \in 1..Len(wal) :
      wal[i].type = "insert" /\ wal[i].marked => wal[i].row \in Stored(wal[i].table)

(* For one process at a time, and when the snapshot was torn: a catalogue  *)
(* that has a schema_migrations row is not missing a row of a table before *)
(* schema_migrations in map order that was logged on it since it got that  *)
(* row.  What a tear leaves of a marked catalogue is unmarked or whole up  *)
(* to the marker; statements on an unmarked one leave it unmarked, and what*)
(* marks it again is a bootstrap, which starts from nothing, a client's    *)
(* insert into schema_migrations, or a tear in the header that follows.    *)
MarkedCatalogIsComplete ==
  Migrated(disk) /\ (\A p \in Procs : pc[p] # "write") =>
    \A i \in 1..Len(wal) :
      wal[i].type = "insert" /\ wal[i].table \in BeforeMarker /\ wal[i].marked /\ wal[i].epoch = epoch =>
        wal[i].row \in disk[wal[i].table]

(* docs/architecture-native-li.md, RT-1: "Every committed heap INSERT ...  *)
(* produces a WAL record".  A row whose save failed stays in tables_, and  *)
(* the save of the next statement commits it without a record.             *)
CommittedRowsAreLogged ==
  (\A p \in Procs : pc[p] \in {"down", "noop", "idle"}) =>
    \A t \in Tables : \A r \in disk[t] \cap Rows :
      \E i \in 1..Len(wal) : wal[i].type = "insert" /\ wal[i].table = t /\ wal[i].row = r

=============================================================================

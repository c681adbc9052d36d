----------------------- MODULE EmbeddedDatabaseProofs -----------------------
(***************************************************************************)
(* What TLAPS proves of EmbeddedDatabase, for any processes, tables, rows  *)
(* and faults; and of the text of the snapshot, for any finite set of      *)
(* tables and rows: what a save writes is read again as SnapshotFile says, *)
(* whole or cut at any byte.                                               *)
(***************************************************************************)
EXTENDS SnapshotFile, SequenceLemmas, FiniteSetTheorems, TLAPS

-----------------------------------------------------------------------------
(* Catalogues.                                                             *)

LEMMA EmptyCatalogType == EmptyCatalog \in Catalog
BY DEF EmptyCatalog, Catalog

(* Whatever mixture of two snapshots is read back (replay_snapshot) holds  *)
(* known rows only.                                                        *)
LEMMA SplicesType ==
  ASSUME NEW a \in Catalog, NEW b \in Catalog
  PROVE  Splices(a, b) \subseteq Catalog
<1>1. SUFFICES ASSUME NEW k \in Tables, NEW S \in SUBSET CutTable(a, b, k)
               PROVE  [t \in Tables |-> IF Rank[t] < Rank[k] THEN a[t] ELSE IF t = k THEN S ELSE b[t]]
                        \in Catalog
  BY DEF Splices
<1>2. CutTable(a, b, k) \subseteq AllRows
  BY DEF CutTable, Catalog, AllRows
<1>. QED
  BY <1>2 DEF Catalog

LEMMA TornSavesType ==
  ASSUME NEW a \in Catalog
  PROVE  TornSaves(a) \subseteq Catalog
BY SplicesType, EmptyCatalogType DEF TornSaves

-----------------------------------------------------------------------------
(* Type correctness.                                                       *)

(* A record written by a well-typed process is a WAL record.               *)
LEMMA AppendType ==
  ASSUME TypeOK, NEW p \in Procs,
         NEW type \in {"noop", "insert"}, NEW table \in Tables, NEW row \in Rows \cup {MigRow},
         Append2Wal(p, type, table, row)
  PROVE  wal' \in Seq(WalRecord) /\ nextLsn' \in [Procs -> Nat \ {0}]
<1> DEFINE rec == [type |-> type, lsn |-> nextLsn[p], table |-> table,
                   session |-> session[p], row |-> row,
                   marked |-> Migrated(mem[p]), epoch |-> epoch]
<1>1. Migrated(mem[p]) \in BOOLEAN
  BY DEF Migrated
<1>2. /\ nextLsn[p] \in Nat \ {0}
      /\ session[p] \in Nat
      /\ epoch \in Nat
  BY DEF TypeOK
<1>3. rec \in WalRecord
  BY <1>1, <1>2 DEF WalRecord
<1>4. wal' = Append(wal, rec)
  BY DEF Append2Wal
<1>5. nextLsn' = [nextLsn EXCEPT ![p] = @ + 1]
  BY DEF Append2Wal
<1>6. wal' \in Seq(WalRecord)
  BY <1>3, <1>4 DEF TypeOK
<1>7. nextLsn' \in [Procs -> Nat \ {0}]
  BY <1>2, <1>5 DEF TypeOK
<1>. QED
  BY <1>6, <1>7

LEMMA NothingTypes ==
  NoCommand \in Command /\ NoReply \in Reply /\ FirstLsn \in Nat \ {0}
BY ConstantsAssumption DEF NoCommand, Command, NoReply, Reply, FirstLsn

LEMMA InitType == Init => TypeOK
<1>. SUFFICES ASSUME Init PROVE TypeOK
  OBVIOUS
<1>1. /\ mem \in [Procs -> Catalog]
      /\ cmd \in [Procs -> Command]
      /\ reply \in [Procs -> Reply]
      /\ nextLsn \in [Procs -> Nat \ {0}]
  BY NothingTypes, EmptyCatalogType DEF Init
<1>2. /\ pc \in [Procs -> Location]
      /\ session \in [Procs -> Nat]
      /\ sole \in [Procs -> BOOLEAN]
      /\ feed \in [Procs -> Seq(Nat)]
  BY DEF Init, Location
<1>3. disk \in Catalog /\ wal \in Seq(WalRecord) /\ used \subseteq Rows
  BY EmptyCatalogType DEF Init
<1>. QED
  BY <1>1, <1>2, <1>3 DEF Init, TypeOK

(* What save_snapshot is followed by keeps the types of what it changes.   *)
LEMMA SaveReturnsType ==
  ASSUME TypeOK, NEW p \in Procs, SaveReturns(p)
  PROVE  /\ pc' \in [Procs -> Location]
         /\ cmd' \in [Procs -> Command]
         /\ reply' \in [Procs -> Reply]
<1>1. NoCommand \in Command /\ Done("ok") \in Reply
  BY ConstantsAssumption DEF NoCommand, Command, Done, Reply
<1>2. CASE cmd[p].op = "insert"
  BY <1>2 DEF TypeOK, SaveReturns, Location
<1>3. CASE cmd[p].op # "insert"
  BY <1>1, <1>3 DEF TypeOK, SaveReturns, Location
<1>. QED
  BY <1>2, <1>3

LEMMA LeaveType ==
  ASSUME TypeOK, NEW p \in Procs, Leave(p), torn' \in BOOLEAN, epoch' \in Nat
  PROVE  TypeOK'
<1>1. /\ mem' \in [Procs -> Catalog]
      /\ cmd' \in [Procs -> Command]
      /\ reply' \in [Procs -> Reply]
      /\ nextLsn' \in [Procs -> Nat \ {0}]
  BY NothingTypes, EmptyCatalogType DEF TypeOK, Leave
<1>2. /\ pc' \in [Procs -> Location]
      /\ session' \in [Procs -> Nat]
      /\ sole' \in [Procs -> BOOLEAN]
      /\ feed' \in [Procs -> Seq(Nat)]
  BY DEF TypeOK, Leave, Location
<1>. QED
  BY <1>1, <1>2 DEF TypeOK, Leave

(* What a process does, whoever chose the row it inserts.                  *)
Work(p) == Step(p) \/ \E t \in Tables, r \in Rows : Insert(p, t, r)

\* A client chooses the row it will insert, before the statement runs.
Reserve == used' \subseteq Rows /\ UNCHANGED <<disk, wal, opens, torn, epoch, pc, mem, inProcess>>

\* All uses of a data directory: the clients of Spec, which choose a row when
\* they insert it, and those of EmbedSession, which choose it when they call.
DirectoryNext == Reserve \/ \E p \in Procs : Work(p)
Directory == Init /\ [][DirectoryNext]_vars

LEMMA SpecIsDirectory == Spec => Directory
<1>1. [Next]_vars => [DirectoryNext]_vars
  BY DEF Next, DirectoryNext, Work
<1>. QED
  BY <1>1, PTL DEF Spec, Directory

(* Every operation of a process keeps every variable in its type.          *)
LEMMA StepType ==
  ASSUME TypeOK, NEW p \in Procs, Work(p)
  PROVE  TypeOK'
<1>. USE ConstantsAssumption, EmptyCatalogType
<1>m. mem[p] \in Catalog /\ cmd[p] \in Command
  BY DEF TypeOK
<1>1. CASE Open(p)
  <2>1. PICK skipped \in SUBSET Tables : mem' = [mem EXCEPT ![p] = ReadBack(disk, skipped)]
    BY <1>1 DEF Open
  <2>2. ReadBack(disk, skipped) \in Catalog
    BY DEF TypeOK, ReadBack, Catalog
  <2>. QED
    BY <1>1, <2>1, <2>2 DEF TypeOK, Open, Location
<1>2. CASE AppendNoop(p)
  <2>1. wal' \in Seq(WalRecord) /\ nextLsn' \in [Procs -> Nat \ {0}]
    BY <1>2, AppendType DEF AppendNoop
  <2>. QED
    BY <1>2, <2>1 DEF TypeOK, AppendNoop, Location
<1>3. CASE MigrateDone(p)
  BY <1>3 DEF TypeOK, MigrateDone, Reply, Done
<1>4. CASE Bootstrap(p)
  <2>1. [EmptyCatalog EXCEPT ![MigTable] = {MigRow}] \in Catalog
    BY DEF Catalog, AllRows
  <2>. QED
    BY <1>4, <2>1 DEF TypeOK, Bootstrap, Location, Command, NoReply, Reply
<1>5. ASSUME NEW t \in Tables, NEW r \in Rows, Insert(p, t, r)
      PROVE  TypeOK'
  <2>1. mem' \in [Procs -> Catalog]
    <3>1. mem' = [mem EXCEPT ![p] = [mem[p] EXCEPT ![t] = @ \cup {r}]]
      BY <1>5 DEF Insert
    <3>2. [mem[p] EXCEPT ![t] = @ \cup {r}] \in Catalog
      BY <1>m DEF Catalog, AllRows
    <3>. QED
      BY <3>1, <3>2 DEF TypeOK
  <2>. QED
    BY <1>5, <2>1 DEF TypeOK, Insert, Location, Command, NoReply, Reply
<1>6. CASE InsertRejected(p)
  BY <1>6 DEF TypeOK, InsertRejected, Reply, Done
<1>7. ASSUME NEW t \in Tables, Select(p, t)
      PROVE  TypeOK'
  <2>1. mem[p][t] \subseteq AllRows
    BY <1>m DEF Catalog
  <2>. QED
    BY <1>7, <2>1 DEF TypeOK, Select, Reply
<1>8. CASE SaveTruncate(p)
  BY <1>8 DEF TypeOK, SaveTruncate, Location
<1>9. CASE SaveNotOpened(p)
  BY <1>9 DEF TypeOK, SaveNotOpened, Location, NoCommand, Command, Reply, Done
<1>10. CASE SaveFlush(p)
  <2>1. disk' \in Catalog
    BY <1>10, <1>m, SplicesType, TornSavesType DEF TypeOK, SaveFlush
  <2>. QED
    BY <1>10, <2>1 DEF TypeOK, SaveFlush, inProcess
<1>11. CASE SaveClose(p)
  <2>1. disk' \in Catalog
    BY <1>11, <1>m, SplicesType DEF TypeOK, SaveClose
  <2>. QED
    BY <1>11, <2>1, SaveReturnsType DEF TypeOK, SaveClose
<1>12. CASE SaveLost(p)
  BY <1>12, SaveReturnsType DEF TypeOK, SaveLost, EpochAfterTear
<1>13. CASE HeapInsert(p)
  <2>1. cmd[p].table \in Tables /\ cmd[p].row \in Rows \cup {MigRow}
    BY <1>m DEF Command
  <2>2. wal' \in Seq(WalRecord) /\ nextLsn' \in [Procs -> Nat \ {0}]
    BY <1>13, <2>1, AppendType DEF HeapInsert
  <2>3. feed' \in [Procs -> Seq(Nat)]
    BY <1>13 DEF TypeOK, HeapInsert
  <2>. QED
    BY <1>13, <2>2, <2>3 DEF TypeOK, HeapInsert, Location, NoCommand, Command, Reply, Done
<1>14. CASE Close(p)
  BY <1>14, LeaveType DEF TypeOK, Close
<1>15. CASE Crash(p)
  <2>1. epoch' \in Nat
    BY <1>15 DEF TypeOK, Crash, EpochAfterTear
  <2>2. torn' \in BOOLEAN
    BY <1>15 DEF TypeOK, Crash
  <2>. QED
    BY <1>15, <2>1, <2>2, LeaveType DEF Crash
<1>. QED
  BY <1>1, <1>2, <1>3, <1>4, <1>5, <1>6, <1>7, <1>8, <1>9, <1>10, <1>11, <1>12, <1>13, <1>14, <1>15
  DEF Work, Step

LEMMA DirectoryTypes == Directory => []TypeOK
<1>1. Init => TypeOK
  BY InitType
<1>2. TypeOK /\ [DirectoryNext]_vars => TypeOK'
  <2>1. CASE Reserve \/ UNCHANGED vars
    BY <2>1 DEF Reserve, vars, inProcess, TypeOK
  <2>. QED
    BY <2>1, StepType DEF DirectoryNext
<1>. QED
  BY <1>1, <1>2, PTL DEF Directory

(* Whatever any number of processes do to the directory, and whatever      *)
(* fails, the catalogues, the segment and the session state stay well      *)
(* formed (embedded.cpp, native_catalog.cpp, wal.cpp).                     *)
THEOREM TypeCorrect == Spec => []TypeOK
BY SpecIsDirectory, DirectoryTypes, PTL

-----------------------------------------------------------------------------
(* The order in which a snapshot is written.                               *)

\* What is in the file is not migrated, or has all the rows that the snapshot
\* has in the tables before schema_migrations.
Whole(file, snapshot) ==
  Migrated(file) => \A t \in BeforeMarker : file[t] = snapshot[t]

LEMMA TornSavesAreWhole ==
  ASSUME NEW a \in Catalog, NEW c \in TornSaves(a)
  PROVE  Whole(c, a)
<1>0. PICK k \in Tables :
        c \in { [t \in Tables |-> IF Rank[t] < Rank[k] THEN a[t] ELSE IF t = k THEN S ELSE EmptyCatalog[t]] :
                S \in SUBSET CutTable(a, EmptyCatalog, k) }
  BY DEF TornSaves, Splices
<1>1. PICK S \in SUBSET CutTable(a, EmptyCatalog, k) :
        c = [t \in Tables |-> IF Rank[t] < Rank[k] THEN a[t] ELSE IF t = k THEN S ELSE EmptyCatalog[t]]
  BY <1>0
<1>2. \A t \in Tables : Rank[t] \in Nat
  BY ConstantsAssumption
<1>3. SUFFICES ASSUME Migrated(c), NEW t \in BeforeMarker
               PROVE  c[t] = a[t]
  BY DEF Whole
<1>4. Rank[MigTable] < Rank[k] \/ MigTable = k
  BY <1>1, <1>3, ConstantsAssumption DEF Migrated, EmptyCatalog
<1>5. t \in Tables /\ Rank[t] < Rank[k]
  BY <1>2, <1>4, ConstantsAssumption DEF BeforeMarker
<1>. QED
  BY <1>1, <1>5

(* The writer that `sole` names is alone, and what it has written so far is*)
(* a whole snapshot or an unmarked one.                                    *)
SoleWriter ==
  \A p \in Procs :
    pc[p] = "write" /\ sole[p] =>
      /\ \A q \in Procs \ {p} : pc[q] # "write"
      /\ Whole(disk, mem[p])

LEMMA SoleWriterStep ==
  ASSUME TypeOK, SoleWriter, NEW p \in Procs, Work(p)
  PROVE  SoleWriter'
<1>1. SUFFICES ASSUME NEW q \in Procs, pc'[q] = "write", sole'[q]
               PROVE  /\ \A o \in Procs \ {q} : pc'[o] # "write"
                      /\ Whole(disk', mem'[q])
  BY DEF SoleWriter
<1>2. CASE SaveTruncate(p)
  <2>1. disk' = EmptyCatalog
    BY <1>2 DEF SaveTruncate
  <2>2. Whole(disk', mem'[q])
    BY <2>1, ConstantsAssumption DEF Whole, Migrated, EmptyCatalog
  <2>3. pc' = [pc EXCEPT ![p] = "write"]
    BY <1>2 DEF SaveTruncate
  <2>4. q = p /\ \A o \in Procs \ {p} : pc[o] # "write"
    BY <1>1, <1>2, <2>3 DEF SaveTruncate, TypeOK
  <2>. QED
    BY <2>2, <2>3, <2>4 DEF TypeOK
<1>3. CASE SaveFlush(p)
  <2>1. UNCHANGED <<pc, sole, mem>>
    BY <1>3 DEF SaveFlush, inProcess
  <2>2. \A o \in Procs \ {q} : pc[o] # "write"
    BY <1>1, <2>1 DEF SoleWriter
  <2>3. q = p
    BY <1>1, <1>3, <2>2 DEF SaveFlush
  <2>4. disk' \in TornSaves(mem[p])
    BY <1>1, <1>3, <2>1, <2>3 DEF SaveFlush
  <2>5. Whole(disk', mem[p])
    BY <2>4, TornSavesAreWhole DEF TypeOK
  <2>. QED
    BY <2>1, <2>2, <2>3, <2>5
<1>4. CASE SaveClose(p)
  <2>1. pc[p] = "write" /\ pc'[p] # "write" /\ \A o \in Procs \ {p} : pc'[o] = pc[o]
    BY <1>4 DEF SaveClose, SaveReturns, TypeOK
  <2>2. q # p /\ pc[q] = "write" /\ sole[q]
    BY <1>1, <1>4, <2>1 DEF SaveClose
  <2>. QED
    BY <2>1, <2>2 DEF SoleWriter
<1>5. CASE /\ ~ SaveTruncate(p) /\ ~ SaveFlush(p) /\ ~ SaveClose(p)
           /\ UNCHANGED disk
           /\ pc'[p] # "write"
           /\ \A o \in Procs \ {p} : pc'[o] = pc[o] /\ mem'[o] = mem[o] /\ sole'[o] = sole[o]
  BY <1>1, <1>5 DEF SoleWriter
<1>6. ASSUME ~ SaveTruncate(p), ~ SaveFlush(p), ~ SaveClose(p)
      PROVE  /\ UNCHANGED disk
             /\ pc'[p] # "write"
             /\ \A o \in Procs \ {p} : pc'[o] = pc[o] /\ mem'[o] = mem[o] /\ sole'[o] = sole[o]
  BY <1>6 DEF Work, Step, TypeOK, Open, AppendNoop, MigrateDone, Bootstrap, Insert, InsertRejected, Select,
     SaveNotOpened, SaveLost, SaveReturns, HeapInsert, Append2Wal, Close, Crash, Leave
<1>. QED
  BY <1>2, <1>3, <1>4, <1>5, <1>6

LEMMA DirectoryMarkers == Directory => []MarkerFollowsEarlierTables
<1>1. Init => SoleWriter
  BY DEF Init, SoleWriter
<1>2. TypeOK /\ SoleWriter /\ [DirectoryNext]_vars => SoleWriter'
  <2>1. CASE Reserve \/ UNCHANGED vars
    BY <2>1 DEF Reserve, vars, inProcess, SoleWriter, Whole, Migrated
  <2>. QED
    BY <2>1, SoleWriterStep DEF DirectoryNext
<1>3. SoleWriter => MarkerFollowsEarlierTables
  BY DEF SoleWriter, Whole, MarkerFollowsEarlierTables
<1>. QED
  BY <1>1, <1>2, <1>3, DirectoryTypes, PTL DEF Directory

(* For any number of processes and tables: a snapshot that only one process*)
(* is writing shows a schema_migrations row only when the tables before it *)
(* in map order are whole (save_snapshot).  Of the tables after it, which  *)
(* yanks is one of, it says nothing: they may be missing.                  *)
THEOREM MarkerComesAfter == Spec => []MarkerFollowsEarlierTables
BY SpecIsDirectory, DirectoryMarkers, PTL

-----------------------------------------------------------------------------
(* The segment after one more record.                                      *)
LEMMA AppendRecords ==
  ASSUME TypeOK, NEW p \in Procs, NEW type \in {"noop", "insert"}, NEW table \in Tables,
         NEW row \in Rows \cup {MigRow}, Append2Wal(p, type, table, row)
  PROVE  /\ Len(wal) \in Nat
         /\ Len(wal') = Len(wal) + 1
         /\ \A i \in 1..Len(wal) : wal'[i] = wal[i]
         /\ wal'[Len(wal')].type = type
         /\ wal'[Len(wal')].lsn = nextLsn[p]
         /\ wal'[Len(wal')].table = table
         /\ wal'[Len(wal')].session = session[p]
         /\ wal'[Len(wal')].row = row
         /\ wal'[Len(wal')].marked = Migrated(mem[p])
         /\ wal'[Len(wal')].epoch = epoch
<1>1. Len(wal) \in Nat /\ Len(wal') = Len(wal) + 1 /\ \A i \in 1..Len(wal) : wal'[i] = wal[i]
  BY DEF TypeOK, Append2Wal
<1>2. wal'[Len(wal')] = [type |-> type, lsn |-> nextLsn[p], table |-> table,
                         session |-> session[p], row |-> row,
                         marked |-> Migrated(mem[p]), epoch |-> epoch]
  BY DEF TypeOK, Append2Wal
<1>. QED
  BY <1>1, <1>2

-----------------------------------------------------------------------------
(* The WAL segment that the processes share, and their change events.      *)

\* The sessions of open processes are different, and have begun.
Sessions ==
  /\ \A i \in 1..Len(wal) : wal[i].session \in 1..opens
  /\ \A p \in Procs : session[p] \in 0..opens /\ (pc[p] = "down" <=> session[p] = 0)
  /\ \A p, q \in Procs : pc[p] # "down" /\ session[p] = session[q] => p = q

\* The counter of a process is one above the LSNs of its session; before the
\* Noop of open() it is 1 and there is no record.
Counter(p) ==
  IF pc[p] \in {"down", "noop"}
    THEN nextLsn[p] = 1 /\ \A i \in 1..Len(wal) : wal[i].session # session[p]
    ELSE /\ nextLsn[p] > 1
         /\ \A i \in 1..Len(wal) : wal[i].session = session[p] => wal[i].lsn < nextLsn[p]
         /\ \E i \in 1..Len(wal) : wal[i].session = session[p] /\ wal[i].lsn = nextLsn[p] - 1

SessionLogs == Sessions /\ (\A p \in Procs : Counter(p)) /\ SessionLogsAreSequential

\* The steps that append a record, and its type.
Logs(p, type) == IF type = "noop" THEN AppendNoop(p) ELSE HeapInsert(p)

-----------------------------------------------------------------------------
LEMMA LogsAppend ==
  ASSUME TypeOK, NEW p \in Procs, NEW type \in {"noop", "insert"}, Logs(p, type)
  PROVE  /\ Len(wal) \in Nat
         /\ Len(wal') = Len(wal) + 1
         /\ \A i \in 1..Len(wal) : wal'[i] = wal[i]
         /\ wal'[Len(wal')].type = type
         /\ wal'[Len(wal')].lsn = nextLsn[p]
         /\ wal'[Len(wal')].session = session[p]
         /\ nextLsn' = [nextLsn EXCEPT ![p] = @ + 1]
         /\ UNCHANGED <<opens, session>>
         /\ pc[p] = "noop" <=> type = "noop"
         /\ pc[p] # "down"
         /\ pc' = [pc EXCEPT ![p] = "idle"]
<1>1. CASE type = "noop"
  <2>1. Append2Wal(p, "noop", MigTable, MigRow)
    BY <1>1 DEF Logs, AppendNoop
  <2>2. /\ Len(wal) \in Nat
        /\ Len(wal') = Len(wal) + 1
        /\ \A i \in 1..Len(wal) : wal'[i] = wal[i]
        /\ wal'[Len(wal')].type = "noop"
        /\ wal'[Len(wal')].lsn = nextLsn[p]
        /\ wal'[Len(wal')].session = session[p]
    BY <2>1, ConstantsAssumption, AppendRecords
  <2>3. /\ nextLsn' = [nextLsn EXCEPT ![p] = @ + 1]
        /\ UNCHANGED <<opens, session>>
        /\ pc[p] = "noop"
        /\ pc' = [pc EXCEPT ![p] = "idle"]
    BY <1>1, <2>1 DEF Logs, AppendNoop, Append2Wal
  <2>. QED
    BY <1>1, <2>2, <2>3
<1>2. CASE type = "insert"
  <2>1. Append2Wal(p, "insert", cmd[p].table, cmd[p].row)
    BY <1>2 DEF Logs, HeapInsert
  <2>2. cmd[p].table \in Tables /\ cmd[p].row \in Rows \cup {MigRow}
    BY DEF TypeOK, Command
  <2>3. /\ Len(wal) \in Nat
        /\ Len(wal') = Len(wal) + 1
        /\ \A i \in 1..Len(wal) : wal'[i] = wal[i]
        /\ wal'[Len(wal')].type = "insert"
        /\ wal'[Len(wal')].lsn = nextLsn[p]
        /\ wal'[Len(wal')].session = session[p]
    BY <2>1, <2>2, AppendRecords
  <2>4. /\ nextLsn' = [nextLsn EXCEPT ![p] = @ + 1]
        /\ UNCHANGED <<opens, session>>
        /\ pc[p] = "log"
        /\ pc' = [pc EXCEPT ![p] = "idle"]
    BY <1>2, <2>1 DEF Logs, HeapInsert, Append2Wal
  <2>. QED
    BY <1>2, <2>3, <2>4
<1>. QED
  BY <1>1, <1>2

(* Every other step leaves the segment alone, and either opens a new       *)
(* session, ends one, or keeps the session and its counter.                *)
LEMMA OtherSteps ==
  ASSUME TypeOK, NEW p \in Procs, Work(p), ~ AppendNoop(p), ~ HeapInsert(p)
  PROVE  /\ UNCHANGED wal
         /\ \A q \in Procs \ {p} : /\ pc'[q] = pc[q] /\ session'[q] = session[q]
                                   /\ nextLsn'[q] = nextLsn[q] /\ feed'[q] = feed[q]
         /\ \/ /\ pc[p] = "down" /\ pc'[p] = "noop"
               /\ opens' = opens + 1 /\ session'[p] = opens + 1
               /\ nextLsn'[p] = nextLsn[p] /\ feed'[p] = feed[p]
            \/ /\ pc'[p] = "down" /\ session'[p] = 0 /\ nextLsn'[p] = 1 /\ feed'[p] = << >>
               /\ opens' = opens
            \/ /\ pc[p] \notin {"down", "noop"} /\ pc'[p] \notin {"down", "noop"}
               /\ opens' = opens /\ session'[p] = session[p]
               /\ nextLsn'[p] = nextLsn[p] /\ feed'[p] = feed[p]
<1>1. CASE Open(p)
  BY <1>1 DEF Open, TypeOK
<1>2. CASE Close(p) \/ Crash(p)
  BY <1>2 DEF Close, Crash, Leave, TypeOK, FirstLsn
<1>3. ASSUME ~ Open(p), ~ Close(p), ~ Crash(p)
      PROVE  /\ UNCHANGED <<wal, opens, session, nextLsn, feed>>
             /\ pc[p] \notin {"down", "noop"} /\ pc'[p] \notin {"down", "noop"}
             /\ \A q \in Procs \ {p} : pc'[q] = pc[q]
  BY <1>3 DEF Work, Step, TypeOK, MigrateDone, Bootstrap, Insert, InsertRejected, Select, SaveTruncate,
     SaveNotOpened, SaveFlush, SaveClose, SaveLost, SaveReturns, inProcess
<1>. QED
  BY <1>1, <1>2, <1>3

(* A record goes to the end of its session's log.                          *)
LEMMA AppendSequential ==
  ASSUME TypeOK, SessionLogs, NEW p \in Procs, NEW type \in {"noop", "insert"}, Logs(p, type)
  PROVE  SessionLogs'
<1>1. /\ Len(wal) \in Nat
      /\ Len(wal') = Len(wal) + 1
      /\ \A i \in 1..Len(wal) : wal'[i] = wal[i]
      /\ wal'[Len(wal')].type = type
      /\ wal'[Len(wal')].lsn = nextLsn[p]
      /\ wal'[Len(wal')].session = session[p]
  BY LogsAppend
<1>2. /\ nextLsn' = [nextLsn EXCEPT ![p] = @ + 1]
      /\ UNCHANGED <<opens, session>>
      /\ pc[p] = "noop" <=> type = "noop"
      /\ pc[p] # "down"
      /\ pc' = [pc EXCEPT ![p] = "idle"]
  BY LogsAppend
<1>3. nextLsn[p] \in Nat \ {0} /\ opens \in Nat /\ session[p] \in 1..opens
  BY <1>2 DEF TypeOK, SessionLogs, Sessions
<1>4. \A i \in 1..Len(wal) : wal[i].lsn \in Nat \ {0} /\ wal[i].session \in Nat
  <2>1. \A i \in 1..Len(wal) : wal[i] \in WalRecord
    BY DEF TypeOK
  <2>. QED
    BY <2>1 DEF WalRecord
<1>5. Sessions'
  <2>1. \A i \in 1..Len(wal') : wal'[i].session \in 1..opens'
    BY <1>1, <1>2, <1>3 DEF SessionLogs, Sessions
  <2>2. \A q \in Procs : pc'[q] = "down" <=> pc[q] = "down"
    BY <1>2 DEF TypeOK
  <2>. QED
    BY <1>2, <2>1, <2>2 DEF SessionLogs, Sessions
<1>6. ASSUME NEW q \in Procs
      PROVE  Counter(q)'
  <2>1. CASE q = p
    <3>1. pc'[p] = "idle" /\ nextLsn'[p] = nextLsn[p] + 1 /\ session'[p] = session[p]
      BY <1>2 DEF TypeOK
    <3>2. \A i \in 1..Len(wal') : wal'[i].session = session[p] => wal'[i].lsn < nextLsn[p] + 1
      <4>1. \A i \in 1..Len(wal) : wal[i].session = session[p] => wal[i].lsn < nextLsn[p] + 1
        <5>1. Counter(p)
          BY DEF SessionLogs
        <5>. QED
          BY <1>3, <1>4, <5>1 DEF Counter
      <4>2. ASSUME NEW i \in 1..Len(wal'), wal'[i].session = session[p]
            PROVE  wal'[i].lsn < nextLsn[p] + 1
        <5>1. CASE i = Len(wal')
          BY <1>1, <1>3, <5>1
        <5>2. CASE i \in 1..Len(wal)
          BY <1>1, <4>1, <4>2, <5>2
        <5>. QED
          BY <1>1, <5>1, <5>2
      <4>. QED
        BY <4>2
    <3>. QED
      BY <1>1, <1>3, <2>1, <3>1, <3>2 DEF Counter
  <2>2. CASE q # p
    <3>1. pc'[q] = pc[q] /\ nextLsn'[q] = nextLsn[q] /\ session'[q] = session[q]
      BY <1>2, <2>2 DEF TypeOK
    <3>2. session[q] # session[p]
      BY <1>2, <2>2 DEF SessionLogs, Sessions
    <3>3. Counter(q)
      BY DEF SessionLogs
    <3>4. CASE pc[q] \in {"down", "noop"}
      BY <1>1, <3>1, <3>2, <3>3, <3>4 DEF Counter
    <3>5. CASE pc[q] \notin {"down", "noop"}
      <4>1. \A i \in 1..Len(wal') : wal'[i].session = session[q] => wal'[i].lsn < nextLsn[q]
        BY <1>1, <3>2, <3>3, <3>5 DEF Counter
      <4>2. PICK i \in 1..Len(wal) : wal[i].session = session[q] /\ wal[i].lsn = nextLsn[q] - 1
        BY <3>3, <3>5 DEF Counter
      <4>3. i \in 1..Len(wal') /\ wal'[i].session = session[q] /\ wal'[i].lsn = nextLsn[q] - 1
        BY <1>1, <4>2
      <4>. QED
        BY <3>1, <3>3, <3>5, <4>1, <4>3 DEF Counter
    <3>. QED
      BY <3>4, <3>5
  <2>. QED
    BY <2>1, <2>2
<1>7. ASSUME NEW j \in 1..Len(wal')
      PROVE  /\ wal'[j].lsn = 1 <=> wal'[j].type = "noop"
             /\ wal'[j].lsn > 1 => \E i \in 1..(j - 1) : /\ wal'[i].session = wal'[j].session
                                                        /\ wal'[i].lsn = wal'[j].lsn - 1
             /\ \A i \in 1..(j - 1) : wal'[i].session = wal'[j].session => wal'[i].lsn < wal'[j].lsn
  <2>1. CASE j \in 1..Len(wal)
    <3>1. \A i \in 1..j : wal'[i] = wal[i]
      BY <1>1, <2>1
    <3>. QED
      BY <2>1, <3>1 DEF SessionLogs, SessionLogsAreSequential
  <2>2. CASE j = Len(wal')
    <3>1. j - 1 = Len(wal)
      BY <1>1, <2>2
    <3>2. CASE type = "noop"
      BY <1>1, <1>2, <2>2, <3>1, <3>2 DEF SessionLogs, Counter
    <3>3. CASE type = "insert"
      <4>1. /\ nextLsn[p] > 1
            /\ \A i \in 1..Len(wal) : wal[i].session = session[p] => wal[i].lsn < nextLsn[p]
            /\ \E i \in 1..Len(wal) : wal[i].session = session[p] /\ wal[i].lsn = nextLsn[p] - 1
        BY <1>2, <3>3 DEF SessionLogs, Counter
      <4>. QED
        BY <1>1, <2>2, <3>1, <3>3, <4>1
    <3>. QED
      BY <3>2, <3>3
  <2>. QED
    BY <1>1, <2>1, <2>2
<1>. QED
  BY <1>5, <1>6, <1>7 DEF SessionLogs, SessionLogsAreSequential

(* Opening and closing sessions, and everything else, keeps the logs.      *)
LEMMA OthersSequential ==
  ASSUME TypeOK, TypeOK', SessionLogs, NEW p \in Procs, Work(p), ~ AppendNoop(p), ~ HeapInsert(p)
  PROVE  SessionLogs'
<1>1. /\ UNCHANGED wal
      /\ \A q \in Procs \ {p} : /\ pc'[q] = pc[q] /\ session'[q] = session[q]
                                /\ nextLsn'[q] = nextLsn[q] /\ feed'[q] = feed[q]
  BY OtherSteps
<1>2. \/ /\ pc[p] = "down" /\ pc'[p] = "noop"
         /\ opens' = opens + 1 /\ session'[p] = opens + 1
         /\ nextLsn'[p] = nextLsn[p]
      \/ pc'[p] = "down" /\ session'[p] = 0 /\ nextLsn'[p] = 1 /\ opens' = opens
      \/ /\ pc[p] \notin {"down", "noop"} /\ pc'[p] \notin {"down", "noop"}
         /\ opens' = opens /\ session'[p] = session[p]
         /\ nextLsn'[p] = nextLsn[p]
  BY OtherSteps
<1>3. opens \in Nat /\ opens' \in {opens, opens + 1}
  BY <1>2 DEF TypeOK
<1>4. Sessions'
  <2>1. \A i \in 1..Len(wal') : wal'[i].session \in 1..opens'
    BY <1>1, <1>3 DEF SessionLogs, Sessions
  <2>2. \A q \in Procs : session'[q] \in 0..opens' /\ (pc'[q] = "down" <=> session'[q] = 0)
    BY <1>1, <1>2, <1>3 DEF SessionLogs, Sessions
  <2>3. \A q, r \in Procs : pc'[q] # "down" /\ session'[q] = session'[r] => q = r
    BY <1>1, <1>2, <1>3 DEF SessionLogs, Sessions
  <2>. QED
    BY <2>1, <2>2, <2>3 DEF Sessions
<1>5. ASSUME NEW q \in Procs
      PROVE  Counter(q)'
  <2>1. CASE q # p
    BY <1>1, <2>1 DEF SessionLogs, Counter
  <2>2. CASE q = p
    <3>1. \A i \in 1..Len(wal) : wal[i].session # 0 /\ wal[i].session # opens + 1
      BY <1>3 DEF SessionLogs, Sessions
    <3>2. Counter(p)
      BY DEF SessionLogs
    <3>. QED
      BY <1>1, <1>2, <2>2, <3>1, <3>2 DEF Counter
  <2>. QED
    BY <2>1, <2>2
<1>6. SessionLogsAreSequential'
  BY <1>1 DEF SessionLogs, SessionLogsAreSequential
<1>. QED
  BY <1>4, <1>5, <1>6 DEF SessionLogs

LEMMA SessionLogsInvariant == Directory => []SessionLogs
<1>1. Init => SessionLogs
  BY DEF Init, SessionLogs, Sessions, Counter, SessionLogsAreSequential, FirstLsn
<1>2. TypeOK /\ TypeOK' /\ SessionLogs /\ [DirectoryNext]_vars => SessionLogs'
  <2>1. CASE Reserve \/ UNCHANGED vars
    BY <2>1 DEF Reserve, vars, inProcess, SessionLogs, Sessions, Counter, SessionLogsAreSequential
  <2>2. ASSUME TypeOK, TypeOK', SessionLogs, NEW p \in Procs, Work(p)
        PROVE  SessionLogs'
    BY <2>2, AppendSequential, OthersSequential DEF Logs
  <2>. QED
    BY <2>1, <2>2 DEF DirectoryNext
<1>. QED
  BY <1>1, <1>2, DirectoryTypes, PTL DEF Directory

LEMMA DirectoryIsSequential == Directory => []SessionLogsAreSequential
<1>1. SessionLogs => SessionLogsAreSequential
  BY DEF SessionLogs
<1>. QED
  BY <1>1, SessionLogsInvariant, PTL

(* For any number of processes that open the directory whenever they like: *)
(* the records of one session are numbered 1, 2, 3, ... in the order of the*)
(* segment and begin with the Noop of open() (WalWriter::append).          *)
THEOREM SessionsAreSequential == Spec => []SessionLogsAreSequential
BY SpecIsDirectory, DirectoryIsSequential, PTL

-----------------------------------------------------------------------------
(* The events of a session.                                                *)

\* The LSNs of the HeapInsert records of the session of a process.
InsertLsns(p) == {wal[i].lsn : i \in {k \in 1..Len(wal) : wal[k].session = session[p] /\ wal[k].type = "insert"}}

EventsOf(p) ==
  /\ \A i, j \in 1..Len(feed[p]) : i < j => feed[p][i] < feed[p][j]
  /\ {feed[p][i] : i \in 1..Len(feed[p])} = InsertLsns(p)

(* An event has the LSN of the record that was appended just before it,    *)
(* which is above those of all records of its session.                     *)
LEMMA EventsStep ==
  ASSUME TypeOK, SessionLogs, \A q \in Procs : EventsOf(q), NEW p \in Procs, Work(p)
  PROVE  \A q \in Procs : EventsOf(q)'
<1>1. ASSUME NEW q \in Procs \ {p}, NEW type \in {"noop", "insert"}, Logs(p, type)
      PROVE  EventsOf(q)'
  <2>1. /\ Len(wal) \in Nat
        /\ Len(wal') = Len(wal) + 1
        /\ \A i \in 1..Len(wal) : wal'[i] = wal[i]
        /\ wal'[Len(wal')].session = session[p]
        /\ UNCHANGED session
        /\ pc[p] # "down"
    BY <1>1, LogsAppend
  <2>2. session[p] # session[q]
    BY <2>1 DEF SessionLogs, Sessions
  <2>3. InsertLsns(q)' = InsertLsns(q)
    BY <2>1, <2>2 DEF InsertLsns
  <2>4. feed'[q] = feed[q]
    BY <1>1 DEF Logs, AppendNoop, HeapInsert, TypeOK
  <2>5. EventsOf(q)
    OBVIOUS
  <2>. QED
    BY <2>3, <2>4, <2>5 DEF EventsOf
<1>2. CASE AppendNoop(p)
  <2>1. /\ Len(wal) \in Nat
        /\ Len(wal') = Len(wal) + 1
        /\ \A i \in 1..Len(wal) : wal'[i] = wal[i]
        /\ wal'[Len(wal')].type = "noop"
        /\ UNCHANGED session
    BY <1>2, LogsAppend DEF Logs
  <2>2. InsertLsns(p)' = InsertLsns(p)
    BY <2>1 DEF InsertLsns
  <2>3. feed' = feed /\ EventsOf(p)
    BY <1>2 DEF AppendNoop
  <2>4. EventsOf(p)'
    BY <2>2, <2>3 DEF EventsOf
  <2>. QED
    BY <1>1, <1>2, <2>4 DEF Logs
<1>3. CASE HeapInsert(p)
  <2>1. /\ Len(wal) \in Nat
        /\ Len(wal') = Len(wal) + 1
        /\ \A i \in 1..Len(wal) : wal'[i] = wal[i]
        /\ wal'[Len(wal')].type = "insert"
        /\ wal'[Len(wal')].lsn = nextLsn[p]
        /\ wal'[Len(wal')].session = session[p]
        /\ UNCHANGED session
    BY <1>3, LogsAppend DEF Logs
  <2>2. InsertLsns(p)' = InsertLsns(p) \cup {nextLsn[p]}
    BY <2>1 DEF InsertLsns
  <2>3. feed'[p] = Append(feed[p], nextLsn[p]) /\ feed[p] \in Seq(Nat) /\ nextLsn[p] \in Nat
    BY <1>3 DEF HeapInsert, TypeOK
  <2>4. /\ Len(feed[p]) \in Nat
        /\ Len(feed'[p]) = Len(feed[p]) + 1
        /\ \A i \in 1..Len(feed[p]) : feed'[p][i] = feed[p][i]
        /\ feed'[p][Len(feed[p]) + 1] = nextLsn[p]
    BY <2>3
  <2>5. /\ \A i, j \in 1..Len(feed[p]) : i < j => feed[p][i] < feed[p][j]
        /\ {feed[p][i] : i \in 1..Len(feed[p])} = InsertLsns(p)
    BY DEF EventsOf
  <2>6. pc[p] = "log"
    BY <1>3 DEF HeapInsert
  <2>7. \A n \in InsertLsns(p) : n < nextLsn[p]
    BY <2>6 DEF InsertLsns, SessionLogs, Counter
  <2>8. \A i \in 1..Len(feed[p]) : feed[p][i] < nextLsn[p]
    BY <2>5, <2>7
  <2>9. \A i, j \in 1..Len(feed'[p]) : i < j => feed'[p][i] < feed'[p][j]
    BY <2>4, <2>5, <2>8
  <2>10. {feed'[p][i] : i \in 1..Len(feed'[p])} = {feed[p][i] : i \in 1..Len(feed[p])} \cup {nextLsn[p]}
    <3>1. ASSUME NEW i \in 1..Len(feed'[p])
          PROVE  feed'[p][i] = nextLsn[p] \/ (i \in 1..Len(feed[p]) /\ feed'[p][i] = feed[p][i])
      BY <2>4
    <3>2. 1..Len(feed[p]) \subseteq 1..Len(feed'[p]) /\ Len(feed[p]) + 1 \in 1..Len(feed'[p])
      BY <2>4
    <3>. QED
      BY <2>4, <3>1, <3>2
  <2>11. EventsOf(p)'
    BY <2>2, <2>5, <2>9, <2>10 DEF EventsOf
  <2>. QED
    BY <1>1, <1>3, <2>11 DEF Logs
<1>4. ASSUME ~ AppendNoop(p), ~ HeapInsert(p), NEW q \in Procs
      PROVE  EventsOf(q)'
  <2>1. UNCHANGED wal
    BY <1>4, OtherSteps
  <2>2. EventsOf(q)
    OBVIOUS
  <2>3. CASE session'[q] = session[q] /\ feed'[q] = feed[q]
    <3>1. InsertLsns(q)' = InsertLsns(q)
      BY <2>1, <2>3 DEF InsertLsns
    <3>. QED
      BY <2>2, <2>3, <3>1 DEF EventsOf
  <2>4. CASE feed'[q] = << >> /\ session'[q] = 0
    <3>1. InsertLsns(q)' = {}
      BY <2>1, <2>4 DEF InsertLsns, SessionLogs, Sessions
    <3>. QED
      BY <2>4, <3>1 DEF EventsOf
  <2>5. CASE feed'[q] = feed[q] /\ session'[q] = opens + 1 /\ pc[q] = "down"
    <3>1. InsertLsns(q)' = {}
      BY <2>1, <2>5 DEF InsertLsns, SessionLogs, Sessions, TypeOK
    <3>2. InsertLsns(q) = {}
      BY <2>5 DEF InsertLsns, SessionLogs, Counter
    <3>. QED
      BY <2>2, <2>5, <3>1, <3>2 DEF EventsOf
  <2>. QED
    BY <1>4, <2>3, <2>4, <2>5, OtherSteps
<1>. QED
  BY <1>2, <1>3, <1>4

LEMMA DirectoryEvents == Directory => []FeedFollowsWal
<1> DEFINE Inv == \A p \in Procs : EventsOf(p)
<1>1. Init => Inv
  BY DEF Init, EventsOf, InsertLsns
<1>2. TypeOK /\ SessionLogs /\ Inv /\ [DirectoryNext]_vars => Inv'
  <2>1. CASE Reserve \/ UNCHANGED vars
    <3>1. UNCHANGED <<wal, session, feed>>
      BY <2>1 DEF Reserve, vars, inProcess
    <3>2. \A p \in Procs : InsertLsns(p)' = InsertLsns(p)
      BY <3>1 DEF InsertLsns
    <3>. QED
      BY <3>1, <3>2 DEF EventsOf
  <2>2. ASSUME TypeOK, SessionLogs, Inv, NEW p \in Procs, Work(p)
        PROVE  Inv'
    BY <2>2, EventsStep
  <2>. QED
    BY <2>1, <2>2 DEF DirectoryNext
<1>3. Inv => FeedFollowsWal
  BY DEF EventsOf, InsertLsns, FeedFollowsWal
<1>. QED
  BY <1>1, <1>2, <1>3, DirectoryTypes, SessionLogsInvariant, PTL DEF Directory

(* For any number of processes: the change events of a session are exactly *)
(* its HeapInsert records, in LSN order (NativeExecutor::insert).          *)
THEOREM EventsFollowRecords == Spec => []FeedFollowsWal
BY SpecIsDirectory, DirectoryEvents, PTL

-----------------------------------------------------------------------------
(* The rows a process logged, and the catalogue that is left when a save   *)
(* was torn, as long as no two processes have the directory open at once.  *)
(* The engine does not ensure that; the locks of embed_engine.py do        *)
(* (OneChildAtATime of EmbedSession).                                      *)

OneOpen == \A p, q \in Procs : pc[p] # "down" /\ pc[q] # "down" => p = q

\* The state of a statement from its execution in memory to its WAL record.
StatementsAreInMemory ==
  /\ \A p \in Procs :
       /\ pc[p] = "log" => cmd[p].op = "insert"
       /\ pc[p] \in {"save", "write", "log"} /\ cmd[p].op = "insert" =>
            cmd[p].table \in Tables /\ cmd[p].row \in mem[p][cmd[p].table]
  /\ \A i \in 1..Len(wal) : wal[i].type = "insert" => wal[i].table \in Tables

-----------------------------------------------------------------------------
(* A statement goes from memory to the file to the log.                    *)
LEMMA StatementsStep ==
  ASSUME TypeOK, StatementsAreInMemory, NEW p \in Procs, Work(p)
  PROVE  StatementsAreInMemory'
<1>. DEFINE InMemory(q) ==
       /\ pc[q] = "log" => cmd[q].op = "insert"
       /\ pc[q] \in {"save", "write", "log"} /\ cmd[q].op = "insert" =>
            cmd[q].table \in Tables /\ cmd[q].row \in mem[q][cmd[q].table]
<1>. DEFINE Tabled == \A i \in 1..Len(wal) : wal[i].type = "insert" => wal[i].table \in Tables
<1>0. InMemory(p) /\ Tabled /\ \A q \in Procs : InMemory(q)
  BY DEF StatementsAreInMemory
<1>1. ASSUME NEW q \in Procs \ {p}
      PROVE  InMemory(q)'
  <2>1. pc'[q] = pc[q] /\ cmd'[q] = cmd[q] /\ mem'[q] = mem[q]
    BY DEF Work, Step, TypeOK, Open, AppendNoop, MigrateDone, Bootstrap, Insert, InsertRejected, Select,
       SaveTruncate, SaveNotOpened, SaveFlush, SaveClose, SaveLost, SaveReturns, HeapInsert,
       Append2Wal, Close, Crash, Leave, inProcess
  <2>. QED
    BY <1>0, <2>1
<1>2. InMemory(p)' /\ Tabled'
  <2>1. CASE AppendNoop(p)
    <3>0. Append2Wal(p, "noop", MigTable, MigRow)
      BY <2>1 DEF AppendNoop
    <3>1. Tabled'
      <4>1. wal'[Len(wal')].type = "noop"
        BY <3>0, ConstantsAssumption, AppendRecords
      <4>2. Len(wal) \in Nat /\ Len(wal') = Len(wal) + 1
        BY <3>0, ConstantsAssumption, AppendRecords
      <4>3. \A i \in 1..Len(wal) : wal'[i] = wal[i]
        BY <3>0, ConstantsAssumption, AppendRecords
      <4>. QED
        BY <4>1, <4>2, <4>3, <1>0
    <3>2. pc'[p] = "idle"
      BY <2>1 DEF AppendNoop, TypeOK
    <3>. QED
      BY <3>1, <3>2
  <2>2. CASE HeapInsert(p)
    <3>1. cmd[p].table \in Tables
      BY <2>2, <1>0 DEF HeapInsert
    <3>2. Append2Wal(p, "insert", cmd[p].table, cmd[p].row)
      BY <2>2 DEF HeapInsert
    <3>a. cmd[p].table \in Tables /\ cmd[p].row \in Rows \cup {MigRow}
      BY DEF TypeOK, Command
    <3>3. Tabled'
      <4>1. wal'[Len(wal')].table = cmd[p].table
        BY <3>2, <3>a, AppendRecords
      <4>2. Len(wal) \in Nat /\ Len(wal') = Len(wal) + 1
        BY <3>2, <3>a, AppendRecords
      <4>3. \A i \in 1..Len(wal) : wal'[i] = wal[i]
        BY <3>2, <3>a, AppendRecords
      <4>. QED
        BY <3>1, <4>1, <4>2, <4>3, <1>0
    <3>4. pc'[p] = "idle"
      BY <2>2 DEF HeapInsert, TypeOK
    <3>. QED
      BY <3>3, <3>4
  <2>3. ASSUME NEW t \in Tables, NEW r \in Rows, Insert(p, t, r)
        PROVE  InMemory(p)' /\ Tabled'
    <3>1. pc'[p] = "save" /\ cmd'[p] = [op |-> "insert", table |-> t, row |-> r] /\ UNCHANGED wal
      BY <2>3 DEF Insert, TypeOK
    <3>2. r \in mem'[p][t]
      <4>1. mem' = [mem EXCEPT ![p] = [mem[p] EXCEPT ![t] = @ \cup {r}]]
        BY <2>3 DEF Insert
      <4>. QED
        BY <4>1 DEF TypeOK, Catalog
    <3>. QED
      BY <3>1, <3>2, <1>0
  <2>4. CASE Bootstrap(p)
    <3>1. pc'[p] = "save" /\ cmd'[p].op = "migrate" /\ UNCHANGED wal
      BY <2>4 DEF Bootstrap, TypeOK
    <3>. QED
      BY <3>1, <1>0
  <2>5. CASE SaveClose(p) \/ SaveLost(p)
    <3>1. pc[p] = "write" /\ UNCHANGED <<wal, mem>>
      BY <2>5 DEF SaveClose, SaveLost
    <3>2. \/ cmd[p].op = "insert" /\ pc'[p] = "log" /\ UNCHANGED cmd
          \/ pc'[p] = "idle"
      BY <2>5 DEF SaveClose, SaveLost, SaveReturns, TypeOK
    <3>. QED
      BY <3>1, <3>2, <1>0
  <2>6. CASE SaveTruncate(p) \/ SaveFlush(p)
    <3>1. pc[p] \in {"save", "write"} /\ pc'[p] = "write" /\ UNCHANGED <<wal, mem, cmd>>
      BY <2>6 DEF SaveTruncate, SaveFlush, inProcess, TypeOK
    <3>. QED
      BY <3>1, <1>0
  <2>7. CASE \/ Open(p) \/ MigrateDone(p) \/ InsertRejected(p) \/ SaveNotOpened(p) \/ Close(p) \/ Crash(p)
             \/ \E t \in Tables : Select(p, t)
    <3>1. pc'[p] \in {"down", "noop", "idle"} /\ UNCHANGED wal
      BY <2>7 DEF Open, MigrateDone, InsertRejected, Select, SaveNotOpened, Close, Crash, Leave, TypeOK
    <3>. QED
      BY <3>1, <1>0
  <2>. QED
    BY <2>1, <2>2, <2>3, <2>4, <2>5, <2>6, <2>7 DEF Work, Step
<1>. QED
  BY <1>1, <1>2 DEF StatementsAreInMemory

-----------------------------------------------------------------------------
(* One open process at a time.                                             *)

(* While one process has the directory open, the others are down.          *)
LEMMA OthersAreDown ==
  ASSUME TypeOK, OneOpen, OneOpen', NEW p \in Procs, Work(p)
  PROVE  \A q \in Procs \ {p} : pc[q] = "down" /\ pc'[q] = "down"
<1>1. pc[p] # "down" \/ pc'[p] # "down"
  BY DEF Work, Step, TypeOK, Open, AppendNoop, MigrateDone, Bootstrap, Insert, InsertRejected, Select,
     SaveTruncate, SaveNotOpened, SaveFlush, SaveClose, SaveLost, HeapInsert, Close, Crash
<1>2. ASSUME NEW q \in Procs \ {p}
      PROVE  pc'[q] = pc[q]
  BY DEF Work, Step, TypeOK, Open, AppendNoop, MigrateDone, Bootstrap, Insert, InsertRejected, Select,
     SaveTruncate, SaveNotOpened, SaveFlush, SaveClose, SaveLost, SaveReturns, HeapInsert,
     Close, Crash, Leave
<1>. QED
  BY <1>1, <1>2 DEF OneOpen

AllSole == \A p \in Procs : sole[p]

(* No writer is ever disturbed by another one.                             *)
LEMMA AllSoleStep ==
  ASSUME TypeOK, OneOpen, OneOpen', AllSole, NEW p \in Procs, Work(p)
  PROVE  AllSole'
<1>1. \A q \in Procs \ {p} : pc[q] = "down"
  BY OthersAreDown
<1>2. CASE SaveTruncate(p)
  BY <1>1, <1>2 DEF AllSole, SaveTruncate
<1>3. CASE Close(p) \/ Crash(p)
  BY <1>3 DEF AllSole, TypeOK, Close, Crash, Leave
<1>4. ASSUME ~ SaveTruncate(p), ~ Close(p), ~ Crash(p)
      PROVE  UNCHANGED sole
  BY <1>4 DEF Work, Step, Open, AppendNoop, MigrateDone, Bootstrap, Insert, InsertRejected, Select,
     SaveNotOpened, SaveFlush, SaveClose, SaveLost, HeapInsert, inProcess
<1>. QED
  BY <1>2, <1>3, <1>4 DEF AllSole

-----------------------------------------------------------------------------
(* Until a save is torn.                                                   *)

\* The schema_migrations row of a catalogue is not what is left of a cut line.
Clean(c) == Junk \notin c[MigTable]

\* A catalogue has every row that a migrated session logged, and is migrated
\* itself if there is one.
Keeps(c) ==
  \A i \in 1..Len(wal) :
    wal[i].type = "insert" /\ wal[i].marked => Migrated(c) /\ wal[i].row \in c[wal[i].table]

Durable ==
  ~ torn =>
    /\ \A p \in Procs : pc[p] # "down" => Keeps(mem[p]) /\ Clean(mem[p])
    /\ (\A p \in Procs : pc[p] # "write") => Keeps(disk) /\ Clean(disk)
    /\ \A p \in Procs : pc[p] = "log" => disk = mem[p]

(* A logged row was already in memory and on disk, so the record adds no   *)
(* obligation that is not met.                                             *)
LEMMA LoggingKeeps ==
  ASSUME TypeOK, StatementsAreInMemory, NEW p \in Procs, HeapInsert(p), Keeps(mem[p])
  PROVE  Keeps(mem[p])'
<1>1. /\ cmd[p].table \in Tables /\ cmd[p].row \in Rows \cup {MigRow}
      /\ Append2Wal(p, "insert", cmd[p].table, cmd[p].row)
  BY DEF TypeOK, Command, HeapInsert
<1>2. /\ Len(wal) \in Nat /\ Len(wal') = Len(wal) + 1
      /\ \A i \in 1..Len(wal) : wal'[i] = wal[i]
      /\ wal'[Len(wal')].table = cmd[p].table
      /\ wal'[Len(wal')].row = cmd[p].row
      /\ wal'[Len(wal')].marked = Migrated(mem[p])
  BY <1>1, AppendRecords
<1>3. cmd[p].row \in mem[p][cmd[p].table]
  BY DEF HeapInsert, StatementsAreInMemory
<1>4. mem' = mem
  BY DEF HeapInsert
<1>5. ASSUME NEW i \in 1..Len(wal'), wal'[i].type = "insert", wal'[i].marked
      PROVE  Migrated(mem[p]) /\ wal'[i].row \in mem[p][wal'[i].table]
  <2>1. CASE i = Len(wal')
    BY <1>2, <1>3, <1>5, <2>1
  <2>2. CASE i \in 1..Len(wal)
    BY <1>2, <1>5, <2>2 DEF Keeps
  <2>. QED
    BY <1>2, <2>1, <2>2
<1>. QED
  BY <1>4, <1>5 DEF Keeps

(* A catalogue is read back with the rows that were logged, and marked.    *)
LEMMA ReadingKeeps ==
  ASSUME TypeOK, Keeps(disk), Clean(disk), NEW skipped \in SUBSET Tables
  PROVE  Keeps(ReadBack(disk, skipped)) /\ Clean(ReadBack(disk, skipped))
<1>1. \A t \in Tables : /\ disk[t] \ {Junk} \subseteq ReadBack(disk, skipped)[t]
                        /\ ReadBack(disk, skipped)[t] \subseteq disk[t]
  BY DEF ReadBack
<1>2. \A i \in 1..Len(wal) : wal[i].table \in Tables /\ wal[i].row # Junk
  <2>1. \A i \in 1..Len(wal) : wal[i] \in WalRecord
    BY DEF TypeOK
  <2>. QED
    BY <2>1, ConstantsAssumption DEF WalRecord
<1>. QED
  BY <1>1, <1>2, ConstantsAssumption DEF Keeps, Clean, Migrated

LEMMA DurableStep ==
  ASSUME TypeOK, OneOpen, OneOpen', AllSole, StatementsAreInMemory, Durable,
         NEW p \in Procs, Work(p)
  PROVE  Durable'
<1>. SUFFICES ASSUME ~ torn'
     PROVE  /\ \A q \in Procs : pc'[q] # "down" => Keeps(mem[q])' /\ Clean(mem[q])'
            /\ (\A q \in Procs : pc'[q] # "write") => Keeps(disk)' /\ Clean(disk)'
            /\ \A q \in Procs : pc'[q] = "log" => disk' = mem'[q]
  BY DEF Durable
<1>1. \A q \in Procs \ {p} : pc[q] = "down" /\ pc'[q] = "down"
  BY OthersAreDown
<1>2. ~ torn
  BY DEF Work, Step, Open, AppendNoop, MigrateDone, Bootstrap, Insert, InsertRejected, Select,
     SaveTruncate, SaveNotOpened, SaveFlush, SaveClose, SaveLost, HeapInsert, Close, Crash
<1>3. /\ pc[p] # "down" => Keeps(mem[p]) /\ Clean(mem[p])
      /\ pc[p] # "write" => Keeps(disk) /\ Clean(disk)
      /\ pc[p] = "log" => disk = mem[p]
  BY <1>1, <1>2 DEF Durable
<1>4. SUFFICES /\ pc'[p] # "down" => Keeps(mem[p])' /\ Clean(mem[p])'
               /\ pc'[p] # "write" => Keeps(disk)' /\ Clean(disk)'
               /\ pc'[p] = "log" => disk' = mem'[p]
  BY <1>1
<1>5. CASE Open(p)
  <2>1. pc[p] = "down" /\ pc'[p] = "noop" /\ UNCHANGED <<disk, wal>>
    BY <1>5 DEF Open, TypeOK
  <2>2. PICK skipped \in SUBSET Tables : mem'[p] = ReadBack(disk, skipped)
    BY <1>5 DEF Open, TypeOK
  <2>. QED
    BY <1>3, <2>1, <2>2, ReadingKeeps DEF Keeps, Clean
<1>6. CASE AppendNoop(p)
  <2>1. Append2Wal(p, "noop", MigTable, MigRow) /\ UNCHANGED <<disk, mem>>
    BY <1>6 DEF AppendNoop
  <2>2. /\ Len(wal) \in Nat /\ Len(wal') = Len(wal) + 1
        /\ \A i \in 1..Len(wal) : wal'[i] = wal[i]
        /\ wal'[Len(wal')].type = "noop"
    BY <2>1, ConstantsAssumption, AppendRecords
  <2>3. \A i \in 1..Len(wal') : wal'[i].type = "insert" => i \in 1..Len(wal)
    BY <2>2
  <2>4. pc[p] = "noop" /\ pc'[p] = "idle"
    BY <1>6 DEF AppendNoop, TypeOK
  <2>. QED
    BY <1>3, <2>1, <2>2, <2>3, <2>4 DEF Keeps, Clean
<1>7. CASE Bootstrap(p)
  <2>1. pc[p] = "idle" /\ ~ Migrated(mem[p]) /\ UNCHANGED <<disk, wal>> /\ pc'[p] = "save"
    BY <1>7 DEF Bootstrap, TypeOK
  <2>2. \A i \in 1..Len(wal) : ~ (wal[i].type = "insert" /\ wal[i].marked)
    BY <1>3, <2>1 DEF Keeps
  <2>3. Clean(mem[p])'
    BY <1>7, ConstantsAssumption DEF Bootstrap, TypeOK, Clean, EmptyCatalog
  <2>. QED
    BY <1>3, <2>1, <2>2, <2>3 DEF Keeps, Clean
<1>8. ASSUME NEW t \in Tables, NEW r \in Rows, Insert(p, t, r)
      PROVE  /\ pc'[p] # "down" => Keeps(mem[p])' /\ Clean(mem[p])'
             /\ pc'[p] # "write" => Keeps(disk)' /\ Clean(disk)'
             /\ pc'[p] = "log" => disk' = mem'[p]
  <2>1. pc[p] = "idle" /\ UNCHANGED <<disk, wal>> /\ pc'[p] = "save"
    BY <1>8 DEF Insert, TypeOK
  <2>2. mem'[p] = [mem[p] EXCEPT ![t] = @ \cup {r}]
    BY <1>8 DEF Insert, TypeOK
  <2>3. \A u \in Tables : mem[p][u] \subseteq mem'[p][u]
    BY <2>2 DEF TypeOK, Catalog
  <2>4. \A i \in 1..Len(wal) : wal[i].table \in Tables
    <3>1. \A i \in 1..Len(wal) : wal[i] \in WalRecord
      BY DEF TypeOK
    <3>. QED
      BY <3>1 DEF WalRecord
  <2>5. Keeps(mem[p])'
    BY <1>3, <2>1, <2>3, <2>4, ConstantsAssumption DEF Keeps, Migrated
  <2>6. Clean(mem[p])'
    <3>1. mem'[p][MigTable] \subseteq mem[p][MigTable] \cup {r} /\ r # Junk
      BY <2>2, ConstantsAssumption DEF TypeOK, Catalog
    <3>. QED
      BY <1>3, <2>1, <3>1 DEF Clean
  <2>. QED
    BY <1>3, <2>1, <2>5, <2>6 DEF Keeps, Clean
<1>9. CASE SaveTruncate(p)
  BY <1>3, <1>9 DEF SaveTruncate, TypeOK, Keeps, Clean
<1>10. CASE SaveFlush(p)
  BY <1>3, <1>10 DEF SaveFlush, inProcess, Keeps, Clean
<1>11. CASE SaveClose(p)
  <2>1. pc[p] = "write" /\ disk' = mem[p] /\ UNCHANGED <<wal, mem>>
    BY <1>11 DEF SaveClose, AllSole
  <2>. QED
    BY <1>3, <2>1 DEF Keeps, Clean
<1>12. CASE HeapInsert(p)
  <2>1. pc[p] = "log" /\ UNCHANGED <<disk, mem>> /\ pc'[p] = "idle"
    BY <1>12 DEF HeapInsert, TypeOK
  <2>2. Keeps(mem[p])'
    BY <1>3, <1>12, <2>1, LoggingKeeps
  <2>. QED
    BY <1>3, <2>1, <2>2 DEF Keeps, Clean
<1>13. CASE SaveLost(p) \/ (Crash(p) /\ pc[p] = "write")
  BY <1>13 DEF SaveLost, Crash
<1>14. CASE Close(p) \/ (Crash(p) /\ pc[p] # "write")
  <2>1. pc[p] # "write" /\ pc'[p] = "down" /\ UNCHANGED <<disk, wal>>
    BY <1>14 DEF Close, Crash, Leave, TypeOK
  <2>. QED
    BY <1>3, <2>1 DEF Keeps, Clean
<1>15. CASE MigrateDone(p) \/ InsertRejected(p) \/ SaveNotOpened(p) \/ \E t \in Tables : Select(p, t)
  <2>1. pc[p] \in {"idle", "save"} /\ pc'[p] = "idle" /\ UNCHANGED <<disk, wal, mem>>
    BY <1>15 DEF MigrateDone, InsertRejected, SaveNotOpened, Select, TypeOK
  <2>. QED
    BY <1>3, <2>1 DEF Keeps, Clean
<1>16. CASE \E t \in Tables, r \in Rows : Insert(p, t, r)
  BY <1>8, <1>16
<1>. QED
  <2>1. CASE Crash(p)
    BY <1>13, <1>14, <2>1
  <2>. QED
    BY <1>5, <1>6, <1>7, <1>9, <1>10, <1>11, <1>12, <1>13, <1>14, <1>15, <1>16, <2>1 DEF Work, Step

LEMMA DurableKeeps ==
  ASSUME TypeOK, OneOpen, Durable
  PROVE  LoggedRowsStayStored
<1>. SUFFICES ASSUME ~ torn, NEW i \in 1..Len(wal), wal[i].type = "insert", wal[i].marked
     PROVE  wal[i].row \in Stored(wal[i].table)
  BY DEF LoggedRowsStayStored
<1>1. CASE \E p \in Procs : pc[p] = "write"
  <2>1. PICK p \in Procs : pc[p] = "write"
    BY <1>1
  <2>2. wal[i].row \in mem[p][wal[i].table]
    BY <2>1 DEF Durable, Keeps
  <2>. QED
    BY <2>1, <2>2 DEF Stored
<1>2. CASE \A p \in Procs : pc[p] # "write"
  BY <1>2 DEF Durable, Keeps, Stored
<1>. QED
  BY <1>1, <1>2

LEMMA DirectoryKeepsRows == Directory /\ []OneOpen => []LoggedRowsStayStored
<1> DEFINE Inv == AllSole /\ StatementsAreInMemory /\ Durable
<1>1. Init => Inv
  BY ConstantsAssumption DEF Init, AllSole, StatementsAreInMemory, Durable, Keeps, Clean, EmptyCatalog
<1>2. TypeOK /\ OneOpen /\ OneOpen' /\ Inv /\ [DirectoryNext]_vars => Inv'
  <2>. SUFFICES ASSUME TypeOK, OneOpen, OneOpen', Inv, [DirectoryNext]_vars
       PROVE  Inv'
    OBVIOUS
  <2>1. CASE Reserve \/ UNCHANGED vars
    BY <2>1 DEF Reserve, vars, inProcess, AllSole, StatementsAreInMemory, Durable, Keeps, Clean, Migrated
  <2>2. ASSUME NEW p \in Procs, Work(p)
        PROVE  Inv'
    BY <2>2, AllSoleStep, StatementsStep, DurableStep
  <2>. QED
    BY <2>1, <2>2 DEF DirectoryNext
<1>3. TypeOK /\ OneOpen /\ Inv => LoggedRowsStayStored
  BY DurableKeeps
<1>. QED
  BY <1>1, <1>2, <1>3, DirectoryTypes, PTL DEF Directory

(* As long as no two processes are open at once, and until a save is torn: *)
(* a row that a migrated session logged is never lost, whatever crashes or *)
(* fails to open in the sessions after it (exec_parameterized, migrate).   *)
THEOREM LoggedRowsStay == Spec /\ []OneOpen => []LoggedRowsStayStored
BY SpecIsDirectory, DirectoryKeepsRows, PTL

-----------------------------------------------------------------------------
(* The catalogue that is left when a save was torn.                        *)

\* A migrated catalogue has the rows that were logged on it since it was marked,
\* of the tables before the marker.
Complete(c) ==
  Migrated(c) =>
    \A i \in 1..Len(wal) :
      wal[i].type = "insert" /\ wal[i].table \in BeforeMarker /\ wal[i].marked /\ wal[i].epoch = epoch =>
        wal[i].row \in c[wal[i].table]

\* It holds of the memory of every process and of the file; while a save is on
\* its way, it holds of the file because of the memory it is written from.
Recoverable ==
  /\ \A i \in 1..Len(wal) : wal[i].epoch <= epoch
  /\ \A p \in Procs : pc[p] # "down" => Complete(mem[p])
  /\ \A p \in Procs : pc[p] \in {"write", "log"} => Whole(disk, mem[p])
  /\ (\A p \in Procs : pc[p] # "write") => Complete(disk)

-----------------------------------------------------------------------------
(* What is whole for a complete catalogue is complete, unless only a cut   *)
(* header marks it.                                                        *)
LEMMA WholeIsComplete ==
  ASSUME NEW file, NEW c, Complete(c), Whole(file, c), Migrated(file) => Migrated(c)
  PROVE  Complete(file)
BY DEF Complete, Whole

(* A catalogue that gains rows stays complete, if they do not mark it.     *)
LEMMA GrowingStaysComplete ==
  ASSUME TypeOK, NEW c \in Catalog, NEW d \in Catalog, Complete(c),
         Migrated(d) => Migrated(c), \A t \in Tables : c[t] \subseteq d[t]
  PROVE  Complete(d)
BY DEF BeforeMarker, Complete

(* A catalogue of which no record speaks is complete.                      *)
LEMMA NewEpochIsComplete ==
  ASSUME NEW c, \A i \in 1..Len(wal) : wal[i].epoch # epoch
  PROVE  Complete(c)
BY DEF Complete

(* A complete catalogue is read back as a complete one: rows without a     *)
(* column were never logged.                                               *)
LEMMA ReadingStaysComplete ==
  ASSUME TypeOK, NEW c \in Catalog, NEW skipped \in SUBSET Tables, Complete(c)
  PROVE  Complete(ReadBack(c, skipped))
<1>1. \A t \in Tables : c[t] \ {Junk} \subseteq ReadBack(c, skipped)[t] /\ ReadBack(c, skipped)[t] \subseteq c[t]
  BY DEF ReadBack
<1>2. \A i \in 1..Len(wal) : wal[i].table \in Tables /\ wal[i].row # Junk
  <2>1. \A i \in 1..Len(wal) : wal[i] \in WalRecord
    BY DEF TypeOK
  <2>. QED
    BY <2>1, ConstantsAssumption DEF WalRecord
<1>. QED
  BY <1>1, <1>2, ConstantsAssumption DEF Complete, Migrated

(* The record of a row that is in a catalogue leaves it complete.          *)
LEMMA LoggingStaysComplete ==
  ASSUME TypeOK, StatementsAreInMemory, NEW p \in Procs, HeapInsert(p),
         NEW c, Complete(c),
         Migrated(c) /\ cmd[p].table \in BeforeMarker => cmd[p].row \in c[cmd[p].table]
  PROVE  Migrated(c) =>
           \A i \in 1..Len(wal') :
             wal'[i].type = "insert" /\ wal'[i].table \in BeforeMarker /\ wal'[i].marked /\ wal'[i].epoch = epoch =>
               wal'[i].row \in c[wal'[i].table]
<1>1. /\ cmd[p].table \in Tables /\ cmd[p].row \in Rows \cup {MigRow}
      /\ Append2Wal(p, "insert", cmd[p].table, cmd[p].row)
  BY DEF TypeOK, Command, HeapInsert
<1>2. /\ Len(wal) \in Nat /\ Len(wal') = Len(wal) + 1
      /\ \A i \in 1..Len(wal) : wal'[i] = wal[i]
      /\ wal'[Len(wal')].table = cmd[p].table
      /\ wal'[Len(wal')].row = cmd[p].row
  BY <1>1, AppendRecords
<1>3. SUFFICES ASSUME Migrated(c), NEW i \in 1..Len(wal'), wal'[i].type = "insert",
                      wal'[i].table \in BeforeMarker, wal'[i].marked, wal'[i].epoch = epoch
               PROVE  wal'[i].row \in c[wal'[i].table]
  OBVIOUS
<1>4. CASE i = Len(wal')
  BY <1>2, <1>3, <1>4
<1>5. CASE i \in 1..Len(wal)
  BY <1>2, <1>3, <1>5 DEF Complete
<1>. QED
  BY <1>2, <1>4, <1>5

(* Records keep to the epochs that have begun.                             *)
LEMMA EpochsStep ==
  ASSUME TypeOK, NEW p \in Procs, Work(p), \A i \in 1..Len(wal) : wal[i].epoch <= epoch
  PROVE  \A i \in 1..Len(wal') : wal'[i].epoch <= epoch'
<1>1. epoch \in Nat /\ \A i \in 1..Len(wal) : wal[i].epoch \in Nat
  <2>1. \A i \in 1..Len(wal) : wal[i] \in WalRecord
    BY DEF TypeOK
  <2>. QED
    BY <2>1 DEF TypeOK, WalRecord
<1>2. ASSUME NEW type \in {"noop", "insert"}, NEW table \in Tables, NEW row \in Rows \cup {MigRow},
             Append2Wal(p, type, table, row), UNCHANGED epoch
      PROVE  \A i \in 1..Len(wal') : wal'[i].epoch <= epoch'
  <2>1. Len(wal) \in Nat /\ Len(wal') = Len(wal) + 1
    BY <1>2, AppendRecords
  <2>2. \A i \in 1..Len(wal) : wal'[i] = wal[i]
    BY <1>2, AppendRecords
  <2>3. wal'[Len(wal')].epoch = epoch
    BY <1>2, AppendRecords
  <2>. QED
    BY <1>1, <1>2, <2>1, <2>2, <2>3
<1>3. CASE AppendNoop(p)
  BY <1>2, <1>3, ConstantsAssumption DEF AppendNoop
<1>4. CASE HeapInsert(p)
  <2>1. cmd[p].table \in Tables /\ cmd[p].row \in Rows \cup {MigRow}
    BY DEF TypeOK, Command
  <2>. QED
    BY <1>2, <1>4, <2>1 DEF HeapInsert
<1>5. ASSUME ~ AppendNoop(p), ~ HeapInsert(p)
      PROVE  UNCHANGED wal /\ epoch' \in {epoch, epoch + 1}
  BY <1>5 DEF Work, Step, Open, MigrateDone, Bootstrap, Insert, InsertRejected, Select, SaveTruncate,
     SaveNotOpened, SaveFlush, SaveClose, SaveLost, Close, Crash, Leave, EpochAfterTear
<1>. QED
  BY <1>1, <1>3, <1>4, <1>5

(* When a new epoch begins, no record is of it.                            *)
LEMMA NewEpoch ==
  ASSUME TypeOK, \A i \in 1..Len(wal) : wal[i].epoch <= epoch, UNCHANGED wal, epoch' = epoch + 1
  PROVE  \A i \in 1..Len(wal') : wal'[i].epoch # epoch'
<1>1. \A i \in 1..Len(wal) : wal[i] \in WalRecord
  BY DEF TypeOK
<1>2. epoch \in Nat /\ \A i \in 1..Len(wal) : wal[i].epoch \in Nat
  BY <1>1 DEF TypeOK, WalRecord
<1>. QED
  BY <1>2

-----------------------------------------------------------------------------
LEMMA RecoverableStep ==
  ASSUME TypeOK, TypeOK', OneOpen, OneOpen', AllSole,
         StatementsAreInMemory, StatementsAreInMemory', Recoverable, NEW p \in Procs, Work(p)
  PROVE  Recoverable'
<1>. DEFINE Held == /\ pc[p] # "down" => Complete(mem[p])
                    /\ pc[p] \in {"write", "log"} => Whole(disk, mem[p])
                    /\ pc[p] # "write" => Complete(disk)
<1>1. \A q \in Procs \ {p} : pc[q] = "down" /\ pc'[q] = "down"
  BY OthersAreDown
<1>2. Held
  BY <1>1 DEF Recoverable
<1>3. \A i \in 1..Len(wal') : wal'[i].epoch <= epoch'
  BY EpochsStep DEF Recoverable
<1>4. SUFFICES Held'
  BY <1>1, <1>3 DEF Recoverable
<1>5. mem[p] \in Catalog /\ mem'[p] \in Catalog /\ disk \in Catalog /\ pc \in [Procs -> Location]
  BY DEF TypeOK
<1>6. CASE Open(p)
  <2>1. pc[p] = "down" /\ pc'[p] = "noop" /\ UNCHANGED <<disk, wal, epoch>>
    BY <1>6 DEF Open, TypeOK
  <2>2. PICK skipped \in SUBSET Tables : mem'[p] = ReadBack(disk, skipped)
    BY <1>6 DEF Open, TypeOK
  <2>3. Complete(mem'[p])
    BY <1>2, <1>5, <2>1, <2>2, ReadingStaysComplete
  <2>. QED
    BY <1>2, <2>1, <2>3 DEF Complete
<1>7. CASE AppendNoop(p)
  <2>1. Append2Wal(p, "noop", MigTable, MigRow) /\ UNCHANGED <<disk, mem, epoch>>
    BY <1>7 DEF AppendNoop
  <2>2. /\ Len(wal) \in Nat /\ Len(wal') = Len(wal) + 1
        /\ \A i \in 1..Len(wal) : wal'[i] = wal[i]
        /\ wal'[Len(wal')].type = "noop"
    BY <2>1, ConstantsAssumption, AppendRecords
  <2>3. \A i \in 1..Len(wal') : wal'[i].type = "insert" => i \in 1..Len(wal)
    BY <2>2
  <2>4. pc[p] = "noop" /\ pc'[p] = "idle"
    BY <1>7 DEF AppendNoop, TypeOK
  <2>. QED
    BY <1>2, <2>1, <2>2, <2>3, <2>4 DEF Complete, Migrated
<1>8. CASE Bootstrap(p)
  <2>1. pc[p] = "idle" /\ pc'[p] = "save" /\ epoch' = epoch + 1 /\ UNCHANGED <<disk, wal>>
    BY <1>8 DEF Bootstrap, TypeOK
  <2>2. \A i \in 1..Len(wal') : wal'[i].epoch # epoch'
    BY <2>1, NewEpoch DEF Recoverable
  <2>. QED
    BY <2>1, <2>2 DEF Complete
<1>9. ASSUME NEW t \in Tables, NEW r \in Rows, Insert(p, t, r)
      PROVE  Held'
  <2>1. pc[p] = "idle" /\ pc'[p] = "save" /\ UNCHANGED <<disk, wal>>
    BY <1>9 DEF Insert, TypeOK
  <2>2. mem'[p] = [mem[p] EXCEPT ![t] = @ \cup {r}]
    BY <1>9 DEF Insert, TypeOK
  <2>3. CASE t = MigTable /\ ~ Migrated(mem[p])
    <3>1. epoch' = epoch + 1
      BY <1>9, <2>3 DEF Insert
    <3>2. \A i \in 1..Len(wal') : wal'[i].epoch # epoch'
      BY <2>1, <3>1, NewEpoch DEF Recoverable
    <3>. QED
      BY <2>1, <3>2 DEF Complete
  <2>4. CASE ~ (t = MigTable /\ ~ Migrated(mem[p]))
    <3>1. UNCHANGED epoch
      BY <1>9, <2>4 DEF Insert
    <3>2. \A u \in Tables : mem[p][u] \subseteq mem'[p][u]
      BY <1>5, <2>2 DEF Catalog
    <3>3. Migrated(mem'[p]) => Migrated(mem[p])
      BY <1>5, <2>2, <2>4, ConstantsAssumption DEF Catalog, Migrated
    <3>4. Complete(mem'[p])
      BY <1>2, <1>5, <2>1, <3>2, <3>3, GrowingStaysComplete
    <3>. QED
      BY <1>2, <2>1, <3>1, <3>4 DEF Complete
  <2>. QED
    BY <2>3, <2>4
<1>10. CASE SaveTruncate(p)
  <2>1. /\ pc[p] = "save" /\ pc'[p] = "write" /\ disk' = EmptyCatalog
        /\ UNCHANGED <<wal, mem, epoch>>
    BY <1>10 DEF SaveTruncate, TypeOK
  <2>2. Whole(disk', mem'[p])
    BY <2>1, ConstantsAssumption DEF Whole, Migrated, EmptyCatalog
  <2>. QED
    BY <1>2, <2>1, <2>2 DEF Complete, Whole, Migrated
<1>11. CASE SaveFlush(p)
  <2>1. pc[p] = "write" /\ pc'[p] = "write" /\ UNCHANGED <<wal, mem, epoch>>
    BY <1>11 DEF SaveFlush, inProcess
  <2>2. disk' \in TornSaves(mem[p])
    BY <1>11 DEF SaveFlush, AllSole
  <2>3. Whole(disk', mem[p])
    BY <1>5, <2>2, TornSavesAreWhole
  <2>. QED
    BY <1>2, <2>1, <2>3 DEF Complete, Whole, Migrated
<1>12. CASE SaveClose(p)
  <2>1. /\ pc[p] = "write" /\ pc'[p] \in {"log", "idle"} /\ disk' = mem[p]
        /\ UNCHANGED <<wal, mem, epoch>>
    BY <1>12 DEF SaveClose, SaveReturns, AllSole, TypeOK
  <2>. QED
    BY <1>2, <2>1 DEF Complete, Whole, Migrated
<1>13. CASE SaveLost(p) \/ (Crash(p) /\ pc[p] = "write")
  <2>1. /\ pc[p] = "write" /\ UNCHANGED <<disk, wal>> /\ epoch' = EpochAfterTear(p)
        /\ pc'[p] = "down" \/ (pc'[p] \in {"log", "idle"} /\ UNCHANGED mem)
    BY <1>13 DEF SaveLost, SaveReturns, Crash, Leave, TypeOK
  <2>2. CASE Migrated(disk) /\ ~ Migrated(mem[p])
    <3>1. epoch' = epoch + 1
      BY <2>1, <2>2 DEF EpochAfterTear
    <3>2. \A i \in 1..Len(wal') : wal'[i].epoch # epoch'
      BY <2>1, <3>1, NewEpoch DEF Recoverable
    <3>. QED
      BY <1>2, <2>1, <3>2 DEF Complete, Whole, Migrated
  <2>3. CASE ~ (Migrated(disk) /\ ~ Migrated(mem[p]))
    <3>1. UNCHANGED epoch
      BY <2>1, <2>3 DEF EpochAfterTear
    <3>2. Complete(disk)
      BY <1>2, <2>1, <2>3, WholeIsComplete
    <3>. QED
      BY <1>2, <2>1, <3>1, <3>2 DEF Complete, Whole, Migrated
  <2>. QED
    BY <2>2, <2>3
<1>14. CASE HeapInsert(p)
  <2>1. pc[p] = "log" /\ pc'[p] = "idle" /\ UNCHANGED <<disk, mem, epoch>>
    BY <1>14 DEF HeapInsert, TypeOK
  <2>2. cmd[p].table \in Tables /\ cmd[p].row \in mem[p][cmd[p].table]
    BY <2>1 DEF StatementsAreInMemory
  <2>3. Migrated(disk) /\ cmd[p].table \in BeforeMarker => cmd[p].row \in disk[cmd[p].table]
    BY <1>2, <2>1, <2>2 DEF Whole
  <2>4. Complete(mem[p])'
    BY <1>2, <1>14, <2>1, <2>2, LoggingStaysComplete DEF Complete, Migrated
  <2>5. Complete(disk)'
    BY <1>2, <1>14, <2>1, <2>3, LoggingStaysComplete DEF Complete, Migrated
  <2>. QED
    BY <2>1, <2>4, <2>5
<1>15. CASE Close(p) \/ (Crash(p) /\ pc[p] # "write")
  <2>1. pc[p] # "write" /\ pc'[p] = "down" /\ UNCHANGED <<disk, wal, epoch>>
    BY <1>15 DEF Close, Crash, Leave, TypeOK
  <2>. QED
    BY <1>2, <2>1 DEF Complete, Migrated
<1>16. CASE MigrateDone(p) \/ InsertRejected(p) \/ SaveNotOpened(p) \/ \E t \in Tables : Select(p, t)
  <2>1. pc[p] \in {"idle", "save"} /\ pc'[p] = "idle" /\ UNCHANGED <<disk, wal, mem, epoch>>
    BY <1>16 DEF MigrateDone, InsertRejected, SaveNotOpened, Select, TypeOK
  <2>. QED
    BY <1>2, <2>1 DEF Complete, Migrated
<1>17. CASE \E t \in Tables, r \in Rows : Insert(p, t, r)
  BY <1>9, <1>17
<1>. QED
  <2>1. CASE Crash(p)
    BY <1>13, <1>15, <2>1
  <2>. QED
    BY <1>6, <1>7, <1>8, <1>10, <1>11, <1>12, <1>13, <1>14, <1>15, <1>16, <1>17, <2>1 DEF Work, Step

LEMMA DirectoryIsComplete == Directory /\ []OneOpen => []MarkedCatalogIsComplete
<1> DEFINE Inv == AllSole /\ StatementsAreInMemory /\ Recoverable
<1>1. Init => Inv
  BY DEF Init, AllSole, StatementsAreInMemory, Recoverable, Complete, Migrated, EmptyCatalog
<1>2. TypeOK /\ TypeOK' /\ OneOpen /\ OneOpen' /\ Inv /\ [DirectoryNext]_vars => Inv'
  <2>. SUFFICES ASSUME TypeOK, TypeOK', OneOpen, OneOpen', Inv, [DirectoryNext]_vars
       PROVE  Inv'
    OBVIOUS
  <2>1. CASE Reserve \/ UNCHANGED vars
    BY <2>1 DEF Reserve, vars, inProcess, AllSole, StatementsAreInMemory, Recoverable, Complete, Whole, Migrated
  <2>2. ASSUME NEW p \in Procs, Work(p)
        PROVE  Inv'
    BY <2>2, AllSoleStep, StatementsStep, RecoverableStep
  <2>. QED
    BY <2>1, <2>2 DEF DirectoryNext
<1>3. Inv => MarkedCatalogIsComplete
  BY DEF Recoverable, Complete, MarkedCatalogIsComplete
<1>. QED
  BY <1>1, <1>2, <1>3, DirectoryTypes, PTL DEF Directory

(* As long as no two processes are open at once, and whatever saves are    *)
(* torn or lost: a catalogue that is marked as migrated has every row that *)
(* was logged on it since it was marked, of the tables before the marker in*)
(* map order (save_snapshot, migrate, exec_insert).                        *)
THEOREM MarkedIsComplete == Spec /\ []OneOpen => []MarkedCatalogIsComplete
BY SpecIsDirectory, DirectoryIsComplete, PTL

-----------------------------------------------------------------------------
(* Short sequences and finite sets.                                        *)

LEMMA FunctionIsSeq ==
  ASSUME NEW S, NEW n \in Nat, NEW f \in [1..n -> S]
  PROVE  f \in Seq(S) /\ Len(f) = n
OBVIOUS

LEMMA TwoAppended ==
  ASSUME NEW x, NEW y
  PROVE  Append(Append(<< >>, x), y) = <<x, y>>
<1>. DEFINE S == {x, y}
            a == Append(Append(<< >>, x), y)
            b == <<x, y>>
<1>1. a \in Seq(S) /\ Len(a) = 2 /\ a[1] = x /\ a[2] = y
  OBVIOUS
<1>2. b \in Seq(S) /\ Len(b) = 2 /\ b[1] = x /\ b[2] = y
  OBVIOUS
<1>3. \A i \in 1..2 : a[i] = b[i]
  BY <1>1, <1>2
<1>. HIDE DEF a, b
<1>. QED
  BY <1>1, <1>2, <1>3, SeqEqual DEF a, b

LEMMA ThreeAtoms ==
  ASSUME NEW x, NEW y, NEW z
  PROVE  <<x, y>> \o <<z>> = <<x, y, z>>
<1>. DEFINE S == {x, y, z}
            a == <<x, y>> \o <<z>>
            b == <<x, y, z>>
<1>1. a \in Seq(S) /\ Len(a) = 3 /\ a[1] = x /\ a[2] = y /\ a[3] = z
  OBVIOUS
<1>2. b \in Seq(S) /\ Len(b) = 3 /\ b[1] = x /\ b[2] = y /\ b[3] = z
  OBVIOUS
<1>3. \A i \in 1..3 : a[i] = b[i]
  BY <1>1, <1>2
<1>. HIDE DEF a, b
<1>. QED
  BY <1>1, <1>2, <1>3, SeqEqual DEF a, b

\* SetToSeq has every element of a finite set, at one place.
LEMMA SetInSequence ==
  ASSUME NEW S, IsFiniteSet(S)
  PROVE  /\ SetToSeq(S) \in Seq(S) /\ Len(SetToSeq(S)) = Cardinality(S)
         /\ ToSet(SetToSeq(S)) = S
         /\ \A i, j \in 1..Len(SetToSeq(S)) : SetToSeq(S)[i] = SetToSeq(S)[j] => i = j
<1>. DEFINE n == Cardinality(S)
            s == SetToSeq(S)
<1>1. n \in Nat /\ ExistsBijection(1..n, S)
  BY FS_CardinalityType
<1>2. \E f \in [1..n -> S] : IsInjective(f)
  BY <1>1 DEF ExistsBijection, Bijection, Injection
<1>3. s \in [1..n -> S] /\ IsInjective(s)
  BY <1>2 DEF SetToSeq
<1>. HIDE DEF s
<1>4. s \in Seq(S) /\ Len(s) = n
  <2>. HIDE DEF n
  <2>. QED
    BY <1>1, <1>3
<1>5. s \in Surjection(1..n, S)
  <2>1. s \in Injection(1..n, S)
    BY <1>3 DEF Injection
  <2>2. Cardinality(1..n) = n
    <3>1. 1 \in Int /\ n \in Int
      BY <1>1
    <3>2. Cardinality(1..n) = IF 1 > n THEN 0 ELSE n - 1 + 1
      BY <3>1, FS_Interval
    <3>. HIDE DEF n
    <3>. QED
      BY <1>1, <3>2
  <2>. QED
    BY <2>1, <2>2, FS_Injection
<1>6. \A x \in S : \E i \in 1..n : s[i] = x
  BY <1>5 DEF Surjection
<1>7. ToSet(s) = S
  <2>. HIDE DEF n
  <2>. QED
    BY <1>3, <1>6 DEF ToSet
<1>8. \A i, j \in 1..n : s[i] = s[j] => i = j
  BY <1>3 DEF IsInjective
<1>. HIDE DEF n
<1>9. Len(s) = n /\ \A i, j \in 1..Len(s) : s[i] = s[j] => i = j
  BY <1>4, <1>8
<1>. QED
  BY <1>4, <1>7, <1>9 DEF s, n

-----------------------------------------------------------------------------
(* The marks are told apart from each other and from the names of columns. *)

LEMMA MarksDiffer ==
  /\ Equals # Bar /\ Equals # Newline /\ Bar # Newline
  /\ {"id", "value", "x"} \cap {Equals, Bar, Newline, Header, Comment} = {}
  /\ Header # Newline /\ Header # Bar /\ Header # Equals
  /\ Comment \notin {Equals, Bar, Newline, Header}
  /\ Rest \notin {Equals, Bar, Newline, Header, Comment, "id", "value", "x"}
<1>1. Equals # Bar
  BY Zenon DEF Equals, Bar
<1>2. Equals # Newline
  BY Zenon DEF Equals, Newline
<1>3. Bar # Newline
  BY Zenon DEF Bar, Newline
<1>4. "id" # Equals /\ "value" # Equals /\ "x" # Equals
  BY Zenon DEF Equals
<1>5. "id" # Bar /\ "value" # Bar /\ "x" # Bar
  BY Zenon DEF Bar
<1>6. "id" # Newline /\ "value" # Newline /\ "x" # Newline
  BY Zenon DEF Newline
<1>7. "id" # Header /\ "value" # Header /\ "x" # Header
  BY Zenon DEF Header
<1>8. Header # Newline /\ Header # Bar /\ Header # Equals
  BY Zenon DEF Header, Newline, Bar, Equals
<1>9. Rest # Equals /\ Rest # Bar /\ Rest # Newline /\ Rest # Header
  BY Zenon DEF Rest, Header, Newline, Bar, Equals
<1>10. Rest # "id" /\ Rest # "value" /\ Rest # "x"
  BY Zenon DEF Rest
<1>11. Comment # Equals /\ Comment # Bar /\ Comment # Newline /\ Comment # Header /\ Comment # Rest
  BY Zenon DEF Comment, Rest, Header, Newline, Bar, Equals
<1>12. "id" # Comment /\ "value" # Comment /\ "x" # Comment
  BY Zenon DEF Comment
<1>. QED
  BY <1>1, <1>2, <1>3, <1>4, <1>5, <1>6, <1>7, <1>8, <1>9, <1>10, <1>11, <1>12

-----------------------------------------------------------------------------
(* Split, by the length of its argument.                                   *)

\* One atom more in the last part.
Extended(ps, x) == [ps EXCEPT ![Len(ps)] = Append(@, x)]

LEMMA ExtendLast ==
  ASSUME NEW S, NEW front \in Seq(Seq(S)), NEW last \in Seq(S), NEW x \in S
  PROVE  Extended(Append(front, last), x) = Append(front, Append(last, x))
<1>. DEFINE ps == Append(front, last)
            longer == Append(last, x)
            n == Len(ps)
<1>1. ps \in Seq(Seq(S)) /\ n \in 1..n /\ n \in Nat /\ n = Len(front) + 1 /\ ps[n] = last
      /\ \A i \in 1..(n - 1) : ps[i] = front[i]
  OBVIOUS
<1>2. longer \in Seq(S)
  OBVIOUS
<1>3. Extended(ps, x) = [ps EXCEPT ![n] = longer]
  BY <1>1 DEF Extended
<1>. HIDE DEF ps, longer
<1>4. [ps EXCEPT ![n] = longer] \in Seq(Seq(S)) /\ Len([ps EXCEPT ![n] = longer]) = n
  BY <1>1, <1>2, ExceptSeq
<1>5. [ps EXCEPT ![n] = longer][n] = longer /\ \A i \in 1..(n - 1) : [ps EXCEPT ![n] = longer][i] = front[i]
  BY <1>1, <1>2
<1>. DEFINE e == [ps EXCEPT ![n] = longer]
            f == Append(front, longer)
<1>6. f \in Seq(Seq(S)) /\ Len(f) = n /\ f[n] = longer /\ \A i \in 1..(n - 1) : f[i] = front[i]
  BY <1>1, <1>2
<1>7. \A i \in 1..n : i = n \/ i \in 1..(n - 1)
  BY <1>1
<1>8. e \in Seq(Seq(S)) /\ Len(e) = n /\ \A i \in 1..n : e[i] = f[i]
  BY <1>4, <1>5, <1>6, <1>7
<1>. HIDE DEF e, f
<1>9. e = f
  BY <1>6, <1>8, SeqEqual
<1>. QED
  BY <1>3, <1>9 DEF e, f, ps, longer

\* What an atom makes of the parts before it.
MoreSplit(before, x, mark) == IF x = mark THEN Append(before, << >>) ELSE Extended(before, x)

\* Parts have no mark, and there is one at least.
PartsOver(S, mark) == Seq(Seq(S \ {mark})) \ {<< >>}

HasLast(S, mark, ps) == \E front \in Seq(Seq(S \ {mark})), last \in Seq(S \ {mark}) : ps = Append(front, last)

LEMMA PartsHaveLast ==
  ASSUME NEW S, NEW mark, NEW ps \in PartsOver(S, mark)
  PROVE  HasLast(S, mark, ps)
<1>. DEFINE T == Seq(S \ {mark})
            n == Len(ps)
            front == SubSeq(ps, 1, n - 1)
<1>1. ps \in Seq(T) /\ n \in 1..n /\ n \in Nat /\ n - 1 \in 0..n
  BY DEF PartsOver
<1>. HIDE DEF T
<1>2. SubSeq(ps, 1, n) = ps /\ SubSeq(ps, 1, n) = Append(SubSeq(ps, 1, n - 1), ps[n]) /\ ps[n] \in T /\ SubSeq(ps, 1, n - 1) \in Seq(T)
  BY <1>1, PrefixGrows
<1>. QED
  BY <1>2 DEF T, HasLast

LEMMA MoreSplitTyped ==
  ASSUME NEW S, NEW mark, NEW ps \in PartsOver(S, mark), NEW x \in S
  PROVE  MoreSplit(ps, x, mark) \in PartsOver(S, mark)
<1>. DEFINE T == Seq(S \ {mark})
<1>0. HasLast(S, mark, ps)
  BY PartsHaveLast
<1>1. PICK front \in Seq(T), last \in T : ps = Append(front, last)
  BY <1>0 DEF HasLast
<1>2. ps \in Seq(T) /\ << >> \in T
  BY DEF PartsOver
<1>3. Append(ps, << >>) \in PartsOver(S, mark)
  <2>. HIDE DEF T
  <2>1. Append(ps, << >>) \in Seq(T) \ {<< >>}
    BY <1>2
  <2>. QED
    BY <2>1 DEF PartsOver, T
<1>4. CASE x # mark
  <2>1. x \in S \ {mark}
    BY <1>4
  <2>2. Extended(ps, x) = Append(front, Append(last, x))
    BY <1>1, <2>1, ExtendLast
  <2>3. Append(last, x) \in T
    BY <2>1
  <2>4. Append(front, Append(last, x)) \in Seq(T) \ {<< >>}
    <3>. DEFINE new == Append(last, x)
    <3>. HIDE DEF T, new
    <3>1. new \in T
      BY <2>3 DEF new
    <3>2. Append(front, new) \in Seq(T) /\ Len(Append(front, new)) # 0
      BY <1>1, <3>1
    <3>. QED
      BY <3>2 DEF new
  <2>. QED
    BY <1>4, <2>2, <2>4 DEF MoreSplit, PartsOver
<1>. QED
  BY <1>3, <1>4 DEF MoreSplit

\* Split is the last value of a recursion, ...
SplitsBy(S, mark, a) ==
  \E f \in [0..Len(a) -> PartsOver(S, mark)] :
    Split(a, mark) = f[Len(a)] /\ f[0] = << << >> >> /\ \A k \in 1..Len(a) : f[k] = MoreSplit(f[k - 1], a[k], mark)

LEMMA SplitRecursion ==
  ASSUME NEW S, NEW mark, NEW a \in Seq(S)
  PROVE  SplitsBy(S, mark, a)
<1>. DEFINE n == Len(a)
            R == PartsOver(S, mark)
            base == << << >> >>
            step == [x \in (1..n) \X R |-> MoreSplit(x[2], a[x[1]], mark)]
            Fits(g) == g = [k \in 0..n |-> IF k = 0 THEN base ELSE MoreSplit(g[k - 1], a[k], mark)]
            g == CHOOSE g : Fits(g)
<1>1. n \in Nat /\ \A k \in 1..n : a[k] \in S
  OBVIOUS
<1>2. Split(a, mark) = g[n]
  BY DEF Split, MoreSplit, Extended
<1>3. base \in R
  BY DEF PartsOver
<1>. HIDE DEF n, R, base
<1>4. ASSUME NEW k \in 1..n, NEW before \in R PROVE MoreSplit(before, a[k], mark) \in R
  <2>1. a[k] \in S
    BY <1>1
  <2>. QED
    BY <2>1, MoreSplitTyped DEF R
<1>5. step \in [(1..n) \X R -> R] /\ \A k \in 1..n : \A before \in R : step[<<k, before>>] = MoreSplit(before, a[k], mark)
  BY <1>4
<1>. HIDE DEF step
<1>6. IsStep(n, R, step)
  BY <1>5 DEF IsStep
<1>7. PICK f \in [0..n -> R] : f[0] = base /\ \A k \in 1..n : f[k] = step[<<k, f[k - 1]>>]
  <2>1. Recurses(n, R, base, step)
    BY <1>1, <1>3, <1>6, RecursionExists
  <2>. QED
    BY <2>1 DEF Recurses
<1>8. \A k \in 1..n : f[k] = MoreSplit(f[k - 1], a[k], mark)
  <2>1. \A k \in 1..n : k - 1 \in 0..n /\ f[k - 1] \in R
    BY <1>1
  <2>. QED
    BY <1>5, <1>7, <2>1
<1>9. Fits(g)
  <2>1. Fits(f)
    BY <1>1, <1>7, <1>8
  <2>. HIDE DEF Fits
  <2>. QED
    BY <2>1
<1>. HIDE DEF g
<1>10. g[0] = base /\ \A k \in 1..n : g[k] = MoreSplit(g[k - 1], a[k], mark)
  <2>1. 0 \in 0..n /\ \A k \in 1..n : k \in 0..n /\ k # 0
    BY <1>1
  <2>. QED
    BY <2>1, <1>9
<1>. DEFINE P == {k \in 0..n : g[k] = f[k]}
<1>11. 0 \in P /\ \A k \in 1..n : k - 1 \in P => k \in P
  BY <1>1, <1>7, <1>8, <1>10
<1>12. n \in P
  <2>. HIDE DEF P
  <2>1. 0..n \subseteq P
    BY <1>1, <1>11, InductionTo
  <2>. QED
    BY <1>1, <2>1
<1>. QED
  BY <1>2, <1>7, <1>8, <1>12 DEF n, R, base, SplitsBy

\* ... has parts without the mark, ...
LEMMA SplitTyped ==
  ASSUME NEW S, NEW mark, NEW a \in Seq(S)
  PROVE  Split(a, mark) \in PartsOver(S, mark)
<1>0. SplitsBy(S, mark, a)
  BY SplitRecursion
<1>1. PICK f \in [0..Len(a) -> PartsOver(S, mark)] : Split(a, mark) = f[Len(a)]
  BY <1>0 DEF SplitsBy
<1>2. Len(a) \in 0..Len(a)
  OBVIOUS
<1>. QED
  BY <1>1, <1>2

\* ... of nothing is one empty part, ...
LEMMA SplitEmpty ==
  ASSUME NEW mark
  PROVE  Split(<< >>, mark) = << << >> >>
<1>1. << >> \in Seq({}) /\ Len(<< >>) = 0
  OBVIOUS
<1>2. SplitsBy({}, mark, << >>)
  BY <1>1, SplitRecursion
<1>. QED
  BY <1>1, <1>2 DEF SplitsBy

\* ... and goes on with an atom more.
LEMMA SplitAppend ==
  ASSUME NEW S, NEW mark, NEW a \in Seq(S), NEW x \in S
  PROVE  Split(Append(a, x), mark) = MoreSplit(Split(a, mark), x, mark)
<1>. DEFINE n == Len(a)
            b == Append(a, x)
            R == PartsOver(S, mark)
<1>1. n \in Nat /\ b \in Seq(S) /\ Len(b) = n + 1 /\ b[n + 1] = x /\ \A k \in 1..n : b[k] = a[k]
  OBVIOUS
<1>. HIDE DEF n, b, R
<1>2. PICK f \in [0..n -> R] :
        Split(a, mark) = f[n] /\ f[0] = << << >> >> /\ \A k \in 1..n : f[k] = MoreSplit(f[k - 1], a[k], mark)
  <2>1. SplitsBy(S, mark, a)
    BY SplitRecursion
  <2>. QED
    BY <2>1 DEF SplitsBy, n, R
<1>3. PICK g \in [0..Len(b) -> R] :
        Split(b, mark) = g[Len(b)] /\ g[0] = << << >> >> /\ \A k \in 1..Len(b) : g[k] = MoreSplit(g[k - 1], b[k], mark)
  <2>1. SplitsBy(S, mark, b)
    BY <1>1, SplitRecursion
  <2>. QED
    BY <2>1 DEF SplitsBy, R
<1>. DEFINE P == {k \in 0..n : g[k] = f[k]}
<1>4. 0 \in P
  BY <1>1, <1>2, <1>3
<1>5. ASSUME NEW k \in 1..n, k - 1 \in P PROVE k \in P
  <2>1. k \in 1..Len(b) /\ b[k] = a[k] /\ g[k - 1] = f[k - 1] /\ k \in 0..n
    BY <1>1, <1>5
  <2>. QED
    BY <1>2, <1>3, <2>1
<1>6. n \in P
  <2>. HIDE DEF P
  <2>1. 0..n \subseteq P
    BY <1>1, <1>4, <1>5, InductionTo
  <2>. QED
    BY <1>1, <2>1
<1>7. g[n + 1] = MoreSplit(g[n], x, mark)
  <2>1. n + 1 \in 1..Len(b) /\ (n + 1) - 1 = n
    BY <1>1
  <2>. QED
    BY <1>1, <1>3, <2>1
<1>. QED
  BY <1>1, <1>2, <1>3, <1>6, <1>7 DEF b

\* The parts of a text.
PartsAre(S, mark, a, front, last) ==
  /\ a \in Seq(S) /\ front \in Seq(Seq(S \ {mark})) /\ last \in Seq(S \ {mark})
  /\ Split(a, mark) = Append(front, last)

\* Atoms without the mark go to the last part ...
LEMMA SplitGoesOn ==
  ASSUME NEW S, NEW mark, NEW a, NEW w \in Seq(S \ {mark}), NEW front, NEW last, PartsAre(S, mark, a, front, last)
  PROVE  PartsAre(S, mark, a \o w, front, last \o w)
<1>. DEFINE T == S \ {mark}
            B(k) == SubSeq(w, 1, k)
            P == {k \in 0..Len(w) : Split(a \o B(k), mark) = Append(front, last \o B(k))}
<1>. HIDE DEF T
<1>0. /\ a \in Seq(S) /\ Split(a, mark) = Append(front, last)
      /\ w \in Seq(T) /\ front \in Seq(Seq(T)) /\ last \in Seq(T) /\ T \subseteq S
  BY DEF T, PartsAre
<1>1. /\ Len(w) \in Nat /\ B(0) = << >> /\ B(Len(w)) = w
      /\ \A k \in 0..Len(w) : B(k) \in Seq(T)
      /\ \A k \in 1..Len(w) : w[k] \in T /\ B(k) = Append(B(k - 1), w[k])
  BY <1>0, PrefixGrows
<1>. HIDE DEF B
<1>2. 0 \in P
  <2>1. a \o << >> = a /\ last \o << >> = last /\ 0 \in 0..Len(w)
    BY <1>0, <1>1
  <2>. QED
    BY <1>0, <1>1, <2>1
<1>3. ASSUME NEW k \in 1..Len(w), k - 1 \in P PROVE k \in P
  <2>. DEFINE c == B(k - 1)
              x == w[k]
  <2>0. k \in 0..Len(w) /\ k - 1 \in 0..Len(w)
    BY <1>1
  <2>1. c \in Seq(T) /\ x \in T /\ B(k) = Append(c, x)
    BY <1>1, <2>0
  <2>2. Split(a \o c, mark) = Append(front, last \o c)
    BY <1>3
  <2>. HIDE DEF c, x
  <2>3. c \in Seq(S) /\ x \in S /\ x # mark
    BY <1>0, <2>1 DEF T
  <2>4. a \o Append(c, x) = Append(a \o c, x) /\ a \o c \in Seq(S)
    BY <1>0, <2>3, ConcatAppend
  <2>5. last \o Append(c, x) = Append(last \o c, x) /\ last \o c \in Seq(T)
    BY <1>0, <2>1, ConcatAppend
  <2>. DEFINE l == last \o c
              ac == a \o c
  <2>. HIDE DEF l, ac
  <2>6. Split(Append(ac, x), mark) = MoreSplit(Split(ac, mark), x, mark)
    BY <2>3, <2>4, SplitAppend DEF ac
  <2>7. Extended(Append(front, l), x) = Append(front, Append(l, x))
    <3>1. l \in Seq(T)
      BY <2>5 DEF l
    <3>. QED
      BY <1>0, <2>1, <3>1, ExtendLast
  <2>8. Split(a \o Append(c, x), mark) = Append(front, last \o Append(c, x))
    BY <2>2, <2>3, <2>4, <2>5, <2>6, <2>7 DEF MoreSplit, l, ac
  <2>. QED
    BY <2>0, <2>1, <2>8
<1>4. Len(w) \in P
  <2>. HIDE DEF P
  <2>0. Len(w) \in Nat
    BY <1>1
  <2>1. 0..Len(w) \subseteq P
    BY <2>0, <1>2, <1>3, InductionTo
  <2>2. Len(w) \in 0..Len(w)
    BY <2>0
  <2>. QED
    BY <2>1, <2>2
<1>5. a \o w \in Seq(S) /\ last \o w \in Seq(T)
  BY <1>0
<1>. QED
  BY <1>0, <1>1, <1>4, <1>5 DEF T, PartsAre

\* ... and the mark ends it.
LEMMA SplitEnds ==
  ASSUME NEW S, NEW mark \in S, NEW a, NEW front, NEW last, PartsAre(S, mark, a, front, last)
  PROVE  PartsAre(S, mark, a \o <<mark>>, Append(front, last), << >>)
<1>. DEFINE T == Seq(S \ {mark})
<1>1. a \in Seq(S) /\ Split(a, mark) = Append(front, last) /\ front \in Seq(T) /\ last \in T
  BY DEF PartsAre
<1>2. Split(Append(a, mark), mark) = Append(Append(front, last), << >>)
  BY <1>1, SplitAppend DEF MoreSplit
<1>3. a \o <<mark>> = Append(a, mark) /\ a \o <<mark>> \in Seq(S)
  BY <1>1
<1>4. << >> \in T
  OBVIOUS
<1>. HIDE DEF T
<1>5. Append(front, last) \in Seq(T)
  BY <1>1
<1>. QED
  BY <1>2, <1>3, <1>4, <1>5 DEF PartsAre, T

\* A text without the mark is its only part.
LEMMA OnePart ==
  ASSUME NEW S, NEW mark, NEW w \in Seq(S \ {mark})
  PROVE  PartsAre(S, mark, w, << >>, w)
<1>. DEFINE none == << >>
            noParts == << >>
<1>1. Split(none, mark) = Append(noParts, none)
  BY SplitEmpty
<1>2. none \in Seq(S) /\ none \in Seq(S \ {mark}) /\ noParts \in Seq(Seq(S \ {mark}))
  OBVIOUS
<1>3. none \o w = w
  OBVIOUS
<1>. HIDE DEF none, noParts
<1>4. PartsAre(S, mark, none, noParts, none)
  BY <1>1, <1>2 DEF PartsAre
<1>5. PartsAre(S, mark, none \o w, noParts, none \o w)
  BY <1>4, SplitGoesOn
<1>. QED
  BY <1>3, <1>5 DEF noParts

-----------------------------------------------------------------------------
(* ReadAll, line after line.                                               *)

\* Texts without the end of a column, or of a line.
Plain(A) == Seq(A \ {Bar, Newline})
ReadRows(A) == SUBSET (Plain(A) \X Plain(A))
States(A) == [table : Seq(A), rows : SUBSET (Seq(A) \X ReadRows(A))]

\* Both halves of a column are plain, whatever the line.
LEMMA ColumnsTyped ==
  ASSUME NEW A, NEW line \in Seq(A \ {Newline})
  PROVE  Columns(line) \in ReadRows(A)
<1>. DEFINE B == A \ {Newline}
<1>1. Split(line, Bar) \in PartsOver(B, Bar)
  BY SplitTyped
<1>2. (A \ {Newline}) \ {Bar} = A \ {Bar, Newline}
  OBVIOUS
<1>3. Split(line, Bar) \in Seq(Plain(A))
  BY <1>1, <1>2 DEF PartsOver, Plain
<1>4. ToSet(Split(line, Bar)) \subseteq Plain(A)
  <2>. DEFINE ps == Split(line, Bar)
              T == Plain(A)
  <2>1. ps \in Seq(T)
    BY <1>3
  <2>. HIDE DEF ps, T
  <2>2. ToSet(ps) \subseteq T
    BY <2>1 DEF ToSet
  <2>. QED
    BY <2>2 DEF ps, T
<1>5. ASSUME NEW f \in Plain(A), FirstEquals(f) # 0
      PROVE  /\ SubSeq(f, 1, FirstEquals(f) - 1) \in Plain(A)
             /\ SubSeq(f, FirstEquals(f) + 1, Len(f)) \in Plain(A)
  <2>. DEFINE T == A \ {Bar, Newline}
              p == FirstOf(f, Equals)
  <2>1. f \in Seq(T) /\ Len(f) \in Nat
    BY DEF Plain
  <2>2. FirstEquals(f) = p
    BY DEF FirstEquals, FirstOf
  <2>3. p \in 0..Len(f)
    BY <2>1, FirstIsFirst
  <2>. HIDE DEF p, T
  <2>4. p \in 1..Len(f)
    BY <1>5, <2>2, <2>3
  <2>5. SubSeq(f, 1, p - 1) \in Seq(T) /\ SubSeq(f, p + 1, Len(f)) \in Seq(T)
    BY <2>1, <2>4
  <2>. QED
    BY <2>2, <2>5 DEF Plain, T
<1>. HIDE DEF B
<1>6. ASSUME NEW c \in Columns(line) PROVE c \in Plain(A) \X Plain(A)
  <2>1. PICK f \in ToSet(Split(line, Bar)) :
          FirstEquals(f) # 0 /\ c = <<SubSeq(f, 1, FirstEquals(f) - 1), SubSeq(f, FirstEquals(f) + 1, Len(f))>>
    BY DEF Columns
  <2>2. f \in Plain(A)
    BY <1>4
  <2>. QED
    BY <1>5, <2>1, <2>2
<1>. QED
  BY <1>6 DEF ReadRows

LEMMA ReadTyped ==
  ASSUME NEW A, NEW st \in States(A), NEW line \in Seq(A \ {Newline})
  PROVE  Read(st, line) \in States(A)
<1>1. CASE line = << >> \/ line[1] = Comment
  BY <1>1 DEF Read
<1>2. CASE line # << >> /\ line[1] = Header
  <2>1. Tail(line) \in Seq(A)
    BY <1>2
  <2>2. {x \in st.rows : x[1] # Tail(line)} \in SUBSET (Seq(A) \X ReadRows(A))
    BY DEF States
  <2>3. Read(st, line) = [table |-> Tail(line), rows |-> {x \in st.rows : x[1] # Tail(line)}]
    BY <1>2, MarksDiffer DEF Read
  <2>. QED
    BY <2>1, <2>2, <2>3 DEF States
<1>3. CASE line # << >> /\ line[1] \notin {Header, Comment}
  <2>1. Columns(line) \in ReadRows(A)
    BY ColumnsTyped
  <2>2. st.rows \cup {<<st.table, Columns(line)>>} \in SUBSET (Seq(A) \X ReadRows(A))
    BY <2>1 DEF States
  <2>3. Read(st, line) = IF st.table = << >> THEN st ELSE [st EXCEPT !.rows = @ \cup {<<st.table, Columns(line)>>}]
    BY <1>3 DEF Read
  <2>. QED
    BY <2>2, <2>3 DEF States
<1>. QED
  BY <1>1, <1>2, <1>3

LinesOver(A) == Seq(Seq(A \ {Newline}))

\* ReadAll is the last value of a recursion, ...
ReadsBy(A, lines) ==
  \E f \in [0..Len(lines) -> States(A)] :
    ReadAll(lines) = f[Len(lines)] /\ f[0] = Nothing /\ \A k \in 1..Len(lines) : f[k] = Read(f[k - 1], lines[k])

LEMMA ReadRecursion ==
  ASSUME NEW A, NEW lines \in LinesOver(A)
  PROVE  ReadsBy(A, lines)
<1>. DEFINE n == Len(lines)
            R == States(A)
            base == Nothing
            step == [x \in (1..n) \X R |-> Read(x[2], lines[x[1]])]
            Fits(g) == g = [k \in 0..n |-> IF k = 0 THEN base ELSE Read(g[k - 1], lines[k])]
            g == CHOOSE g : Fits(g)
<1>1. n \in Nat /\ \A k \in 1..n : lines[k] \in Seq(A \ {Newline})
  BY DEF LinesOver
<1>2. ReadAll(lines) = g[n]
  BY DEF ReadAll
<1>3. base \in R
  BY DEF States, Nothing
<1>. HIDE DEF n, R, base
<1>4. ASSUME NEW k \in 1..n, NEW before \in R PROVE Read(before, lines[k]) \in R
  <2>1. lines[k] \in Seq(A \ {Newline})
    BY <1>1
  <2>. QED
    BY <2>1, ReadTyped DEF R
<1>5. step \in [(1..n) \X R -> R] /\ \A k \in 1..n : \A before \in R : step[<<k, before>>] = Read(before, lines[k])
  BY <1>4
<1>. HIDE DEF step
<1>6. IsStep(n, R, step)
  BY <1>5 DEF IsStep
<1>7. PICK f \in [0..n -> R] : f[0] = base /\ \A k \in 1..n : f[k] = step[<<k, f[k - 1]>>]
  <2>1. Recurses(n, R, base, step)
    BY <1>1, <1>3, <1>6, RecursionExists
  <2>. QED
    BY <2>1 DEF Recurses
<1>8. \A k \in 1..n : f[k] = Read(f[k - 1], lines[k])
  <2>1. \A k \in 1..n : k - 1 \in 0..n /\ f[k - 1] \in R
    BY <1>1
  <2>. QED
    BY <1>5, <1>7, <2>1
<1>9. Fits(g)
  <2>1. Fits(f)
    BY <1>1, <1>7, <1>8
  <2>. HIDE DEF Fits
  <2>. QED
    BY <2>1
<1>. HIDE DEF g
<1>10. g[0] = base /\ \A k \in 1..n : g[k] = Read(g[k - 1], lines[k])
  <2>1. 0 \in 0..n /\ \A k \in 1..n : k \in 0..n /\ k # 0
    BY <1>1
  <2>. QED
    BY <2>1, <1>9
<1>. DEFINE P == {k \in 0..n : g[k] = f[k]}
<1>11. 0 \in P /\ \A k \in 1..n : k - 1 \in P => k \in P
  BY <1>1, <1>7, <1>8, <1>10
<1>12. n \in P
  <2>. HIDE DEF P
  <2>1. 0..n \subseteq P
    BY <1>1, <1>11, InductionTo
  <2>. QED
    BY <1>1, <2>1
<1>. QED
  BY <1>2, <1>7, <1>8, <1>12 DEF n, R, base, ReadsBy

\* ... is a state, ...
LEMMA ReadAllTyped ==
  ASSUME NEW A, NEW lines \in LinesOver(A)
  PROVE  ReadAll(lines) \in States(A)
<1>1. ReadsBy(A, lines)
  BY ReadRecursion
<1>2. PICK f \in [0..Len(lines) -> States(A)] : ReadAll(lines) = f[Len(lines)]
  BY <1>1 DEF ReadsBy
<1>3. Len(lines) \in 0..Len(lines)
  BY DEF LinesOver
<1>. QED
  BY <1>2, <1>3

\* ... is nothing after an empty line, ...
LEMMA ReadAllEmpty == ReadAll(<< << >> >>) = Nothing
<1>. DEFINE lines == << << >> >>
<1>1. << >> \in Seq({} \ {Newline})
  OBVIOUS
<1>2. lines \in LinesOver({}) /\ Len(lines) = 1 /\ lines[1] = << >>
  BY <1>1 DEF LinesOver
<1>3. ReadsBy({}, lines)
  BY <1>2, ReadRecursion
<1>4. PICK f \in [0..Len(lines) -> States({})] :
        ReadAll(lines) = f[Len(lines)] /\ f[0] = Nothing /\ \A k \in 1..Len(lines) : f[k] = Read(f[k - 1], lines[k])
  BY <1>3 DEF ReadsBy
<1>5. f[1] = Read(f[1 - 1], lines[1]) /\ 1 - 1 = 0
  BY <1>2, <1>4
<1>. QED
  BY <1>2, <1>4, <1>5 DEF Read

\* ... and goes on with the next line.
LEMMA ReadAllAppend ==
  ASSUME NEW A, NEW lines \in LinesOver(A), NEW line \in Seq(A \ {Newline})
  PROVE  ReadAll(Append(lines, line)) = Read(ReadAll(lines), line)
<1>. DEFINE n == Len(lines)
            b == Append(lines, line)
            R == States(A)
<1>1. n \in Nat /\ b \in LinesOver(A) /\ Len(b) = n + 1 /\ b[n + 1] = line /\ \A k \in 1..n : b[k] = lines[k]
  BY DEF LinesOver
<1>. HIDE DEF n, b, R
<1>2. PICK f \in [0..n -> R] :
        ReadAll(lines) = f[n] /\ f[0] = Nothing /\ \A k \in 1..n : f[k] = Read(f[k - 1], lines[k])
  <2>1. ReadsBy(A, lines)
    BY ReadRecursion
  <2>. QED
    BY <2>1 DEF ReadsBy, n, R
<1>3. PICK g \in [0..Len(b) -> R] :
        ReadAll(b) = g[Len(b)] /\ g[0] = Nothing /\ \A k \in 1..Len(b) : g[k] = Read(g[k - 1], b[k])
  <2>1. ReadsBy(A, b)
    BY <1>1, ReadRecursion
  <2>. QED
    BY <2>1 DEF ReadsBy, R
<1>. DEFINE P == {k \in 0..n : g[k] = f[k]}
<1>4. 0 \in P
  BY <1>1, <1>2, <1>3
<1>5. ASSUME NEW k \in 1..n, k - 1 \in P PROVE k \in P
  <2>1. k \in 1..Len(b) /\ b[k] = lines[k] /\ g[k - 1] = f[k - 1] /\ k \in 0..n
    BY <1>1, <1>5
  <2>. QED
    BY <1>2, <1>3, <2>1
<1>6. n \in P
  <2>. HIDE DEF P
  <2>1. 0..n \subseteq P
    BY <1>1, <1>4, <1>5, InductionTo
  <2>. QED
    BY <1>1, <2>1
<1>7. g[n + 1] = Read(g[n], line)
  <2>1. n + 1 \in 1..Len(b) /\ (n + 1) - 1 = n
    BY <1>1
  <2>. QED
    BY <1>1, <1>3, <2>1
<1>. QED
  BY <1>1, <1>2, <1>3, <1>6, <1>7 DEF b

-----------------------------------------------------------------------------
(* What is read of a text, line after line and section after section.      *)

\* The state after a text, and the texts that end with a line.
ReadOf(a) == ReadAll(Split(a, Newline))
EndsLine(A, a) == \E front \in LinesOver(A) : PartsAre(A, Newline, a, front, << >>)

LEMMA NothingIsRead ==
  ASSUME NEW A
  PROVE  EndsLine(A, << >>) /\ ReadOf(<< >>) = Nothing
<1>1. Split(<< >>, Newline) = << << >> >>
  BY SplitEmpty
<1>2. << >> \in LinesOver(A) /\ Append(<< >>, << >>) = << << >> >>
  BY DEF LinesOver
<1>. DEFINE none == << >>
<1>3. EndsLine(A, none)
  <2>1. none \in Seq(A) /\ none \in Seq(A \ {Newline}) /\ none \in Seq(Seq(A \ {Newline}))
    OBVIOUS
  <2>2. PartsAre(A, Newline, none, none, none)
    BY <1>1, <1>2, <2>1 DEF PartsAre
  <2>. QED
    BY <1>2, <2>2 DEF EndsLine
<1>. QED
  BY <1>1, <1>3, ReadAllEmpty DEF ReadOf

\* What is read of a text that goes on after a line.
LEMMA LastLineIsRead ==
  ASSUME NEW A, NEW front \in LinesOver(A), NEW w \in Seq(A \ {Newline}), NEW a, PartsAre(A, Newline, a, front, << >>)
  PROVE  /\ ReadOf(a) = ReadAll(front)
         /\ PartsAre(A, Newline, a \o w, front, w)
         /\ ReadOf(a \o w) = Read(ReadOf(a), w)
<1>1. ReadOf(a) = ReadAll(front)
  <2>. DEFINE none == << >>
  <2>1. none \in Seq(A \ {Newline}) /\ Split(a, Newline) = Append(front, none)
    BY DEF PartsAre
  <2>2. ReadAll(Append(front, none)) = Read(ReadAll(front), none)
    BY <2>1, ReadAllAppend
  <2>. QED
    BY <2>1, <2>2 DEF ReadOf, Read
<1>2. PartsAre(A, Newline, a \o w, front, << >> \o w)
  BY SplitGoesOn
<1>3. << >> \o w = w
  OBVIOUS
<1>4. ReadAll(Append(front, w)) = Read(ReadAll(front), w)
  BY ReadAllAppend
<1>. QED
  BY <1>1, <1>2, <1>3, <1>4 DEF ReadOf, PartsAre

LEMMA LineIsRead ==
  ASSUME NEW A, NEW a, NEW w \in Seq(A \ {Newline}), EndsLine(A, a), Newline \in A
  PROVE  /\ EndsLine(A, a \o (w \o <<Newline>>))
         /\ ReadOf(a \o (w \o <<Newline>>)) = Read(ReadOf(a), w)
<1>1. PICK front \in LinesOver(A) : PartsAre(A, Newline, a, front, << >>)
  BY DEF EndsLine
<1>2. PartsAre(A, Newline, a \o w, front, w) /\ ReadOf(a \o w) = Read(ReadOf(a), w)
  BY <1>1, LastLineIsRead
<1>3. PartsAre(A, Newline, (a \o w) \o <<Newline>>, Append(front, w), << >>)
  BY <1>2, SplitEnds
<1>4. a \o (w \o <<Newline>>) = (a \o w) \o <<Newline>>
  <2>. DEFINE nl == <<Newline>>
  <2>1. a \in Seq(A) /\ w \in Seq(A) /\ nl \in Seq(A)
    BY <1>1 DEF PartsAre
  <2>. HIDE DEF nl
  <2>2. a \o (w \o nl) = (a \o w) \o nl
    BY <2>1, Regroup
  <2>. QED
    BY <2>2 DEF nl
<1>5. Append(front, w) \in LinesOver(A)
  <2>. DEFINE T == Seq(A \ {Newline})
  <2>1. front \in Seq(T) /\ w \in T
    BY DEF LinesOver
  <2>. HIDE DEF T
  <2>2. Append(front, w) \in Seq(T)
    BY <2>1
  <2>. QED
    BY <2>2 DEF T, LinesOver
<1>. DEFINE whole == (a \o w) \o <<Newline>>
            lines == Append(front, w)
<1>. HIDE DEF whole, lines
<1>6. PartsAre(A, Newline, whole, lines, << >>) /\ lines \in LinesOver(A)
  BY <1>3, <1>5 DEF whole, lines
<1>7. EndsLine(A, whole)
  BY <1>6 DEF EndsLine
<1>8. ReadOf(whole) = ReadAll(lines)
  <2>1. << >> \in Seq(A \ {Newline})
    OBVIOUS
  <2>. QED
    BY <1>6, <2>1, LastLineIsRead
<1>9. ReadOf(a \o w) = ReadAll(lines)
  BY <1>2 DEF ReadOf, lines, PartsAre
<1>. QED
  BY <1>2, <1>4, <1>7, <1>8, <1>9 DEF whole

\* A row whose line is read as the row.
Written(A, row) ==
  /\ Line(row) \in Seq(A \ {Newline})
  /\ Line(row) # << >>
  /\ Line(row)[1] \notin {Header, Comment}
  /\ Columns(Line(row)) = row

\* A row without a column is an empty line, which is skipped.
Readable(A, row) == row = {} \/ Written(A, row)

LEMMA EmptyLine == Line({}) = << >>
<1>. DEFINE list == SetToSeq({})
            fields == [i \in DOMAIN list |-> list[i][1] \o <<Equals>> \o list[i][2]]
            parts == [i \in DOMAIN fields |-> IF i = 1 THEN fields[i] ELSE <<Bar>> \o fields[i]]
<1>1. list \in Seq({}) /\ Len(list) = 0
  BY SetInSequence, FS_EmptySet
<1>2. Line({}) = FlattenSeq(parts)
  BY DEF Line, Joined
<1>3. list = << >>
  <2>. HIDE DEF list
  <2>. QED
    BY <1>1
<1>4. DOMAIN list = {}
  BY <1>3
<1>. HIDE DEF list
<1>5. DOMAIN fields = {}
  BY <1>4
<1>. HIDE DEF fields
<1>6. parts \in [1..0 -> {}]
  BY <1>5
<1>. HIDE DEF parts
<1>7. parts \in Seq({}) /\ Len(parts) = 0
  BY <1>6, FunctionIsSeq
<1>8. parts = << >>
  BY <1>7
<1>. QED
  BY <1>2, <1>8, FlattenEmpty

LEMMA RowIsRead ==
  ASSUME NEW A, NEW st \in States(A), NEW row, Readable(A, row), st.table # << >>
  PROVE  Read(st, Line(row)) = [table |-> st.table, rows |-> st.rows \cup {<<st.table, r>> : r \in {row} \ {{}}}]
<1>1. st = [table |-> st.table, rows |-> st.rows]
  BY DEF States
<1>2. CASE row = {}
  <2>1. Read(st, Line(row)) = st
    BY <1>2, EmptyLine DEF Read
  <2>2. {<<st.table, r>> : r \in {row} \ {{}}} = {}
    BY <1>2
  <2>3. st.rows \cup {<<st.table, r>> : r \in {row} \ {{}}} = st.rows
    BY <2>2
  <2>. QED
    BY <1>1, <2>1, <2>3
<1>3. CASE row # {}
  <2>1. Read(st, Line(row)) = [st EXCEPT !.rows = @ \cup {<<st.table, row>>}]
    BY <1>3 DEF Read, Written, Readable
  <2>2. {<<st.table, r>> : r \in {row} \ {{}}} = {<<st.table, row>>}
    BY <1>3
  <2>. QED
    BY <1>1, <2>1, <2>2
<1>. QED
  BY <1>2, <1>3

LEMMA ReadOfTyped ==
  ASSUME NEW A, NEW a \in Seq(A)
  PROVE  ReadOf(a) \in States(A)
<1>1. Split(a, Newline) \in LinesOver(A)
  BY SplitTyped DEF PartsOver, LinesOver
<1>. QED
  BY <1>1, ReadAllTyped DEF ReadOf

\* The rows in a list of lines.
LinesOf(rows) == [i \in DOMAIN rows |-> Line(rows[i]) \o <<Newline>>]

\* Lines of rows, after a table is open.
LEMMA RowsAreRead ==
  ASSUME NEW A, Newline \in A, NEW a \in Seq(A), EndsLine(A, a), ReadOf(a).table # << >>,
         NEW R, NEW rows \in Seq(R), \A row \in R : Readable(A, row)
  PROVE  /\ FlattenSeq(LinesOf(rows)) \in Seq(A)
         /\ EndsLine(A, a \o FlattenSeq(LinesOf(rows)))
         /\ ReadOf(a \o FlattenSeq(LinesOf(rows)))
              = [table |-> ReadOf(a).table, rows |-> ReadOf(a).rows \cup {<<ReadOf(a).table, row>> : row \in ToSet(rows) \ {{}}}]
<1>. DEFINE texts == LinesOf(rows)
            n == Len(rows)
            B(k) == SubSeq(texts, 1, k)
            u(k) == a \o FlattenSeq(B(k))
            st == ReadOf(a)
            t == st.table
            read(k) == st.rows \cup {<<t, row>> : row \in {rows[i] : i \in 1..k} \ {{}}}
            P == {k \in 0..n : EndsLine(A, u(k)) /\ ReadOf(u(k)) = [table |-> t, rows |-> read(k)]}
<1>1. n \in Nat /\ DOMAIN rows = 1..n /\ \A i \in 1..n : rows[i] \in R
  OBVIOUS
<1>2. \A i \in 1..n : Line(rows[i]) \in Seq(A \ {Newline}) /\ Line(rows[i]) \o <<Newline>> \in Seq(A)
  <2>1. << >> \in Seq(A \ {Newline})
    OBVIOUS
  <2>2. \A i \in 1..n : Line(rows[i]) \in Seq(A \ {Newline})
    BY <1>1, <2>1, EmptyLine DEF Readable, Written
  <2>. QED
    BY <2>2
<1>3. texts \in Seq(Seq(A)) /\ Len(texts) = n /\ \A i \in 1..n : texts[i] = Line(rows[i]) \o <<Newline>>
  BY <1>1, <1>2 DEF LinesOf
<1>4. st \in States(A)
  BY ReadOfTyped
<1>5. t # << >> /\ EndsLine(A, a)
  OBVIOUS
<1>. HIDE DEF texts, st, n
<1>6. /\ B(0) = << >> /\ B(n) = texts
      /\ \A k \in 0..n : B(k) \in Seq(Seq(A))
      /\ \A k \in 1..n : texts[k] \in Seq(A) /\ B(k) = Append(B(k - 1), texts[k])
  BY <1>3, PrefixGrows
<1>. HIDE DEF B
<1>7. 0 \in P
  <2>1. u(0) = a
    BY <1>6, FlattenEmpty
  <2>2. read(0) = st.rows
    <3>1. {rows[i] : i \in 1..0} \ {{}} = {}
      OBVIOUS
    <3>. QED
      BY <3>1
  <2>3. st = [table |-> st.table, rows |-> st.rows]
    BY <1>4 DEF States
  <2>. HIDE DEF u, read
  <2>. QED
    BY <1>1, <1>5, <2>1, <2>2, <2>3 DEF st
<1>8. ASSUME NEW k \in 1..n, k - 1 \in P PROVE k \in P
  <2>. DEFINE c == u(k - 1)
              w == Line(rows[k])
  <2>1. k - 1 \in 0..n /\ k \in 0..n /\ rows[k] \in R
    BY <1>1
  <2>2. FlattenSeq(B(k)) = FlattenSeq(B(k - 1)) \o (w \o <<Newline>>)
    BY <1>3, <1>6, <2>1, FlattenAppend
  <2>3. FlattenSeq(B(k - 1)) \in Seq(A) /\ w \o <<Newline>> \in Seq(A) /\ w \in Seq(A \ {Newline})
    BY <1>2, <1>6, <2>1, FlattenTyped
  <2>4. c \in Seq(A)
    <3>. DEFINE fl == FlattenSeq(B(k - 1))
    <3>1. fl \in Seq(A)
      BY <2>3
    <3>. HIDE DEF fl
    <3>2. a \o fl \in Seq(A)
      BY <3>1
    <3>. QED
      BY <3>2 DEF fl
  <2>5. u(k) = c \o (w \o <<Newline>>)
    <3>. DEFINE fl == FlattenSeq(B(k - 1))
                v == w \o <<Newline>>
    <3>1. fl \in Seq(A) /\ v \in Seq(A) /\ FlattenSeq(B(k)) = fl \o v
      BY <2>2, <2>3
    <3>. HIDE DEF fl, v
    <3>2. a \o (fl \o v) = (a \o fl) \o v
      BY <3>1, Regroup
    <3>3. u(k) = (a \o fl) \o v
      BY <3>1, <3>2
    <3>. QED
      BY <3>3 DEF fl, v
  <2>6. EndsLine(A, c) /\ ReadOf(c) = [table |-> t, rows |-> read(k - 1)]
    BY <1>8
  <2>7. Readable(A, rows[k])
    BY <2>1
  <2>. HIDE DEF c, u, w, read
  <2>8. EndsLine(A, u(k)) /\ ReadOf(u(k)) = Read(ReadOf(c), w)
    BY <2>3, <2>4, <2>5, <2>6, LineIsRead
  <2>9. ReadOf(c) \in States(A)
    BY <2>4, ReadOfTyped
  <2>10. ReadOf(c).table = t /\ ReadOf(c).rows = read(k - 1)
    BY <2>6
  <2>11. ReadOf(c).table # << >>
    BY <1>5, <2>10
  <2>12. Read(ReadOf(c), w) = [table |-> ReadOf(c).table, rows |-> ReadOf(c).rows \cup {<<ReadOf(c).table, row>> : row \in {rows[k]} \ {{}}}]
    BY <2>7, <2>9, <2>11, RowIsRead DEF w
  <2>13. Read(ReadOf(c), w) = [table |-> t, rows |-> read(k - 1) \cup {<<t, row>> : row \in {rows[k]} \ {{}}}]
    BY <2>10, <2>12
  <2>14. read(k - 1) \cup {<<t, row>> : row \in {rows[k]} \ {{}}} = read(k)
    <3>1. {rows[i] : i \in 1..k} = {rows[i] : i \in 1..(k - 1)} \cup {rows[k]}
      <4>1. 1..k = (1..(k - 1)) \cup {k}
        BY <2>1, <1>1
      <4>. QED
        BY <4>1
    <3>. DEFINE some == {rows[i] : i \in 1..(k - 1)}
                all == {rows[i] : i \in 1..k}
    <3>2. all = some \cup {rows[k]}
      BY <3>1
    <3>. HIDE DEF some, all
    <3>3. {<<t, row>> : row \in all \ {{}}} = {<<t, row>> : row \in some \ {{}}} \cup {<<t, row>> : row \in {rows[k]} \ {{}}}
      BY <3>2
    <3>. QED
      BY <3>3 DEF read, some, all
  <2>. QED
    BY <2>1, <2>8, <2>13, <2>14
<1>9. n \in P
  <2>. HIDE DEF P
  <2>1. 0..n \subseteq P
    BY <1>1, <1>7, <1>8, InductionTo
  <2>. QED
    BY <1>1, <2>1
<1>10. {rows[i] : i \in 1..n} = ToSet(rows)
  BY <1>1 DEF ToSet
<1>11. FlattenSeq(texts) \in Seq(A)
  BY <1>3, FlattenTyped
<1>. QED
  BY <1>6, <1>9, <1>10, <1>11 DEF texts, st

-----------------------------------------------------------------------------
(* The order of the tables.                                                *)

\* The tables whose place is not after that of t.
UpTo(t) == {u \in Tables : Rank[u] <= Rank[t]}

\* Each place up to their number is that of one table.
LEMMA PlacesOfTables ==
  ASSUME ConstantsAssumption, IsFiniteSet(Tables)
  PROVE  /\ Cardinality(Tables) \in Nat
         /\ \A t \in Tables : PlaceOf(t) \in 1..Cardinality(Tables)
         /\ \A t, u \in Tables : PlaceOf(t) = PlaceOf(u) => t = u
         /\ \A t, u \in Tables : Rank[t] < Rank[u] <=> PlaceOf(t) < PlaceOf(u)
         /\ \A k \in 1..Cardinality(Tables) : \E t \in Tables : PlaceOf(t) = k
<1>. DEFINE m == Cardinality(Tables)
<1>1. m \in Nat
  BY FS_CardinalityType
<1>2. ASSUME NEW t \in Tables PROVE UpTo(t) \in SUBSET Tables /\ IsFiniteSet(UpTo(t)) /\ PlaceOf(t) = Cardinality(UpTo(t)) /\ PlaceOf(t) \in Nat
  <2>1. UpTo(t) \in SUBSET Tables
    BY DEF UpTo
  <2>2. IsFiniteSet(UpTo(t))
    BY <2>1, FS_Subset
  <2>3. Cardinality(UpTo(t)) \in Nat
    BY <2>2, FS_CardinalityType
  <2>. QED
    BY <2>1, <2>2, <2>3 DEF PlaceOf, UpTo
<1>3. ASSUME NEW t \in Tables PROVE PlaceOf(t) \in 1..m
  <2>1. Cardinality(UpTo(t)) <= m
    BY <1>2, FS_Subset
  <2>2. t \in UpTo(t)
    BY DEF UpTo, ConstantsAssumption
  <2>3. Cardinality(UpTo(t)) # 0
    BY <1>2, <2>2, FS_EmptySet
  <2>. HIDE DEF m
  <2>. QED
    BY <1>1, <1>2, <2>1, <2>3
<1>4. ASSUME NEW t \in Tables, NEW u \in Tables, Rank[t] < Rank[u] PROVE PlaceOf(t) < PlaceOf(u)
  <2>1. Rank[t] \in Nat /\ Rank[u] \in Nat /\ \A v \in Tables : Rank[v] \in Nat
    BY DEF ConstantsAssumption
  <2>2. UpTo(t) \in SUBSET UpTo(u)
    BY <1>4, <2>1 DEF UpTo
  <2>3. u \in UpTo(u) /\ u \notin UpTo(t)
    BY <1>4, <2>1 DEF UpTo
  <2>4. Cardinality(UpTo(t)) <= Cardinality(UpTo(u)) /\ Cardinality(UpTo(t)) # Cardinality(UpTo(u))
    BY <1>2, <2>2, <2>3, FS_Subset
  <2>. QED
    BY <1>2, <2>4
<1>5. ASSUME NEW t \in Tables, NEW u \in Tables, PlaceOf(t) = PlaceOf(u) PROVE t = u
  <2>1. Rank[t] \in Nat /\ Rank[u] \in Nat /\ (Rank[t] = Rank[u] => t = u)
    BY DEF ConstantsAssumption
  <2>2. PlaceOf(t) \in Nat /\ PlaceOf(u) \in Nat
    BY <1>2
  <2>3. ~ (Rank[t] < Rank[u]) /\ ~ (Rank[u] < Rank[t])
    BY <1>4, <1>5, <2>2
  <2>. QED
    BY <2>1, <2>3
<1>6. ASSUME NEW k \in 1..m PROVE \E t \in Tables : PlaceOf(t) = k
  <2>. DEFINE place == [t \in Tables |-> PlaceOf(t)]
  <2>1. place \in Injection(Tables, 1..m)
    BY <1>3, <1>5 DEF Injection, IsInjective
  <2>2. IsFiniteSet(1..m) /\ Cardinality(1..m) = m
    <3>1. 1 \in Int /\ m \in Int
      BY <1>1
    <3>2. IsFiniteSet(1..m) /\ Cardinality(1..m) = IF 1 > m THEN 0 ELSE m - 1 + 1
      BY <3>1, FS_Interval
    <3>. HIDE DEF m
    <3>. QED
      BY <1>1, <3>2
  <2>3. place \in Surjection(Tables, 1..m)
    BY <2>1, <2>2, FS_Injection
  <2>. QED
    BY <2>3 DEF Surjection
<1>7. ASSUME NEW t \in Tables, NEW u \in Tables, PlaceOf(t) < PlaceOf(u) PROVE Rank[t] < Rank[u]
  <2>1. Rank[t] \in Nat /\ Rank[u] \in Nat /\ (Rank[t] = Rank[u] => t = u)
    BY DEF ConstantsAssumption
  <2>2. PlaceOf(t) \in Nat /\ PlaceOf(u) \in Nat
    BY <1>2
  <2>3. ~ (Rank[u] < Rank[t]) /\ t # u
    BY <1>4, <1>7, <2>2
  <2>. QED
    BY <2>1, <2>3
<1>. QED
  BY <1>1, <1>3, <1>4, <1>5, <1>6, <1>7

-----------------------------------------------------------------------------
(* Sections and files.                                                     *)

\* The rows of a table, as Read keeps them.
Listed(t, rows) == {<<<<t>>, row>> : row \in rows \ {{}}}

\* Rows that are read as they were, but for those without a column.
WrittenRows(A, rows) == IsFiniteSet(rows) /\ \A row \in rows : Readable(A, row)

Heading(t) == <<Header, t, Newline>>

\* What is read before a table, without rows of the table.
Others(st, t) == {x \in st.rows : x[1] # <<t>>}

LEMMA HeadingIsRead ==
  ASSUME NEW A, {Header, Newline} \subseteq A, NEW t \in A \ {Newline}, NEW a, EndsLine(A, a)
  PROVE  /\ Heading(t) \in Seq(A) /\ a \o Heading(t) \in Seq(A)
         /\ EndsLine(A, a \o Heading(t))
         /\ ReadOf(a \o Heading(t)) = [table |-> <<t>>, rows |-> Others(ReadOf(a), t)]
<1>. DEFINE head == <<Header, t>>
            nl == <<Newline>>
<1>1. head \in Seq(A \ {Newline}) /\ head # << >> /\ head[1] = Header /\ Tail(head) = <<t>> /\ nl \in Seq(A) /\ head \in Seq(A)
  BY MarksDiffer
<1>2. Heading(t) = head \o nl
  BY ThreeAtoms DEF Heading
<1>3. a \in Seq(A)
  BY DEF EndsLine, PartsAre
<1>. HIDE DEF head
<1>4. EndsLine(A, a \o (head \o nl)) /\ ReadOf(a \o (head \o nl)) = Read(ReadOf(a), head)
  <2>1. Newline \in A
    OBVIOUS
  <2>. QED
    BY <1>1, <2>1, LineIsRead
<1>5. Read(ReadOf(a), head) = [table |-> <<t>>, rows |-> Others(ReadOf(a), t)]
  BY <1>1, MarksDiffer DEF Read, Others
<1>. HIDE DEF nl
<1>6. head \o nl \in Seq(A)
  BY <1>1
<1>. DEFINE h == head \o nl
<1>. HIDE DEF h
<1>7. a \o h \in Seq(A)
  BY <1>3, <1>6 DEF h
<1>. QED
  BY <1>2, <1>4, <1>5, <1>6, <1>7 DEF h

\* Some lines of a section.
LEMMA SomeRowsAreRead ==
  ASSUME NEW A, {Header, Newline} \subseteq A, NEW t \in A \ {Newline}, NEW a, EndsLine(A, a),
         NEW R, NEW list \in Seq(R), \A row \in R : Readable(A, row)
  PROVE  /\ FlattenSeq(LinesOf(list)) \in Seq(A)
         /\ EndsLine(A, (a \o Heading(t)) \o FlattenSeq(LinesOf(list)))
         /\ ReadOf((a \o Heading(t)) \o FlattenSeq(LinesOf(list)))
              = [table |-> <<t>>, rows |-> Others(ReadOf(a), t) \cup Listed(t, ToSet(list))]
<1>. DEFINE open == a \o Heading(t)
            lines == FlattenSeq(LinesOf(list))
            kept == Others(ReadOf(a), t)
<1>1. open \in Seq(A) /\ EndsLine(A, open) /\ ReadOf(open).table = <<t>> /\ ReadOf(open).rows = kept
  BY HeadingIsRead
<1>2. <<t>> # << >>
  OBVIOUS
<1>. HIDE DEF open, lines, kept
<1>3. /\ lines \in Seq(A)
      /\ EndsLine(A, open \o lines)
      /\ ReadOf(open \o lines)
           = [table |-> ReadOf(open).table, rows |-> ReadOf(open).rows \cup {<<ReadOf(open).table, row>> : row \in ToSet(list) \ {{}}}]
  <2>1. Newline \in A /\ ReadOf(open).table # << >>
    BY <1>1, <1>2
  <2>. QED
    BY <1>1, <2>1, RowsAreRead DEF lines
<1>. QED
  BY <1>1, <1>3 DEF open, lines, kept, Listed

LEMMA SectionIsRead ==
  ASSUME NEW A, {Header, Newline} \subseteq A, NEW t \in A \ {Newline}, NEW a, EndsLine(A, a),
         NEW rows, WrittenRows(A, rows[t])
  PROVE  /\ Section(rows, t) \in Seq(A)
         /\ EndsLine(A, a \o Section(rows, t))
         /\ ReadOf(a \o Section(rows, t)) = [table |-> <<t>>, rows |-> Others(ReadOf(a), t) \cup Listed(t, rows[t])]
<1>. DEFINE list == SetToSeq(rows[t])
            R == rows[t]
            h == Heading(t)
            lines == FlattenSeq(LinesOf(list))
<1>1. list \in Seq(R) /\ ToSet(list) = R /\ \A row \in R : Readable(A, row)
  BY SetInSequence DEF WrittenRows
<1>2. Section(rows, t) = h \o lines
  BY DEF Section, LinesOf, Heading
<1>3. a \in Seq(A) /\ h \in Seq(A)
  BY HeadingIsRead DEF EndsLine, PartsAre
<1>. HIDE DEF list, R
<1>4. /\ lines \in Seq(A) /\ EndsLine(A, (a \o h) \o lines)
      /\ ReadOf((a \o h) \o lines) = [table |-> <<t>>, rows |-> Others(ReadOf(a), t) \cup Listed(t, ToSet(list))]
  BY <1>1, SomeRowsAreRead
<1>. HIDE DEF h, lines
<1>5. (a \o h) \o lines = a \o (h \o lines) /\ h \o lines \in Seq(A)
  BY <1>3, <1>4, Regroup
<1>. QED
  BY <1>1, <1>2, <1>4, <1>5 DEF R

\* The table of each place, and the text up to it.
At(k) == CHOOSE t \in Tables : PlaceOf(t) = k
Sections(rows) == [k \in 1..Cardinality(Tables) |-> Section(rows, At(k))]
TextUpTo(rows, k) == FlattenSeq(SubSeq(Sections(rows), 1, k))

\* The rows of the file up to a place, as Read keeps them.
ListedUpTo(rows, k) == UNION {Listed(t, rows[t]) : t \in {u \in Tables : PlaceOf(u) <= k}}

WrittenTables(A, rows) == \A t \in Tables : WrittenRows(A, rows[t])

LEMMA TablesAtPlaces ==
  ASSUME ConstantsAssumption, IsFiniteSet(Tables)
  PROVE  \A k \in 1..Cardinality(Tables) : At(k) \in Tables /\ PlaceOf(At(k)) = k
BY PlacesOfTables DEF At

LEMMA OthersAreListed ==
  ASSUME ConstantsAssumption, IsFiniteSet(Tables), NEW st, NEW k \in 1..Cardinality(Tables), NEW rows,
         st.rows = ListedUpTo(rows, k - 1)
  PROVE  /\ Others(st, At(k)) = ListedUpTo(rows, k - 1)
         /\ Others(st, At(k)) \cup Listed(At(k), rows[At(k)]) = ListedUpTo(rows, k)
<1>. DEFINE t == At(k)
            m == Cardinality(Tables)
            first(i) == {u \in Tables : PlaceOf(u) <= i}
<1>1. m \in Nat /\ (\A u \in Tables : PlaceOf(u) \in 1..m) /\ (\A u, v \in Tables : PlaceOf(u) = PlaceOf(v) => u = v)
  BY PlacesOfTables
<1>2. t \in Tables /\ PlaceOf(t) = k
  BY TablesAtPlaces
<1>. HIDE DEF t, m
<1>3. k \in Nat
  BY <1>1 DEF m
<1>4. first(k) = first(k - 1) \cup {t} /\ t \notin first(k - 1)
  BY <1>1, <1>2, <1>3
<1>. HIDE DEF first
<1>5. \A i : ListedUpTo(rows, i) = UNION {Listed(u, rows[u]) : u \in first(i)}
  BY DEF ListedUpTo, first
<1>6. ASSUME NEW x \in ListedUpTo(rows, k - 1) PROVE x[1] # <<t>>
  <2>1. PICK v \in first(k - 1) : x \in Listed(v, rows[v])
    BY <1>5
  <2>2. x[1] = <<v>>
    BY <2>1 DEF Listed
  <2>3. v # t
    BY <1>4
  <2>. QED
    BY <2>2, <2>3
<1>7. Others(st, t) = ListedUpTo(rows, k - 1)
  BY <1>6 DEF Others
<1>8. ListedUpTo(rows, k - 1) \cup Listed(t, rows[t]) = ListedUpTo(rows, k)
  BY <1>4, <1>5
<1>. QED
  BY <1>7, <1>8 DEF t

LEMMA TextIsRead ==
  ASSUME ConstantsAssumption, IsFiniteSet(Tables), NEW A, {Header, Newline} \subseteq A, Tables \subseteq A \ {Newline},
         NEW rows, WrittenTables(A, rows)
  PROVE  /\ Sections(rows) \in Seq(Seq(A)) /\ Len(Sections(rows)) = Cardinality(Tables)
         /\ Encode(rows) = TextUpTo(rows, Cardinality(Tables))
         /\ \A k \in 0..Cardinality(Tables) :
              /\ EndsLine(A, TextUpTo(rows, k))
              /\ ReadOf(TextUpTo(rows, k)).rows = ListedUpTo(rows, k)
              /\ ReadOf(TextUpTo(rows, k)).table = IF k = 0 THEN << >> ELSE <<At(k)>>
<1>. DEFINE m == Cardinality(Tables)
            texts == Sections(rows)
            u(k) == TextUpTo(rows, k)
            Good(k) == /\ EndsLine(A, u(k)) /\ ReadOf(u(k)).rows = ListedUpTo(rows, k)
                       /\ ReadOf(u(k)).table = IF k = 0 THEN << >> ELSE <<At(k)>>
            P == {k \in 0..m : Good(k)}
<1>1. m \in Nat /\ (\A t \in Tables : PlaceOf(t) \in 1..m) /\ \A k \in 1..m : At(k) \in Tables
  BY PlacesOfTables, TablesAtPlaces
<1>2. ASSUME NEW k \in 1..m, NEW a, EndsLine(A, a)
      PROVE  /\ Section(rows, At(k)) \in Seq(A)
             /\ EndsLine(A, a \o Section(rows, At(k)))
             /\ ReadOf(a \o Section(rows, At(k)))
                  = [table |-> <<At(k)>>, rows |-> Others(ReadOf(a), At(k)) \cup Listed(At(k), rows[At(k)])]
  <2>. DEFINE t == At(k)
  <2>1. t \in A \ {Newline} /\ WrittenRows(A, rows[t])
    BY <1>1 DEF WrittenTables
  <2>. HIDE DEF t
  <2>2. /\ Section(rows, t) \in Seq(A)
        /\ EndsLine(A, a \o Section(rows, t))
        /\ ReadOf(a \o Section(rows, t)) = [table |-> <<t>>, rows |-> Others(ReadOf(a), t) \cup Listed(t, rows[t])]
    BY <1>2, <2>1, SectionIsRead
  <2>. QED
    BY <2>2 DEF t
<1>3. EndsLine(A, << >>) /\ ReadOf(<< >>) = Nothing
  BY NothingIsRead
<1>4. texts \in Seq(Seq(A)) /\ Len(texts) = m /\ \A k \in 1..m : texts[k] = Section(rows, At(k))
  <2>1. \A k \in 1..m : Section(rows, At(k)) \in Seq(A)
    BY <1>2, <1>3
  <2>2. texts \in [1..m -> Seq(A)]
    BY <2>1 DEF Sections
  <2>3. \A k \in 1..m : texts[k] = Section(rows, At(k))
    BY DEF Sections
  <2>. HIDE DEF texts, m
  <2>. QED
    BY <1>1, <2>2, <2>3, FunctionIsSeq
<1>. DEFINE B(k) == SubSeq(texts, 1, k)
<1>5. \A k : u(k) = FlattenSeq(B(k))
  BY DEF TextUpTo
<1>. HIDE DEF u, texts, m
<1>6. /\ B(0) = << >> /\ B(m) = texts
      /\ \A k \in 0..m : B(k) \in Seq(Seq(A))
      /\ \A k \in 1..m : texts[k] \in Seq(A) /\ B(k) = Append(B(k - 1), texts[k])
  BY <1>4, PrefixGrows
<1>. HIDE DEF B
<1>7. 0 \in P
  <2>1. u(0) = << >>
    BY <1>5, <1>6, FlattenEmpty
  <2>2. {v \in Tables : PlaceOf(v) <= 0} = {}
    BY <1>1
  <2>3. ListedUpTo(rows, 0) = {} /\ Nothing.rows = {} /\ Nothing.table = << >>
    BY <2>2 DEF Nothing, ListedUpTo
  <2>4. Good(0)
    BY <1>3, <2>1, <2>3
  <2>5. 0 \in 0..m
    BY <1>1
  <2>. QED
    BY <2>4, <2>5
<1>8. ASSUME NEW k \in 1..m, k - 1 \in P PROVE k \in P
  <2>1. k - 1 \in 0..m /\ k \in 0..m /\ k # 0
    BY <1>1
  <2>2. u(k) = u(k - 1) \o Section(rows, At(k))
    BY <1>4, <1>5, <1>6, <2>1, FlattenAppend
  <2>3. EndsLine(A, u(k - 1)) /\ ReadOf(u(k - 1)).rows = ListedUpTo(rows, k - 1)
    BY <1>8
  <2>. DEFINE st == ReadOf(u(k - 1))
  <2>4. EndsLine(A, u(k)) /\ ReadOf(u(k)) = [table |-> <<At(k)>>, rows |-> Others(st, At(k)) \cup Listed(At(k), rows[At(k)])]
    <3>. DEFINE v == u(k - 1)
    <3>1. EndsLine(A, v)
      BY <2>3
    <3>. HIDE DEF v
    <3>2. /\ EndsLine(A, v \o Section(rows, At(k)))
          /\ ReadOf(v \o Section(rows, At(k))) = [table |-> <<At(k)>>, rows |-> Others(ReadOf(v), At(k)) \cup Listed(At(k), rows[At(k)])]
      BY <1>2, <3>1
    <3>. QED
      BY <2>2, <3>2 DEF v
  <2>5. st.rows = ListedUpTo(rows, k - 1)
    BY <2>3
  <2>. HIDE DEF st
  <2>6. Others(st, At(k)) \cup Listed(At(k), rows[At(k)]) = ListedUpTo(rows, k)
    BY <2>5, OthersAreListed DEF m
  <2>7. Good(k)
    BY <2>1, <2>4, <2>6
  <2>. HIDE DEF Good
  <2>. QED
    BY <2>1, <2>7
<1>9. 0..m \subseteq P
  <2>. HIDE DEF P
  <2>. QED
    BY <1>1, <1>7, <1>8, InductionTo
<1>10. Encode(rows) = u(m)
  BY <1>5, <1>6 DEF Encode, At, Sections, texts, m
<1>11. \A k \in 0..m : Good(k)
  <2>. HIDE DEF Good
  <2>. QED
    BY <1>9
<1>. QED
  BY <1>4, <1>10, <1>11 DEF texts, m, u

\* What is read of the rows of some tables.
RowsIn(read) == [t \in Tables |-> {x[2] : x \in {y \in read : y[1] = <<t>>}}]

LEMMA RowsOfTables ==
  ASSUME NEW some, some \subseteq Tables, NEW rows
  PROVE  RowsIn(UNION {Listed(t, rows[t]) : t \in some}) = [t \in Tables |-> IF t \in some THEN rows[t] \ {{}} ELSE {}]
<1>. DEFINE read == UNION {Listed(t, rows[t]) : t \in some}
<1>1. \A y : y \in read <=> \E u \in some : y \in Listed(u, rows[u])
  OBVIOUS
<1>. HIDE DEF read
<1>2. ASSUME NEW t \in Tables
      PROVE  {x[2] : x \in {y \in read : y[1] = <<t>>}} = IF t \in some THEN rows[t] \ {{}} ELSE {}
  <2>1. ASSUME NEW y \in read, y[1] = <<t>> PROVE t \in some /\ y[2] \in rows[t] \ {{}}
    <3>1. PICK u \in some : y \in Listed(u, rows[u])
      BY <1>1
    <3>2. PICK row \in rows[u] \ {{}} : y = <<<<u>>, row>>
      BY <3>1 DEF Listed
    <3>3. u = t
      BY <2>1, <3>2
    <3>. QED
      BY <3>2, <3>3
  <2>2. ASSUME NEW row \in rows[t] \ {{}}, t \in some PROVE <<<<t>>, row>> \in read
    BY <1>1, <2>2 DEF Listed
  <2>. DEFINE of == {y \in read : y[1] = <<t>>}
  <2>3. ASSUME NEW row \in rows[t] \ {{}}, t \in some PROVE \E x \in of : x[2] = row
    <3>1. <<<<t>>, row>>[1] = <<t>> /\ <<<<t>>, row>>[2] = row
      OBVIOUS
    <3>. QED
      BY <2>2, <2>3, <3>1
  <2>4. \A y \in of : t \in some /\ y[2] \in rows[t] \ {{}}
    BY <2>1
  <2>. HIDE DEF of
  <2>5. {x[2] : x \in of} = IF t \in some THEN rows[t] \ {{}} ELSE {}
    BY <2>3, <2>4
  <2>. QED
    BY <2>5 DEF of
<1>. QED
  BY <1>2 DEF RowsIn, read

\* Rows that are read as they were are what the next open reads.
LEMMA FileIsReadBack ==
  ASSUME ConstantsAssumption, IsFiniteSet(Tables), NEW A, {Header, Newline} \subseteq A, Tables \subseteq A \ {Newline},
         NEW rows, WrittenTables(A, rows)
  PROVE  Replay(Encode(rows)) = [t \in Tables |-> rows[t] \ {{}}]
<1>. DEFINE m == Cardinality(Tables)
            some == {t \in Tables : PlaceOf(t) <= m}
<1>1. m \in Nat /\ \A t \in Tables : PlaceOf(t) \in 1..m
  BY PlacesOfTables
<1>2. some = Tables
  BY <1>1
<1>3. m \in 0..m
  BY <1>1
<1>4. ReadOf(Encode(rows)).rows = ListedUpTo(rows, m)
  BY <1>3, TextIsRead
<1>5. Replay(Encode(rows)) = RowsIn(UNION {Listed(t, rows[t]) : t \in Tables})
  BY <1>2, <1>4 DEF Replay, ReadOf, RowsIn, ListedUpTo
<1>6. RowsIn(UNION {Listed(t, rows[t]) : t \in Tables}) = [t \in Tables |-> IF t \in Tables THEN rows[t] \ {{}} ELSE {}]
  BY RowsOfTables
<1>. QED
  BY <1>5, <1>6

-----------------------------------------------------------------------------
(* Lines of two columns.                                                   *)

\* How a column is written, and the columns that can be told from it again.
Field(c) == c[1] \o <<Equals>> \o c[2]
Name(A) == Seq(A \ {Equals, Bar, Newline, Header, Comment}) \ {<< >>}
ColumnsOver(A) == Name(A) \X Plain(A)

LEMMA FieldIsRead ==
  ASSUME NEW A, Equals \in A, NEW c \in ColumnsOver(A)
  PROVE  /\ Field(c) \in Plain(A) /\ Field(c) # << >> /\ Field(c)[1] \notin {Header, Comment}
         /\ FirstEquals(Field(c)) # 0
         /\ <<SubSeq(Field(c), 1, FirstEquals(Field(c)) - 1), SubSeq(Field(c), FirstEquals(Field(c)) + 1, Len(Field(c)))>> = c
<1>. DEFINE T == A \ {Bar, Newline}
            a == c[1]
            b == c[2]
            f == a \o <<Equals>> \o b
            n == Len(a)
            p == FirstOf(f, Equals)
<1>1. a \in Seq(A \ {Equals, Bar, Newline, Header, Comment}) /\ a # << >> /\ b \in Seq(T) /\ c = <<a, b>>
  BY DEF ColumnsOver, Name, Plain
<1>2. a \in Seq(T) /\ n \in Nat /\ n # 0 /\ \A i \in 1..n : a[i] # Equals /\ a[i] \notin {Header, Comment}
  BY <1>1
<1>3. Equals \in T
  BY MarksDiffer
<1>4. Field(c) = f
  BY DEF Field
<1>5. FirstEquals(f) = p
  BY DEF FirstEquals, FirstOf
<1>. HIDE DEF T, a, b
<1>6. f \in Seq(T) /\ Len(f) = n + 1 + Len(b) /\ f[n + 1] = Equals /\ Len(b) \in Nat
  BY <1>1, <1>2, <1>3
<1>7. \A i \in 1..n : f[i] = a[i]
  BY <1>1, <1>2, <1>3
<1>8. SubSeq(f, 1, n) = a
  BY <1>1, <1>2, <1>3
<1>9. SubSeq(f, n + 2, Len(f)) = b
  BY <1>1, <1>2, <1>3
<1>. HIDE DEF f, n
<1>10. /\ p \in 0..Len(f)
       /\ p = 0 => \A k \in 1..Len(f) : f[k] # Equals
       /\ p # 0 => f[p] = Equals /\ \A k \in 1..(p - 1) : f[k] # Equals
  <2>1. Len(f) \in Nat
    BY <1>2, <1>6
  <2>. QED
    BY <2>1, FirstIsFirst
<1>. HIDE DEF p
<1>11. n + 1 \in 1..Len(f)
  BY <1>2, <1>6
<1>12. p # 0
  BY <1>6, <1>10, <1>11
<1>13. ~ (p < n + 1)
  <2>1. p < n + 1 => p \in 1..n
    BY <1>2, <1>6, <1>10, <1>12
  <2>. QED
    BY <1>2, <1>7, <1>10, <1>12, <2>1
<1>14. ~ (p > n + 1)
  <2>1. p > n + 1 => n + 1 \in 1..(p - 1)
    BY <1>2, <1>6, <1>10
  <2>. QED
    BY <1>6, <1>10, <1>12, <2>1
<1>15. p = n + 1
  BY <1>2, <1>6, <1>10, <1>13, <1>14
<1>16. p - 1 = n /\ p + 1 = n + 2
  BY <1>2, <1>15
<1>17. f # << >> /\ f[1] \notin {Header, Comment}
  <2>1. 1 \in 1..n
    BY <1>2
  <2>2. Len(f) # 0
    BY <1>11
  <2>. QED
    BY <1>2, <1>6, <1>7, <2>1, <2>2
<1>. QED
  BY <1>1, <1>4, <1>5, <1>6, <1>8, <1>9, <1>12, <1>16, <1>17 DEF Plain, T

\* Two fields are written with a bar between them ...
LEMMA JoinedPair ==
  ASSUME NEW A, NEW f \in Seq(A), NEW g \in Seq(A), NEW mark \in A, NEW seqs, Len(seqs) = 2, DOMAIN seqs = 1..2, seqs[1] = f, seqs[2] = g
  PROVE  Joined(seqs, mark) = (f \o <<mark>>) \o g
<1>. DEFINE h == <<mark>> \o g
            parts == [i \in DOMAIN seqs |-> IF i = 1 THEN seqs[i] ELSE <<mark>> \o seqs[i]]
            S == Seq(A)
            none == << >>
            one == Append(none, f)
            two == Append(one, h)
<1>1. h \in S /\ f \in S
  OBVIOUS
<1>. HIDE DEF h
<1>2. parts \in [1..2 -> S] /\ parts[1] = f /\ parts[2] = h
  BY <1>1 DEF h
<1>3. Joined(seqs, mark) = FlattenSeq(parts)
  BY DEF Joined
<1>. HIDE DEF parts, S
<1>4. none \in Seq(S) /\ one \in Seq(S) /\ two \in Seq(S) /\ Len(two) = 2 /\ two[1] = f /\ two[2] = h
  BY <1>1
<1>5. parts \in Seq(S) /\ Len(parts) = 2
  BY <1>2, FunctionIsSeq
<1>6. \A i \in 1..2 : parts[i] = two[i]
  BY <1>2, <1>4
<1>. HIDE DEF two
<1>7. parts = two
  BY <1>4, <1>5, <1>6, SeqEqual
<1>. HIDE DEF one, none
<1>8. FlattenSeq(two) = FlattenSeq(one) \o h
  BY <1>1, <1>4, FlattenAppend DEF two, S
<1>9. FlattenSeq(one) = FlattenSeq(none) \o f
  BY <1>1, <1>4, FlattenAppend DEF one, S
<1>10. FlattenSeq(none) \o f = f
  <2>1. << >> \o f = f
    OBVIOUS
  <2>. QED
    BY <2>1, FlattenEmpty DEF none
<1>11. f \o h = (f \o <<mark>>) \o g
  <2>. DEFINE m == <<mark>>
  <2>1. m \in Seq(A)
    OBVIOUS
  <2>. HIDE DEF m
  <2>2. f \o (m \o g) = (f \o m) \o g
    BY <2>1, Regroup
  <2>. QED
    BY <2>2 DEF m, h
<1>. QED
  BY <1>3, <1>7, <1>8, <1>9, <1>10, <1>11

\* ... and split there again.
LEMMA PairIsSplit ==
  ASSUME NEW S, NEW mark \in S, NEW f \in Seq(S \ {mark}), NEW g \in Seq(S \ {mark})
  PROVE  ToSet(Split((f \o <<mark>>) \o g, mark)) = {f, g}
<1>. DEFINE none == << >>
            T == Seq(S \ {mark})
            one == Append(none, f)
<1>1. PartsAre(S, mark, f, none, f)
  BY OnePart
<1>. HIDE DEF none
<1>2. PartsAre(S, mark, f \o <<mark>>, one, << >>)
  BY <1>1, SplitEnds
<1>. HIDE DEF one
<1>3. PartsAre(S, mark, (f \o <<mark>>) \o g, one, << >> \o g)
  BY <1>2, SplitGoesOn
<1>4. << >> \o g = g
  OBVIOUS
<1>5. Split((f \o <<mark>>) \o g, mark) = Append(one, g)
  BY <1>3, <1>4 DEF PartsAre
<1>6. f \in T /\ g \in T
  OBVIOUS
<1>. HIDE DEF T
<1>7. Append(one, g) = <<f, g>>
  BY TwoAppended DEF one, none
<1>8. ToSet(<<f, g>>) = {f, g}
  BY DEF ToSet
<1>. QED
  BY <1>5, <1>7, <1>8

\* The line of a row of two columns has them in one order or the other.
LineOfTwo(x, y) == (Field(x) \o <<Bar>>) \o Field(y)
LineOf(c, d, x, y) == {x, y} = {c, d} /\ Line({c, d}) = LineOfTwo(x, y)

LEMMA PairInLine ==
  ASSUME NEW A, Equals \in A, Bar \in A, NEW c \in ColumnsOver(A), NEW d \in ColumnsOver(A), c # d
  PROVE  \E x, y \in {c, d} : LineOf(c, d, x, y)
<1>. DEFINE row == {c, d}
            list == SetToSeq(row)
            x == list[1]
            y == list[2]
            f == Field(x)
            g == Field(y)
            line == (f \o <<Bar>>) \o g
            S == A \ {Newline}
<1>1. IsFiniteSet(row) /\ Cardinality(row) = 2
  <2>1. IsFiniteSet({c}) /\ Cardinality({c}) = 1
    BY FS_Singleton
  <2>2. IsFiniteSet({c} \cup {d}) /\ Cardinality({c} \cup {d}) = 1 + 1
    BY <2>1, FS_AddElement
  <2>3. {c} \cup {d} = row
    OBVIOUS
  <2>. QED
    BY <2>2, <2>3
<1>2. list \in Seq(row) /\ Len(list) = 2 /\ ToSet(list) = row
  BY <1>1, SetInSequence
<1>. HIDE DEF list
<1>3. DOMAIN list = 1..2 /\ ToSet(list) = {x, y}
  <2>1. DOMAIN list = 1..2
    BY <1>2
  <2>2. \A i \in 1..2 : i = 1 \/ i = 2
    OBVIOUS
  <2>. QED
    BY <2>1, <2>2 DEF ToSet
<1>4. {x, y} = row
  BY <1>2, <1>3
<1>5. x \in ColumnsOver(A) /\ y \in ColumnsOver(A)
  BY <1>4
<1>. HIDE DEF x, y
<1>6. /\ f \in Plain(A) /\ f # << >> /\ f[1] \notin {Header, Comment} /\ FirstEquals(f) # 0
      /\ <<SubSeq(f, 1, FirstEquals(f) - 1), SubSeq(f, FirstEquals(f) + 1, Len(f))>> = x
  BY <1>5, FieldIsRead
<1>7. /\ g \in Plain(A) /\ FirstEquals(g) # 0
      /\ <<SubSeq(g, 1, FirstEquals(g) - 1), SubSeq(g, FirstEquals(g) + 1, Len(g))>> = y
  BY <1>5, FieldIsRead
<1>8. S \ {Bar} = A \ {Bar, Newline} /\ Bar \in S
  BY MarksDiffer
<1>9. f \in Seq(S \ {Bar}) /\ g \in Seq(S \ {Bar}) /\ f \in Seq(S) /\ g \in Seq(S)
  <2>1. f \in Seq(A \ {Bar, Newline}) /\ g \in Seq(A \ {Bar, Newline})
    BY <1>6, <1>7 DEF Plain
  <2>. HIDE DEF f, g
  <2>. QED
    BY <1>8, <2>1
<1>10. Line(row) = line
  <2>. DEFINE seqs == [i \in DOMAIN list |-> Field(list[i])]
  <2>1. Line(row) = Joined(seqs, Bar)
    BY DEF Line, Field, list
  <2>2. DOMAIN seqs = 1..2 /\ seqs[1] = f /\ seqs[2] = g
    BY <1>3 DEF x, y
  <2>3. Len(seqs) = 2
    BY <1>3, <1>2
  <2>. HIDE DEF seqs, f, g, S
  <2>4. Joined(seqs, Bar) = (f \o <<Bar>>) \o g
    BY <1>8, <1>9, <2>2, <2>3, JoinedPair
  <2>. QED
    BY <2>1, <2>4
<1>. QED
  BY <1>4, <1>10 DEF LineOf, LineOfTwo

\* What is read of a line that splits into two fields, ...
ColumnOf(f) == <<SubSeq(f, 1, FirstEquals(f) - 1), SubSeq(f, FirstEquals(f) + 1, Len(f))>>

LEMMA TwoFieldsAreRead ==
  ASSUME NEW A, Bar \in A, NEW f \in Plain(A), NEW g \in Plain(A)
  PROVE  Columns((f \o <<Bar>>) \o g) = {ColumnOf(h) : h \in {e \in {f, g} : FirstEquals(e) # 0}}
<1>. DEFINE S == A \ {Newline}
<1>1. S \ {Bar} = A \ {Bar, Newline} /\ Bar \in S
  BY MarksDiffer
<1>. HIDE DEF S
<1>2. f \in Seq(S \ {Bar}) /\ g \in Seq(S \ {Bar})
  BY <1>1 DEF Plain
<1>3. ToSet(Split((f \o <<Bar>>) \o g, Bar)) = {f, g}
  BY <1>1, <1>2, PairIsSplit
<1>. QED
  BY <1>3 DEF Columns, ColumnOf

\* ... and of one that is a field.
LEMMA OneFieldIsRead ==
  ASSUME NEW A, NEW f \in Plain(A)
  PROVE  Columns(f) = {ColumnOf(h) : h \in {e \in {f} : FirstEquals(e) # 0}}
<1>. DEFINE S == A \ {Newline}
            none == << >>
<1>1. S \ {Bar} = A \ {Bar, Newline}
  OBVIOUS
<1>. HIDE DEF S
<1>2. f \in Seq(S \ {Bar})
  BY <1>1 DEF Plain
<1>3. PartsAre(S, Bar, f, none, f)
  BY <1>2, OnePart
<1>4. Append(none, f) = <<f>>
  BY <1>2
<1>5. ToSet(Split(f, Bar)) = {f}
  BY <1>3, <1>4, SingletonSet DEF PartsAre
<1>. QED
  BY <1>5 DEF Columns, ColumnOf

\* A row of two columns is read as it was, ...
LEMMA PairIsWritten ==
  ASSUME NEW A, Equals \in A, Bar \in A, NEW c \in ColumnsOver(A), NEW d \in ColumnsOver(A), c # d
  PROVE  Written(A, {c, d})
<1>1. PICK x \in {c, d}, y \in {c, d} : LineOf(c, d, x, y)
  BY PairInLine
<1>. DEFINE f == Field(x)
            g == Field(y)
            line == (f \o <<Bar>>) \o g
            S == A \ {Newline}
<1>2. x \in ColumnsOver(A) /\ y \in ColumnsOver(A) /\ {x, y} = {c, d} /\ Line({c, d}) = line
  BY <1>1 DEF LineOf, LineOfTwo
<1>3. f \in Plain(A) /\ f # << >> /\ f[1] \notin {Header, Comment} /\ FirstEquals(f) # 0 /\ ColumnOf(f) = x
  BY <1>2, FieldIsRead DEF ColumnOf
<1>4. g \in Plain(A) /\ FirstEquals(g) # 0 /\ ColumnOf(g) = y
  BY <1>2, FieldIsRead DEF ColumnOf
<1>. HIDE DEF f, g
<1>5. Columns(line) = {x, y}
  <2>. HIDE DEF line
  <2>1. Columns(line) = {ColumnOf(h) : h \in {e \in {f, g} : FirstEquals(e) # 0}}
    BY <1>3, <1>4, TwoFieldsAreRead DEF line
  <2>2. {ColumnOf(h) : h \in {e \in {f, g} : FirstEquals(e) # 0}} = {x, y}
    BY <1>3, <1>4
  <2>. QED
    BY <2>1, <2>2
<1>6. line \in Seq(S) /\ line # << >> /\ line[1] \notin {Header, Comment}
  <2>1. f \in Seq(S) /\ g \in Seq(S) /\ Bar \in S
    BY <1>3, <1>4, MarksDiffer DEF Plain
  <2>. HIDE DEF S
  <2>2. line \in Seq(S) /\ Len(line) = Len(f) + 1 + Len(g) /\ Len(f) \in Nat /\ Len(g) \in Nat
    BY <2>1
  <2>3. Len(f) # 0
    BY <1>3, <2>1
  <2>4. line[1] = f[1]
    BY <2>1, <2>3
  <2>5. line # << >>
    BY <2>2
  <2>. QED
    BY <1>3, <2>2, <2>4, <2>5
<1>. QED
  BY <1>2, <1>5, <1>6 DEF Written

\* ... and so is one of one column.
LEMMA OneIsWritten ==
  ASSUME NEW A, Equals \in A, Bar \in A, NEW c \in ColumnsOver(A)
  PROVE  Written(A, {c})
<1>. DEFINE row == {c}
            list == SetToSeq(row)
            f == Field(c)
            S == Seq(A)
            fields == [i \in DOMAIN list |-> list[i][1] \o <<Equals>> \o list[i][2]]
            parts == [i \in DOMAIN fields |-> IF i = 1 THEN fields[i] ELSE <<Bar>> \o fields[i]]
<1>1. f \in Plain(A) /\ f # << >> /\ f[1] \notin {Header, Comment} /\ FirstEquals(f) # 0 /\ ColumnOf(f) = c
  BY FieldIsRead DEF ColumnOf
<1>2. f \in S /\ f \in Seq(A \ {Newline})
  BY <1>1 DEF Plain
<1>3. list \in Seq(row) /\ Len(list) = 1
  BY SetInSequence, FS_Singleton
<1>4. Line(row) = FlattenSeq(parts)
  BY DEF Line, Joined
<1>. HIDE DEF list
<1>5. DOMAIN list = {1} /\ list[1] = c
  BY <1>3
<1>6. DOMAIN fields = {1} /\ fields[1] = f
  BY <1>5 DEF Field
<1>. HIDE DEF fields, f, S
<1>7. parts \in [1..1 -> S] /\ parts[1] = f
  BY <1>2, <1>6
<1>. HIDE DEF parts
<1>8. parts \in Seq(S) /\ Len(parts) = 1
  BY <1>7, FunctionIsSeq
<1>. DEFINE none == << >>
            one == Append(none, f)
<1>9. none \in Seq(S) /\ one \in Seq(S) /\ Len(one) = 1 /\ one[1] = f
  BY <1>2
<1>10. \A i \in 1..1 : parts[i] = one[i]
  BY <1>7, <1>9
<1>. HIDE DEF one, none
<1>11. parts = one
  BY <1>8, <1>9, <1>10, SeqEqual
<1>12. FlattenSeq(one) = FlattenSeq(none) \o f
  BY <1>2, <1>9, FlattenAppend DEF one, S
<1>13. FlattenSeq(none) \o f = f
  <2>1. << >> \o f = f
    BY <1>2 DEF S
  <2>. QED
    BY <2>1, FlattenEmpty DEF none
<1>14. Line(row) = f
  BY <1>4, <1>11, <1>12, <1>13
<1>15. Columns(f) = {ColumnOf(h) : h \in {e \in {f} : FirstEquals(e) # 0}}
  BY <1>1, OneFieldIsRead
<1>16. Columns(f) = row
  BY <1>1, <1>15
<1>. QED
  BY <1>1, <1>2, <1>14, <1>16 DEF Written

\* A client's row is read as it was if its value is plain.
LEMMA ContentIsWritten ==
  ASSUME NEW A, {Equals, Bar, "id", "value"} \subseteq A, NEW r \in A \ {Bar, Newline}, NEW value, value[r] \in Plain(A)
  PROVE  Written(A, Content(r, value))
<1>. DEFINE c == <<<<"id">>, <<r>>>>
            d == <<<<"value">>, value[r]>>
            N == A \ {Equals, Bar, Newline, Header, Comment}
<1>1. "id" \in N /\ "value" \in N
  BY MarksDiffer
<1>2. <<"id">> \in Name(A) /\ <<"value">> \in Name(A)
  BY <1>1 DEF Name
<1>3. <<r>> \in Plain(A)
  BY DEF Plain
<1>4. c \in ColumnsOver(A) /\ d \in ColumnsOver(A)
  BY <1>2, <1>3 DEF ColumnsOver
<1>5. c # d
  OBVIOUS
<1>6. Content(r, value) = {c, d} /\ Equals \in A /\ Bar \in A
  BY DEF Content
<1>. HIDE DEF c, d
<1>. QED
  BY <1>4, <1>5, <1>6, PairIsWritten

-----------------------------------------------------------------------------
(* Files are over the atoms of what is in them.                            *)

\* Rows in the file, of any columns.
RowsOver(A, rows) == IsFiniteSet(rows) /\ \A row \in rows : IsFiniteSet(row) /\ row \subseteq Seq(A) \X Seq(A)

LEMMA LineTyped ==
  ASSUME NEW A, Equals \in A, Bar \in A, NEW row, IsFiniteSet(row), row \subseteq Seq(A) \X Seq(A)
  PROVE  Line(row) \in Seq(A)
<1>. DEFINE list == SetToSeq(row)
            n == Len(list)
            S == Seq(A)
            fields == [i \in DOMAIN list |-> list[i][1] \o <<Equals>> \o list[i][2]]
            parts == [i \in DOMAIN fields |-> IF i = 1 THEN fields[i] ELSE <<Bar>> \o fields[i]]
<1>1. list \in Seq(row)
  BY SetInSequence
<1>2. n \in Nat /\ DOMAIN list = 1..n /\ \A i \in 1..n : list[i][1] \in S /\ list[i][2] \in S
  <2>. HIDE DEF list, S
  <2>1. n \in Nat /\ DOMAIN list = 1..n /\ \A i \in 1..n : list[i] \in row
    BY <1>1
  <2>. QED
    BY <2>1 DEF S
<1>3. Line(row) = FlattenSeq(parts)
  BY DEF Line, Joined
<1>. HIDE DEF list, n
<1>4. \A i \in 1..n : list[i][1] \o <<Equals>> \o list[i][2] \in S
  BY <1>2
<1>5. DOMAIN fields = 1..n /\ \A i \in 1..n : fields[i] \in S
  BY <1>2, <1>4
<1>. HIDE DEF fields
<1>6. \A i \in 1..n : <<Bar>> \o fields[i] \in S
  BY <1>5
<1>7. parts \in [1..n -> S]
  BY <1>5, <1>6
<1>. HIDE DEF parts, S
<1>8. parts \in Seq(S)
  BY <1>2, <1>7, FunctionIsSeq
<1>. QED
  BY <1>3, <1>8, FlattenTyped DEF S

LEMMA SectionTyped ==
  ASSUME NEW A, {Header, Equals, Bar, Newline} \subseteq A, NEW t \in A, NEW rows, RowsOver(A, rows[t])
  PROVE  Section(rows, t) \in Seq(A)
<1>. DEFINE list == SetToSeq(rows[t])
            R == rows[t]
            n == Len(list)
            S == Seq(A)
            parts == [i \in DOMAIN list |-> Line(list[i]) \o <<Newline>>]
            head == <<Header, t, Newline>>
<1>1. list \in Seq(R)
  BY SetInSequence DEF RowsOver
<1>2. \A row \in R : Line(row) \in S
  BY LineTyped DEF RowsOver
<1>3. Section(rows, t) = head \o FlattenSeq(parts)
  BY DEF Section
<1>. HIDE DEF list, R
<1>4. n \in Nat /\ DOMAIN list = 1..n /\ \A i \in 1..n : Line(list[i]) \in S
  <2>. HIDE DEF S
  <2>. QED
    BY <1>1, <1>2
<1>5. \A i \in 1..n : Line(list[i]) \o <<Newline>> \in S
  BY <1>4
<1>6. head \in S
  OBVIOUS
<1>. HIDE DEF S, n, head
<1>7. parts \in [1..n -> S]
  BY <1>4, <1>5
<1>. HIDE DEF parts
<1>8. parts \in Seq(S)
  BY <1>4, <1>7, FunctionIsSeq
<1>9. FlattenSeq(parts) \in Seq(A)
  BY <1>8, FlattenTyped DEF S
<1>. QED
  BY <1>3, <1>6, <1>9 DEF S

LEMMA FileTyped ==
  ASSUME ConstantsAssumption, IsFiniteSet(Tables), NEW A, {Header, Equals, Bar, Newline} \subseteq A, Tables \subseteq A,
         NEW rows, \A t \in Tables : RowsOver(A, rows[t])
  PROVE  Encode(rows) \in Seq(A)
<1>. DEFINE m == Cardinality(Tables)
            at(k) == CHOOSE t \in Tables : PlaceOf(t) = k
            texts == [k \in 1..m |-> Section(rows, at(k))]
            S == Seq(A)
<1>1. m \in Nat
  BY PlacesOfTables
<1>2. \A k \in 1..m : at(k) \in Tables
  BY PlacesOfTables
<1>3. Encode(rows) = FlattenSeq(texts)
  BY DEF Encode
<1>. HIDE DEF m, at
<1>4. \A k \in 1..m : Section(rows, at(k)) \in S
  BY <1>2, SectionTyped
<1>. HIDE DEF S
<1>5. texts \in [1..m -> S]
  BY <1>4
<1>. HIDE DEF texts
<1>6. texts \in Seq(S)
  BY <1>1, <1>5, FunctionIsSeq
<1>. QED
  BY <1>3, <1>6, FlattenTyped DEF S

-----------------------------------------------------------------------------
(* What is saved is read back exactly if it is plain.                      *)

\* All that files are made of.
Atoms == {Header, Equals, Bar, Newline, Comment, "id", "value", "x"} \cup Tables \cup AllRows

LEMMA NamesArePlain ==
  ASSUME FileAssumption
  PROVE  Tables \subseteq Atoms \ {Bar, Newline} /\ AllRows \subseteq Atoms \ {Bar, Newline}
BY DEF FileAssumption, Atoms, Marks

LEMMA PlainSavesAreReadBack ==
  ASSUME ConstantsAssumption, FileAssumption, NEW c \in Catalog, NEW given,
         \A t \in Tables : \A r \in c[t] : given[r] \in Plain(Atoms)
  PROVE  Replay(Encode(Contents(c, given))) = Contents(c, given)
<1>. DEFINE A == Atoms
            rows == Contents(c, given)
<1>1. ASSUME NEW t \in Tables PROVE WrittenRows(A, rows[t])
  <2>1. c[t] \subseteq AllRows /\ IsFiniteSet(AllRows)
    <3>1. IsFiniteSet(Rows \cup {MigRow})
      BY FS_AddElement DEF FileAssumption
    <3>2. IsFiniteSet((Rows \cup {MigRow}) \cup {Junk})
      BY <3>1, FS_AddElement
    <3>3. AllRows = (Rows \cup {MigRow}) \cup {Junk}
      BY DEF AllRows
    <3>. QED
      BY <3>2, <3>3 DEF Catalog
  <2>2. IsFiniteSet(c[t])
    BY <2>1, FS_Subset
  <2>3. rows[t] = {Content(r, given) : r \in c[t]}
    BY DEF Contents
  <2>4. IsFiniteSet(rows[t])
    <3>. DEFINE of == [r \in c[t] |-> Content(r, given)]
    <3>1. of \in Surjection(c[t], rows[t])
      BY <2>3 DEF Surjection
    <3>. QED
      BY <2>2, <3>1, FS_Surjection
  <2>5. ASSUME NEW r \in c[t] PROVE Written(A, Content(r, given))
    <3>1. {Equals, Bar, "id", "value"} \subseteq A
      BY DEF Atoms
    <3>2. r \in A \ {Bar, Newline} /\ given[r] \in Plain(A)
      BY <2>1, NamesArePlain
    <3>. HIDE DEF A
    <3>. QED
      BY <3>1, <3>2, ContentIsWritten
  <2>. QED
    BY <2>3, <2>4, <2>5 DEF WrittenRows, Readable
<1>2. {Header, Newline} \subseteq A
  BY DEF Atoms
<1>3. Tables \subseteq A \ {Newline} /\ IsFiniteSet(Tables)
  BY NamesArePlain DEF FileAssumption
<1>4. WrittenTables(A, rows)
  BY <1>1 DEF WrittenTables
<1>5. rows = [t \in Tables |-> rows[t] \ {{}}]
  <2>1. \A r : Content(r, given) # {}
    BY DEF Content
  <2>2. \A t \in Tables : rows[t] \ {{}} = rows[t]
    BY <2>1 DEF Contents
  <2>3. rows = [t \in Tables |-> rows[t]]
    BY DEF Contents
  <2>. QED
    BY <2>2, <2>3
<1>. HIDE DEF A, rows
<1>6. Replay(Encode(rows)) = [t \in Tables |-> rows[t] \ {{}}]
  BY <1>2, <1>3, <1>4, FileIsReadBack
<1>. QED
  BY <1>5, <1>6 DEF rows

LEMMA ReadBackIsPlain ==
  ASSUME ConstantsAssumption, FileAssumption, NEW c \in Catalog, NEW given, \A r \in AllRows : given[r] \in Seq(Atoms),
         Replay(Encode(Contents(c, given))) = Contents(c, given),
         NEW t \in Tables, NEW r \in c[t]
  PROVE  given[r] \in Plain(Atoms)
<1>. DEFINE A == Atoms
            rows == Contents(c, given)
            read == ReadOf(Encode(rows)).rows
            row == Content(r, given)
<1>1. IsFiniteSet(AllRows) /\ IsFiniteSet(Tables)
  <2>1. IsFiniteSet(Rows \cup {MigRow})
    BY FS_AddElement DEF FileAssumption
  <2>2. IsFiniteSet((Rows \cup {MigRow}) \cup {Junk})
    BY <2>1, FS_AddElement
  <2>3. AllRows = (Rows \cup {MigRow}) \cup {Junk}
    BY DEF AllRows
  <2>. QED
    BY <2>2, <2>3 DEF FileAssumption
<1>2. ASSUME NEW u \in Tables PROVE RowsOver(A, rows[u])
  <2>1. c[u] \subseteq AllRows
    BY DEF Catalog
  <2>2. IsFiniteSet(c[u])
    BY <1>1, <2>1, FS_Subset
  <2>3. rows[u] = {Content(q, given) : q \in c[u]}
    BY DEF Contents
  <2>4. IsFiniteSet(rows[u])
    <3>. DEFINE of == [q \in c[u] |-> Content(q, given)]
    <3>1. of \in Surjection(c[u], rows[u])
      BY <2>3 DEF Surjection
    <3>. QED
      BY <2>2, <3>1, FS_Surjection
  <2>5. ASSUME NEW q \in c[u] PROVE IsFiniteSet(Content(q, given)) /\ Content(q, given) \subseteq Seq(A) \X Seq(A)
    <3>1. <<"id">> \in Seq(A) /\ <<"value">> \in Seq(A) /\ <<q>> \in Seq(A) /\ given[q] \in Seq(A)
      BY <2>1 DEF Atoms
    <3>. DEFINE x == <<<<"id">>, <<q>>>>
                y == <<<<"value">>, given[q]>>
    <3>2. x \in Seq(A) \X Seq(A) /\ y \in Seq(A) \X Seq(A)
      BY <3>1
    <3>3. Content(q, given) = {x} \cup {y}
      BY DEF Content
    <3>. HIDE DEF x, y
    <3>4. IsFiniteSet({x}) /\ IsFiniteSet({x} \cup {y})
      BY FS_Singleton, FS_AddElement
    <3>. QED
      BY <3>2, <3>3, <3>4
  <2>. QED
    BY <2>3, <2>4, <2>5 DEF RowsOver
<1>3. {Header, Equals, Bar, Newline} \subseteq A /\ Tables \subseteq A
  BY DEF Atoms
<1>4. ReadOf(Encode(rows)) \in States(A)
  <2>. HIDE DEF A, rows
  <2>1. Encode(rows) \in Seq(A)
    BY <1>1, <1>2, <1>3, FileTyped
  <2>. QED
    BY <2>1, ReadOfTyped
<1>5. read \subseteq Seq(A) \X ReadRows(A)
  BY <1>4 DEF States
<1>6. rows[t] = {x[2] : x \in {y \in read : y[1] = <<t>>}}
  BY DEF Replay, ReadOf
<1>7. row \in rows[t]
  BY DEF Contents
<1>. HIDE DEF read, rows
<1>8. \E x \in read : row = x[2]
  BY <1>6, <1>7
<1>9. row \in ReadRows(A)
  BY <1>5, <1>8
<1>10. <<<<"value">>, given[r]>> \in row
  BY DEF Content
<1>11. <<<<"value">>, given[r]>> \in Plain(A) \X Plain(A)
  BY <1>9, <1>10 DEF ReadRows
<1>. QED
  BY <1>11

LEMMA ValuesArePlain ==
  ASSUME NEW value \in Seq(Atoms)
  PROVE  value \in Plain(Atoms) <=> {Bar, Newline} \cap ToSet(value) = {}
<1>. DEFINE A == Atoms
<1>. HIDE DEF A
<1>1. value \in Seq(A) /\ ToSet(value) = {value[i] : i \in 1..Len(value)} /\ Len(value) \in Nat
  BY DEF ToSet, A
<1>2. value \in Seq(A \ {Bar, Newline}) <=> \A i \in 1..Len(value) : value[i] \notin {Bar, Newline}
  BY <1>1
<1>. QED
  BY <1>1, <1>2 DEF Plain, A

LEMMA ValuesAreTexts ==
  ASSUME NEW v \in Values
  PROVE  v \in Seq(Atoms)
<1>. DEFINE A == Atoms
            x == "x"
<1>1. {Header, Equals, Bar, Newline, Comment, x} \subseteq A
  BY DEF Atoms
<1>2. v \in {<<x>>, << >>, <<x, Equals, x>>, <<x, Bar, x>>, <<x, Newline>>, <<Newline, Header, x, Newline>>,
          <<Comment, x>>, <<Newline, Comment>>}
  BY DEF Values
<1>. HIDE DEF A, x
<1>3. <<x>> \in Seq(A) /\ << >> \in Seq(A) /\ <<x, Equals, x>> \in Seq(A)
  BY <1>1
<1>4. <<x, Bar, x>> \in Seq(A) /\ <<x, Newline>> \in Seq(A) /\ <<Newline, Header, x, Newline>> \in Seq(A)
  BY <1>1
<1>5. <<Comment, x>> \in Seq(A) /\ <<Newline, Comment>> \in Seq(A)
  BY <1>1
<1>6. v \in Seq(A)
  BY <1>2, <1>3, <1>4, <1>5
<1>. QED
  BY <1>6 DEF A

\* What a save writes is read back by the next open, for every catalogue and
\* all values, if none of them holds "|" or the end of a line; and not
\* otherwise (save_snapshot, replay_snapshot).
THEOREM PlainValuesAreReadBack ==
  ASSUME NEW c \in Catalog, NEW value \in [Rows -> Seq(Atoms)]
  PROVE  LET given == [r \in AllRows |-> IF r \in Rows THEN value[r] ELSE <<"x">>]
             inFile == (UNION {c[t] : t \in Tables}) \cap Rows
         IN  Replay(Encode(Contents(c, given))) = Contents(c, given)
               <=> \A r \in inFile : {Bar, Newline} \cap ToSet(value[r]) = {}
<1>. DEFINE given == [r \in AllRows |-> IF r \in Rows THEN value[r] ELSE <<"x">>]
            inFile == (UNION {c[t] : t \in Tables}) \cap Rows
            Unmarked(v) == {Bar, Newline} \cap ToSet(v) = {}
<1>1. ConstantsAssumption /\ FileAssumption
  BY ConstantsAssumption, FileAssumption
<1>2. <<"x">> \in Seq(Atoms) /\ Unmarked(<<"x">>)
  <2>1. ToSet(<<"x">>) = {"x"}
    BY SingletonSet
  <2>2. "x" # Bar /\ "x" # Newline
    BY MarksDiffer
  <2>3. "x" \in Atoms
    BY DEF Atoms
  <2>. QED
    BY <2>1, <2>2, <2>3
<1>3. \A r \in AllRows : given[r] = IF r \in Rows THEN value[r] ELSE <<"x">>
  OBVIOUS
<1>. HIDE DEF given, Unmarked
<1>4. \A r \in AllRows : given[r] \in Seq(Atoms)
  BY <1>2, <1>3
<1>5. \A r \in AllRows : given[r] \in Plain(Atoms) <=> Unmarked(given[r])
  BY <1>4, ValuesArePlain DEF Unmarked
<1>6. \A t \in Tables : c[t] \subseteq AllRows
  BY DEF Catalog
<1>7. \A r : r \in inFile <=> r \in Rows /\ \E t \in Tables : r \in c[t]
  OBVIOUS
<1>. HIDE DEF inFile
<1>8. (\A t \in Tables : \A r \in c[t] : given[r] \in Plain(Atoms)) <=> \A r \in inFile : Unmarked(value[r])
  <2>1. Rows \subseteq AllRows
    BY DEF AllRows
  <2>2. ASSUME \A r \in inFile : Unmarked(value[r]), NEW t \in Tables, NEW r \in c[t]
        PROVE  given[r] \in Plain(Atoms)
    <3>1. r \in AllRows
      BY <1>6
    <3>2. CASE r \in Rows
      <4>1. r \in inFile
        BY <1>7, <3>2
      <4>. QED
        BY <1>3, <1>5, <2>2, <3>1, <3>2, <4>1
    <3>3. CASE r \notin Rows
      BY <1>2, <1>3, <1>5, <3>1, <3>3
    <3>. QED
      BY <3>2, <3>3
  <2>3. ASSUME \A t \in Tables : \A r \in c[t] : given[r] \in Plain(Atoms), NEW r \in inFile
        PROVE  Unmarked(value[r])
    <3>1. PICK t \in Tables : r \in c[t]
      BY <1>7
    <3>2. r \in Rows /\ r \in AllRows
      BY <1>7, <2>1, <2>3
    <3>. QED
      BY <1>3, <1>5, <2>3, <3>1, <3>2
  <2>. QED
    BY <2>2, <2>3
<1>9. Replay(Encode(Contents(c, given))) = Contents(c, given) <=> \A t \in Tables : \A r \in c[t] : given[r] \in Plain(Atoms)
  <2>1. ASSUME \A t \in Tables : \A r \in c[t] : given[r] \in Plain(Atoms)
        PROVE  Replay(Encode(Contents(c, given))) = Contents(c, given)
    BY <1>1, <2>1, PlainSavesAreReadBack
  <2>2. ASSUME Replay(Encode(Contents(c, given))) = Contents(c, given), NEW t \in Tables, NEW r \in c[t]
        PROVE  given[r] \in Plain(Atoms)
    BY <1>4, <1>1, <2>2, ReadBackIsPlain
  <2>. QED
    BY <2>1, <2>2
<1>. QED
  BY <1>8, <1>9 DEF given, Unmarked, inFile

\* So it is in every state in which a process is about to save
\* (save_snapshot, replay_snapshot).
THEOREM SavesAreReadBack == Spec => []SavedRowsAreReadBack
<1>1. ASSUME NEW c \in Catalog PROVE PlainIsReadBack(c)
  <2>1. \A value \in [Rows -> Values] : value \in [Rows -> Seq(Atoms)]
    BY ValuesAreTexts
  <2>. QED
    BY <2>1, PlainValuesAreReadBack DEF PlainIsReadBack
<1>2. TypeOK => SavedRowsAreReadBack
  BY <1>1 DEF SavedRowsAreReadBack, TypeOK
<1>. QED
  BY <1>2, TypeCorrect, PTL

-----------------------------------------------------------------------------
(* Files of which not all was written.                                     *)

\* A cut text is a prefix, or one with what remains of the atom behind it.
LEMMA CutOfText ==
  ASSUME NEW S, NEW x \in Seq(S), NEW w \in CutTexts(x)
  PROVE  \/ \E n \in 0..Len(x) : w = SubSeq(x, 1, n)
         \/ \E n \in 1..Len(x) : x[n] \notin Marks /\ w = Append(SubSeq(x, 1, n - 1), Rest)
BY DEF CutTexts

LEMMA CutIsTyped ==
  ASSUME NEW S, NEW x \in Seq(S), NEW w \in CutTexts(x), Rest \in S
  PROVE  w \in Seq(S)
<1>1. \A n \in 0..Len(x) : SubSeq(x, 1, n) \in Seq(S)
  BY PrefixGrows
<1>2. \A n \in 1..Len(x) : n - 1 \in 0..Len(x)
  OBVIOUS
<1>3. \A n \in 1..Len(x) : Append(SubSeq(x, 1, n - 1), Rest) \in Seq(S)
  BY <1>1, <1>2
<1>. QED
  BY <1>1, <1>3, CutOfText

\* It starts as the text does, or with what remains.
LEMMA CutStarts ==
  ASSUME NEW S, NEW x \in Seq(S), NEW w \in CutTexts(x), w # << >>
  PROVE  w[1] = Rest \/ (x # << >> /\ w[1] = x[1])
<1>1. CASE \E n \in 0..Len(x) : w = SubSeq(x, 1, n)
  BY <1>1
<1>2. ASSUME NEW n \in 1..Len(x), w = Append(SubSeq(x, 1, n - 1), Rest) PROVE w[1] = Rest \/ (x # << >> /\ w[1] = x[1])
  <2>. DEFINE y == SubSeq(x, 1, n - 1)
  <2>1. y \in Seq(S) /\ Len(y) = n - 1 /\ (n - 1 # 0 => y[1] = x[1]) /\ x # << >>
    OBVIOUS
  <2>. DEFINE T == S \cup {Rest}
  <2>2. y \in Seq(T) /\ Rest \in T
    BY <2>1
  <2>3. w = Append(y, Rest)
    BY <1>2
  <2>. HIDE DEF y, T
  <2>4. Len(y) = 0 => w[1] = Rest
    BY <2>2, <2>3
  <2>5. Len(y) # 0 => w[1] = y[1]
    BY <2>2, <2>3
  <2>. QED
    BY <2>1, <2>4, <2>5
<1>. QED
  BY <1>1, <1>2, CutOfText

\* Nothing, and all of it, are cuts.
LEMMA CutsAtEnds ==
  ASSUME NEW S, NEW x \in Seq(S)
  PROVE  << >> \in CutTexts(x) /\ x \in CutTexts(x)
<1>1. SubSeq(x, 1, 0) = << >> /\ SubSeq(x, 1, Len(x)) = x
  BY PrefixGrows
<1>2. 0 \in 0..Len(x) /\ Len(x) \in 0..Len(x)
  OBVIOUS
<1>. QED
  BY <1>1, <1>2 DEF CutTexts

\* Of nothing there is nothing else, ...
LEMMA CutOfNothing ==
  ASSUME NEW w \in CutTexts(<< >>)
  PROVE  w = << >>
<1>. DEFINE none == << >>
<1>1. none \in Seq({}) /\ Len(none) = 0 /\ SubSeq(none, 1, 0) = << >>
  OBVIOUS
<1>2. w \in CutTexts(none)
  OBVIOUS
<1>. HIDE DEF none
<1>3. \/ \E n \in 0..Len(none) : w = SubSeq(none, 1, n)
      \/ \E n \in 1..Len(none) : none[n] \notin Marks /\ w = Append(SubSeq(none, 1, n - 1), Rest)
  BY <1>1, <1>2, CutOfText
<1>4. (\A n \in 0..0 : n = 0) /\ 1..0 = {}
  OBVIOUS
<1>. QED
  BY <1>1, <1>3, <1>4

\* ... a mark is not cut in two, ...
LEMMA CutOfAtom ==
  ASSUME NEW x, NEW w \in CutTexts(<<x>>)
  PROVE  w = << >> \/ w = <<x>> \/ (x \notin Marks /\ w = <<Rest>>)
<1>. DEFINE a == <<x>>
            S == {x}
<1>1. a \in Seq(S) /\ Len(a) = 1 /\ a[1] = x
  OBVIOUS
<1>2. SubSeq(a, 1, 0) = << >> /\ SubSeq(a, 1, 1) = a
  <2>. HIDE DEF a
  <2>1. SubSeq(a, 1, 0) = << >> /\ SubSeq(a, 1, Len(a)) = a
    BY <1>1, PrefixGrows
  <2>. QED
    BY <1>1, <2>1
<1>. HIDE DEF a
<1>3. \A n \in 0..1 : n = 0 \/ n = 1
  OBVIOUS
<1>4. \A n \in 1..1 : n = 1 /\ n - 1 = 0
  OBVIOUS
<1>5. Append(<< >>, Rest) = <<Rest>>
  OBVIOUS
<1>6. \/ \E n \in 0..Len(a) : w = SubSeq(a, 1, n)
      \/ \E n \in 1..Len(a) : a[n] \notin Marks /\ w = Append(SubSeq(a, 1, n - 1), Rest)
  BY <1>1, CutOfText DEF a
<1>. QED
  BY <1>1, <1>2, <1>3, <1>4, <1>5, <1>6 DEF a

\* ... and a cut in the second of two texts leaves the first whole.
CutBehind(a, b, w) == \E v \in CutTexts(b) : w = a \o v

LEMMA CutOfConcat ==
  ASSUME NEW S, NEW a \in Seq(S), NEW b \in Seq(S), NEW w \in CutTexts(a \o b)
  PROVE  w \in CutTexts(a) \/ CutBehind(a, b, w)
<1>. USE DEF CutBehind
<1>. DEFINE x == a \o b
            m == Len(a)
            T == S \cup {Rest}
<1>1. x \in Seq(S) /\ m \in Nat /\ Len(b) \in Nat /\ Len(x) = m + Len(b)
  OBVIOUS
<1>2. \A n \in 0..m : SubSeq(x, 1, n) = SubSeq(a, 1, n)
  OBVIOUS
<1>3. \A n \in 0..Len(b) : SubSeq(x, 1, m + n) = a \o SubSeq(b, 1, n)
  <2>. SUFFICES ASSUME NEW n \in 0..Len(b) PROVE SubSeq(x, 1, m + n) = a \o SubSeq(b, 1, n)
    OBVIOUS
  <2>. DEFINE l == SubSeq(x, 1, m + n)
              c == SubSeq(b, 1, n)
              r == a \o c
  <2>1. l \in Seq(S) /\ Len(l) = m + n /\ \A i \in 1..(m + n) : l[i] = x[i]
    BY <1>1
  <2>2. c \in Seq(S) /\ Len(c) = n /\ \A i \in 1..n : c[i] = b[i]
    OBVIOUS
  <2>3. \A i \in 1..(m + n) : x[i] = IF i <= m THEN a[i] ELSE b[i - m]
    OBVIOUS
  <2>. HIDE DEF c
  <2>4. r \in Seq(S) /\ Len(r) = m + n /\ \A i \in 1..(m + n) : r[i] = IF i <= m THEN a[i] ELSE c[i - m]
    BY <2>2
  <2>5. \A i \in 1..(m + n) : ~ (i <= m) => i - m \in 1..n
    BY <1>1
  <2>6. \A i \in 1..(m + n) : l[i] = r[i]
    BY <2>1, <2>2, <2>3, <2>4, <2>5
  <2>. HIDE DEF l, r
  <2>7. l = r
    BY <2>1, <2>4, <2>6, SeqEqual
  <2>. QED
    BY <2>7 DEF l, r, c
<1>4. \A n \in 1..m : x[n] = a[n]
  OBVIOUS
<1>5. \A n \in 1..Len(b) : x[m + n] = b[n]
  OBVIOUS
<1>. HIDE DEF x
<1>6. ASSUME NEW n \in 0..Len(x), w = SubSeq(x, 1, n) PROVE w \in CutTexts(a) \/ \E v \in CutTexts(b) : w = a \o v
  <2>1. CASE n <= m
    <3>1. n \in 0..m
      BY <2>1
    <3>. QED
      BY <1>2, <1>6, <3>1 DEF CutTexts
  <2>2. CASE n > m
    <3>1. n - m \in 0..Len(b) /\ m + (n - m) = n
      BY <1>1, <2>2
    <3>2. SubSeq(b, 1, n - m) \in CutTexts(b)
      BY <3>1 DEF CutTexts
    <3>. QED
      BY <1>3, <1>6, <3>1, <3>2
  <2>. QED
    BY <1>1, <2>1, <2>2
<1>7. ASSUME NEW n \in 1..Len(x), x[n] \notin Marks, w = Append(SubSeq(x, 1, n - 1), Rest)
      PROVE  w \in CutTexts(a) \/ \E v \in CutTexts(b) : w = a \o v
  <2>1. CASE n <= m
    <3>1. n \in 1..m /\ n - 1 \in 0..m
      BY <2>1
    <3>2. w = Append(SubSeq(a, 1, n - 1), Rest) /\ a[n] \notin Marks
      BY <1>2, <1>4, <1>7, <3>1
    <3>. QED
      BY <3>1, <3>2 DEF CutTexts
  <2>2. CASE n > m
    <3>. DEFINE k == n - m
                c == SubSeq(b, 1, k - 1)
    <3>1. k \in 1..Len(b) /\ k - 1 \in 0..Len(b) /\ m + (k - 1) = n - 1 /\ m + k = n
      BY <1>1, <2>2
    <3>2. b[k] \notin Marks
      BY <1>5, <1>7, <3>1
    <3>3. Append(c, Rest) \in CutTexts(b)
      BY <3>1, <3>2 DEF CutTexts
    <3>4. w = Append(a \o c, Rest)
      BY <1>3, <1>7, <3>1
    <3>5. c \in Seq(S)
      BY <3>1, PrefixGrows
    <3>. HIDE DEF c
    <3>. DEFINE rest == Rest
    <3>6. c \in Seq(T) /\ a \in Seq(T) /\ rest \in T
      BY <3>5
    <3>. HIDE DEF T, rest
    <3>7. a \o Append(c, rest) = Append(a \o c, rest) /\ a \o c \in Seq(T)
      BY <3>6, ConcatAppend
    <3>. QED
      BY <3>3, <3>4, <3>7 DEF rest
  <2>3. n <= m \/ n > m
    BY <1>1
  <2>. QED
    BY <2>1, <2>2, <2>3
<1>8. \/ \E n \in 0..Len(x) : w = SubSeq(x, 1, n)
      \/ \E n \in 1..Len(x) : x[n] \notin Marks /\ w = Append(SubSeq(x, 1, n - 1), Rest)
  BY <1>1, CutOfText DEF x
<1>. QED
  BY <1>6, <1>7, <1>8

\* A cut of many texts is one of them cut, with all before it.
CutIn(seqs, w) == \E k \in 1..Len(seqs) : \E v \in CutTexts(seqs[k]) : w = FlattenSeq(SubSeq(seqs, 1, k - 1)) \o v

LEMMA CutOfFlatten ==
  ASSUME NEW S, NEW seqs \in Seq(Seq(S)), NEW w \in CutTexts(FlattenSeq(seqs))
  PROVE  w = << >> \/ CutIn(seqs, w)
<1>. DEFINE n == Len(seqs)
            B(k) == SubSeq(seqs, 1, k)
            Found(k, c) == c = << >> \/ \E j \in 1..k : \E v \in CutTexts(seqs[j]) : c = FlattenSeq(B(j - 1)) \o v
            P == {k \in 0..n : \A c \in CutTexts(FlattenSeq(B(k))) : Found(k, c)}
<1>1. /\ n \in Nat /\ B(0) = << >> /\ B(n) = seqs
      /\ \A k \in 0..n : B(k) \in Seq(Seq(S))
      /\ \A k \in 1..n : seqs[k] \in Seq(S) /\ B(k) = Append(B(k - 1), seqs[k])
  BY PrefixGrows
<1>. HIDE DEF B, n
<1>2. 0 \in P
  <2>1. FlattenSeq(B(0)) = << >>
    BY <1>1, FlattenEmpty
  <2>2. \A c \in CutTexts(FlattenSeq(B(0))) : c = << >>
    BY <2>1, CutOfNothing
  <2>3. 0 \in 0..n
    BY <1>1
  <2>. QED
    BY <2>2, <2>3
<1>3. ASSUME NEW k \in 1..n, k - 1 \in P PROVE k \in P
  <2>1. k - 1 \in 0..n /\ k \in 0..n /\ k \in 1..k
    BY <1>1
  <2>. DEFINE before == FlattenSeq(B(k - 1))
              x == seqs[k]
  <2>2. before \in Seq(S) /\ x \in Seq(S) /\ FlattenSeq(B(k)) = before \o x
    BY <1>1, <2>1, FlattenAppend, FlattenTyped
  <2>3. \A c \in CutTexts(before) : Found(k - 1, c)
    BY <1>3
  <2>4. \A c : Found(k - 1, c) => Found(k, c)
    <3>1. \A j \in 1..(k - 1) : j \in 1..k
      BY <1>1
    <3>. QED
      BY <3>1
  <2>5. ASSUME NEW c \in CutTexts(FlattenSeq(B(k))) PROVE Found(k, c)
    <3>. HIDE DEF Found, x, before
    <3>1. c \in CutTexts(before \o x)
      BY <2>2
    <3>2. c \in CutTexts(before) \/ CutBehind(before, x, c)
      BY <2>2, <3>1, CutOfConcat
    <3>3. CutBehind(before, x, c) => Found(k, c)
      BY <2>1 DEF Found, x, before, CutBehind
    <3>. QED
      BY <2>3, <2>4, <3>2, <3>3
  <2>. HIDE DEF Found
  <2>. QED
    BY <2>1, <2>5
<1>4. n \in P
  <2>. HIDE DEF P
  <2>1. 0..n \subseteq P
    BY <1>1, <1>2, <1>3, InductionTo
  <2>. QED
    BY <1>1, <2>1
<1>5. Found(n, w)
  <2>. HIDE DEF Found
  <2>. QED
    BY <1>1, <1>4
<1>. QED
  BY <1>5 DEF CutIn, n, B

-----------------------------------------------------------------------------
(* Cut lines.                                                              *)

LEMMA NoEquals ==
  ASSUME NEW S, Equals \notin S, NEW f \in Seq(S)
  PROVE  FirstEquals(f) = 0
<1>. DEFINE p == FirstOf(f, Equals)
<1>1. FirstEquals(f) = p
  BY DEF FirstEquals, FirstOf
<1>2. Len(f) \in Nat /\ \A i \in 1..Len(f) : f[i] # Equals
  OBVIOUS
<1>3. p \in 0..Len(f) /\ (p # 0 => f[p] = Equals)
  BY <1>2, FirstIsFirst
<1>. HIDE DEF p
<1>4. p # 0 => p \in 1..Len(f)
  BY <1>2, <1>3
<1>. QED
  BY <1>1, <1>2, <1>3, <1>4

\* A cut column has no value, or some other.
CutField(A, x, w) == FirstEquals(w) = 0 \/ \E v \in Plain(A) : w = Field(<<x[1], v>>)

LEMMA FieldIsCut ==
  ASSUME NEW A, Equals \in A, Rest \in A, NEW x \in ColumnsOver(A), NEW w \in CutTexts(Field(x))
  PROVE  w \in Plain(A) /\ CutField(A, x, w)
<1>. DEFINE n == x[1]
            v == x[2]
            N == A \ {Equals, Bar, Newline, Header, Comment}
            V == A \ {Bar, Newline}
            eq == <<Equals>>
            head == n \o eq
<1>1. n \in Seq(N) /\ n # << >> /\ v \in Seq(V) /\ Rest \in N /\ Rest \in V /\ Equals \in V /\ Equals \notin N /\ N \subseteq V
  BY MarksDiffer DEF ColumnsOver, Name, Plain
<1>2. ASSUME NEW u \in Seq(V) PROVE <<n, u>> \in ColumnsOver(A) /\ Field(<<n, u>>) \in Plain(A) /\ Field(<<n, u>>) = head \o u
  <2>1. <<n, u>> \in ColumnsOver(A)
    BY <1>1 DEF ColumnsOver, Name, Plain
  <2>2. Field(<<n, u>>) = head \o u
    BY DEF Field
  <2>. HIDE DEF head, n
  <2>. QED
    BY <2>1, <2>2, FieldIsRead
<1>3. Field(x) = head \o v
  BY DEF Field
<1>. HIDE DEF n, v, N, V
<1>4. n \in Seq(V) /\ eq \in Seq(V)
  BY <1>1
<1>5. eq \in {<<Equals>>}
  OBVIOUS
<1>. HIDE DEF eq
<1>6. head \in Seq(V)
  BY <1>4
<1>7. ASSUME NEW u \in CutTexts(n) PROVE u \in Plain(A) /\ CutField(A, x, u)
  <2>1. u \in Seq(N)
    BY <1>1, CutIsTyped
  <2>2. u \in Seq(V)
    BY <1>1, <2>1
  <2>3. FirstEquals(u) = 0
    BY <1>1, <2>1, NoEquals
  <2>. QED
    BY <2>2, <2>3 DEF Plain, V, CutField
<1>8. ASSUME NEW u \in Seq(V) PROVE head \o u \in Plain(A) /\ CutField(A, x, head \o u)
  <2>1. Field(<<n, u>>) \in Plain(A) /\ Field(<<n, u>>) = head \o u
    BY <1>2
  <2>2. u \in Plain(A)
    BY DEF Plain, V
  <2>. HIDE DEF head
  <2>. QED
    BY <2>1, <2>2 DEF CutField, n
<1>9. w \in CutTexts(head) \/ CutBehind(head, v, w)
  <2>1. w \in CutTexts(head \o v)
    BY <1>3
  <2>. HIDE DEF head
  <2>. QED
    BY <1>1, <1>6, <2>1, CutOfConcat
<1>10. CASE CutBehind(head, v, w)
  <2>1. PICK u \in CutTexts(v) : w = head \o u
    BY <1>10 DEF CutBehind
  <2>2. u \in Seq(V)
    BY <1>1, CutIsTyped
  <2>. HIDE DEF head
  <2>. QED
    BY <1>8, <2>1, <2>2
<1>11. CASE w \in CutTexts(head)
  <2>1. w \in CutTexts(n) \/ CutBehind(n, eq, w)
    BY <1>4, <1>11, CutOfConcat
  <2>2. CASE CutBehind(n, eq, w)
    <3>1. PICK u \in CutTexts(eq) : w = n \o u
      BY <2>2 DEF CutBehind
    <3>2. u = << >> \/ u = <<Equals>>
      <4>1. u \in CutTexts(<<Equals>>)
        BY <3>1 DEF eq
      <4>2. Equals \in Marks
        BY DEF Marks
      <4>. QED
        BY <4>1, <4>2, CutOfAtom
    <3>3. CASE u = << >>
      <4>1. w = n
        BY <1>4, <3>1, <3>3
      <4>2. n \in CutTexts(n)
        BY <1>1, CutsAtEnds
      <4>. QED
        BY <1>7, <4>1, <4>2
    <3>4. CASE u = <<Equals>>
      <4>1. w = head
        BY <3>1, <3>4 DEF eq
      <4>. HIDE DEF head
      <4>2. << >> \in Seq(V) /\ head \o << >> = head
        BY <1>6
      <4>3. head \in Plain(A) /\ CutField(A, x, head)
        BY <1>8, <4>2
      <4>. QED
        BY <4>1, <4>3
    <3>. QED
      BY <3>2, <3>3, <3>4
  <2>. QED
    BY <1>7, <2>1, <2>2
<1>. QED
  BY <1>9, <1>10, <1>11

\* What is read of a cut line: the first column cut, or the second.
CutRow(A, x, y, d) ==
  \/ d = {}
  \/ d = {x}
  \/ \E v \in Plain(A) : d = {<<x[1], v>>} \/ d = {x, <<y[1], v>>}

LEMMA LineIsCut ==
  ASSUME NEW A, Equals \in A, Bar \in A, Rest \in A, NEW x \in ColumnsOver(A), NEW y \in ColumnsOver(A),
         NEW w \in CutTexts(LineOfTwo(x, y))
  PROVE  CutRow(A, x, y, Columns(w))
<1>. DEFINE f == Field(x)
            g == Field(y)
            bar == <<Bar>>
            head == f \o bar
<1>1. f \in Plain(A) /\ f \in Seq(A) /\ g \in Plain(A) /\ g \in Seq(A) /\ FirstEquals(f) # 0 /\ ColumnOf(f) = x
  <2>1. f \in Plain(A) /\ g \in Plain(A) /\ FirstEquals(f) # 0 /\ ColumnOf(f) = x
    BY FieldIsRead DEF ColumnOf
  <2>. HIDE DEF f, g
  <2>2. f \in Seq(A) /\ g \in Seq(A)
    BY <2>1 DEF Plain
  <2>. QED
    BY <2>1, <2>2
<1>2. \A v \in Plain(A) : <<x[1], v>> \in ColumnsOver(A) /\ <<y[1], v>> \in ColumnsOver(A)
  BY DEF ColumnsOver
<1>3. bar \in Seq(A) /\ \A u \in CutTexts(bar) : u = << >> \/ u = bar
  BY CutOfAtom DEF Marks
<1>4. LineOfTwo(x, y) = head \o g
  BY DEF LineOfTwo
<1>. HIDE DEF f, g, bar
<1>5. head \in Seq(A)
  BY <1>1, <1>3
<1>6. ASSUME NEW u \in CutTexts(f) PROVE CutRow(A, x, y, Columns(u))
  <2>1. u \in Plain(A) /\ CutField(A, x, u)
    BY FieldIsCut DEF f
  <2>2. Columns(u) = {ColumnOf(h) : h \in {e \in {u} : FirstEquals(e) # 0}}
    BY <2>1, OneFieldIsRead
  <2>3. CASE FirstEquals(u) = 0
    <3>1. {e \in {u} : FirstEquals(e) # 0} = {}
      BY <2>3
    <3>2. Columns(u) = {}
      BY <2>2, <3>1
    <3>. QED
      BY <3>2 DEF CutRow
  <2>4. ASSUME NEW v \in Plain(A), u = Field(<<x[1], v>>) PROVE CutRow(A, x, y, Columns(u))
    <3>1. FirstEquals(u) # 0 /\ ColumnOf(u) = <<x[1], v>>
      BY <1>2, <2>4, FieldIsRead DEF ColumnOf
    <3>2. Columns(u) = {<<x[1], v>>}
      BY <2>2, <3>1
    <3>. QED
      BY <3>2 DEF CutRow
  <2>. QED
    BY <2>1, <2>3, <2>4 DEF CutField
<1>7. ASSUME NEW u \in CutTexts(g) PROVE CutRow(A, x, y, Columns(head \o u))
  <2>1. u \in Plain(A) /\ CutField(A, y, u)
    BY FieldIsCut DEF g
  <2>2. Columns(head \o u) = {ColumnOf(h) : h \in {e \in {f, u} : FirstEquals(e) # 0}}
    BY <1>1, <2>1, TwoFieldsAreRead DEF bar
  <2>. DEFINE row == Columns(head \o u)
  <2>. HIDE DEF row
  <2>3. CASE FirstEquals(u) = 0
    <3>1. row = {x}
      BY <1>1, <2>2, <2>3 DEF row
    <3>. QED
      BY <3>1 DEF CutRow, row
  <2>4. ASSUME NEW v \in Plain(A), u = Field(<<y[1], v>>) PROVE CutRow(A, x, y, row)
    <3>1. FirstEquals(u) # 0 /\ ColumnOf(u) = <<y[1], v>>
      BY <1>2, <2>4, FieldIsRead DEF ColumnOf
    <3>2. row = {x, <<y[1], v>>}
      BY <1>1, <2>2, <3>1 DEF row
    <3>. QED
      BY <3>2 DEF CutRow
  <2>. QED
    BY <2>1, <2>3, <2>4 DEF CutField, row
<1>8. w \in CutTexts(head) \/ CutBehind(head, g, w)
  <2>1. w \in CutTexts(head \o g)
    BY <1>4
  <2>. HIDE DEF head
  <2>. QED
    BY <1>1, <1>5, <2>1, CutOfConcat
<1>9. CASE CutBehind(head, g, w)
  BY <1>7, <1>9 DEF CutBehind
<1>10. CASE w \in CutTexts(head)
  <2>1. w \in CutTexts(f) \/ CutBehind(f, bar, w)
    BY <1>1, <1>3, <1>10, CutOfConcat
  <2>2. CASE CutBehind(f, bar, w)
    <3>1. PICK u \in CutTexts(bar) : w = f \o u
      BY <2>2 DEF CutBehind
    <3>2. CASE u = << >>
      <4>1. w = f /\ f \in CutTexts(f)
        BY <1>1, <3>1, <3>2, CutsAtEnds
      <4>. QED
        BY <1>6, <4>1
    <3>3. CASE u = bar
      <4>1. << >> \in CutTexts(g) /\ head \o << >> = head
        BY <1>1, <1>5, CutsAtEnds
      <4>2. CutRow(A, x, y, Columns(head \o << >>))
        BY <1>7, <4>1
      <4>. QED
        BY <3>1, <3>3, <4>1, <4>2
    <3>. QED
      BY <1>3, <3>1, <3>2, <3>3
  <2>. QED
    BY <1>6, <2>1, <2>2
<1>. QED
  BY <1>8, <1>9, <1>10

\* Such a row is written again as it is.
LEMMA CutRowIsReadable ==
  ASSUME NEW A, Equals \in A, Bar \in A, Rest \in A, NEW c \in ColumnsOver(A), NEW d \in ColumnsOver(A), c[1] # d[1],
         NEW w \in CutTexts(Line({c, d}))
  PROVE  Readable(A, Columns(w)) /\ IsFiniteSet(Columns(w))
<1>0. c # d
  OBVIOUS
<1>1. PICK x \in {c, d}, y \in {c, d} : LineOf(c, d, x, y)
  BY <1>0, PairInLine
<1>2. x \in ColumnsOver(A) /\ y \in ColumnsOver(A) /\ Line({c, d}) = LineOfTwo(x, y) /\ x[1] # y[1]
  BY <1>1 DEF LineOf
<1>3. CutRow(A, x, y, Columns(w))
  BY <1>2, LineIsCut
<1>4. \A v \in Plain(A) : <<x[1], v>> \in ColumnsOver(A) /\ <<y[1], v>> \in ColumnsOver(A) /\ x # <<y[1], v>>
  BY <1>2 DEF ColumnsOver
<1>. DEFINE row == Columns(w)
<1>. HIDE DEF row
<1>5. row = {} \/ (\E z \in ColumnsOver(A) : row = {z}) \/ \E z, z2 \in ColumnsOver(A) : z # z2 /\ row = {z, z2}
  BY <1>2, <1>3, <1>4 DEF CutRow, row
<1>6. CASE row = {}
  BY <1>6, FS_EmptySet DEF Readable, row
<1>7. ASSUME NEW z \in ColumnsOver(A), row = {z} PROVE Readable(A, row) /\ IsFiniteSet(row)
  BY <1>7, OneIsWritten, FS_Singleton DEF Readable
<1>8. ASSUME NEW z \in ColumnsOver(A), NEW z2 \in ColumnsOver(A), z # z2, row = {z, z2}
      PROVE  Readable(A, row) /\ IsFiniteSet(row)
  <2>1. IsFiniteSet({z}) /\ {z, z2} = {z} \cup {z2}
    BY FS_Singleton
  <2>2. IsFiniteSet({z, z2})
    BY <2>1, FS_AddElement
  <2>. QED
    BY <1>8, <2>2, PairIsWritten DEF Readable
<1>. QED
  BY <1>5, <1>6, <1>7, <1>8 DEF row

-----------------------------------------------------------------------------
(* Cut files.                                                              *)

\* A catalogue of which all rows are written, and the atoms of cut files.
Saved(A, rows) ==
  /\ {Header, Equals, Bar, Newline, Rest} \subseteq A /\ Tables \subseteq A \ {Newline, Rest}
  /\ \A t \in Tables : IsFiniteSet(rows[t]) /\ \A row \in rows[t] : Written(A, row)

\* What the cut leaves in table t besides whole rows of it.
CutOf(rows, t, d) ==
  \/ d = {}
  \/ d = {{}} /\ \E u \in Tables : Rank[u] > Rank[t]
  \/ \E row \in rows[t] : \E w \in CutTexts(Line(row)) : d = {Columns(w)}

\* What is read of a file that is cut in the section at place k, or in the
\* header of the next one.
Kept(t, rows) == {<<<<t>>, row>> : row \in rows}
CutAt(rows, k, read) ==
  \E whole \in SUBSET rows[At(k)] : \E d : CutOf(rows, At(k), d) /\ read = ListedUpTo(rows, k - 1) \cup Kept(At(k), whole \cup d)
CutRead(rows, read) == \E k \in 1..Cardinality(Tables) : CutAt(rows, k, read)

LEMMA TwoAtoms ==
  ASSUME NEW x, NEW y
  PROVE  <<x>> \o <<y>> = <<x, y>>
<1>. DEFINE S == {x, y}
            a == <<x>> \o <<y>>
            b == <<x, y>>
<1>1. a \in Seq(S) /\ Len(a) = 2 /\ a[1] = x /\ a[2] = y
  OBVIOUS
<1>2. b \in Seq(S) /\ Len(b) = 2 /\ b[1] = x /\ b[2] = y
  OBVIOUS
<1>3. \A i \in 1..2 : a[i] = b[i]
  BY <1>1, <1>2
<1>. HIDE DEF a, b
<1>. QED
  BY <1>1, <1>2, <1>3, SeqEqual DEF a, b

LEMMA HeadingIsCut ==
  ASSUME NEW A, {Header, Newline, Rest} \subseteq A, NEW t \in A, NEW w \in CutTexts(Heading(t))
  PROVE  w \in {<< >>, <<Rest>>, <<Header>>, <<Header, Rest>>, <<Header, t>>, Heading(t)}
<1>. DEFINE h == <<Header>>
            n == <<t>>
            nl == <<Newline>>
            ht == h \o n
<1>1. h \in Seq(A) /\ n \in Seq(A) /\ nl \in Seq(A)
  OBVIOUS
<1>2. ht = <<Header, t>> /\ Heading(t) = ht \o nl
  BY TwoAtoms, ThreeAtoms DEF Heading
<1>3. \A u \in CutTexts(h) : u \in {<< >>, <<Rest>>, <<Header>>}
  BY CutOfAtom
<1>4. \A u \in CutTexts(n) : u \in {<< >>, <<Rest>>, n}
  BY CutOfAtom
<1>5. \A u \in CutTexts(nl) : u \in {<< >>, nl}
  BY CutOfAtom DEF Marks
<1>6. h \o <<Rest>> = <<Header, Rest>> /\ h \o << >> = h
  BY TwoAtoms
<1>. HIDE DEF h, n, nl
<1>7. ht \in Seq(A)
  BY <1>1
<1>8. w \in CutTexts(ht) \/ CutBehind(ht, nl, w)
  <2>. HIDE DEF ht
  <2>. QED
    BY <1>1, <1>2, <1>7, CutOfConcat
<1>9. CASE CutBehind(ht, nl, w)
  <2>1. PICK u \in CutTexts(nl) : w = ht \o u
    BY <1>9 DEF CutBehind
  <2>. HIDE DEF ht
  <2>2. ht \o << >> = ht
    BY <1>7
  <2>. QED
    BY <1>2, <1>5, <2>1, <2>2
<1>10. CASE w \in CutTexts(ht)
  <2>1. w \in CutTexts(h) \/ CutBehind(h, n, w)
    BY <1>1, <1>10, CutOfConcat
  <2>2. CASE CutBehind(h, n, w)
    <3>1. PICK u \in CutTexts(n) : w = h \o u
      BY <2>2 DEF CutBehind
    <3>. QED
      BY <1>2, <1>4, <1>6, <3>1 DEF h
  <2>. QED
    BY <1>3, <2>1, <2>2
<1>. QED
  BY <1>8, <1>9, <1>10

\* Rows that are read as they were have a column.
LEMMA SavedIsListed ==
  ASSUME NEW A, NEW rows, Saved(A, rows), NEW t \in Tables
  PROVE  Listed(t, rows[t]) = Kept(t, rows[t]) /\ {} \notin rows[t] /\ WrittenRows(A, rows[t])
<1>1. {} \notin rows[t]
  BY EmptyLine DEF Saved, Written
<1>. QED
  BY <1>1 DEF Listed, Kept, WrittenRows, Readable, Saved

\* A file that is cut in the header at place k.
LEMMA CutHeadingIsRead ==
  ASSUME ConstantsAssumption, IsFiniteSet(Tables), NEW A, NEW rows, Saved(A, rows), NEW k \in 1..Cardinality(Tables),
         NEW w \in CutTexts(Heading(At(k)))
  PROVE  CutRead(rows, ReadOf(TextUpTo(rows, k - 1) \o w).rows)
<1>. DEFINE m == Cardinality(Tables)
            t == At(k)
            a == TextUpTo(rows, k - 1)
            st == ReadOf(a)
            listed == ListedUpTo(rows, k - 1)
            read == ReadOf(a \o w).rows
<1>1. m \in Nat /\ k - 1 \in 0..m /\ t \in Tables
  BY PlacesOfTables, TablesAtPlaces
<1>2. {Header, Newline, Rest} \subseteq A /\ Tables \subseteq A \ {Newline} /\ Rest \notin Tables
  BY DEF Saved
<1>3. EndsLine(A, a) /\ st.rows = listed /\ st.table = IF k - 1 = 0 THEN << >> ELSE <<At(k - 1)>>
  <2>1. WrittenTables(A, rows)
    BY SavedIsListed DEF WrittenTables
  <2>2. {Header, Newline} \subseteq A
    BY <1>2
  <2>. QED
    BY <1>1, <1>2, <2>1, <2>2, TextIsRead
<1>4. Others(st, t) = listed
  BY <1>3, OthersAreListed
<1>5. \A x \in listed : \E u \in Tables : x[1] = <<u>>
  BY DEF ListedUpTo, Listed
<1>6. w \in {<< >>, <<Rest>>, <<Header>>, <<Header, Rest>>, <<Header, t>>, Heading(t)}
  <2>1. t \in A
    BY <1>1, <1>2
  <2>. QED
    BY <1>2, <2>1, HeadingIsCut
<1>. HIDE DEF a, st, t, m
<1>7. ASSUME NEW v \in Seq(A \ {Newline}) PROVE ReadOf(a \o v) = Read(st, v)
  <2>1. PICK front \in LinesOver(A) : PartsAre(A, Newline, a, front, << >>)
    BY <1>3 DEF EndsLine
  <2>. QED
    BY <2>1, LastLineIsRead DEF st
<1>8. t \in A \ {Newline} /\ Rest \in A \ {Newline} /\ Header \in A \ {Newline}
  BY <1>1, <1>2, MarksDiffer
<1>9. CASE w \in {<< >>, <<Header>>, <<Header, Rest>>, <<Header, t>>, Heading(t)}
  <2>1. read = listed
    <3>1. CASE w = << >>
      <4>1. << >> \in Seq(A \ {Newline})
        OBVIOUS
      <4>. QED
        BY <1>3, <1>7, <3>1, <4>1 DEF Read
    <3>2. ASSUME NEW v, w = <<Header>> \o v, v \in {<< >>, <<Rest>>, <<t>>} PROVE read = listed
      <4>1. v \in Seq(A \ {Newline})
        <5>1. << >> \in Seq(A \ {Newline})
          OBVIOUS
        <5>2. <<Rest>> \in Seq(A \ {Newline})
          BY <1>8
        <5>3. <<t>> \in Seq(A \ {Newline})
          BY <1>8
        <5>. QED
          BY <3>2, <5>1, <5>2, <5>3
      <4>. DEFINE l == <<Header>> \o v
      <4>2. l \in Seq(A \ {Newline}) /\ l # << >> /\ l[1] = Header /\ Tail(l) = v
        BY <1>8, <4>1
      <4>. HIDE DEF l
      <4>3. ReadOf(a \o l).rows = {x \in st.rows : x[1] # v}
        <5>1. ReadOf(a \o l) = Read(st, l)
          BY <1>7, <4>2
        <5>2. Read(st, l) = [table |-> v, rows |-> {x \in st.rows : x[1] # v}]
          BY <4>2, MarksDiffer DEF Read
        <5>. QED
          BY <5>1, <5>2
      <4>4. CASE v = <<t>>
        BY <1>4, <3>2, <4>3, <4>4 DEF Others, l
      <4>5. CASE v \in {<< >>, <<Rest>>}
        <5>1. ASSUME NEW u \in Tables PROVE <<u>> # v
          <6>1. <<u>>[1] = u /\ <<Rest>>[1] = Rest /\ u # Rest /\ <<u>> # << >>
            BY <1>2
          <6>. QED
            BY <4>5, <6>1
        <5>2. {x \in listed : x[1] # v} = listed
          BY <1>5, <5>1
        <5>. QED
          BY <1>3, <3>2, <4>3, <5>2 DEF l
      <4>. QED
        BY <3>2, <4>4, <4>5
    <3>3. CASE w = Heading(t)
      <4>1. {Header, Newline} \subseteq A
        BY <1>2
      <4>2. ReadOf(a \o Heading(t)) = [table |-> <<t>>, rows |-> Others(ReadOf(a), t)]
        BY <1>3, <1>8, <4>1, HeadingIsRead
      <4>. QED
        BY <1>4, <3>3, <4>2 DEF st
    <3>4. <<Header>> \o << >> = <<Header>> /\ <<Header>> \o <<Rest>> = <<Header, Rest>> /\ <<Header>> \o <<t>> = <<Header, t>>
      BY TwoAtoms
    <3>. QED
      BY <1>9, <3>1, <3>2, <3>3, <3>4
  <2>2. CutOf(rows, At(k), {}) /\ {} \in SUBSET rows[At(k)]
    BY DEF CutOf
  <2>3. Kept(At(k), {} \cup {}) = {}
    BY DEF Kept
  <2>4. CutAt(rows, k, read)
    <3>. HIDE DEF read
    <3>. QED
      BY <2>1, <2>2, <2>3 DEF CutAt, listed
  <2>. QED
    BY <2>4 DEF CutRead, a
<1>10. CASE w = <<Rest>>
  <2>1. <<Rest>> \in Seq(A \ {Newline}) /\ <<Rest>> # << >> /\ <<Rest>>[1] \notin {Header, Comment}
    BY <1>8, MarksDiffer
  <2>2. Columns(<<Rest>>) = {}
    <3>1. <<Rest>> \in Seq({Rest}) /\ <<Rest>> \in Plain(A) /\ Equals \notin {Rest}
      BY <1>2, MarksDiffer DEF Plain
    <3>2. FirstEquals(<<Rest>>) = 0
      BY <3>1, NoEquals
    <3>3. Columns(<<Rest>>) = {ColumnOf(h) : h \in {e \in {<<Rest>>} : FirstEquals(e) # 0}}
      BY <3>1, OneFieldIsRead
    <3>. QED
      BY <3>2, <3>3
  <2>3. ReadOf(a \o w) = Read(st, <<Rest>>)
    BY <1>7, <1>10, <2>1
  <2>4. CASE k = 1
    <3>1. st.table = << >>
      BY <1>3, <2>4
    <3>2. read = listed
      BY <1>3, <2>1, <2>3, <3>1 DEF Read
    <3>3. CutOf(rows, At(k), {}) /\ {} \in SUBSET rows[At(k)]
      BY DEF CutOf
    <3>4. Kept(At(k), {} \cup {}) = {}
      BY DEF Kept
    <3>5. CutAt(rows, k, read)
      <4>. HIDE DEF read
      <4>. QED
        BY <3>2, <3>3, <3>4 DEF CutAt, listed
    <3>. QED
      BY <3>5 DEF CutRead, a
  <2>5. CASE k # 1
    <3>. DEFINE i == k - 1
                p == At(i)
    <3>1. i \in 1..m /\ i # 0 /\ i - 1 \in 0..m /\ k \in 1..m /\ i < k
      BY <1>1, <2>5 DEF m
    <3>2. p \in Tables /\ PlaceOf(p) = i /\ PlaceOf(t) = k
      BY <3>1, TablesAtPlaces DEF m, t
    <3>3. Rank[t] > Rank[p]
      <4>1. PlaceOf(p) < PlaceOf(t)
        BY <3>1, <3>2
      <4>2. Rank[p] < Rank[t]
        BY <1>1, <3>2, <4>1, PlacesOfTables
      <4>3. Rank[p] \in Nat /\ Rank[t] \in Nat
        BY <1>1, <3>2 DEF ConstantsAssumption
      <4>. QED
        BY <4>2, <4>3
    <3>4. st.table = <<p>>
      BY <1>3, <3>1
    <3>. HIDE DEF p
    <3>5. <<p>> # << >>
      OBVIOUS
    <3>6. read = listed \cup {<<<<p>>, {}>>}
      <4>1. Read(st, <<Rest>>) = [st EXCEPT !.rows = @ \cup {<<st.table, Columns(<<Rest>>)>>}]
        BY <2>1, <3>4, <3>5 DEF Read
      <4>2. st \in States(A)
        <5>1. a \in Seq(A)
          BY <1>3 DEF EndsLine, PartsAre
        <5>. QED
          BY <5>1, ReadOfTyped DEF st
      <4>3. Read(st, <<Rest>>).rows = st.rows \cup {<<st.table, Columns(<<Rest>>)>>}
        BY <4>1, <4>2 DEF States
      <4>. QED
        BY <1>3, <2>2, <2>3, <3>4, <4>3
    <3>7. listed = ListedUpTo(rows, i - 1) \cup Kept(p, rows[p])
      <4>. DEFINE b == ReadOf(TextUpTo(rows, i - 1))
      <4>1. b.rows = ListedUpTo(rows, i - 1)
        <5>1. WrittenTables(A, rows)
          BY SavedIsListed DEF WrittenTables
        <5>2. {Header, Newline} \subseteq A
          BY <1>2
        <5>. QED
          BY <1>2, <3>1, <5>1, <5>2, TextIsRead DEF m
      <4>. HIDE DEF b
      <4>2. Others(b, At(i)) = ListedUpTo(rows, i - 1) /\ Others(b, At(i)) \cup Listed(At(i), rows[At(i)]) = ListedUpTo(rows, i)
        <5>1. i \in 1..Cardinality(Tables)
          BY <3>1 DEF m
        <5>. HIDE DEF i
        <5>. QED
          BY <4>1, <5>1, OthersAreListed
      <4>3. Listed(p, rows[p]) = Kept(p, rows[p])
        BY <3>2, SavedIsListed
      <4>. QED
        BY <4>2, <4>3 DEF p
    <3>8. read = ListedUpTo(rows, i - 1) \cup Kept(p, rows[p] \cup {{}})
      BY <3>6, <3>7 DEF Kept
    <3>9. CutOf(rows, p, {{}})
      BY <1>1, <3>3 DEF CutOf
    <3>10. CutAt(rows, i, read)
      BY <3>8, <3>9 DEF CutAt, p
    <3>. QED
      BY <3>1, <3>10 DEF CutRead, m, a
  <2>. QED
    BY <2>4, <2>5
<1>. QED
  BY <1>6, <1>9, <1>10

\* What a cut leaves of a row: nothing, or what its cut line is read as.
CutLine(row, d) == d = {} \/ \E w \in CutTexts(Line(row)) : d = {Columns(w)}
CutLineRead(row, st, read) == \E d : CutLine(row, d) /\ read = st.rows \cup {<<st.table, r>> : r \in d}

LEMMA CutLineIsRead ==
  ASSUME NEW A, {Header, Newline, Rest} \subseteq A, NEW a, EndsLine(A, a), ReadOf(a).table # << >>,
         NEW row, Written(A, row), NEW g \in CutTexts(Line(row) \o <<Newline>>)
  PROVE  CutLineRead(row, ReadOf(a), ReadOf(a \o g).rows)
<1>. DEFINE l == Line(row)
            nl == <<Newline>>
            st == ReadOf(a)
<1>1. l \in Seq(A \ {Newline}) /\ l \in Seq(A) /\ nl \in Seq(A) /\ l # << >> /\ l[1] \notin {Header, Comment} /\ Rest \in A \ {Newline}
  <2>1. l \in Seq(A \ {Newline}) /\ l # << >> /\ l[1] \notin {Header, Comment}
    BY DEF Written
  <2>. HIDE DEF l
  <2>. QED
    BY <2>1, MarksDiffer
<1>2. \A u \in CutTexts(nl) : u = << >> \/ u = nl
  BY CutOfAtom DEF Marks
<1>3. a \in Seq(A) /\ st \in States(A)
  BY ReadOfTyped DEF EndsLine, PartsAre
<1>4. g \in CutTexts(l \o nl)
  OBVIOUS
<1>. HIDE DEF l, nl, st
<1>5. g \in CutTexts(l) \/ CutBehind(l, nl, g)
  BY <1>1, <1>4, CutOfConcat
<1>6. ASSUME NEW w \in CutTexts(l), ReadOf(a \o g) = Read(st, w) PROVE CutLineRead(row, st, ReadOf(a \o g).rows)
  <2>1. CASE w = << >>
    <3>1. ReadOf(a \o g).rows = st.rows \cup {<<st.table, r>> : r \in {}}
      BY <1>6, <2>1 DEF Read
    <3>. QED
      BY <3>1 DEF CutLineRead, CutLine
  <2>2. CASE w # << >>
    <3>1. w[1] \notin {Header, Comment}
      BY <1>1, <2>2, CutStarts, MarksDiffer
    <3>2. st.table # << >>
      BY DEF st
    <3>3. Read(st, w) = [st EXCEPT !.rows = @ \cup {<<st.table, Columns(w)>>}]
      BY <2>2, <3>1, <3>2 DEF Read
    <3>4. Read(st, w).rows = st.rows \cup {<<st.table, Columns(w)>>}
      BY <1>3, <3>3 DEF States
    <3>5. {<<st.table, r>> : r \in {Columns(w)}} = {<<st.table, Columns(w)>>}
      OBVIOUS
    <3>6. ReadOf(a \o g).rows = st.rows \cup {<<st.table, r>> : r \in {Columns(w)}}
      BY <1>6, <3>4, <3>5
    <3>7. CutLine(row, {Columns(w)})
      BY DEF CutLine, l
    <3>. QED
      BY <3>6, <3>7 DEF CutLineRead
  <2>. QED
    BY <2>1, <2>2
<1>7. CASE g \in CutTexts(l)
  <2>1. g \in Seq(A \ {Newline})
    BY <1>1, <1>7, CutIsTyped
  <2>2. PICK front \in LinesOver(A) : PartsAre(A, Newline, a, front, << >>)
    BY DEF EndsLine
  <2>3. ReadOf(a \o g) = Read(st, g)
    BY <2>1, <2>2, LastLineIsRead DEF st
  <2>. QED
    BY <1>6, <1>7, <2>3 DEF st
<1>8. CASE g = l \o nl
  <2>1. l \in CutTexts(l)
    BY <1>1, CutsAtEnds
  <2>2. ReadOf(a \o (l \o <<Newline>>)) = Read(ReadOf(a), l)
    BY <1>1, LineIsRead
  <2>. QED
    BY <1>6, <1>8, <2>1, <2>2 DEF st, nl
<1>9. CASE CutBehind(l, nl, g)
  <2>1. PICK u \in CutTexts(nl) : g = l \o u
    BY <1>9 DEF CutBehind
  <2>2. l \o << >> = l /\ l \in CutTexts(l)
    BY <1>1, CutsAtEnds
  <2>. QED
    BY <1>2, <1>7, <1>8, <2>1, <2>2
<1>. QED
  BY <1>5, <1>7, <1>9 DEF st

\* A file that is cut in the rows of a table.
CutRows(R, t, others, read) ==
  \E whole \in SUBSET R : \E d : (d = {} \/ \E row \in R : CutLine(row, d)) /\ read = others \cup Kept(t, whole \cup d)

LEMMA CutLinesAreRead ==
  ASSUME NEW A, {Header, Newline, Rest} \subseteq A, NEW t \in A \ {Newline}, NEW a, EndsLine(A, a),
         NEW R, NEW list \in Seq(R), \A row \in R : Written(A, row), {} \notin R,
         NEW e \in CutTexts(FlattenSeq(LinesOf(list)))
  PROVE  CutRows(R, t, Others(ReadOf(a), t), ReadOf((a \o Heading(t)) \o e).rows)
<1>. DEFINE open == a \o Heading(t)
            texts == LinesOf(list)
            others == Others(ReadOf(a), t)
            read == ReadOf(open \o e).rows
            n == Len(list)
<1>1. {Header, Newline} \subseteq A /\ Newline \in A /\ \A row \in R : Readable(A, row)
  BY DEF Readable
<1>2. open \in Seq(A) /\ EndsLine(A, open) /\ ReadOf(open).table = <<t>> /\ ReadOf(open).rows = others
  BY <1>1, HeadingIsRead
<1>3. n \in Nat /\ DOMAIN list = 1..n /\ \A i \in 1..n : list[i] \in R
  OBVIOUS
<1>4. \A i \in 1..n : Line(list[i]) \o <<Newline>> \in Seq(A)
  <2>. SUFFICES ASSUME NEW i \in 1..n PROVE Line(list[i]) \o <<Newline>> \in Seq(A)
    OBVIOUS
  <2>. DEFINE l == Line(list[i])
              nl == <<Newline>>
  <2>1. l \in Seq(A \ {Newline})
    BY <1>3 DEF Written
  <2>. HIDE DEF l
  <2>2. l \in Seq(A) /\ nl \in Seq(A)
    BY <1>1, <2>1
  <2>. HIDE DEF nl
  <2>3. l \o nl \in Seq(A)
    BY <2>2
  <2>. QED
    BY <2>3 DEF l, nl
<1>5. texts \in Seq(Seq(A)) /\ Len(texts) = n /\ \A i \in 1..n : texts[i] = Line(list[i]) \o <<Newline>>
  <2>1. texts \in [1..n -> Seq(A)] /\ \A i \in 1..n : texts[i] = Line(list[i]) \o <<Newline>>
    BY <1>3, <1>4 DEF LinesOf
  <2>. HIDE DEF texts, n
  <2>. QED
    BY <1>3, <2>1, FunctionIsSeq
<1>6. e \in CutTexts(FlattenSeq(texts))
  OBVIOUS
<1>. HIDE DEF open, texts, others, n
<1>7. e = << >> \/ CutIn(texts, e)
  BY <1>5, <1>6, CutOfFlatten
<1>8. CASE e = << >>
  <2>1. open \o e = open
    BY <1>2, <1>8
  <2>2. Kept(t, {} \cup {}) = {}
    BY DEF Kept
  <2>3. read = others \cup Kept(t, {} \cup {})
    BY <1>2, <2>1, <2>2
  <2>. HIDE DEF read
  <2>4. {} \in SUBSET R
    OBVIOUS
  <2>5. CutRows(R, t, others, read)
    BY <2>3, <2>4 DEF CutRows
  <2>. QED
    BY <2>5 DEF read, open, others
<1>9. CASE CutIn(texts, e)
  <2>1. PICK k \in 1..n : \E v \in CutTexts(texts[k]) : e = FlattenSeq(SubSeq(texts, 1, k - 1)) \o v
    BY <1>5, <1>9 DEF CutIn
  <2>2. PICK v \in CutTexts(texts[k]) : e = FlattenSeq(SubSeq(texts, 1, k - 1)) \o v
    BY <2>1
  <2>. DEFINE sub == SubSeq(list, 1, k - 1)
              before == FlattenSeq(LinesOf(sub))
              b == open \o before
              row == list[k]
  <2>3. k - 1 \in 0..n /\ k - 1 \in Nat /\ row \in R /\ texts[k] = Line(row) \o <<Newline>>
    <3>1. k - 1 \in 0..n /\ k - 1 \in Nat
      BY <1>3
    <3>2. row \in R
      BY <1>3
    <3>3. texts[k] = Line(row) \o <<Newline>>
      BY <1>5
    <3>. QED
      BY <3>1, <3>2, <3>3
  <2>4. sub \in Seq(R) /\ Len(sub) = k - 1 /\ \A i \in 1..(k - 1) : sub[i] = list[i]
    BY <1>3, <2>3
  <2>5. ToSet(sub) \subseteq R
    <3>. HIDE DEF sub
    <3>. QED
      BY <2>4 DEF ToSet
  <2>6. SubSeq(texts, 1, k - 1) = LinesOf(sub)
    <3>. DEFINE p == SubSeq(texts, 1, k - 1)
                q == LinesOf(sub)
    <3>1. p \in Seq(Seq(A)) /\ Len(p) = k - 1 /\ \A i \in 1..(k - 1) : p[i] = texts[i]
      BY <1>3, <1>5, <2>3
    <3>. HIDE DEF sub
    <3>2. DOMAIN sub = 1..(k - 1)
      BY <2>4
    <3>3. \A i \in 1..(k - 1) : i \in 1..n
      BY <1>3
    <3>4. q \in [1..(k - 1) -> Seq(A)] /\ \A i \in 1..(k - 1) : q[i] = texts[i]
      BY <1>4, <1>5, <2>4, <3>2, <3>3 DEF LinesOf
    <3>. HIDE DEF p, q
    <3>5. q \in Seq(Seq(A)) /\ Len(q) = k - 1
      BY <2>3, <3>4, FunctionIsSeq
    <3>6. p = q
      BY <3>1, <3>4, <3>5, SeqEqual
    <3>. QED
      BY <3>6 DEF p, q
  <2>7. /\ before \in Seq(A) /\ EndsLine(A, b)
        /\ ReadOf(b) = [table |-> <<t>>, rows |-> others \cup Listed(t, ToSet(sub))]
    <3>. HIDE DEF sub
    <3>1. /\ FlattenSeq(LinesOf(sub)) \in Seq(A)
          /\ EndsLine(A, (a \o Heading(t)) \o FlattenSeq(LinesOf(sub)))
          /\ ReadOf((a \o Heading(t)) \o FlattenSeq(LinesOf(sub)))
               = [table |-> <<t>>, rows |-> Others(ReadOf(a), t) \cup Listed(t, ToSet(sub))]
      BY <1>1, <2>4, SomeRowsAreRead
    <3>. QED
      BY <3>1 DEF open, others
  <2>8. Listed(t, ToSet(sub)) = Kept(t, ToSet(sub))
    BY <2>5 DEF Listed, Kept
  <2>9. v \in Seq(A)
    <3>1. texts[k] \in Seq(A) /\ Rest \in A
      BY <1>5
    <3>. QED
      BY <3>1, CutIsTyped
  <2>10. open \o e = b \o v
    <3>1. e = before \o v
      BY <2>2, <2>6
    <3>. HIDE DEF before
    <3>2. open \o (before \o v) = (open \o before) \o v
      BY <1>2, <2>7, <2>9, Regroup
    <3>. QED
      BY <3>1, <3>2
  <2>11. CutLineRead(row, ReadOf(b), ReadOf(b \o v).rows)
    <3>1. ReadOf(b).table = <<t>>
      BY <2>7
    <3>2. <<t>> # << >>
      OBVIOUS
    <3>3. Written(A, row) /\ v \in CutTexts(Line(row) \o <<Newline>>)
      BY <2>3
    <3>. HIDE DEF b, row
    <3>. QED
      BY <2>7, <3>1, <3>2, <3>3, CutLineIsRead
  <2>. HIDE DEF b, before, sub, row
  <2>12. PICK d : CutLine(row, d) /\ ReadOf(b \o v).rows = ReadOf(b).rows \cup {<<ReadOf(b).table, r>> : r \in d}
    BY <2>11 DEF CutLineRead
  <2>13. ReadOf(b).rows = others \cup Kept(t, ToSet(sub)) /\ ReadOf(b).table = <<t>>
    BY <2>7, <2>8
  <2>14. read = others \cup Kept(t, ToSet(sub) \cup d)
    BY <2>10, <2>12, <2>13 DEF Kept
  <2>. HIDE DEF read
  <2>15. CutRows(R, t, others, read)
    BY <2>3, <2>5, <2>12, <2>14 DEF CutRows
  <2>. QED
    BY <2>15 DEF read, open, others
<1>. QED
  BY <1>7, <1>8, <1>9

\* A file that is cut anywhere.
LEMMA CutFileIsRead ==
  ASSUME ConstantsAssumption, IsFiniteSet(Tables), NEW A, NEW rows, Saved(A, rows), NEW file \in CutTexts(Encode(rows))
  PROVE  CutRead(rows, ReadOf(file).rows)
<1>. DEFINE m == Cardinality(Tables)
            texts == Sections(rows)
            read == ReadOf(file).rows
<1>1. {Header, Newline, Rest} \subseteq A /\ {Header, Newline} \subseteq A /\ Tables \subseteq A \ {Newline}
  BY DEF Saved
<1>2. WrittenTables(A, rows)
  BY SavedIsListed DEF WrittenTables
<1>3. m \in Nat /\ 1 \in 1..m
  <2>1. m \in Nat /\ PlaceOf(MigTable) \in 1..m
    BY PlacesOfTables DEF ConstantsAssumption
  <2>. HIDE DEF m
  <2>. QED
    BY <2>1
<1>4. texts \in Seq(Seq(A)) /\ Len(texts) = m /\ Encode(rows) = TextUpTo(rows, m)
  BY <1>1, <1>2, TextIsRead
<1>5. \A k \in 1..m : texts[k] = Section(rows, At(k)) /\ At(k) \in Tables
  BY TablesAtPlaces DEF Sections
<1>6. \A k \in 0..m : EndsLine(A, TextUpTo(rows, k)) /\ ReadOf(TextUpTo(rows, k)).rows = ListedUpTo(rows, k)
  BY <1>1, <1>2, TextIsRead
<1>7. \A k : TextUpTo(rows, k) = FlattenSeq(SubSeq(texts, 1, k))
  BY DEF TextUpTo
<1>8. file \in CutTexts(FlattenSeq(texts))
  <2>. HIDE DEF m, texts
  <2>1. SubSeq(texts, 1, m) = texts
    BY <1>4, PrefixGrows
  <2>. QED
    BY <1>4, <1>7, <2>1
<1>9. ASSUME NEW k \in 1..m, NEW w \in CutTexts(Heading(At(k))), file = TextUpTo(rows, k - 1) \o w PROVE CutRead(rows, read)
  BY <1>9, CutHeadingIsRead
<1>. HIDE DEF texts
<1>10. file = << >> \/ CutIn(texts, file)
  BY <1>4, <1>8, CutOfFlatten
<1>11. CASE file = << >>
  <2>1. TextUpTo(rows, 0) = << >>
    <3>1. SubSeq(texts, 1, 0) = << >>
      BY <1>4, PrefixGrows
    <3>. QED
      BY <1>7, <3>1, FlattenEmpty
  <2>2. << >> \in CutTexts(Heading(At(1)))
    <3>1. At(1) \in A
      BY <1>1, <1>3, <1>5
    <3>2. Heading(At(1)) \in Seq(A)
      BY <1>1, <3>1 DEF Heading
    <3>. QED
      BY <3>2, CutsAtEnds
  <2>3. file = TextUpTo(rows, 1 - 1) \o << >>
    <3>1. 1 - 1 = 0 /\ << >> \o << >> = << >>
      OBVIOUS
    <3>. QED
      BY <1>11, <2>1, <3>1
  <2>. QED
    BY <1>3, <1>9, <2>2, <2>3
<1>12. CASE CutIn(texts, file)
  <2>1. PICK k \in 1..m : \E v \in CutTexts(texts[k]) : file = FlattenSeq(SubSeq(texts, 1, k - 1)) \o v
    BY <1>4, <1>12 DEF CutIn
  <2>2. PICK v \in CutTexts(texts[k]) : file = TextUpTo(rows, k - 1) \o v
    BY <1>7, <2>1
  <2>. DEFINE t == At(k)
              R == rows[t]
              list == SetToSeq(R)
              lines == FlattenSeq(LinesOf(list))
              h == Heading(t)
              a == TextUpTo(rows, k - 1)
  <2>3. t \in Tables /\ texts[k] = h \o lines
    BY <1>5 DEF Section, LinesOf, Heading
  <2>4. k - 1 \in 0..m
    BY <1>3
  <2>5. EndsLine(A, a) /\ ReadOf(a).rows = ListedUpTo(rows, k - 1) /\ t \in A \ {Newline}
    BY <1>1, <1>6, <2>3, <2>4
  <2>6. /\ IsFiniteSet(R) /\ {} \notin R /\ (\A row \in R : Written(A, row)) /\ \A row \in R : Readable(A, row)
    BY <2>3, SavedIsListed DEF Saved, Readable
  <2>7. list \in Seq(R)
    BY <2>6, SetInSequence
  <2>. HIDE DEF list, R, t, a
  <2>8. h \in Seq(A) /\ a \in Seq(A)
    BY <1>1, <2>5, HeadingIsRead DEF EndsLine, PartsAre
  <2>9. lines \in Seq(A)
    BY <1>1, <2>5, <2>6, <2>7, SomeRowsAreRead
  <2>10. v \in CutTexts(h) \/ CutBehind(h, lines, v)
    <3>1. v \in CutTexts(h \o lines)
      BY <2>3
    <3>. HIDE DEF h, lines
    <3>. QED
      BY <2>8, <2>9, <3>1, CutOfConcat
  <2>11. CASE v \in CutTexts(h)
    BY <1>9, <2>2, <2>11 DEF t
  <2>12. CASE CutBehind(h, lines, v)
    <3>1. PICK e \in CutTexts(lines) : v = h \o e
      BY <2>12 DEF CutBehind
    <3>2. CutRows(R, t, Others(ReadOf(a), t), ReadOf((a \o Heading(t)) \o e).rows)
      BY <1>1, <2>5, <2>6, <2>7, CutLinesAreRead
    <3>3. file = (a \o h) \o e
      <4>1. e \in Seq(A)
        BY <1>1, <2>9, CutIsTyped
      <4>2. file = a \o (h \o e)
        BY <2>2, <3>1 DEF a
      <4>. HIDE DEF h
      <4>. QED
        BY <2>8, <4>1, <4>2, Regroup
    <3>4. Others(ReadOf(a), t) = ListedUpTo(rows, k - 1)
      BY <2>5, OthersAreListed DEF t
    <3>5. CutRows(R, t, ListedUpTo(rows, k - 1), read)
      BY <3>2, <3>3, <3>4
    <3>. HIDE DEF read
    <3>6. CutAt(rows, k, read)
      <4>1. ASSUME NEW d, d = {} \/ \E row \in R : CutLine(row, d) PROVE CutOf(rows, t, d)
        BY <4>1 DEF CutOf, CutLine, R
      <4>. QED
        BY <3>5, <4>1 DEF CutRows, CutAt, R, t
    <3>. QED
      BY <3>6 DEF CutRead, read
  <2>. QED
    BY <2>10, <2>11, <2>12
<1>. QED
  BY <1>10, <1>11, <1>12

-----------------------------------------------------------------------------
(* The catalogue that is read of a cut file.                               *)

\* The row that a set of columns is taken for.
KnownAs(row) == {r \in Rows \cup {MigRow} : row = Content(r, Ordinary)}
Known(row) == IF KnownAs(row) = {} THEN {Junk} ELSE KnownAs(row)

LEMMA ContentsDiffer ==
  ASSUME NEW r, NEW q, NEW value, <<<<"id">>, <<r>>>> \in Content(q, value)
  PROVE  r = q
<1>. DEFINE id == <<"id">>
            val == <<"value">>
            one == <<r>>
            other == <<q>>
<1>1. id # val
  <2>1. "id" # "value"
    BY Zenon
  <2>2. id[1] = "id" /\ val[1] = "value"
    OBVIOUS
  <2>. QED
    BY <2>1, <2>2
<1>2. <<id, one>> \in {<<id, other>>, <<val, value[q]>>}
  BY DEF Content
<1>3. one = other => r = q
  OBVIOUS
<1>. HIDE DEF id, val, one, other
<1>. QED
  BY <1>1, <1>2, <1>3

LEMMA RowIsKnown ==
  ASSUME ConstantsAssumption, NEW r \in AllRows
  PROVE  Known(Content(r, Ordinary)) = {r}
<1>1. \A q : Content(r, Ordinary) = Content(q, Ordinary) => q = r
  <2>1. \A q : <<<<"id">>, <<q>>>> \in Content(q, Ordinary)
    BY DEF Content
  <2>. QED
    BY <2>1, ContentsDiffer
<1>2. KnownAs(Content(r, Ordinary)) = {r} \cap (Rows \cup {MigRow})
  BY <1>1 DEF KnownAs
<1>3. r = Junk \/ r \in Rows \cup {MigRow}
  BY DEF AllRows
<1>4. Junk \notin Rows \cup {MigRow}
  BY DEF ConstantsAssumption
<1>. QED
  BY <1>2, <1>3, <1>4 DEF Known

\* A row without columns is none that was written.
LEMMA NothingIsKnown == Known({}) = {Junk}
<1>1. \A r : Content(r, Ordinary) # {}
  BY DEF Content
<1>. QED
  BY <1>1 DEF Known, KnownAs

LEMMA SavedContent ==
  ASSUME NEW A, {Equals, Bar, "id", "value", "x"} \subseteq A, NEW r \in AllRows, r \in A \ {Bar, Newline}
  PROVE  Written(A, Content(r, Ordinary))
<1>1. "x" \in A \ {Bar, Newline}
  BY MarksDiffer
<1>2. Ordinary[r] = <<"x">>
  BY DEF Ordinary
<1>3. Ordinary[r] \in Plain(A)
  BY <1>1, <1>2 DEF Plain
<1>4. {Equals, Bar, "id", "value"} \subseteq A
  OBVIOUS
<1>. QED
  BY <1>3, <1>4, ContentIsWritten

\* A cut line is that of its row, or of none.
LEMMA CutRowIsKnown ==
  ASSUME ConstantsAssumption, FileAssumption, NEW r \in AllRows, NEW w \in CutTexts(Line(Content(r, Ordinary)))
  PROVE  Known(Columns(w)) = {r} \/ Known(Columns(w)) = {Junk}
<1>. DEFINE A == {Equals, Bar, "id", "value", "x", r, Rest}
            l == Line(Content(r, Ordinary))
<1>1. r \notin {Equals, Bar, Newline, Rest, "id", "value", "x"}
  BY DEF FileAssumption, Marks
<1>2. l \in Seq(A \ {Newline})
  <2>1. {Equals, Bar, "id", "value", "x"} \subseteq A /\ r \in A \ {Bar, Newline}
    BY <1>1
  <2>. HIDE DEF A
  <2>. QED
    BY <2>1, SavedContent DEF Written
<1>3. Rest \in A \ {Newline}
  BY MarksDiffer
<1>4. Columns(w) \subseteq Plain(A) \X Plain(A)
  <2>. HIDE DEF A
  <2>1. w \in Seq(A \ {Newline})
    BY <1>2, <1>3, CutIsTyped
  <2>. QED
    BY <2>1, ColumnsTyped DEF ReadRows
<1>5. ASSUME NEW q \in Rows \cup {MigRow}, Columns(w) = Content(q, Ordinary) PROVE q = r
  <2>1. <<<<"id">>, <<q>>>> \in Columns(w)
    BY <1>5 DEF Content
  <2>. DEFINE one == <<q>>
  <2>2. one \in Plain(A)
    BY <1>4, <2>1
  <2>3. Len(one) = 1 /\ one[1] = q
    OBVIOUS
  <2>4. q \in A
    <3>. HIDE DEF one, A
    <3>. QED
      BY <2>2, <2>3 DEF Plain
  <2>5. q \notin {Equals, Bar, Newline, Rest, "id", "value", "x"}
    BY DEF FileAssumption, Marks, AllRows
  <2>. QED
    BY <2>4, <2>5
<1>6. KnownAs(Columns(w)) \subseteq {r}
  BY <1>5 DEF KnownAs
<1>. QED
  BY <1>6 DEF Known

\* The rows before the place of the cut, ...
LEMMA RowsUpTo ==
  ASSUME NEW rows, NEW k
  PROVE  \A t \in Tables : RowsIn(ListedUpTo(rows, k))[t] = IF PlaceOf(t) <= k THEN rows[t] \ {{}} ELSE {}
<1>. DEFINE some == {u \in Tables : PlaceOf(u) <= k}
<1>1. some \subseteq Tables /\ ListedUpTo(rows, k) = UNION {Listed(t, rows[t]) : t \in some}
  BY DEF ListedUpTo
<1>. HIDE DEF some
<1>2. RowsIn(UNION {Listed(t, rows[t]) : t \in some}) = [t \in Tables |-> IF t \in some THEN rows[t] \ {{}} ELSE {}]
  BY <1>1, RowsOfTables
<1>. QED
  BY <1>1, <1>2 DEF some

\* ... and those at it.
LEMMA SplicedRows ==
  ASSUME ConstantsAssumption, IsFiniteSet(Tables), NEW A, NEW rows, Saved(A, rows), NEW k \in 1..Cardinality(Tables), NEW now
  PROVE  RowsIn(ListedUpTo(rows, k - 1) \cup Kept(At(k), now))
           = [u \in Tables |-> IF Rank[u] < Rank[At(k)] THEN rows[u] ELSE IF u = At(k) THEN now ELSE {}]
<1>. DEFINE m == Cardinality(Tables)
            t == At(k)
            some == {u \in Tables : PlaceOf(u) <= k - 1}
            before == ListedUpTo(rows, k - 1)
            at == Kept(t, now)
            of(read, u) == {x[2] : x \in {y \in read : y[1] = <<u>>}}
<1>1. t \in Tables /\ PlaceOf(t) = k
  BY TablesAtPlaces
<1>2. k \in Nat /\ \A u \in Tables : PlaceOf(u) \in Nat /\ (Rank[u] < Rank[t] <=> PlaceOf(u) < PlaceOf(t))
  <2>1. m \in Nat /\ (\A u \in Tables : PlaceOf(u) \in 1..m)
    BY PlacesOfTables
  <2>2. \A u, v \in Tables : Rank[u] < Rank[v] <=> PlaceOf(u) < PlaceOf(v)
    BY PlacesOfTables
  <2>. HIDE DEF m, t
  <2>3. k \in Nat /\ \A u \in Tables : PlaceOf(u) \in Nat
    BY <2>1 DEF m
  <2>. QED
    BY <1>1, <2>2, <2>3
<1>. HIDE DEF t
<1>3. \A u \in Tables : u \in some <=> Rank[u] < Rank[t]
  BY <1>1, <1>2
<1>4. some \subseteq Tables
  OBVIOUS
<1>5. \A u \in Tables : RowsIn(before)[u] = IF PlaceOf(u) <= k - 1 THEN rows[u] \ {{}} ELSE {}
  BY RowsUpTo
<1>6. \A u \in Tables : rows[u] \ {{}} = rows[u]
  <2>1. ASSUME NEW u \in Tables PROVE {} \notin rows[u]
    BY SavedIsListed
  <2>. QED
    BY <2>1
<1>. HIDE DEF some, before
<1>7. ASSUME NEW u \in Tables PROVE of(at, u) = IF u = t THEN now ELSE {}
  <2>1. CASE u = t
    <3>1. {y \in at : y[1] = <<u>>} = at
      BY <2>1 DEF Kept
    <3>2. {x[2] : x \in at} = now
      <4>1. \A row \in now : <<<<t>>, row>> \in at /\ <<<<t>>, row>>[2] = row
        BY DEF Kept
      <4>2. \A x \in at : x[2] \in now
        BY DEF Kept
      <4>. HIDE DEF at
      <4>3. \A row \in now : \E x \in at : x[2] = row
        BY <4>1
      <4>. QED
        BY <4>2, <4>3
    <3>. QED
      BY <2>1, <3>1, <3>2
  <2>2. CASE u # t
    <3>1. \A y \in at : y[1] = <<t>>
      BY DEF Kept
    <3>2. <<t>> # <<u>>
      BY <2>2
    <3>3. {y \in at : y[1] = <<u>>} = {}
      BY <3>1, <3>2
    <3>. QED
      BY <2>2, <3>3
  <2>. QED
    BY <2>1, <2>2
<1>. HIDE DEF at
<1>8. ASSUME NEW u \in Tables PROVE of(before \cup at, u) = of(before, u) \cup of(at, u)
  <2>1. {y \in before \cup at : y[1] = <<u>>} = {y \in before : y[1] = <<u>>} \cup {y \in at : y[1] = <<u>>}
    OBVIOUS
  <2>. QED
    BY <2>1
<1>9. \A read : RowsIn(read) = [u \in Tables |-> of(read, u)]
  BY DEF RowsIn
<1>. HIDE DEF of
<1>10. ASSUME NEW u \in Tables
       PROVE  of(before \cup at, u) = IF Rank[u] < Rank[t] THEN rows[u] ELSE IF u = t THEN now ELSE {}
  <2>1. of(before, u) = IF u \in some THEN rows[u] ELSE {}
    BY <1>5, <1>6, <1>9 DEF some
  <2>2. u = t => u \notin some
    BY <1>1, <1>2, <1>3
  <2>. QED
    BY <1>3, <1>7, <1>8, <2>1, <2>2
<1>. QED
  BY <1>9, <1>10 DEF before, at, t

\* A catalogue that is saved, and what a cut file of it is read as.
CutAtoms == Atoms \cup {Rest}
RowsOf(rows) == UNION {Known(row) : row \in rows}
CutTo(c, rows) ==
  \E t \in Tables : \E whole \in SUBSET Contents(c, Ordinary)[t] : \E d :
    /\ CutOf(Contents(c, Ordinary), t, d)
    /\ rows = [u \in Tables |-> IF Rank[u] < Rank[t] THEN Contents(c, Ordinary)[u] ELSE IF u = t THEN whole \cup d ELSE {}]

LEMMA CutAtomsFit ==
  ASSUME FileAssumption
  PROVE  /\ {Header, Equals, Bar, Newline, Rest, "id", "value", "x"} \subseteq CutAtoms
         /\ Tables \subseteq CutAtoms \ {Newline, Rest} /\ AllRows \subseteq CutAtoms \ {Bar, Newline}
<1>1. {Header, Equals, Bar, Newline, Rest, "id", "value", "x"} \subseteq CutAtoms
  BY DEF CutAtoms, Atoms
<1>2. Tables \subseteq CutAtoms /\ AllRows \subseteq CutAtoms
  BY DEF CutAtoms, Atoms
<1>3. \A t \in Tables \cup AllRows : t \notin {Bar, Newline, Rest}
  BY DEF FileAssumption, Marks
<1>. QED
  BY <1>1, <1>2, <1>3

LEMMA RowsAreFinite ==
  ASSUME FileAssumption, NEW c \in Catalog, NEW t \in Tables
  PROVE  IsFiniteSet(Contents(c, Ordinary)[t])
<1>1. IsFiniteSet(AllRows)
  <2>1. IsFiniteSet(Rows \cup {MigRow})
    BY FS_AddElement DEF FileAssumption
  <2>2. IsFiniteSet((Rows \cup {MigRow}) \cup {Junk})
    BY <2>1, FS_AddElement
  <2>3. AllRows = (Rows \cup {MigRow}) \cup {Junk}
    BY DEF AllRows
  <2>. QED
    BY <2>2, <2>3
<1>2. IsFiniteSet(c[t])
  <2>1. c[t] \subseteq AllRows
    BY DEF Catalog
  <2>. QED
    BY <1>1, <2>1, FS_Subset
<1>. DEFINE rows == Contents(c, Ordinary)[t]
            of == [r \in c[t] |-> Content(r, Ordinary)]
<1>3. rows = {Content(r, Ordinary) : r \in c[t]}
  BY DEF Contents
<1>4. of \in Surjection(c[t], rows)
  BY <1>3 DEF Surjection
<1>. QED
  BY <1>2, <1>4, FS_Surjection

LEMMA ContentsAreSaved ==
  ASSUME FileAssumption, NEW c \in Catalog
  PROVE  Saved(CutAtoms, Contents(c, Ordinary))
<1>1. ASSUME NEW t \in Tables, NEW row \in Contents(c, Ordinary)[t] PROVE Written(CutAtoms, row)
  <2>1. PICK r \in c[t] : row = Content(r, Ordinary)
    BY DEF Contents
  <2>2. r \in AllRows
    BY DEF Catalog
  <2>3. {Equals, Bar, "id", "value", "x"} \subseteq CutAtoms /\ r \in CutAtoms \ {Bar, Newline}
    BY <2>2, CutAtomsFit
  <2>. QED
    BY <2>1, <2>2, <2>3, SavedContent
<1>2. {Header, Equals, Bar, Newline, Rest} \subseteq CutAtoms /\ Tables \subseteq CutAtoms \ {Newline, Rest}
  BY CutAtomsFit
<1>3. \A t \in Tables : IsFiniteSet(Contents(c, Ordinary)[t])
  BY RowsAreFinite
<1>. QED
  BY <1>1, <1>2, <1>3 DEF Saved

LEMMA CutSaveIsRead ==
  ASSUME ConstantsAssumption, FileAssumption, NEW c \in Catalog, NEW file \in CutTexts(Encode(Contents(c, Ordinary)))
  PROVE  CutTo(c, Replay(file))
<1>. DEFINE rows == Contents(c, Ordinary)
            read == ReadOf(file).rows
<1>1. IsFiniteSet(Tables) /\ Saved(CutAtoms, rows)
  BY ContentsAreSaved DEF FileAssumption
<1>2. CutRead(rows, read)
  <2>. HIDE DEF rows
  <2>. QED
    BY <1>1, CutFileIsRead DEF rows
<1>. HIDE DEF rows
<1>3. PICK k \in 1..Cardinality(Tables) : CutAt(rows, k, read)
  BY <1>2 DEF CutRead
<1>. DEFINE t == At(k)
<1>4. t \in Tables
  BY <1>1, TablesAtPlaces
<1>5. PICK whole \in SUBSET rows[t] : \E d : CutOf(rows, t, d) /\ read = ListedUpTo(rows, k - 1) \cup Kept(t, whole \cup d)
  BY <1>3 DEF CutAt
<1>6. PICK d : CutOf(rows, t, d) /\ read = ListedUpTo(rows, k - 1) \cup Kept(t, whole \cup d)
  BY <1>5
<1>7. ASSUME NEW now
      PROVE  RowsIn(ListedUpTo(rows, k - 1) \cup Kept(t, now))
               = [u \in Tables |-> IF Rank[u] < Rank[t] THEN rows[u] ELSE IF u = t THEN now ELSE {}]
  BY <1>1, SplicedRows
<1>8. Replay(file) = RowsIn(read)
  BY DEF Replay, RowsIn, ReadOf
<1>. HIDE DEF t, read
<1>9. Replay(file) = [u \in Tables |-> IF Rank[u] < Rank[t] THEN rows[u] ELSE IF u = t THEN whole \cup d ELSE {}]
  BY <1>6, <1>7, <1>8
<1>10. \E v \in Tables : \E some \in SUBSET rows[v] : \E e :
         /\ CutOf(rows, v, e)
         /\ Replay(file) = [u \in Tables |-> IF Rank[u] < Rank[v] THEN rows[u] ELSE IF u = v THEN some \cup e ELSE {}]
  <2>. WITNESS t \in Tables
  <2>. WITNESS whole \in SUBSET rows[t]
  <2>. WITNESS d
  <2>. QED
    BY <1>6, <1>9
<1>. QED
  BY <1>10 DEF CutTo, rows

\* Whole rows are taken for what they are, ...
LEMMA WholeRowsAreKnown ==
  ASSUME ConstantsAssumption, NEW c \in Catalog, NEW t \in Tables
  PROVE  /\ RowsOf(Contents(c, Ordinary)[t]) = c[t]
         /\ \A whole \in SUBSET Contents(c, Ordinary)[t] : RowsOf(whole) \subseteq c[t]
<1>1. \A r \in c[t] : Known(Content(r, Ordinary)) = {r}
  BY RowIsKnown DEF Catalog
<1>2. Contents(c, Ordinary)[t] = {Content(r, Ordinary) : r \in c[t]}
  BY DEF Contents
<1>3. \A row \in Contents(c, Ordinary)[t] : Known(row) \subseteq c[t]
  BY <1>1, <1>2
<1>4. \A r \in c[t] : \E row \in Contents(c, Ordinary)[t] : r \in Known(row)
  BY <1>1, <1>2
<1>. DEFINE R == Contents(c, Ordinary)[t]
<1>. HIDE DEF R
<1>5. (\A row \in R : Known(row) \subseteq c[t]) /\ \A r \in c[t] : \E row \in R : r \in Known(row)
  BY <1>3, <1>4 DEF R
<1>6. RowsOf(R) = c[t] /\ \A whole \in SUBSET R : RowsOf(whole) \subseteq c[t]
  BY <1>5 DEF RowsOf
<1>. QED
  BY <1>6 DEF R

\* ... and the rest of one as it, or as a row from a cut line.
LEMMA CutRowsAreKnown ==
  ASSUME ConstantsAssumption, FileAssumption, NEW c \in Catalog, NEW t \in Tables, NEW d, CutOf(Contents(c, Ordinary), t, d)
  PROVE  RowsOf(d) \subseteq CutTable(c, EmptyCatalog, t)
<1>1. CutTable(c, EmptyCatalog, t) = c[t] \cup (IF c[t] # {} \/ \E u \in Tables : Rank[u] > Rank[t] THEN {Junk} ELSE {})
  BY DEF CutTable, EmptyCatalog
<1>2. CASE d = {}
  BY <1>2 DEF RowsOf
<1>3. CASE d = {{}} /\ \E u \in Tables : Rank[u] > Rank[t]
  <2>1. RowsOf(d) = {Junk}
    BY <1>3, NothingIsKnown DEF RowsOf
  <2>. QED
    BY <1>1, <1>3, <2>1
<1>4. ASSUME NEW row \in Contents(c, Ordinary)[t], NEW w \in CutTexts(Line(row)), d = {Columns(w)}
      PROVE  RowsOf(d) \subseteq CutTable(c, EmptyCatalog, t)
  <2>1. PICK r \in c[t] : row = Content(r, Ordinary)
    BY DEF Contents
  <2>2. r \in AllRows
    BY DEF Catalog
  <2>3. Known(Columns(w)) = {r} \/ Known(Columns(w)) = {Junk}
    BY <1>4, <2>1, <2>2, CutRowIsKnown
  <2>4. RowsOf(d) = Known(Columns(w))
    BY <1>4 DEF RowsOf
  <2>. QED
    BY <1>1, <2>1, <2>3, <2>4
<1>. QED
  BY <1>2, <1>3, <1>4 DEF CutOf

LEMMA CutSaveIsSplice ==
  ASSUME ConstantsAssumption, FileAssumption, NEW c \in Catalog, NEW rows, CutTo(c, rows)
  PROVE  [u \in Tables |-> RowsOf(rows[u])] \in TornSaves(c)
<1>. DEFINE saved == Contents(c, Ordinary)
<1>1. PICK t \in Tables : \E whole \in SUBSET saved[t] : \E d :
         CutOf(saved, t, d) /\ rows = [u \in Tables |-> IF Rank[u] < Rank[t] THEN saved[u] ELSE IF u = t THEN whole \cup d ELSE {}]
  BY DEF CutTo
<1>2. PICK whole \in SUBSET saved[t] : \E d :
         CutOf(saved, t, d) /\ rows = [u \in Tables |-> IF Rank[u] < Rank[t] THEN saved[u] ELSE IF u = t THEN whole \cup d ELSE {}]
  BY <1>1
<1>3. PICK d :
         CutOf(saved, t, d) /\ rows = [u \in Tables |-> IF Rank[u] < Rank[t] THEN saved[u] ELSE IF u = t THEN whole \cup d ELSE {}]
  BY <1>2
<1>. DEFINE S == RowsOf(whole \cup d)
<1>4. S \subseteq CutTable(c, EmptyCatalog, t)
  <2>1. RowsOf(whole) \subseteq c[t]
    BY WholeRowsAreKnown
  <2>2. RowsOf(d) \subseteq CutTable(c, EmptyCatalog, t)
    BY <1>3, CutRowsAreKnown
  <2>3. c[t] \subseteq CutTable(c, EmptyCatalog, t)
    BY DEF CutTable
  <2>4. S = RowsOf(whole) \cup RowsOf(d)
    BY DEF RowsOf
  <2>. QED
    BY <2>1, <2>2, <2>3, <2>4
<1>5. \A u \in Tables : RowsOf(saved[u]) = c[u]
  BY WholeRowsAreKnown
<1>6. RowsOf({}) = {}
  BY DEF RowsOf
<1>. HIDE DEF saved, S
<1>7. [u \in Tables |-> RowsOf(rows[u])]
        = [u \in Tables |-> IF Rank[u] < Rank[t] THEN c[u] ELSE IF u = t THEN S ELSE EmptyCatalog[u]]
  <2>1. \A u \in Tables : RowsOf(rows[u]) = IF Rank[u] < Rank[t] THEN c[u] ELSE IF u = t THEN S ELSE EmptyCatalog[u]
    <3>1. \A u \in Tables : EmptyCatalog[u] = {}
      BY DEF EmptyCatalog
    <3>2. \A u \in Tables : rows[u] = IF Rank[u] < Rank[t] THEN saved[u] ELSE IF u = t THEN whole \cup d ELSE {}
      BY <1>3
    <3>. QED
      BY <1>5, <1>6, <3>1, <3>2 DEF S
  <2>. QED
    BY <2>1
<1>. DEFINE spliced == [u \in Tables |-> RowsOf(rows[u])]
<1>. HIDE DEF spliced
<1>8. spliced = [u \in Tables |-> IF Rank[u] < Rank[t] THEN c[u] ELSE IF u = t THEN S ELSE EmptyCatalog[u]]
  BY <1>7 DEF spliced
<1>9. spliced \in TornSaves(c)
  BY <1>4, <1>8 DEF TornSaves, Splices
<1>. QED
  BY <1>9 DEF spliced

\* What was read is read again, but for rows without a column.
LEMMA CutRowsAreReadable ==
  ASSUME FileAssumption, NEW c \in Catalog, NEW t \in Tables, NEW d, CutOf(Contents(c, Ordinary), t, d)
  PROVE  IsFiniteSet(d) /\ \A row \in d : Readable(CutAtoms, row)
<1>1. CASE d = {}
  BY <1>1, FS_EmptySet
<1>2. CASE d = {{}}
  BY <1>2, FS_Singleton DEF Readable
<1>3. ASSUME NEW row \in Contents(c, Ordinary)[t], NEW w \in CutTexts(Line(row)), d = {Columns(w)}
      PROVE  IsFiniteSet(d) /\ Readable(CutAtoms, Columns(w))
  <2>1. PICK r \in c[t] : row = Content(r, Ordinary)
    BY DEF Contents
  <2>2. r \in AllRows
    BY DEF Catalog
  <2>. DEFINE id == <<<<"id">>, <<r>>>>
              val == <<<<"value">>, Ordinary[r]>>
              N == CutAtoms \ {Equals, Bar, Newline, Header, Comment}
  <2>3. "id" \in N /\ "value" \in N /\ "x" \in CutAtoms \ {Bar, Newline} /\ r \in CutAtoms \ {Bar, Newline}
    BY <2>2, CutAtomsFit, MarksDiffer
  <2>4. Ordinary[r] = <<"x">>
    BY <2>2 DEF Ordinary
  <2>5. <<"id">> \in Name(CutAtoms) /\ <<"value">> \in Name(CutAtoms)
    BY <2>3 DEF Name
  <2>6. <<r>> \in Plain(CutAtoms) /\ Ordinary[r] \in Plain(CutAtoms)
    BY <2>3, <2>4 DEF Plain
  <2>7. id \in ColumnsOver(CutAtoms) /\ val \in ColumnsOver(CutAtoms)
    BY <2>5, <2>6 DEF ColumnsOver
  <2>8. id[1] # val[1]
    <3>1. "id" # "value"
      BY Zenon
    <3>2. <<"id">>[1] = "id" /\ <<"value">>[1] = "value"
      OBVIOUS
    <3>. QED
      BY <3>1, <3>2
  <2>9. Line(row) = Line({id, val})
    BY <2>1 DEF Content
  <2>10. Equals \in CutAtoms /\ Bar \in CutAtoms /\ Rest \in CutAtoms
    BY CutAtomsFit
  <2>11. w \in CutTexts(Line({id, val}))
    BY <1>3, <2>9
  <2>. HIDE DEF id, val
  <2>12. Readable(CutAtoms, Columns(w))
    BY <2>7, <2>8, <2>10, <2>11, CutRowIsReadable
  <2>. QED
    BY <1>3, <2>12, FS_Singleton
<1>. QED
  BY <1>1, <1>2, <1>3 DEF CutOf

LEMMA CutSaveIsReadAgain ==
  ASSUME ConstantsAssumption, FileAssumption, NEW c \in Catalog, NEW rows, CutTo(c, rows)
  PROVE  Replay(Encode(rows)) = [t \in Tables |-> rows[t] \ {{}}]
<1>. DEFINE saved == Contents(c, Ordinary)
<1>1. PICK t \in Tables : \E whole \in SUBSET saved[t] : \E d :
         CutOf(saved, t, d) /\ rows = [u \in Tables |-> IF Rank[u] < Rank[t] THEN saved[u] ELSE IF u = t THEN whole \cup d ELSE {}]
  BY DEF CutTo
<1>2. PICK whole \in SUBSET saved[t] : \E d :
         CutOf(saved, t, d) /\ rows = [u \in Tables |-> IF Rank[u] < Rank[t] THEN saved[u] ELSE IF u = t THEN whole \cup d ELSE {}]
  BY <1>1
<1>3. PICK d :
         CutOf(saved, t, d) /\ rows = [u \in Tables |-> IF Rank[u] < Rank[t] THEN saved[u] ELSE IF u = t THEN whole \cup d ELSE {}]
  BY <1>2
<1>4. \A u \in Tables : IsFiniteSet(saved[u]) /\ \A row \in saved[u] : Readable(CutAtoms, row)
  BY ContentsAreSaved DEF Saved, Readable
<1>5. IsFiniteSet(d) /\ \A row \in d : Readable(CutAtoms, row)
  BY <1>3, CutRowsAreReadable
<1>. HIDE DEF saved
<1>6. IsFiniteSet(whole) /\ IsFiniteSet({})
  BY <1>4, FS_Subset, FS_EmptySet
<1>7. IsFiniteSet(whole \cup d)
  BY <1>5, <1>6, FS_Union
<1>8. ASSUME NEW u \in Tables PROVE WrittenRows(CutAtoms, rows[u])
  <2>1. rows[u] = saved[u] \/ rows[u] = whole \cup d \/ rows[u] = {}
    BY <1>3
  <2>2. CASE rows[u] = saved[u]
    BY <1>4, <2>2 DEF WrittenRows
  <2>3. CASE rows[u] = whole \cup d
    BY <1>4, <1>5, <1>7, <2>3 DEF WrittenRows
  <2>4. CASE rows[u] = {}
    BY <1>6, <2>4 DEF WrittenRows
  <2>. QED
    BY <2>1, <2>2, <2>3, <2>4
<1>9. WrittenTables(CutAtoms, rows)
  BY <1>8 DEF WrittenTables
<1>10. IsFiniteSet(Tables) /\ {Header, Newline} \subseteq CutAtoms /\ Tables \subseteq CutAtoms \ {Newline}
  BY CutAtomsFit DEF FileAssumption
<1>. QED
  BY <1>9, <1>10, FileIsReadBack

\* A torn save is read as a catalogue that starts with whole tables, has some
\* rows of the next one and perhaps a row from the cut line, and no more; and
\* saving and reading that again can only lose a row without columns
\* (save_snapshot, replay_snapshot).
THEOREM CutSavesAreSplices ==
  ASSUME NEW c \in Catalog
  PROVE  TornFileIsSplice(c)
<1>. SUFFICES ASSUME NEW file \in CutTexts(Encode(Contents(c, Ordinary)))
              PROVE  LET rows == Replay(file)
                         got == Identified(rows, Ordinary)
                         again == Identified(Replay(Encode(rows)), Ordinary)
                     IN  /\ got \in TornSaves(c)
                         /\ \E skipped \in SUBSET {t \in Tables : Junk \in got[t]} : again = ReadBack(got, skipped)
  BY DEF TornFileIsSplice
<1>. DEFINE rows == Replay(file)
            got == Identified(rows, Ordinary)
            after == Replay(Encode(rows))
            again == Identified(after, Ordinary)
<1>1. ConstantsAssumption /\ FileAssumption
  BY ConstantsAssumption, FileAssumption
<1>2. CutTo(c, rows)
  BY <1>1, CutSaveIsRead
<1>. HIDE DEF rows
<1>3. after = [t \in Tables |-> rows[t] \ {{}}]
  BY <1>1, <1>2, CutSaveIsReadAgain
<1>4. \A some : Identified(some, Ordinary) = [t \in Tables |-> RowsOf(some[t])]
  BY DEF Identified, RowsOf, Known, KnownAs
<1>5. [t \in Tables |-> RowsOf(rows[t])] \in TornSaves(c)
  BY <1>1, <1>2, CutSaveIsSplice
<1>. HIDE DEF after
<1>6. got \in TornSaves(c)
  BY <1>4, <1>5
<1>7. ASSUME NEW t \in Tables
      PROVE  /\ got[t] = RowsOf(rows[t]) /\ again[t] = RowsOf(rows[t] \ {{}})
             /\ {} \notin rows[t] => again[t] = got[t]
             /\ {} \in rows[t] => got[t] = again[t] \cup {Junk}
  <2>1. got[t] = RowsOf(rows[t]) /\ again[t] = RowsOf(rows[t] \ {{}})
    BY <1>3, <1>4
  <2>2. {} \notin rows[t] => rows[t] \ {{}} = rows[t]
    OBVIOUS
  <2>3. {} \in rows[t] => RowsOf(rows[t]) = RowsOf(rows[t] \ {{}}) \cup {Junk}
    BY NothingIsKnown DEF RowsOf
  <2>. HIDE DEF got, again
  <2>. QED
    BY <2>1, <2>2, <2>3
<1>. DEFINE skipped == {t \in Tables : {} \in rows[t] /\ Junk \notin again[t]}
<1>8. again = [t \in Tables |-> again[t]]
  BY <1>4
<1>. HIDE DEF got, again
<1>9. \A t \in Tables : again[t] = IF t \in skipped THEN got[t] \ {Junk} ELSE got[t]
  BY <1>7
<1>10. skipped \in SUBSET {t \in Tables : Junk \in got[t]}
  BY <1>7
<1>. HIDE DEF skipped
<1>11. again = ReadBack(got, skipped)
  BY <1>8, <1>9 DEF ReadBack
<1>. QED
  BY <1>6, <1>10, <1>11 DEF got, again, after, rows

\* So it is in every state in which a process is about to save
\* (save_snapshot, replay_snapshot).
THEOREM TornSavesAreRead == Spec => []TornFilesAreSplices
<1>1. ASSUME NEW c \in Catalog PROVE TornFileIsSplice(c)
  BY CutSavesAreSplices
<1>2. TypeOK => TornFilesAreSplices
  BY <1>1 DEF TornFilesAreSplices, TypeOK
<1>. QED
  BY <1>2, TypeCorrect, PTL

=============================================================================

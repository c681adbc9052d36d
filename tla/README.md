# TLA+ models of lidb

lidb is a small embedded database: a C++ engine (`engine/`) that keeps a catalogue of
tables in memory and saves it whole to a snapshot file, a write-ahead log, a change feed,
a command line (`lidb_embed`), and Python layers above it: `liorm/` runs the command line
as a child process per statement, `registry/` is a package registry on top of `liorm`, and
`liq/` compiles query specifications to SQL.

The specifications here are translated from that source. This file says what the system
consists of, what is modelled and how, what TLC checks on small instances, what TLAPS
proves for all of them, and what is left.

Paths such as `engine/wal.cpp` are relative to the repository; run the tools in this
directory:

    tlc -workers 2 -config engine_one.cfg MCEmbeddedDatabase
    tlapm EmbeddedDatabaseProofs.tla

## 1. Inventory

| Component | State | Operations | Modelled in |
|---|---|---|---|
| Embedded database `engine/embedded.cpp` | catalogue, WAL writer, change feed, heap page, buffer pool, `open_` | `open`, `close`, `migrate`, `exec`, `exec_parameterized` | EmbeddedDatabase |
| Native catalogue `engine/native_catalog.cpp` | `tables_` in memory, `.lidb/catalog.heap` on disk | `load_or_create`, `apply_bootstrap_schema`, `exec_insert`, `exec_select`, `save_snapshot` | EmbeddedDatabase; SnapshotFile (the text of the file) |
| Write-ahead log `engine/wal.cpp` | `next_lsn_`, segment `00000001.seg` | `append` | EmbeddedDatabase, Changefeed |
| Native executor `engine/native_exec.cpp` | none of its own | `insert`: WAL record, then event | EmbeddedDatabase, Changefeed |
| Change feed `engine/changefeed.cpp`, `changefeed_c.cpp` | `subscriptions_`, `next_id_`, `poll_queue_`, `unix_clients_`, one mutex | `subscribe`, `unsubscribe`, `publish`, `poll_json_line`, `attach_unix_client`, `fanout_json`; the C interface and its accept loop | Changefeed |
| Command line `engine/cli/embed_main.cpp` | none: one process per command | `open`, `migrate`, `exec-json` | EmbeddedDatabase, EmbedSession |
| Session bridge `liorm/embed_engine.py` | `_SESSION`, `_READY`, `_SESSION_LOCK`, `_EXEC_LOCK` | `ensure_session`, `open_and_migrate`, `exec_parameterized`, `execute_sql` | EmbedSession |
| Plan registry `liorm/execute.py`, `registry/bootstrap.py` | `_PLANS`, `_REGISTERED` | `register_plan`, `execute`, `clear_plans`, `register_registry_plans` | LiqPlans |
| Registry service `registry/service.py` | rows of three tables | `publish_package_version`, `get_package_version`, `list_package_versions` | RegistryOltp |
| Audit log `liorm/audit.py` | `_entries`, a tuple of hash-chained entries whose payloads are mutable dicts | `append`, `entries`, `verify_chain`, `record_capability_denial`, `redact_query_log` | AuditLog (not `redact_query_log`) |
| liq parser and compiler `liq/` | none | `parse`, `compile` | LiqParser (the parser and the test of names), LiqPlans (the lowering) |
| The way of a text: `json.dumps`, `read_params_json`, the snapshot, `exec_result_json` | none | what becomes of an argument, and of a column of an answer | TextPath |
| SQL text of the native catalogue | none | binding placeholders, columns, the WHERE value | LiqPlans for the SQL that liq makes; no: SQL written by hand |
| Heap store, buffer pool `engine/heap.cpp`, `buffer_pool.cpp` | `next_page_no_`, pinned pages | `write_page`, `read_page`, `pin`, `unpin` | no: the engine writes and pins one page at `open` and never reads it |
| SQL lexer `sql/parser/` | none | parse | no: the engine does not call it |
| Schema catalogue `liorm/catalog.py` | a constant table | `resolve_table`, `resolve_column` | LiqParser and LiqPlans (tables, columns) |
| Capabilities `liorm/capabilities.py` | a constant table | `assert_capability` | AuditLog (the guard of `Deny`) |
| Migrations `migrations/*.sql` | PostgreSQL schema and row-level security | | no: not executed by the native engine; its constraints are quoted by RegistryOltp |
| `scripts/`, `tests/` | | | no: tooling, and the statements of what is promised |

### How they interact

- `execute_sql` (Python) takes two locks in turn and runs `lidb_embed` as a child: once to
  open and once to migrate the directory, then once per statement. The child is one
  `EmbeddedDatabase`: it loads the snapshot, appends a Noop record to the WAL, executes,
  exits. Child and parent share nothing but the exit code and the JSON of the answer.
- A statement that changes something changes `tables_` first, then saves the whole
  snapshot in place (truncate, write, close), then appends a HeapInsert record to the WAL,
  then publishes an event to the change feed of its own process.
- A program that links the library uses the change feed from several threads: inserters
  publish, consumers poll, a server thread attaches sockets. One mutex guards the lists;
  callbacks and socket writes run outside it.
- The registry runs up to seven statements per publish, each of them a call of `execute`,
  with no transaction around them.
- A liq statement becomes SQL with placeholders and a dict of parameters; `register_plan`
  keeps both under an id; `execute` puts the arguments in the order of the dict, and
  `exec_insert` takes them one by one as it meets question marks.
- A caller that is denied a capability records that in the audit log; nothing else in the
  repository appends to one, and every log is an object of its caller.

### What is hard about it, and what makes it correct

- *Crashes.* The snapshot is rewritten in place, nothing reads the WAL back, and `migrate`
  empties any catalogue without a `schema_migrations` row. So whether committed rows
  survive depends on the order of the writes: the tables that a bootstrap creates must be
  written before the marker, the save must come before the log record, and nothing but a
  torn save may lose a row.
- *Failed saves.* A save that cannot open its file reports failure and leaves the row in
  memory; one whose write fails reports success.
- *Processes.* The engine does not lock the directory. The two Python locks have to keep
  the children of one interpreter apart, for opening, migrating and executing.
- *Latching.* `_SESSION` and `_READY` are read without a lock, set in two steps, and a
  failure must stick without leaving a lock behind; an exception on the way must not stick.
- *The feed.* Copies of lists are used after the mutex is released; sockets block, fail or
  kill the process; polls race with publishes.
- *Plans.* Three parties count placeholders on their own: the compiler, the dict, the
  engine. Threads register, replace and execute plans in one dict without a lock.
- *Texts.* An argument is escaped by `json.dumps`, unescaped by a reader that only drops
  backslashes, cut at a bar by the snapshot, and shown without escaping: a stored text need not
  be the one given, two may become one, and one quote makes a whole answer unreadable.
- *The registry.* Lookup and insert are separate statements, a statement may be executed
  although its answer is lost, and the caller repeats the publish.
- *The snapshot file.* Values are written without escaping, and the reader takes whatever a
  torn save left for rows.
- *The liq parser.* Tokens are what blanks separate, and commas and colons are cut off them
  in three different ways; a text must never compile to a statement with other names,
  values or conditions than its author wrote.
- *The audit log.* `append` reads the tuple twice and then replaces it, without a lock;
  payloads can be changed by whoever holds an entry.

`PROJECT.json` lists these hazards line by line with the properties that cover each.

## 2. Modules

| Module | Stands for |
|---|---|
| `EmbeddedDatabase` | any number of processes on one data directory: snapshot, WAL, memory of each |
| `EmbedSession` | EXTENDS it with one Python interpreter: threads, locks, flags, children |
| `RowStore` | abstract: what `execute_sql` promises, an atomic store of rows |
| `Changefeed` | the feed of one open database under threads, sockets and polls |
| `SnapshotFile` | EXTENDS EmbeddedDatabase with the text of the file, which a catalogue there stands for |
| `TextPath` | what becomes of a text on its way into a table and back; RegistryOltp and LiqPlans EXTEND it |
| `RegistryOltp` | `publish_package_version`, `get_package_version`, `list_package_versions` statement by statement, by several threads |
| `LiqParser` | the parser of liq, each turn of its loops a step, and the test of names |
| `LiqPlans` | from a parsed statement to the stored row: lowering, plan registry, binding |
| `AuditLog` | append and verification of the hash chain, by several threads, with payloads that change |
| `EmbeddedDatabaseProofs` | theorems about EmbeddedDatabase and SnapshotFile |
| `SessionProofs` | theorems about EmbedSession under any faults, and its refinement of RowStore |
| `RegistryProofs`, `ChangefeedProofs`, `AuditLogProofs`, `LiqPlansProofs`, `LiqParserProofs` | theorems about the module of that name |
| `SequenceLemmas` | lemmas that both SnapshotFile and LiqParser need: functions defined by recursion over a sequence, `FlattenSeq`, first places |
| `MC*` | instances for TLC: tables, their order, sets of faults, symmetry |

Each of them carries a few operators marked `Mutant`: plausible bugs of the code, one per
property, named in `PROJECT.json`. Putting one in place of the definition it follows makes
TLC report the property violated; none of them is part of a specification.

### EmbeddedDatabase

A process is at a location `pc[p]`: down, open, or inside a statement. `disk` is the
catalogue that a reader of the snapshot file would replay at that moment, `wal` the
records of the segment, `mem[p]`, `nextLsn[p]` the fields of the process.

| Code | Actions |
|---|---|
| `EmbeddedDatabase::open` | `Open` (loads the snapshot, whatever is in it), `AppendNoop` |
| `migrate`, `apply_bootstrap_schema` | `MigrateDone`; `Bootstrap`, then the save |
| `exec_insert` | `Insert` or `InsertRejected`, then the save |
| `exec_select` | `Select` |
| `save_snapshot` | `SaveTruncate`, any number of `SaveFlush`, `SaveClose`; or `SaveNotOpened`, `SaveLost` |
| `NativeExecutor::insert` | `HeapInsert`: record, event, reply |
| `close`, end of the process, death | `Close`, `Crash` |

`save_snapshot` is not atomic: the file is truncated, grows, and is closed, and other
processes read it or write it in between. `TornSaves(c)` are the catalogues a reader may
find when some of the bytes of `c` are there. The tables come in the order of
`std::map` (`Rank`), a cut line is read as a row `Junk`. When two processes write at once
their bytes mix (`Splices`).

A row from a cut line may have no columns at all. `save_snapshot` writes it as an empty
line and `replay_snapshot` skips that one, so the row is there for one session and gone in
the next, without any further fault. `ReadBack` says so: `Open` drops `Junk` from some
tables. If the table is `schema_migrations`, the next `migrate` empties the catalogue; that
is why `MarkedCatalogIsComplete` speaks of catalogues that still have their marker.

The marker is what `Migrated` asks for, a row of `schema_migrations`. It is not always the last
thing in the file: `yanks`, which no bootstrap creates but a client's insert does, comes after it.
`BeforeMarker` are the tables that come before. What a torn save leaves with a marker is whole in
those (`MarkerFollowsEarlierTables`), and may lack rows of the tables after, and of
`schema_migrations` itself, for good: no `migrate` will find anything amiss. Two more things
mark a catalogue than a bootstrap. A client may insert into `schema_migrations`, as into any table
of the allowlist (`Insert`); and a save that is cut in the header after an empty
`schema_migrations` is read as having a row there (`EpochAfterTear`). Both begin a new `epoch`,
because what had been lost before stays lost under the new marker.

Inserting, the WAL record and the event are steps of one process, and a process has one thread
here; what two inserting threads of one handle make of the gap between record and event is in
Changefeed.

`session`, `row`, `marked` and `epoch` of a WAL record, `torn`, `epoch`, `sole`, `used`
and `opens` are history: no action is guarded by them, but for `SaveFlush`/`SaveClose`,
which read `sole` to decide whether the file holds one writer's bytes or a mix, for `CheckCatalog`
of EmbedSession, which reads `torn`, and the
bounds (`opens < MaxOpens`; a row is inserted once).

### SnapshotFile

Atoms are the header mark, `=`, `|`, the newline, names, and pieces of values that may
themselves be marks. `Encode` is `save_snapshot`, `Replay` is `replay_snapshot` (a second
header of a table empties it, lines before a header and lines that begin with `#` are skipped, a
field without `=` is no column), `CutTexts` every file that a torn save may leave. The two properties are
evaluated by TLC in the states of `engine_one` in which the first session is about to save, and
proved of every catalogue:
`TornFilesAreSplices` says that what EmbeddedDatabase takes for the outcome of a cut
(`TornSaves`, `ReadBack`) is what the text gives; `SavedRowsAreReadBack` says for which
values the round trip is exact: those without `|` and newline. A client that stores such a
value changes what the next open reads; no check in the code prevents it.

### EmbedSession and RowStore

The child that thread `t` has running is process `t` of EmbeddedDatabase. `at[t]` is the
line of `embed_engine.py` the thread is at: both unlocked checks of `ensure_session`, the
lock, both checks again under it, the children of `open_and_migrate`, the test of the
catalogue file, the two assignments that publish the session, then `exec_parameterized`.
A child that dies, or whose binary is not there, is a return code (`ChildFails`): it makes
`open_and_migrate` return False, which is latched. A child that cannot be forked or executed, or whose
wait is interrupted, is an exception (`RunRaises`), which leaves `_READY` as it was: None, so the next
call tries again. `CheckCatalog` looks at the size of the file, not its rows: a torn file
may have a header and no row, so after a tear either outcome is possible. `Reset` is a restart of the
interpreter, or `reset_session_for_tests` with `LIDB_DATA_DIR` set, between two calls.

### TextPath

Arguments and columns are sequences of atoms: a quote, a backslash, a newline, a bar, one letter
that is not ASCII for all of them, the object None, and pieces of ordinary text. `Sent` is `str` and
`json.dumps` followed by `read_params_json`, which keeps the character after a backslash and nothing
else: `é` arrives as `u00e9`, a newline as `n`, None as `None`. `Stored` is what the next child reads from
the snapshot: nothing from the first bar on. `Reads` is `exec_result_json`, which
puts a value between quotes as it is, followed by `json.loads`: no reading at all for a text with a quote,
and a backslash takes the atom after it. Lookups compare with what is sent, tables hold what is stored,
answers show what is read, or raise as a whole.

The inputs are restricted where two of these readings would interact: no ordinary piece starts with a
letter that JSON reads after a backslash; no text has both a bar and an equals sign (the rest
after the bar would be read as another column), nor a quote with a comma or a colon (which would
read as further columns of the answer).

`RowStore` says what a caller may rely on. `ImplementsRowStore` is the refinement: the
store's rows are those of the snapshot (those of the old snapshot until the new one is
closed), a call is applied when the save of its row completes or its SELECT is answered.
The part of the mapping that is not obvious is a save in progress: the rows are then the
writer's memory without the row being inserted, which is the old content of the file
because the child loaded it and no other child runs.

### Changefeed

`publish` is split where the mutex is released: `Publish` (queue the line, copy the
matching callbacks), one `Callback` per callback, `CopyClients`, one `WriteLine` or
`WriteFails` per socket, `Prune`. The LSN counter is unsynchronised, so reading it
(`ReadLsn`) and writing it back with the record (`AppendRecord`) are two steps. A socket
holds `SockBuf` unread lines and then blocks its writer. A write to a closed socket fails,
or raises SIGPIPE, which may end the program.

### RegistryOltp

One action per statement of `publish_package_version`. Ids are drawn from a counter (a UUID is never
drawn twice). `RaiseBefore` is a statement that failed without effect, `RaiseAfter` one that was
executed while its answer was lost, which EmbedSession shows can happen (`Lose` of RowStore).
`VersionRejected` is `execute` refusing a value that occurs in the text of the SQL; only versions
are, names and digests are taken to be accepted. A statement is atomic here because `_EXEC_LOCK`
makes it so (`ImplementsRowStore`). The engine enforces no constraint of `001_registry.sql`, so the
same version may be stored twice; `ResolvedRecordsAreFinal` says what readers may still rely on.
`List`, `ListPackage` and `ListVersions` are `list_package_versions`, which reads each package and
its versions in statements of their own, so a list mixes moments, and leaves out the yanked versions
unless they are asked for. No function of the service yanks one; `InsertYanked` is a client that
inserts such a row with a plan of its own. `get_package_version` does return it. `ListsAreComplete`
says that a list lacks nothing else that a reader gets when it is answered. A record has the fields
the code returns, which do not include the publisher.

Names, versions and digests are texts of TextPath. A version with `é` is stored as another one, so a
lone publish of it raises "read-back failed" although its row is stored; a name with a bar is never
found again and inserted with every publish; one version with a quote makes every answer about its
package raise (`AnswerRaises`). `NamesAreUnique` and `LonePublishReadsBack` speak of the texts to
which this does not happen (`Cut`, `Survives`); `ResolvedRecordsAreFinal` needs no such premise, but
says "until the answers raise". The columns that are left out (description, url, proof digest,
coverage, dates) are taken to be readable.

### LiqParser

A text is the list of tokens that `str.split` gives, and a token a sequence of atoms with no
blank between them, because that is where the parser is delicate: `{a,b}` is one token, `a ,`
two. `pc` is the loop the parser is in and `next` its index; one action per clause, plus
`Unexpected` for the error of each loop. `Compile` is the test of the names of the result.
The texts are constants: `MCLiqParser` enumerates all spacings of the sentences of 47
statements, and texts that differ from a documented one by a deletion, a truncation, an
intruder, a swap, another verb, or the clauses of a second statement.

`NeverMisread` is the property to have: a spelling of a statement that compiles, compiles to that
statement. It has one exception, which an attempt to prove it without showed: `_const` takes any
token between two quotes for one literal, so `set a = 'x'b='y'` sets `a` to `x'b='y`, with or
without a comma before `b`, and leaves `b` alone. The premise excepts updates in which a token with
a literal inside ends with another (`LiteralsTouch`). What the parser makes of other texts is stated
as precisely as it holds: a read is a sequence of clauses in any order, of which the last of each
kind counts, and a `desc` stays when the order is given again without direction (`ReadsAreClauses`);
writes lose no atom, except that a second WHERE of an update replaces the first and that what
follows the predicate of a delete is not looked at (`WritesAreKept`; where one binding ends and the
next begins is not in it, and `'x' b: 'y'` without a comma is one literal).
`DocumentedFormIsAccepted` says exactly which documented sentences compile: besides literals with
commas or blanks, a WHERE that compares with a literal is refused, by `compile` and not by the
parser. Some more that a reader of `liq/README.md` may not expect, and that the model shows: `READ`
in upper case is accepted and `UPDATE` is not; a literal with a comma is rejected in an insert; a
comma between the bindings of an update is rejected; `{ a , b }` parses with an empty column name
that `compile` refuses; an empty projection selects all columns and an empty RETURNING is dropped.

### AuditLog

Entries are objects, the log a sequence of references to them, because that is what Python
has: the tuple is immutable but a payload is a dict that every holder may change (`Change`).
`append` is `StartAppend` (the length), `ReadLast` (the last hash), `Build` (the entry, and the
tuple it is added to) and `Store`; `AppendRaises` a payload that `json.dumps` refuses.
`Check`, `CheckEntry`, `CheckRaises` are `verify_chain` entry by entry on the tuple it read.
The hash is injective, and so is the hashed body itself.

`alone` is history: no two calls of `append` have overlapped. While it holds the log is what
`liorm/audit.py:56` calls it, append-only (`ReturnedEntriesStay`), and a failed verification
means a change. Once calls overlap, an entry that `append` returned may be missing from the
log while the chain verifies, or the chain may fail though nothing was changed; what then
remains is stated by the first half of `VerdictsAreRight` and by `HashFixesThePast`.

### LiqPlans

A statement is the dataclass the parser returns; `Lower` gives what is registered for it:
the columns of the SQL text with what stands in the place of each value, and the keys of
`param_schema`, each parameter where it is first used. `Register` is a client that compiles
and registers; `Construct`, `RegisterFrozen` and `FinishRegistration` are the test of
`_REGISTERED`, the turns of the loop and the setting of the flag, which are not atomic.
`Execute` is `execute` up to the engine: it looks the plan up once, checks the arguments and
binds them. `ExecInsert`, `ExecSelect`, `ExecOther` are the engine, one step each because
`_EXEC_LOCK` makes them so; `EngineLost` is an engine that is missing or whose answer is
lost. Each stored row carries, as history, the statement and the arguments that made it.
There is one table, and no COUNT, ORDER BY or LIMIT.

Arguments are texts of TextPath. `Bound` is what the engine gets of them, `RowOf` what the next child
reads of the row. So a row bound to `é` is also found under `u00e9` (`ReadsAnswerTheirWhere` says which rows a
condition finds, in terms of what is sent), an argument with a bar finds nothing, and a read
over a text with a quote raises ("unreadable").

The values of a statement are numbered by place (`ValuesOf`, `Uses`), and what the three
parties count is written as a number of places: the keys of the dict are the places where a
parameter is first used (`FirstUses`, `Schema`), the engine's counter is `Asked`, and an answer
is the rows at the places that meet the condition (`Answer`, `Nth`). `insert t { }` parses,
compiles, and stores a row without columns; no read returns such a row, which
`ReadsAnswerTheirWhere` has to except.

### What the models leave out on purpose

- SQL text, JSON and column values in EmbeddedDatabase, EmbedSession and Changefeed: a row is an
  identity. What texts become is in SnapshotFile, for a value of a file, and in TextPath, for the
  arguments and answers of LiqPlans and RegistryOltp. A client inserts each row once, so the vector
  of a table and the set of its rows say the same.
- Quoted and schema-qualified names, and blanks inside a literal, in LiqParser: `str.split`
  separates a literal at its blanks, which rejects it outside of an insert and makes one blank
  of several inside.
- `Junk` stands for every cut or mixed line. More lines may read as rows in the model than
  in the file: an over-approximation, safe for what is claimed of the other rows.
- The heap page that `open` writes, the page it pins and `migration_intent.txt`: nothing
  reads them back.
- Torn or failed WAL writes: nothing reads the segment back, and `append` does not report
  them.
- Short writes to a socket, and the numbers of sockets: a line is written whole, and no
  socket is closed by the program, so no number is used twice.
- The child that an interpreter killed in a call leaves running, and the temporary directory that
  `reset_session_for_tests` deletes when `LIDB_DATA_DIR` is not set: restarts of EmbedSession are
  between two calls, on one directory.
- The change feed of a child process: it dies with the child and has no subscriber.

## 3. What TLC checks

| Run | Instance | Shows |
|---|---|---|
| `engine_two` | two processes, two opens, three tables (one before the marker, one after), one row, all faults | The type invariant. Although nothing orders the processes: the WAL of each session is sequential and starts with its Noop (`SessionLogsAreSequential`), and a lone writer's file has the marker only when every table before it is whole (`MarkerFollowsEarlierTables`). |
| `engine_one` | one process, four opens, the same tables, two rows, all faults | Events of a session are its HeapInsert records (`FeedFollowsWal`). No logged row of a migrated session is lost until a save is torn (`LoggedRowsStayStored`), and after a tear a catalogue with a marker misses no row of a table before the marker that was logged since it was marked (`MarkedCatalogIsComplete`). In the first session: a cut file is read as the model says (`TornFilesAreSplices`), a whole one as it was saved, if no value holds a separator (`SavedRowsAreReadBack`). |
| `engine_logged` | one process, `open_fail` | Violation of `CommittedRowsAreLogged`: a row whose save failed is committed by the next statement, without a record. |
| `session_store` | two threads, three calls, one restart, crashes and failed opens outside the write, children that cannot be started | Types (`SessionTypeOK`), `ImplementsRowStore`, `OneChildAtATime`, `StatementsSeeMigration`, `FailureIsLatched`; under fairness every call returns or raises (`CallsReturn`). |
| `feed_two` | two inserters, two events, two subscriptions, small buffers | Polls take each event once, in order (`PolledThenQueued`); callbacks run once for the subscriptions of that moment (`CallbacksRunOnce`). |
| `feed_one` | one inserter, three events, two sockets of one line, SIGPIPE | The type invariant. Connected clients miss nothing (`ConnectedClientsMissNothing`), streams are runs of the feed (`SocketStreamsAreRuns`), publish order is LSN order (`PublishedInLsnOrder`); under fairness events are polled (`EventsArePolled`) and an insert is held up only by a full socket (`InsertsReturnOrBlock`). |
| `registry_two` | two threads, three calls, two packages (one with a bar in its name), four versions (refused, ordinary, with `é`, with a quote), two digests, yanked rows, failures | The type invariant, `ReferencesResolve`, `ResolvedRecordsAreFinal`, `ListsAreComplete`; until calls overlap also `NamesAreUnique` and `LonePublishReadsBack`. |
| `registry_readback` | two threads, two publishes | Violation of `ReadBackSucceeds`: both threads insert the package, and each looks its version up in the first. |
| `plans_two` | two threads, two registrations, two calls, one `clear_plans`, eight statements, four texts, two frozen plans | A stored row has, in each column, what is stored of the argument its statement names there (`StoredAsBound`); a read answers its WHERE or raises over a text that cannot be read (`ReadsAnswerTheirWhere`); the engine refuses an INSERT exactly when a parameter repeats (`InsertsFailOnlyOnRepeats`); a constructed RegistryOltp has its plans (`RegistryPlansAreThere`). |
| `plans_literals` | the same | Violation of `LiteralsAreStored`: the row has `%s` in the place of a literal. |
| `liq_parse` | 19,423 texts of 47 statements | `NeverMisread`, `DocumentedFormIsAccepted`, `WritesAreKept`, `ReadsAreClauses`; every text is answered (`ParserStops`). |
| `audit_two` | two threads, four appends, one change, one verification, an event whose payload is refused | `ReturnedEntriesStay`, `VerdictsAreRight`, `HashFixesThePast`. |

The three violations are disagreements of the code with a sentence of the repository, which
`PROJECT.json` quotes under `findings`.

A fourth disagreement has no run of its own: `docs/architecture-native-li.md:116` (RT-1) asks
for WAL records with a monotonic LSN, but `next_lsn_` starts at 1 with every open of a directory
whose segment is appended to. What is true, that the LSNs of each session are a sequence, is
`SessionLogsAreSequential`. A fifth is what `NeverMisread` excepts: `docs/liq-spec.md:74` has string
literals as values only, and `_const` also accepts one with the name of a column inside. Two more are what
`DocumentedFormIsAccepted` spells out: `liq/README.md:92` and `docs/liq-spec.md` allow typed literals
in a filter, and `_lower_read`, `_lower_update` and `_lower_delete` (`liq/compiler.py:89`, `137`, `154`)
refuse them; and `docs/liq-spec.md:50-51` gives an update `field_bindings`, which the grammar separates by
commas, where `_parse_update` rejects commas. That texts are altered on the way (TextPath) contradicts no
sentence of the repository that we found.

SessionTypeOK, the `TypeOK` of EmbeddedDatabase, of Changefeed and of RegistryOltp are the
type invariants. LiqPlans and AuditLog have none, their other properties being about the same
variables; that of LiqParser is `Typed` of LiqParserProofs, a theorem.

**Bounds.** Two processes or threads, because each hazard listed is a race of two; a third meets the
same locks and files in the same states. Four opens in `engine_one` are one to migrate, one to
insert, one that is torn or fails, one that meets what is left. Three tables, so that a snapshot can
be cut before the marker, after it and inside a table. Two rows are one before and one after a
fault; `engine_two`, which asks about orders of steps and of writes, has one. Three calls in
EmbedSession are two that race and one that meets what they left. Two events distinguish orders;
three fill a socket of one line, block, and leave one behind. Two publishes are the race or the
repetition, the third meets the result, or lists it. In `audit_two` four appends are two that race,
on a log that is not empty, and one that meets the result. The texts of `liq_parse` have up to two
columns, bindings or clauses of a kind: the parser treats a third as it does the second. In
`SnapshotFile` a value is one of eight: ordinary, empty, or with one or more marks; a file holds up
to two rows of a client. In `plans_two` two registrations are a plan and its replacement, two calls
an INSERT and what reads or races with it; the eight statements have parameters out of the order of
their columns, repeated, and with literals between them, one has a column twice, two do not compile,
one is none the engine knows, and one is an INSERT of nothing. The texts of `plans_two` and
`registry_two` are one for each thing that can become of a text: stored as it is or as another, cut,
unreadable, refused. `MaxOpens` of EmbedSession is large enough never to bite (`SessionAssumption`):
a call starts up to three children.

**Faults.** `session_store` allows crashes outside the write of the snapshot and saves that
cannot open the file. A torn save loses rows, so no store of rows is implemented across one;
what is true then is `MarkedCatalogIsComplete`.

**Deadlock** is not checked in runs where calls are bounded and the system may stop when
they are used up; that no call stops half way is `CallsReturn` and `InsertsReturnOrBlock`.

**Fairness** is weak fairness only. EmbedSession: each thread and its child run when they
can, and a save that has begun is closed after finitely many flushes. A lock is not assumed
to be granted fairly: with boundedly many calls a waiting thread is alone in the end, so
starvation by ever new calls is not covered. Changefeed: threads run, and someone polls, as
the background thread of `docs/changefeed.md` does; nothing is assumed of the clients of
sockets. LiqParser: a sequential program that is run takes its steps.

## 4. What TLAPS proves

Each theorem holds for all values of the constants that satisfy the assumption of its module
(`ConstantsAssumption`, `SessionAssumption`, `RegistryAssumption`, `FeedAssumption`,
`AuditAssumption`, `PlansAssumption`, `FileAssumption`, and the three of LiqParser): any number of
processes, threads, tables, rows, names, sockets, statements or texts, any faults, any bounds.
`FileAssumption` says that tables and rows are finitely many and that their names are not what the
format of the file is made of; `SourcesAreTexts`, that a text is a sequence of tokens none of which
is empty, as `str.split` leaves it; `AtomsAssumption`, that words, numbers, parameters, pieces of literals
and marks are not each other, that the keywords are words, and that no name of the catalogue is a
keyword; `SpellingAssumption`, that what an
author means is a sentence of the grammar, and the text its atoms.

| Module | Theorem | Statement |
|---|---|---|
| `EmbeddedDatabaseProofs` | `TypeCorrect` | `Spec => []TypeOK` |
| | `MarkerComesAfter` | `Spec => []MarkerFollowsEarlierTables` |
| | `SessionsAreSequential` | `Spec => []SessionLogsAreSequential` |
| | `EventsFollowRecords` | `Spec => []FeedFollowsWal` |
| | `LoggedRowsStay` | `Spec /\ []OneOpen => []LoggedRowsStayStored` |
| | `MarkedIsComplete` | `Spec /\ []OneOpen => []MarkedCatalogIsComplete` |
| | `PlainValuesAreReadBack` | for every catalogue and all values: it is read back as it was saved exactly if no value holds a bar or the end of a line |
| | `SavesAreReadBack` | `Spec => []SavedRowsAreReadBack` |
| | `CutSavesAreSplices` | for every catalogue: however its file is cut, it is read as one of `TornSaves`, and read again as `ReadBack` says |
| | `TornSavesAreRead` | `Spec => []TornFilesAreSplices` |
| `SessionProofs` | `SessionTypeCorrect` | `SessionSpec => []SessionTypeOK` |
| | `OnlyOneChild` | `SessionSpec => []OneChildAtATime` |
| | `FailureIsFinal` | `SessionSpec => FailureIsLatched` |
| | `SessionKeepsRows` | `SessionSpec => []LoggedRowsStayStored` |
| | `SessionIsComplete` | `SessionSpec => []MarkedCatalogIsComplete` |
| | `MigrationIsSeen` | `SessionSpec => []StatementsSeeMigration`, if `SavesComplete` |
| | `SessionIsRowStore` | `SessionSpec => ImplementsRowStore`, if `SavesComplete` |
| `RegistryProofs` | `TypeCorrect` | `Spec => []TypeOK` |
| | `ReferencesAlwaysResolve` | `Spec => []ReferencesResolve` |
| | `RecordsAreFinal` | `Spec => ResolvedRecordsAreFinal` |
| | `ListsLeaveOutNothing` | `Spec => ListsAreComplete` |
| | `NamesStayOnce` | `Spec => []NamesAreUnique` |
| | `LonePublishIsReadBack` | `Spec => []LonePublishReadsBack` |
| `ChangefeedProofs` | `TypeCorrect` | `Spec => []TypeOK` |
| | `ConsumersShareTheStream` | `Spec => []PolledThenQueued` |
| | `SubscribersAreCalledOnce` | `Spec => []CallbacksRunOnce` |
| | `ClientsMissNothing` | `Spec => []ConnectedClientsMissNothing` |
| | `StreamFollowsLog` | `Spec => []PublishedInLsnOrder`, if `OneInserter` |
| | `SocketsGetRuns` | `Spec => []SocketStreamsAreRuns`, if `OneInserter` |
| `AuditLogProofs` | `TheLogOnlyGrows` | `Spec => []ReturnedEntriesStay` |
| | `VerifyChainIsRight` | `Spec => []VerdictsAreRight` |
| | `TheLastHashFixesThePast` | `Spec => []HashFixesThePast` |
| `LiqPlansProofs` | `StoredIsAsBound` | `Spec => []StoredAsBound` |
| | `RegistryHasItsPlans` | `Spec => []RegistryPlansAreThere` |
| | `InsertsFailExactlyOnRepeats` | `Spec => InsertsFailOnlyOnRepeats` |
| | `ReadsAnswerByName` | `Spec => ReadsAnswerTheirWhere` |
| `LiqParserProofs` | `TypedHolds` | `Spec => []Typed` |
| | `ReadsAreClausesHolds` | `Spec => []ReadsAreClauses` |
| | `WritesAreKeptHolds` | `Spec => []WritesAreKept` |
| | `NeverMisreadHolds` | `Spec => []NeverMisread` |

### Assumptions beyond those on the constants

- `OneOpen`, in EmbeddedDatabaseProofs: no two processes have the directory open. The engine does not
  ensure it. For the processes that one interpreter starts it is proved (`SessionHasOneOpen`),
  so the theorems of SessionProofs do without it.
- `SavesComplete`: `Faults \subseteq {"crash", "open_fail"}`, that is, a save that has begun is
  completed. A torn save loses rows, so no store of rows is implemented across one; what is left
  then is `SessionIsComplete`, which has no such assumption.
- `OneInserter`: one thread inserts. The LSN counter is read and written without a lock, so two
  inserters may publish two events with one LSN, or in the other order; the instance `feed_two`
  has such behaviours. Consumers and sockets may be any number.

Theorems that hold only while calls have not overlapped (`NamesAreUnique`,
`LonePublishReadsBack`, `ReturnedEntriesStay`, half of `VerdictsAreRight`) say so in the property,
by the history variable `alone`.

### The arguments

**EmbeddedDatabase.**

- *TypeCorrect.* `TypeOK` is inductive. The lemmas about `Splices` and `TornSaves` say that a
  mix of two catalogues is a catalogue; `StepType` has one step per action.
- *MarkerComesAfter.* The only step that makes the premise true is a `SaveFlush` of a lone
  writer (`SoleWriterStep`): the file is empty after `SaveTruncate`. `TornSavesAreWhole`: a
  prefix of `c` with a row in the marker's table agrees with `c` on all tables before it. The
  invariant is inductive together with `TypeOK`, because nobody else can write while
  `sole[p]` holds and `mem[p]` does not change during a save. It is the order that matters: with
  tables written in no particular one (mutant `UnorderedPrefixes`) TLC finds this property and
  `MarkedCatalogIsComplete` violated.
- *LoggedRowsStay.* `LoggedRowsStayStored` speaks of the file only, and is not inductive: a
  process that loaded the file saves what it has in memory. The strengthening `Durable` says
  the same of the memory of every open process, of the file when nobody writes it, and that
  memory and file agree between the save and the record. `StatementsAreInMemory` is what a
  statement may rely on: its row is in memory before the record is written. `Bootstrap`
  is harmless because a catalogue without a marker shows that no record of a migrated
  session exists; that is why `Keeps` asks for the marker too. `Clean` adds that until a save
  is torn no catalogue has a cut line for its marker, so that `Open`, which may drop cut
  lines (`ReadBack`), keeps it (`ReadingKeeps`).
- *MarkedIsComplete.* After a torn save rows are gone, so the invariant `Recoverable` no
  longer speaks of the log but of the writer: a file with the marker is whole, in the tables before
  the marker, with respect to what its writer has in memory, and that memory misses no row of them logged
  since it was marked (the `epoch` of a record). A file that lost such rows lost the marker with them
  (`TornSavesAreWhole`), so that whatever marks the catalogue again begins a new epoch, of which
  nothing is logged yet (`NewEpochIsComplete`): a bootstrap, a row a client puts into
  `schema_migrations`, or a cut header. One that loses a cut line at the next open loses no row
  (`ReadingStaysComplete`).
- *SessionsAreSequential, EventsFollowRecords.* `SessionLogs` relates the segment to the
  counters: the records of the session of an open process are those with the LSNs below its
  `nextLsn`, none repeats, and sessions are never reused. A process appends only records of
  its own session, so the other processes disturb nothing; no assumption on them is needed.

**SnapshotFile.** `Split`, `ReadAll` and `FlattenSeq` are functions defined by recursion over a
sequence. `RecursionExists` unfolds such a function, and `InductionTo` is induction up to a number for
one set of numbers, which stands in for the library's induction over a predicate.

- *SavesAreReadBack.* A file that was written whole is read line by line (`LineIsRead`), section by
  section (`SectionIsRead`, `TextIsRead`); the places of the tables are a bijection
  (`PlacesOfTables`), so each is read once. A row of two columns is written in either order and read
  as itself. Conversely, whatever is read has columns without marks (`ColumnsTyped`), so a value that
  holds a bar or the end of a line cannot come back.
- *TornSavesAreRead.* A cut in a concatenation is a cut of one part with all parts before it whole
  (`CutOfConcat`, `CutOfFlatten`): of a section, then of a line. Of the last line there is a column,
  both, or none (`LineIsCut`), and what it has for an id is the row's or nobody's (`CutRowIsKnown`). A
  cut in a header leaves at most a row without columns in the table before it (`CutHeadingIsRead`).
  Rows read so are written again as they are, but for the rows without columns (`CutRowIsReadable`).

The proofs use of the states only that what is in memory is a catalogue (`TypeCorrect`); the
premise `opens = 1` of the two properties, there to keep TLC's work small, is not used.

**EmbedSession.** Each step of the session is a step of EmbeddedDatabase or leaves the directory
alone, so a behaviour of the session is one of the directory. `LocksAreHeld` ties the place of a
thread to the owner of each lock and to its child being alive. That the two locks exclude one
another is not in them: a thread that opens holds one, a thread that executes the other.
`ChecksAreFresh` closes the gap: who executes has seen `_SESSION` set, who opens has seen it
unset under the lock, and only the thread that opens sets it. From there `OneOpen`, and with it the
theorems on durability. The same invariant gives `FailureIsLatched`: once `_READY` is False no thread
is on a line that would set the session.

**RowStore.** `StoreInv` says what a child that is about to execute has in memory: the committed
rows (`SeesCommitted`), because no other child writes in between; that the bootstrap is in the file
for good once `_SESSION` is set (`SnapshotIsWhole`); and that a row is nowhere until the child of
the thread that named it begins to store it (`RowsAreNew`, from the uniqueness of rows,
`NamesAreOwn`). The mapping takes the rows of a save in progress from its writer's memory; each
action then maps to one step of RowStore or to none, with one lemma for each kind of step. A row enters
the store with the `SaveClose` that ends its save, not with the record or the reply.

**RegistryOltp.** `TypeOK` needs that ids do not run out: `IdsSuffice` counts what the calls in
progress may still draw. `IdsAreOfRows` says that a publish holds ids of rows that exist, from
which every reference resolves. Readers look into the first row of a name; rows are only
appended, so the first stays the first (`FirstStays`), which makes records final and lists
complete: whatever a list has passed, or has still to read, is there in the table the list reads
later. While publishes do not overlap, a statement that is about to insert a name is right
that there is none (`InsertsAreNew`) unless the name is cut when it is stored, and the version just
inserted is still there when it is read back (`OwnRowIsThere`); of the texts the proof needs only
what `Cut` and `Survives` say. An answer that raises returns no record, so nothing else changes for it.

**Changefeed.** Lists from which elements are taken (`Kept`) are handled by numbering places, so
that what remains keeps its order and loses only what was taken. An event has one holder until its
inserter returns (`EventsAreHeld`) and enters the queue once (`EventsEnterOnce`). What subscribers
have not got yet is what the inserter has left: the callbacks called and those to come are
disjoint and together those due (`CallbacksAreLeft`). For clients likewise, with the sockets
an inserter found closed: only sockets whose client left are taken off the list
(`SocketsAreListed`), which is why a removal that comes late harms nobody. With one inserter the
queue is the WAL but for one event (`LsnInv`), and a socket has the end of an initial part of the
stream, all of it unless the last event is still on its way (`RunInv`).

**AuditLog.** An object keeps the hash it was built with (`Built`); so a check that
accepts an entry has seen the payload the entry was built with, whatever became of the log
(`Checked`). Until calls overlap, what an `append` has read is still so when it stores, and
every tuple that was ever the log is an initial part of it, numbered and chained. For
`HashFixesThePast`: two chains with one last hash agree at every place; otherwise take the last
place where they differ, and the next entry's hash covers the one before. No induction over
the length is needed.

**LiqPlans.** `SchemaCounts`: the places of first use are all places exactly when no parameter
repeats, and otherwise fewer. `InsertAsks`: the counter of the engine at a place is the number of
uses before it. `PlaceOf`: the place with k others before it is the (k+1)-th. So the value that the
engine takes is that of the parameter that stands there (`BoundWhereAsked`), and it runs out of
values exactly when one repeats. `PlansInv` carries this through the dict, the calls in progress
and the table, where each plan is the lowering of some statement; a call holds the plan it looked up,
so replacing and clearing do not reach it. `LoopInv` says how far each thread's loop is and that
the plans it has passed are there: another loop only writes the same plans again, and a client has
no id of the registry's. The texts come in at the ends: `Sent` when the arguments are bound, `Kept` when
the row is stored (`BoundWhereAsked` carries one to the other), and a read compares what is sent with
what is stored (`MeetsByName`) and shows rows in which every column has a reading (`ShownWhole`).

**LiqParser.** `Typed`: the position never passes the end of the text, and no part of an insert is
empty. `ReadInv`: the position of the loop of `_parse_read` is one where a sequence of clauses ends,
and no such sequence passes it by without ending there (`Settled`), because the first token of a
clause says where it ends; so a text on which the loop stops early is not a sequence of clauses, and
the last clause of each kind is known from the position alone. `WriteInv` says what has been read of
a write: the atoms of the tokens passed are those of the statement so far, the bindings of an insert
that are done and the parts that are left are together the parts between the braces, and once an
update has a condition a second `where` contradicts the premise. `MeantInv` carries `NeverMisread`
through the loops. Of a text that spells the statement meant, the atoms of the tokens that are left
are those of the clauses that are left, and the statement so far has the clauses passed (`UpdateUpTo`
and its like for the other verbs). A token may hold more atoms than the clause it is taken for, and
then the parser is off that path in one of two ways. Either the statement has a column that is no
name and nothing that is left can replace it, so `compile` will refuse it (`Spoiled`); or the next
token starts with a `desc` that is stuck to what follows it, which no loop accepts. Each action
stays on the path or leads to one of these, and does not come back. What
`str.lower` does with other spellings of a verb than `READ` and `UPDATE` is not in the model.

### What stays with TLC

- Liveness under fairness, which these provers cannot do: `CallsReturn`, `EventsArePolled`,
  `InsertsReturnOrBlock`, `ParserStops`.
- `DocumentedFormIsAccepted` of LiqParser: which of the texts spaced as in the docs parse and compile is
  checked for the statements of the instance. `NeverMisread` says of every text that it is not taken for another
  statement, not that it is accepted.

Every other property that a passing run checks is proved. `SelectSeq`, a RECURSIVE operator, is used
by no module with proofs: what is left of a vector in Changefeed (`Kept`), and the answers and
schemas of LiqPlans, are given by the number of each place, and a list of RegistryOltp has its
records under the places of their rows. `RegistryAssumption` asks that something can be published; `PlansAssumption` for frozen plans with distinct ids whose conditions
are parameters, as those of `registry/plans.py` are.

## 5. Plan

In this order:

1. *(done)* `EmbeddedDatabase` with crashes, torn saves and several processes; its type
   invariant and safety properties proved.
2. *(done)* `EmbedSession` composed from it, refining `RowStore`; `Changefeed`;
   `RegistryOltp`; `LiqPlans`.
3. *(done)* `LiqParser`; `AuditLog`; `SnapshotFile`; lists in `RegistryOltp`.
4. *(done)* Proofs of the safety and action properties of EmbedSession, with the refinement of
   RowStore; of RegistryOltp, Changefeed, AuditLog and LiqPlans; of SnapshotFile for every
   catalogue and of LiqParser for every text.
5. The lifetime of the C handle: `close` against a server thread that sleeps in `accept`.
6. `NativeSql`: what `exec_select` and `exec_insert` take from SQL that liq did not make.

## 6. Not modelled

- *Texts outside the restrictions of TextPath*: a bar followed by an equals sign, after which the rest
  of the value is read as another column, and a quote followed by a comma or a colon, after which
  it is read as part of the answer's structure.
- *The payloads of audit entries that are lost when calls of `append` overlap*: AuditLog says which
  entries remain, not that lost ones are noticed; a chain that verifies may lack them.
- *SQL written by hand*, with COUNT or several conditions, which the catalogue ignores without
  a word. It ignores ORDER BY and LIMIT as well, which liq does make: a liq read with a limit
  returns all rows in the order of insertion. LiqPlans has none of these clauses.
- *The C handle after close* (`changefeed_c.cpp`): `close` deletes the handle while the server
  thread may sleep in `accept` with a pointer to it. The plan has it; in Changefeed the feed
  stays open.
- *Heap store and buffer pool*: `open` writes page 0 of a file that nothing reads and pins a page
  that nothing uses. `next_page_no_` starts at 0 with every open, and `pin` counts no
  references; neither matters until something reads pages back.
- *redact_query_log*: four substitutions in a string.
- *reset_session_for_tests while another thread executes*: the tests call it between calls only;
  `Reset` is a restart of the interpreter.
- *SQL lexer, migrations 001 and 002 (row-level security)*: not called or executed by the
  engine; the constraints of 001 are what RegistryOltp measures the service by.
- *seed_test_fixtures, benchmarks, probes and other scripts*: tooling without state of its own.

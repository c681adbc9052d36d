---------------------------- MODULE RegistryOltp ----------------------------
(***************************************************************************)
(* The package registry (registry/service.py): threads publish and list    *)
(* package versions, each with a sequence of statements on the store.  One *)
(* statement is atomic, which is what EmbedSession establishes; between two*)
(* of them any other thread may run.  A statement may raise, before it took*)
(* effect or after it.                                                     *)
(*                                                                         *)
(* The tables keep the order of their rows: a lookup by name uses the first*)
(* row it gets.  uuid4 values are numbered in the order they are drawn.    *)
(* Names, versions and digests are texts of TextPath: tables hold what is  *)
(* stored of them, lookups compare with what is sent, records show what is *)
(* read.  Columns that are left out hold texts that every answer can show. *)
(***************************************************************************)
EXTENDS TextPath, FiniteSets

CONSTANTS
  Threads,
  PublisherNames,
  PackageNames,
  Versions,
  Digests,      \* tree digests: the content of what is published
  Publications, \* the arguments that publish_package_version is called with
  Rejected,     \* versions execute() refuses: their text is part of the SQL
  Failing,      \* TRUE if statements may raise
  MaxCalls,     \* bound: calls of publish_package_version and list_package_versions,
                \* and rows that are inserted by other plans
  NoId          \* no id drawn or found yet

\* The arguments of both functions; publishes leave the last one as it is.
Args == [publisher : PublisherNames, package : PackageNames, version : Versions, digest : Digests,
         include_yanked : BOOLEAN]

ASSUME RegistryAssumption ==
  /\ Publications # {} /\ Publications \subseteq {a \in Args : ~ a.include_yanked}
  /\ Rejected \subseteq Versions
  /\ Failing \in BOOLEAN
  /\ MaxCalls \in Nat
  /\ NoId \notin Nat

VARIABLES
  publishers, packages, versions,  \* the rows of the three tables, in order
  uuids,      \* ids drawn so far
  calls,      \* calls so far
  alone,      \* history: no two publishes have overlapped so far
  pc,         \* where each thread is in the function it calls
  args,       \* the arguments of its call
  pubId,      \* what _ensure_publisher returned
  pkgId,      \* what _ensure_package returned
  readId,     \* the package that get or list found
  result      \* the record or records returned, or that the call raised

tables == <<publishers, packages, versions>>
vars == <<tables, uuids, calls, alone, pc, args, pubId, pkgId, readId, result>>

Id == 1..(3 * MaxCalls)

\* What the tables hold of a set of texts, and what answers show of it.
StoredOf(texts) == {Stored(text) : text \in texts}
ShownOf(texts) == UNION {Reads(value) : value \in StoredOf(texts)}

VersionRow == [id : Id, package : Id, version : StoredOf(Versions), digest : StoredOf(Digests),
               publisher : Id, yanked : BOOLEAN]

\* The statement each thread is about to run, named after its plan.
Location == {"idle", "publisher_by_name", "insert_publisher", "package_by_name",
             "insert_package", "insert_version", "read_package", "read_versions",
             "list_package", "list_versions"}
Publishing == Location \ {"idle", "list_package", "list_versions"}

NoResult == [status |-> "none"]
Raised == [status |-> "raised"]
ReadBackFailed == [status |-> "read_back_failed"]
Returned(rec) == [status |-> "ok", record |-> rec]
Listed(recs) == [status |-> "list", records |-> recs]

\* The record made of a row of versions_for_package, whose SELECT leaves out
\* package_id and publisher_id: get_package_version fills in the first.
RecordOf(row, pkg) ==
  [id |-> row.id, version |-> Shown(row.version), digest |-> Shown(row.digest), package |-> pkg,
   publisher |-> NoId, yanked |-> row.yanked]
Record == [id : Id, version : ShownOf(Versions), digest : ShownOf(Digests), package : Id \cup {NoId},
           publisher : {NoId}, yanked : BOOLEAN]

TypeOK ==
  /\ publishers \in Seq([id : Id, name : StoredOf(PublisherNames)])
  /\ packages \in Seq([id : Id, name : StoredOf(PackageNames)])
  /\ versions \in Seq(VersionRow)
  /\ uuids \in 0..(3 * MaxCalls)
  /\ calls \in 0..MaxCalls
  /\ alone \in BOOLEAN
  /\ pc \in [Threads -> Location]
  /\ args \in [Threads -> Args]
  /\ pubId \in [Threads -> Id \cup {NoId}]
  /\ pkgId \in [Threads -> Id \cup {NoId}]
  /\ readId \in [Threads -> Id \cup {NoId}]
  /\ \A t \in Threads :
       \/ result[t] \in {NoResult, Raised, ReadBackFailed}
       \/ result[t].status = "ok" /\ result[t].record \in Record
       \/ result[t].status = "list" /\ \A i \in DOMAIN result[t].records : result[t].records[i] \in Record

Init ==
  /\ publishers = << >> /\ packages = << >> /\ versions = << >>
  /\ uuids = 0
  /\ calls = 0
  /\ alone = TRUE
  /\ pc = [t \in Threads |-> "idle"]
  /\ args = [t \in Threads |-> CHOOSE a \in Publications : TRUE]
  /\ pubId = [t \in Threads |-> NoId]
  /\ pkgId = [t \in Threads |-> NoId]
  /\ readId = [t \in Threads |-> NoId]
  /\ result = [t \in Threads |-> NoResult]

\* Indices of the rows that the statements select, and of those among the
\* versions of a package that answers show under the version asked for.
PublisherHits(name) == {i \in 1..Len(publishers) : publishers[i].name = Sent(name)}
PackageHits(name) == {i \in 1..Len(packages) : packages[i].name = Sent(name)}
VersionRows(pkg) == {i \in 1..Len(versions) : versions[i].package = pkg}
VersionHits(pkg, version) == {i \in VersionRows(pkg) : version \in Reads(versions[i].version)}

\* mutant: the row used is the last one
LastOf(hits) == CHOOSE i \in hits : \A j \in hits : j <= i
\* The row used: rows[0], or the first that the loop over the rows accepts.
FirstOf(hits) == CHOOSE i \in hits : \A j \in hits : i <= j

Goto(t, there) == pc' = [pc EXCEPT ![t] = there]

Finish(t, res) ==
  /\ result' = [result EXCEPT ![t] = res]
  /\ Goto(t, "idle")

\* An answer that shows one garbled column is lost as a whole.
VersionsGarbled(pkg) ==
  \E i \in VersionRows(pkg) : Garbled(versions[i].version) \/ Garbled(versions[i].digest)
AnswerGarbled(t) ==
  CASE pc[t] = "publisher_by_name" ->
         \E i \in PublisherHits(args[t].publisher) : Garbled(publishers[i].name)
    [] pc[t] \in {"package_by_name", "read_package", "list_package"} ->
         \E i \in PackageHits(args[t].package) : Garbled(packages[i].name)
    [] pc[t] \in {"read_versions", "list_versions"} -> VersionsGarbled(readId[t])
    [] OTHER -> FALSE

-----------------------------------------------------------------------------
Publish(t) ==
  /\ pc[t] = "idle"
  /\ calls < MaxCalls
  /\ calls' = calls + 1
  /\ alone' = (alone /\ \A o \in Threads : pc[o] \notin Publishing)
  /\ \E a \in Publications : args' = [args EXCEPT ![t] = a]
  /\ pubId' = [pubId EXCEPT ![t] = NoId]
  /\ pkgId' = [pkgId EXCEPT ![t] = NoId]
  /\ readId' = [readId EXCEPT ![t] = NoId]
  /\ result' = [result EXCEPT ![t] = NoResult]
  /\ Goto(t, "publisher_by_name")
  /\ UNCHANGED <<tables, uuids>>

(* _ensure_publisher: the lookup ...                                       *)
PublisherByName(t) ==
  /\ pc[t] = "publisher_by_name"
  /\ ~ AnswerGarbled(t)
  /\ LET hits == PublisherHits(args[t].publisher) IN
       IF hits # {}
         THEN /\ pubId' = [pubId EXCEPT ![t] = publishers[FirstOf(hits)].id]
              /\ Goto(t, "package_by_name")
         ELSE /\ Goto(t, "insert_publisher")
              /\ UNCHANGED pubId
  /\ UNCHANGED <<tables, uuids, calls, alone, args, pkgId, readId, result>>

(* ... and the insert, under a new id, when it found nothing.              *)
InsertPublisher(t) ==
  /\ pc[t] = "insert_publisher"
  /\ uuids' = uuids + 1
  /\ publishers' = Append(publishers, [id |-> uuids + 1, name |-> Stored(args[t].publisher)])
  /\ pubId' = [pubId EXCEPT ![t] = uuids + 1]
  /\ Goto(t, "package_by_name")
  /\ UNCHANGED <<packages, versions, calls, alone, args, pkgId, readId, result>>

(* Mutant: the lookup is skipped, the package is inserted anyway.          *)
PackageAlwaysNew(t) ==
  /\ pc[t] = "package_by_name"
  /\ ~ AnswerGarbled(t)
  /\ Goto(t, "insert_package")
  /\ UNCHANGED <<tables, uuids, calls, alone, args, pubId, pkgId, readId, result>>

(* Mutant: the id of the row that was found is not kept.                   *)
PackageByNameForgets(t) ==
  /\ pc[t] = "package_by_name"
  /\ ~ AnswerGarbled(t)
  /\ Goto(t, IF PackageHits(args[t].package) # {} THEN "insert_version" ELSE "insert_package")
  /\ UNCHANGED <<tables, uuids, calls, alone, args, pubId, pkgId, readId, result>>

(* _ensure_package: the lookup ...                                         *)
PackageByName(t) ==
  /\ pc[t] = "package_by_name"
  /\ ~ AnswerGarbled(t)
  /\ LET hits == PackageHits(args[t].package) IN
       IF hits # {}
         THEN /\ pkgId' = [pkgId EXCEPT ![t] = packages[FirstOf(hits)].id]
              /\ Goto(t, "insert_version")
         ELSE /\ Goto(t, "insert_package")
              /\ UNCHANGED pkgId
  /\ UNCHANGED <<tables, uuids, calls, alone, args, pubId, readId, result>>

(* Mutant: the id that is returned is drawn again.                         *)
InsertPackageOtherId(t) ==
  /\ pc[t] = "insert_package"
  /\ uuids + 2 \in Id
  /\ uuids' = uuids + 2
  /\ packages' = Append(packages, [id |-> uuids + 1, name |-> Stored(args[t].package)])
  /\ pkgId' = [pkgId EXCEPT ![t] = uuids + 2]
  /\ Goto(t, "insert_version")
  /\ UNCHANGED <<publishers, versions, calls, alone, args, pubId, readId, result>>

(* ... and the insert.                                                     *)
InsertPackage(t) ==
  /\ pc[t] = "insert_package"
  /\ uuids' = uuids + 1
  /\ packages' = Append(packages, [id |-> uuids + 1, name |-> Stored(args[t].package)])
  /\ pkgId' = [pkgId EXCEPT ![t] = uuids + 1]
  /\ Goto(t, "insert_version")
  /\ UNCHANGED <<publishers, versions, calls, alone, args, pubId, readId, result>>

\* The row of a version that is inserted; `yanked` is a column that
\* insert_package_version leaves out.
NewVersion(pkg, pub, version, digest, yanked) ==
  [id |-> uuids + 1, package |-> pkg, version |-> Stored(version), digest |-> Stored(digest),
   publisher |-> pub, yanked |-> yanked]

(* insert_package_version, of a version execute() accepts.                 *)
InsertVersion(t) ==
  /\ pc[t] = "insert_version"
  /\ args[t].version \notin Rejected
  /\ uuids' = uuids + 1
  /\ versions' = Append(versions, NewVersion(pkgId[t], pubId[t], args[t].version, args[t].digest, FALSE))
  /\ Goto(t, "read_package")
  /\ UNCHANGED <<publishers, packages, calls, alone, args, pubId, pkgId, readId, result>>

(* execute() raises ParameterMismatch for a version that occurs in the SQL.*)
VersionRejected(t) ==
  /\ pc[t] = "insert_version"
  /\ args[t].version \in Rejected
  /\ uuids' = uuids + 1
  /\ Finish(t, Raised)
  /\ UNCHANGED <<tables, calls, alone, args, pubId, pkgId, readId>>

(* get_package_version reads the package back by its name ...              *)
ReadPackage(t) ==
  /\ pc[t] = "read_package"
  /\ ~ AnswerGarbled(t)
  /\ LET hits == PackageHits(args[t].package) IN
       IF hits # {}
         THEN /\ readId' = [readId EXCEPT ![t] = packages[FirstOf(hits)].id]
              /\ Goto(t, "read_versions")
              /\ UNCHANGED result
         ELSE Finish(t, ReadBackFailed) /\ UNCHANGED readId
  /\ UNCHANGED <<tables, uuids, calls, alone, args, pubId, pkgId>>

(* Mutant: the loop over the rows takes any version of the package.        *)
ReadAnyVersion(t) ==
  /\ pc[t] = "read_versions"
  /\ ~ AnswerGarbled(t)
  /\ LET hits == VersionRows(readId[t]) IN
       Finish(t, IF hits # {} THEN Returned(RecordOf(versions[FirstOf(hits)], readId[t])) ELSE ReadBackFailed)
  /\ UNCHANGED <<tables, uuids, calls, alone, args, pubId, pkgId, readId>>

(* ... and then its versions, and returns the first with the version asked *)
(* for; without one, publish raises.                                       *)
ReadVersions(t) ==
  /\ pc[t] = "read_versions"
  /\ ~ AnswerGarbled(t)
  /\ LET hits == VersionHits(readId[t], args[t].version) IN
       Finish(t, IF hits # {} THEN Returned(RecordOf(versions[FirstOf(hits)], readId[t])) ELSE ReadBackFailed)
  /\ UNCHANGED <<tables, uuids, calls, alone, args, pubId, pkgId, readId>>

-----------------------------------------------------------------------------
List(t) ==
  /\ pc[t] = "idle"
  /\ calls < MaxCalls
  /\ calls' = calls + 1
  /\ \E n \in PackageNames, include \in BOOLEAN :
       args' = [args EXCEPT ![t].package = n, ![t].include_yanked = include]
  /\ readId' = [readId EXCEPT ![t] = NoId]
  /\ result' = [result EXCEPT ![t] = NoResult]
  /\ Goto(t, "list_package")
  /\ UNCHANGED <<tables, uuids, alone, pubId, pkgId>>

(* Mutant: the last package of that name is taken.                         *)
ListPackageLast(t) ==
  /\ pc[t] = "list_package"
  /\ ~ AnswerGarbled(t)
  /\ LET hits == PackageHits(args[t].package) IN
       IF hits # {}
         THEN /\ readId' = [readId EXCEPT ![t] = packages[LastOf(hits)].id]
              /\ Goto(t, "list_versions")
              /\ UNCHANGED result
         ELSE Finish(t, Listed(<< >>)) /\ UNCHANGED readId
  /\ UNCHANGED <<tables, uuids, calls, alone, args, pubId, pkgId>>

(* list_package_versions looks the package up ...                          *)
ListPackage(t) ==
  /\ pc[t] = "list_package"
  /\ ~ AnswerGarbled(t)
  /\ LET hits == PackageHits(args[t].package) IN
       IF hits # {}
         THEN /\ readId' = [readId EXCEPT ![t] = packages[FirstOf(hits)].id]
              /\ Goto(t, "list_versions")
              /\ UNCHANGED result
         ELSE Finish(t, Listed(<< >>)) /\ UNCHANGED readId
  /\ UNCHANGED <<tables, uuids, calls, alone, args, pubId, pkgId>>

(* ... and returns a record for every row of it, here under the place of   *)
(* the row, leaving out the yanked ones unless they are asked for.         *)
ListVersions(t) ==
  /\ pc[t] = "list_versions"
  /\ ~ AnswerGarbled(t)
  /\ LET rows == {i \in VersionRows(readId[t]) : versions[i].yanked => args[t].include_yanked} IN
       Finish(t, Listed([i \in rows |-> RecordOf(versions[i], NoId)]))
  /\ UNCHANGED <<tables, uuids, calls, alone, args, pubId, pkgId, readId>>

-----------------------------------------------------------------------------
(* A thread that is in neither function inserts a yanked version with a    *)
(* plan of its own; package_versions and its column `yanked` are in the    *)
(* catalogue.  Restricted input: the package and the publisher exist.      *)
InsertYanked(t) ==
  /\ pc[t] = "idle"
  /\ calls < MaxCalls
  /\ calls' = calls + 1
  /\ uuids' = uuids + 1
  /\ \E i \in 1..Len(packages), k \in 1..Len(publishers), v \in Versions, d \in Digests :
       versions' = Append(versions, NewVersion(packages[i].id, publishers[k].id, v, d, TRUE))
  /\ UNCHANGED <<publishers, packages, alone, pc, args, pubId, pkgId, readId, result>>

(* json.loads raises for the answer to a SELECT.                           *)
AnswerRaises(t) ==
  /\ AnswerGarbled(t)
  /\ Finish(t, Raised)
  /\ UNCHANGED <<tables, uuids, calls, alone, args, pubId, pkgId, readId>>

(* A statement raises without having taken effect.                         *)
RaiseBefore(t) ==
  /\ Failing
  /\ pc[t] # "idle"
  /\ Finish(t, Raised)
  /\ UNCHANGED <<tables, uuids, calls, alone, args, pubId, pkgId, readId>>

(* The insert was done, but the engine's answer was lost.                  *)
RaiseAfter(t) ==
  /\ Failing
  /\ \/ /\ pc[t] = "insert_publisher"
        /\ publishers' = Append(publishers, [id |-> uuids + 1, name |-> Stored(args[t].publisher)])
        /\ UNCHANGED <<packages, versions>>
     \/ /\ pc[t] = "insert_package"
        /\ packages' = Append(packages, [id |-> uuids + 1, name |-> Stored(args[t].package)])
        /\ UNCHANGED <<publishers, versions>>
     \/ /\ pc[t] = "insert_version" /\ args[t].version \notin Rejected
        /\ versions' = Append(versions, NewVersion(pkgId[t], pubId[t], args[t].version, args[t].digest, FALSE))
        /\ UNCHANGED <<publishers, packages>>
  /\ uuids' = uuids + 1
  /\ Finish(t, Raised)
  /\ UNCHANGED <<calls, alone, args, pubId, pkgId, readId>>

Next == \E t \in Threads :
  \/ Publish(t) \/ PublisherByName(t) \/ InsertPublisher(t) \/ PackageByName(t) \/ InsertPackage(t)
  \/ InsertVersion(t) \/ VersionRejected(t) \/ ReadPackage(t) \/ ReadVersions(t)
  \/ List(t) \/ ListPackage(t) \/ ListVersions(t) \/ InsertYanked(t)
  \/ AnswerRaises(t) \/ RaiseBefore(t) \/ RaiseAfter(t)

Spec == Init /\ [][Next]_vars

-----------------------------------------------------------------------------
\* Whether get_package_version raises, over a text of the package that no
\* answer can show.
ResolveRaises(name) ==
  \E i \in PackageHits(name) :
    Garbled(packages[i].name) \/ VersionsGarbled(packages[FirstOf(PackageHits(name))].id)

\* What it returns: a set with the one row, or empty.
Resolve(name, version) ==
  IF PackageHits(name) = {} \/ ResolveRaises(name) THEN {}
  ELSE LET hits == VersionHits(packages[FirstOf(PackageHits(name))].id, version)
       IN  IF hits = {} THEN {} ELSE {versions[FirstOf(hits)]}

(* Whatever is published again, raced, half done or stored as another text:*)
(* once readers were given a record for name@version they are never given  *)
(* another one, for rows are only appended and a reader takes the first; at*)
(* most a later version of the package makes all its answers unreadable    *)
(* (get_package_version).                                                  *)
ResolvedRecordsAreFinal ==
  [][tables' # tables =>
       \A n \in PackageNames : ~ ResolveRaises(n)' =>
         \A v \in Versions : Resolve(n, v) \subseteq Resolve(n, v)']_vars

(* Every version names a package and a publisher that exist, after any     *)
(* number of calls that stopped half way (001_registry.sql declares the    *)
(* references, the engine enforces none; publish_package_version inserts   *)
(* in this order).                                                         *)
ReferencesResolve ==
  \A i \in 1..Len(versions) :
    /\ \E k \in 1..Len(packages) : packages[k].id = versions[i].package
    /\ \E k \in 1..Len(publishers) : publishers[k].id = versions[i].publisher

\* A lookup compares the text sent, and only what precedes a bar was stored.
Cut(text) == Stored(text) # Sent(text)
\* An answer shows the text that was given.
Survives(text) == Reads(Stored(text)) = {text}

(* Until two publishes overlap, package and publisher names stay unique,   *)
(* even when answers are lost and the call is repeated: the lookup finds   *)
(* what the lost insert left (_ensure_publisher, _ensure_package).  Only a *)
(* name that is cut when it is stored is never found, and inserted again.  *)
NamesAreUnique ==
  alone =>
    /\ \A i, j \in 1..Len(packages) : packages[i].name = packages[j].name =>
         i = j \/ \E n \in PackageNames : Cut(n) /\ packages[i].name = Stored(n)
    /\ \A i, j \in 1..Len(publishers) : publishers[i].name = publishers[j].name =>
         i = j \/ \E n \in PublisherNames : Cut(n) /\ publishers[i].name = Stored(n)

(* service.py, publish_package_version: "publish succeeded but read-back   *)
(* failed" is never raised.  Two threads that publish into a new package   *)
(* may insert it twice, and the read-back of one looks into the package of *)
(* the other.                                                              *)
ReadBackSucceeds == \A t \in Threads : result[t] # ReadBackFailed

(* Until two publishes overlap, a read-back fails only over a text that the*)
(* way into the table changes, whatever earlier calls left half done; and a*)
(* version that survives it and was published once comes back with its own *)
(* content from the package of the publish.                                *)
LonePublishReadsBack ==
  alone => \A t \in Threads :
    LET rec == result[t].record
    IN  /\ result[t] = ReadBackFailed => Cut(args[t].package) \/ ~ Survives(args[t].version)
        /\ /\ result[t].status = "ok"
           /\ Survives(args[t].version)
           /\ Cardinality(VersionHits(rec.package, args[t].version)) = 1
           => /\ rec.version = args[t].version
              /\ rec.digest = Shown(Stored(args[t].digest))
              /\ rec.package = pkgId[t]

(* A list leaves out nothing that a reader can get by then but yanked rows,*)
(* and those only unless asked for: although the package was looked up in  *)
(* an earlier statement, and may exist twice, the list holds the record    *)
(* that get_package_version returns for each version.                      *)
ListsAreComplete ==
  [][\A t \in Threads : pc[t] \in {"list_package", "list_versions"} /\ result'[t].status = "list" =>
       \A v \in Versions : \A row \in Resolve(args[t].package, v) :
         (row.yanked => args[t].include_yanked) =>
           \E i \in DOMAIN result'[t].records : result'[t].records[i].id = row.id]_vars

=============================================================================

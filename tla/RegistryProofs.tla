---------------------------- MODULE RegistryProofs ----------------------------
(***************************************************************************)
(* What holds of the registry for any number of threads, names and calls.  *)
(* The proofs rest on four facts about a publish that is under way: how    *)
(* many ids it may still draw (IdsSuffice), that the ids it holds are those*)
(* of rows (IdsAreOfRows), that a statement that is about to insert a name *)
(* is right that there is none (InsertsAreNew), and that its own version is*)
(* there when it is read back (OwnRowIsThere).  The last two need that no  *)
(* two publishes have overlapped.  Nothing is asked of what the way into a *)
(* table and back makes of a text: that is opaque here.                    *)
(***************************************************************************)
EXTENDS RegistryOltp, FiniteSetTheorems, WellFoundedInduction, TLAPS

-----------------------------------------------------------------------------
(* The first row of a set of rows.                                         *)

\* A set of places that is not empty has a least one.
LEMMA LeastExists ==
  ASSUME NEW hits, hits \subseteq Nat, hits # {}
  PROVE  \E i \in hits : \A j \in hits : i <= j
<1>1. IsWellFoundedOn(OpToRel(<, Nat), Nat)
  BY NatLessThanWellFounded
<1>2. PICK i \in hits : \A j \in hits : ~ (<<j, i>> \in OpToRel(<, Nat))
  BY <1>1, WFMin
<1>3. \A j \in hits : ~ (j < i)
  BY <1>2 DEF OpToRel
<1>4. \A j \in hits : i <= j
  BY <1>3
<1>. QED
  BY <1>4

\* FirstOf, of the lookups by name, is the least place.
LEMMA FirstIsLeast ==
  ASSUME NEW hits, hits \subseteq Nat, hits # {}
  PROVE  FirstOf(hits) \in hits /\ \A j \in hits : FirstOf(hits) <= j
BY LeastExists DEF FirstOf

\* Rows that are appended do not change which row is the first.
LEMMA FirstStays ==
  ASSUME NEW before, NEW after, after \subseteq Nat, before \subseteq after, before # {},
         \A i \in before, j \in after \ before : i < j
  PROVE  FirstOf(after) = FirstOf(before)
<1>. DEFINE i == FirstOf(before)
            k == FirstOf(after)
<1>1. i \in before /\ i \in Nat /\ \A j \in before : i <= j
  BY FirstIsLeast
<1>2. k \in after /\ k \in Nat /\ \A j \in after : k <= j
  BY FirstIsLeast
<1>. HIDE DEF i, k
<1>3. k <= i /\ (k \notin before => i < k)
  BY <1>1, <1>2
<1>4. i <= k
  BY <1>1, <1>2, <1>3
<1>5. i = k
  BY <1>1, <1>2, <1>3, <1>4
<1>. QED
  BY <1>5 DEF i, k

-----------------------------------------------------------------------------
(* The invariant.                                                          *)

\* Where a publish has its publisher, and where it has its package.
HasPublisher == {"package_by_name", "insert_package", "insert_version", "read_package", "read_versions"}
HasPackage == {"insert_version", "read_package", "read_versions"}

\* The ids a call may still draw, one for each table it has not yet written.
Draws(here) ==
  IF here \in {"publisher_by_name", "insert_publisher"} THEN {1, 2, 3}
  ELSE IF here \in {"package_by_name", "insert_package"} THEN {1, 2}
  ELSE IF here = "insert_version" THEN {1} ELSE {}
ToDraw == {draw \in Threads \X (1..3) : draw[2] \in Draws(pc[draw[1]])}

\* No call draws more than three ids.
IdsSuffice == IsFiniteSet(ToDraw) /\ uuids + Cardinality(ToDraw) <= 3 * calls

\* The ids that a publish has found or drawn are those of rows.
IdsAreOfRows ==
  \A t \in Threads :
    /\ pc[t] \in HasPublisher => \E i \in 1..Len(publishers) : publishers[i].id = pubId[t]
    /\ pc[t] \in HasPackage => \E i \in 1..Len(packages) : packages[i].id = pkgId[t]
    /\ pc[t] \in {"read_versions", "list_versions"} => readId[t] \in Id

\* A call that runs has returned nothing; TypeOK takes `result` pointwise.
RunningHaveNoResult ==
  /\ result = [t \in Threads |-> result[t]]
  /\ \A t \in Threads : pc[t] # "idle" => result[t] = NoResult

RowsInv == TypeOK /\ IdsSuffice /\ IdsAreOfRows /\ ReferencesResolve /\ RunningHaveNoResult

\* Until publishes have overlapped ...
OneAtATime ==
  alone => \A t, o \in Threads : pc[t] \in Publishing /\ pc[o] \in Publishing => t = o

\* ... a name that is about to be inserted is not there ...
InsertsAreNew ==
  alone => \A t \in Threads :
    /\ pc[t] = "insert_publisher" => PublisherHits(args[t].publisher) = {}
    /\ pc[t] = "insert_package" => PackageHits(args[t].package) = {}

\* ... the package of a publish is the first of its name, unless the name is not found again ...
PackageIsFirst ==
  alone => \A t \in Threads : pc[t] \in HasPackage =>
    IF PackageHits(args[t].package) = {} THEN Cut(args[t].package)
    ELSE pkgId[t] = packages[FirstOf(PackageHits(args[t].package))].id

\* The version a publish inserted.
OwnRow(t) ==
  \E i \in VersionRows(pkgId[t]) :
    versions[i].version = Stored(args[t].version) /\ versions[i].digest = Stored(args[t].digest)

\* ... and what is read back is the publish's own package, with its own row.
OwnRowIsThere ==
  alone => \A t \in Threads :
    /\ pc[t] \in {"read_package", "read_versions"} => OwnRow(t)
    /\ pc[t] = "read_versions" => readId[t] = pkgId[t]

RecordIsOwn(t) ==
  LET rec == result[t].record
  IN  /\ rec.package = pkgId[t]
      /\ OwnRow(t)
      /\ \E i \in VersionHits(pkgId[t], args[t].version) :
           rec.version = Shown(versions[i].version) /\ rec.digest = Shown(versions[i].digest)
RecordsAreOwn ==
  alone => \A t \in Threads :
    /\ result[t] = ReadBackFailed => Cut(args[t].package) \/ ~ Survives(args[t].version)
    /\ result[t].status = "ok" => RecordIsOwn(t)

LoneInv ==
  /\ OneAtATime /\ InsertsAreNew /\ NamesAreUnique
  /\ PackageIsFirst /\ OwnRowIsThere /\ RecordsAreOwn

-----------------------------------------------------------------------------
(* Ids.                                                                    *)

\* A statement of thread t that draws an id takes it from those of its call.
LEMMA DrawsOne ==
  ASSUME NEW t \in Threads, pc \in [Threads -> Location], NEW there \in Location, Goto(t, there),
         IdsSuffice, NEW k \in Draws(pc[t]), Draws(there) \subseteq Draws(pc[t]) \ {k}
  PROVE  /\ IsFiniteSet(ToDraw)' /\ Cardinality(ToDraw)' \in Nat
         /\ Cardinality(ToDraw) \in Nat /\ Cardinality(ToDraw)' + 1 <= Cardinality(ToDraw)
<1>1. k \in 1..3
  BY DEF Draws
<1>2. <<t, k>> \in ToDraw
  BY <1>1 DEF ToDraw
<1>3. ToDraw' \subseteq ToDraw \ {<<t, k>>}
  BY DEF ToDraw, Goto
<1>4. IsFiniteSet(ToDraw \ {<<t, k>>}) /\ Cardinality(ToDraw \ {<<t, k>>}) = Cardinality(ToDraw) - 1
  BY <1>2, FS_RemoveElement DEF IdsSuffice
<1>5. IsFiniteSet(ToDraw') /\ Cardinality(ToDraw') <= Cardinality(ToDraw \ {<<t, k>>})
  BY <1>3, <1>4, FS_Subset
<1>6. Cardinality(ToDraw') \in Nat /\ Cardinality(ToDraw) \in Nat
  BY <1>5, FS_CardinalityType DEF IdsSuffice
<1>. QED
  BY <1>4, <1>5, <1>6

\* A statement that draws none leaves them.
LEMMA DrawsNone ==
  ASSUME NEW t \in Threads, pc \in [Threads -> Location], NEW there \in Location, Goto(t, there),
         IdsSuffice, Draws(there) \subseteq Draws(pc[t])
  PROVE  /\ IsFiniteSet(ToDraw)' /\ Cardinality(ToDraw)' \in Nat
         /\ Cardinality(ToDraw) \in Nat /\ Cardinality(ToDraw)' <= Cardinality(ToDraw)
<1>1. ToDraw' \subseteq ToDraw
  BY DEF ToDraw, Goto
<1>2. IsFiniteSet(ToDraw') /\ Cardinality(ToDraw') <= Cardinality(ToDraw)
  BY <1>1, FS_Subset DEF IdsSuffice
<1>3. Cardinality(ToDraw') \in Nat /\ Cardinality(ToDraw) \in Nat
  BY <1>2, FS_CardinalityType DEF IdsSuffice
<1>. QED
  BY <1>2, <1>3

LEMMA OneMore ==
  ASSUME NEW S, NEW x, IsFiniteSet(S)
  PROVE  /\ IsFiniteSet(S \cup {x})
         /\ Cardinality(S \cup {x}) \in Nat /\ Cardinality(S) \in Nat
         /\ Cardinality(S \cup {x}) <= Cardinality(S) + 1
<1>1. IsFiniteSet(S \cup {x}) /\ (Cardinality(S \cup {x}) = Cardinality(S) \/ Cardinality(S \cup {x}) = Cardinality(S) + 1)
  BY FS_AddElement
<1>2. Cardinality(S) \in Nat /\ Cardinality(S \cup {x}) \in Nat
  BY <1>1, FS_CardinalityType
<1>. QED
  BY <1>1, <1>2

\* A publish that begins may draw three.
LEMMA DrawsThree ==
  ASSUME NEW t \in Threads, pc \in [Threads -> Location], pc[t] = "idle", Goto(t, "publisher_by_name"),
         IdsSuffice
  PROVE  /\ IsFiniteSet(ToDraw)' /\ Cardinality(ToDraw)' \in Nat
         /\ Cardinality(ToDraw) \in Nat /\ Cardinality(ToDraw)' <= Cardinality(ToDraw) + 3
<1>. DEFINE draw(k) == <<t, k>>
            one == ToDraw \cup {draw(1)}
            two == one \cup {draw(2)}
<1>1. ToDraw' = two \cup {draw(3)}
  BY DEF ToDraw, Goto, Draws, Location
<1>. HIDE DEF draw
<1>2. IsFiniteSet(ToDraw)
  BY DEF IdsSuffice
<1>3. /\ IsFiniteSet(one) /\ Cardinality(one) \in Nat /\ Cardinality(ToDraw) \in Nat
      /\ Cardinality(one) <= Cardinality(ToDraw) + 1
  BY <1>2, OneMore
<1>. HIDE DEF one
<1>4. IsFiniteSet(two) /\ Cardinality(two) \in Nat /\ Cardinality(two) <= Cardinality(one) + 1
  BY <1>3, OneMore
<1>. HIDE DEF two
<1>5. IsFiniteSet(ToDraw') /\ Cardinality(ToDraw') \in Nat /\ Cardinality(ToDraw') <= Cardinality(two) + 1
  BY <1>1, <1>4, OneMore
<1>. QED
  BY <1>3, <1>4, <1>5

\* Where a thread goes, whatever it does.
LEMMA IdsStaySufficient ==
  ASSUME TypeOK, IdsSuffice, [Next]_vars
  PROVE  /\ IdsSuffice'
         /\ uuids' <= 3 * calls' /\ uuids' \in Nat /\ calls' \in Nat /\ calls' <= MaxCalls
<1>. MaxCalls \in Nat /\ calls \in Nat /\ uuids \in Nat /\ calls <= MaxCalls /\ pc \in [Threads -> Location]
  BY RegistryAssumption DEF TypeOK
<1>1. CASE UNCHANGED vars
  <2>1. ToDraw' = ToDraw /\ uuids' = uuids /\ calls' = calls
    BY <1>1 DEF ToDraw, vars
  <2>2. Cardinality(ToDraw) \in Nat
    BY FS_CardinalityType DEF IdsSuffice
  <2>. QED
    BY <2>1, <2>2 DEF IdsSuffice
<1>2. ASSUME NEW t \in Threads, Publish(t)
      PROVE  IdsSuffice' /\ uuids' <= 3 * calls' /\ uuids' \in Nat /\ calls' \in Nat /\ calls' <= MaxCalls
  <2>1. /\ pc[t] = "idle" /\ calls' = calls + 1 /\ calls < MaxCalls /\ uuids' = uuids
        /\ Goto(t, "publisher_by_name")
    BY <1>2 DEF Publish
  <2>. QED
    BY <2>1, DrawsThree DEF IdsSuffice
<1>3. ASSUME NEW t \in Threads, List(t)
      PROVE  IdsSuffice' /\ uuids' <= 3 * calls' /\ uuids' \in Nat /\ calls' \in Nat /\ calls' <= MaxCalls
  <2>1. calls' = calls + 1 /\ calls < MaxCalls /\ uuids' = uuids /\ Goto(t, "list_package")
    BY <1>3 DEF List
  <2>2. "list_package" \in Location /\ Draws("list_package") = {}
    BY DEF Location, Draws
  <2>. QED
    BY <2>1, <2>2, DrawsNone DEF IdsSuffice
<1>4. ASSUME NEW t \in Threads,
             \/ PublisherByName(t) \/ PackageByName(t) \/ ReadPackage(t) \/ ReadVersions(t)
             \/ ListPackage(t) \/ ListVersions(t) \/ AnswerRaises(t) \/ RaiseBefore(t)
      PROVE  IdsSuffice' /\ uuids' <= 3 * calls' /\ uuids' \in Nat /\ calls' \in Nat /\ calls' <= MaxCalls
  <2>1. PICK there \in Location : Goto(t, there) /\ Draws(there) \subseteq Draws(pc[t])
    BY <1>4 DEF PublisherByName, PackageByName, ReadPackage, ReadVersions, ListPackage, ListVersions,
                AnswerRaises, RaiseBefore, Finish, Goto, Draws, Location
  <2>2. uuids' = uuids /\ calls' = calls
    BY <1>4 DEF PublisherByName, PackageByName, ReadPackage, ReadVersions, ListPackage, ListVersions,
                AnswerRaises, RaiseBefore
  <2>. QED
    BY <2>1, <2>2, DrawsNone DEF IdsSuffice
<1>5. ASSUME NEW t \in Threads,
             InsertPublisher(t) \/ InsertPackage(t) \/ InsertVersion(t) \/ VersionRejected(t) \/ RaiseAfter(t)
      PROVE  IdsSuffice' /\ uuids' <= 3 * calls' /\ uuids' \in Nat /\ calls' \in Nat /\ calls' <= MaxCalls
  <2>1. \E there \in Location :
          Goto(t, there) /\ \E k \in Draws(pc[t]) : Draws(there) \subseteq Draws(pc[t]) \ {k}
    <3>1. CASE InsertPublisher(t)
      <4>1. Goto(t, "package_by_name") /\ Draws(pc[t]) = {1, 2, 3}
        BY <3>1 DEF InsertPublisher, Draws
      <4>2. "package_by_name" \in Location /\ Draws("package_by_name") = {1, 2}
        BY DEF Location, Draws
      <4>. QED
        BY <4>1, <4>2
    <3>2. CASE InsertPackage(t)
      <4>1. Goto(t, "insert_version") /\ Draws(pc[t]) = {1, 2}
        BY <3>2 DEF InsertPackage, Draws
      <4>2. "insert_version" \in Location /\ Draws("insert_version") = {1}
        BY DEF Location, Draws
      <4>. QED
        BY <4>1, <4>2
    <3>3. CASE InsertVersion(t)
      <4>1. Goto(t, "read_package") /\ Draws(pc[t]) = {1}
        BY <3>3 DEF InsertVersion, Draws
      <4>2. "read_package" \in Location /\ Draws("read_package") = {}
        BY DEF Location, Draws
      <4>. QED
        BY <4>1, <4>2
    <3>4. CASE VersionRejected(t) \/ RaiseAfter(t)
      <4>1. Goto(t, "idle") /\ 1 \in Draws(pc[t])
        BY <3>4 DEF VersionRejected, RaiseAfter, Finish, Draws
      <4>2. "idle" \in Location /\ Draws("idle") = {}
        BY DEF Location, Draws
      <4>. QED
        BY <4>1, <4>2
    <3>. QED
      BY <1>5, <3>1, <3>2, <3>3, <3>4
  <2>2. uuids' = uuids + 1 /\ calls' = calls
    BY <1>5 DEF InsertPublisher, InsertPackage, InsertVersion, VersionRejected, RaiseAfter
  <2>. QED
    BY <2>1, <2>2, DrawsOne DEF IdsSuffice
<1>6. ASSUME NEW t \in Threads, InsertYanked(t)
      PROVE  IdsSuffice' /\ uuids' <= 3 * calls' /\ uuids' \in Nat /\ calls' \in Nat /\ calls' <= MaxCalls
  <2>1. uuids' = uuids + 1 /\ calls' = calls + 1 /\ calls < MaxCalls /\ pc' = pc
    BY <1>6 DEF InsertYanked
  <2>2. ToDraw' = ToDraw
    BY <2>1 DEF ToDraw
  <2>3. Cardinality(ToDraw) \in Nat
    BY FS_CardinalityType DEF IdsSuffice
  <2>. QED
    BY <2>1, <2>2, <2>3 DEF IdsSuffice
<1>. QED
  BY <1>1, <1>2, <1>3, <1>4, <1>5, <1>6 DEF Next

-----------------------------------------------------------------------------
(* Tables only grow.                                                       *)

Grows(before, after) ==
  /\ Len(before) \in Nat /\ Len(after) \in Nat
  /\ Len(before) <= Len(after)
  /\ \A i \in 1..Len(before) : after[i] = before[i]

LEMMA AppendGrows ==
  ASSUME NEW S, NEW rows \in Seq(S), NEW row \in S
  PROVE  /\ Append(rows, row) \in Seq(S)
         /\ Grows(rows, Append(rows, row)) /\ Grows(rows, rows)
         /\ Len(Append(rows, row)) = Len(rows) + 1 /\ Append(rows, row)[Len(rows) + 1] = row
BY DEF Grows

LEMMA ElementsFit ==
  ASSUME NEW S, NEW rows \in Seq(S)
  PROVE  \A i \in 1..Len(rows) : rows[i] \in S
OBVIOUS

LEMMA InRange ==
  ASSUME NEW n \in Nat, NEW k \in Nat, NEW m \in Nat, n + 1 <= 3 * k, k <= m
  PROVE  n + 1 \in 1..(3 * m)
OBVIOUS

\* The id that a statement draws next.
LEMMA NextIdFits ==
  ASSUME TypeOK, IdsSuffice, Next, uuids' = uuids + 1
  PROVE  uuids + 1 \in Id
<1>1. uuids \in Nat /\ MaxCalls \in Nat
  BY RegistryAssumption DEF TypeOK
<1>2. uuids' <= 3 * calls' /\ uuids' \in Nat /\ calls' \in Nat /\ calls' <= MaxCalls
  BY IdsStaySufficient
<1>3. calls' \in Nat /\ calls' <= MaxCalls /\ uuids + 1 <= 3 * calls'
  BY <1>1, <1>2
<1>. QED
  BY <1>1, <1>3, InRange DEF Id

\* The ids that an insert of a version puts into the row.
LEMMA HeldIdsFit ==
  ASSUME TypeOK, IdsAreOfRows, NEW t \in Threads
  PROVE  /\ pc[t] \in HasPublisher => pubId[t] \in Id
         /\ pc[t] \in HasPackage => pkgId[t] \in Id
<1>1. publishers \in Seq([id : Id, name : StoredOf(PublisherNames)]) /\ packages \in Seq([id : Id, name : StoredOf(PackageNames)])
  BY DEF TypeOK
<1>2. \A i \in 1..Len(publishers) : publishers[i] \in [id : Id, name : StoredOf(PublisherNames)]
  BY <1>1, ElementsFit
<1>3. \A i \in 1..Len(packages) : packages[i] \in [id : Id, name : StoredOf(PackageNames)]
  BY <1>1, ElementsFit
<1>. QED
  BY <1>2, <1>3 DEF IdsAreOfRows

Table(S) == Seq([id : Id, name : S])

\* A row that refers to rows.
Refers(row) ==
  /\ \E k \in 1..Len(packages) : packages[k].id = row.package
  /\ \E k \in 1..Len(publishers) : publishers[k].id = row.publisher

\* A step that writes a version appends a row whose ids are those of rows.
LEMMA VersionIsAppended ==
  ASSUME TypeOK, IdsSuffice, IdsAreOfRows, Next, versions' # versions
  PROVE  /\ \E row \in VersionRow : Refers(row) /\ versions' = Append(versions, row)
         /\ UNCHANGED <<publishers, packages>>
<1>1. ASSUME NEW pkg \in Id, NEW pub \in Id, NEW v \in Versions, NEW d \in Digests, NEW y \in BOOLEAN,
             uuids + 1 \in Id
      PROVE  NewVersion(pkg, pub, v, d, y) \in VersionRow
  BY <1>1 DEF NewVersion, VersionRow, StoredOf
<1>2. ASSUME NEW t \in Threads, pc[t] = "insert_version", uuids' = uuids + 1,
             versions' = Append(versions, NewVersion(pkgId[t], pubId[t], args[t].version, args[t].digest, FALSE))
      PROVE  \E row \in VersionRow : Refers(row) /\ versions' = Append(versions, row)
  <2>. DEFINE row == NewVersion(pkgId[t], pubId[t], args[t].version, args[t].digest, FALSE)
  <2>1. pubId[t] \in Id /\ pkgId[t] \in Id /\ args[t].version \in Versions /\ args[t].digest \in Digests
    BY <1>2, HeldIdsFit DEF HasPublisher, HasPackage, TypeOK, Args
  <2>2. row \in VersionRow
    BY <1>1, <1>2, <2>1, NextIdFits
  <2>3. row.package = pkgId[t] /\ row.publisher = pubId[t]
    BY DEF NewVersion
  <2>4. Refers(row)
    BY <1>2, <2>3 DEF Refers, IdsAreOfRows, HasPublisher, HasPackage
  <2>. QED
    BY <1>2, <2>2, <2>4
<1>3. ASSUME NEW t \in Threads, InsertYanked(t)
      PROVE  \E row \in VersionRow : Refers(row) /\ versions' = Append(versions, row)
  <2>1. PICK i \in 1..Len(packages), k \in 1..Len(publishers), v \in Versions, d \in Digests :
          versions' = Append(versions, NewVersion(packages[i].id, publishers[k].id, v, d, TRUE))
    BY <1>3 DEF InsertYanked
  <2>. DEFINE row == NewVersion(packages[i].id, publishers[k].id, v, d, TRUE)
  <2>2. packages[i].id \in Id /\ publishers[k].id \in Id
    <3>1. /\ publishers \in Seq([id : Id, name : StoredOf(PublisherNames)])
          /\ packages \in Seq([id : Id, name : StoredOf(PackageNames)])
      BY DEF TypeOK
    <3>2. packages[i] \in [id : Id, name : StoredOf(PackageNames)]
      BY <3>1, ElementsFit
    <3>3. publishers[k] \in [id : Id, name : StoredOf(PublisherNames)]
      BY <3>1, ElementsFit
    <3>. QED
      BY <3>2, <3>3
  <2>3. row \in VersionRow
    BY <1>1, <1>3, <2>2, NextIdFits DEF InsertYanked
  <2>4. row.package = packages[i].id /\ row.publisher = publishers[k].id
    BY DEF NewVersion
  <2>5. Refers(row)
    BY <2>4 DEF Refers
  <2>. QED
    BY <2>1, <2>3, <2>5
<1>4. \E t \in Threads : InsertVersion(t) \/ RaiseAfter(t) \/ InsertYanked(t)
  BY DEF Next, Publish, PublisherByName, PackageByName, VersionRejected, ReadPackage, ReadVersions,
         List, ListPackage, ListVersions, AnswerRaises, RaiseBefore, InsertPublisher, InsertPackage, tables
<1>5. PICK t \in Threads : InsertVersion(t) \/ RaiseAfter(t) \/ InsertYanked(t)
  BY <1>4
<1>6. UNCHANGED <<publishers, packages>>
  BY <1>5 DEF InsertVersion, RaiseAfter, InsertYanked
<1>7. \/ InsertYanked(t)
      \/ /\ pc[t] = "insert_version" /\ uuids' = uuids + 1
         /\ versions' = Append(versions, NewVersion(pkgId[t], pubId[t], args[t].version, args[t].digest, FALSE))
  BY <1>5 DEF InsertVersion, RaiseAfter
<1>. QED
  BY <1>2, <1>3, <1>6, <1>7

\* What each step does to the tables.
LEMMA RowsAreAppended ==
  ASSUME RowsInv, [Next]_vars
  PROVE  /\ publishers' \in Table(StoredOf(PublisherNames)) /\ Grows(publishers, publishers')
         /\ packages' \in Table(StoredOf(PackageNames)) /\ Grows(packages, packages')
         /\ versions' \in Seq(VersionRow) /\ Grows(versions, versions')
<1>1. /\ publishers \in Table(StoredOf(PublisherNames)) /\ packages \in Table(StoredOf(PackageNames))
      /\ versions \in Seq(VersionRow)
      /\ Grows(publishers, publishers) /\ Grows(packages, packages) /\ Grows(versions, versions)
  BY DEF RowsInv, TypeOK, Table, Grows
<1>2. CASE UNCHANGED tables
  BY <1>1, <1>2 DEF tables
<1>3. ASSUME NEW t \in Threads, Next, uuids' = uuids + 1,
             publishers' = Append(publishers, [id |-> uuids + 1, name |-> Stored(args[t].publisher)]),
             UNCHANGED <<packages, versions>>
      PROVE  publishers' \in Table(StoredOf(PublisherNames)) /\ Grows(publishers, publishers')
  <2>1. [id |-> uuids + 1, name |-> Stored(args[t].publisher)] \in [id : Id, name : StoredOf(PublisherNames)]
    BY <1>3, NextIdFits DEF RowsInv, TypeOK, Args, StoredOf
  <2>. QED
    BY <1>1, <1>3, <2>1, AppendGrows DEF Table
<1>4. ASSUME NEW t \in Threads, Next, uuids' = uuids + 1,
             packages' = Append(packages, [id |-> uuids + 1, name |-> Stored(args[t].package)]),
             UNCHANGED <<publishers, versions>>
      PROVE  packages' \in Table(StoredOf(PackageNames)) /\ Grows(packages, packages')
  <2>1. [id |-> uuids + 1, name |-> Stored(args[t].package)] \in [id : Id, name : StoredOf(PackageNames)]
    BY <1>4, NextIdFits DEF RowsInv, TypeOK, Args, StoredOf
  <2>. QED
    BY <1>1, <1>4, <2>1, AppendGrows DEF Table
<1>5. CASE Next /\ versions' # versions
  <2>1. PICK row \in VersionRow : versions' = Append(versions, row)
    BY <1>5, VersionIsAppended DEF RowsInv
  <2>2. UNCHANGED <<publishers, packages>>
    BY <1>5, VersionIsAppended DEF RowsInv
  <2>. QED
    BY <1>1, <2>1, <2>2, AppendGrows
<1>6. ASSUME NEW t \in Threads, InsertPublisher(t) \/ InsertPackage(t) \/ RaiseAfter(t), versions' = versions
      PROVE  \/ /\ uuids' = uuids + 1 /\ UNCHANGED <<packages, versions>>
                /\ publishers' = Append(publishers, [id |-> uuids + 1, name |-> Stored(args[t].publisher)])
             \/ /\ uuids' = uuids + 1 /\ UNCHANGED <<publishers, versions>>
                /\ packages' = Append(packages, [id |-> uuids + 1, name |-> Stored(args[t].package)])
             \/ UNCHANGED tables
  BY <1>6 DEF InsertPublisher, InsertPackage, RaiseAfter, tables
<1>7. CASE Next /\ versions' = versions /\ ~ UNCHANGED tables
  <2>1. PICK t \in Threads : InsertPublisher(t) \/ InsertPackage(t) \/ RaiseAfter(t)
    BY <1>7 DEF Next, Publish, PublisherByName, PackageByName, VersionRejected, ReadPackage, ReadVersions,
                List, ListPackage, ListVersions, AnswerRaises, RaiseBefore, InsertVersion, InsertYanked, tables
  <2>. QED
    BY <1>1, <1>3, <1>4, <1>6, <1>7, <2>1
<1>. QED
  BY <1>2, <1>5, <1>7 DEF vars, tables

-----------------------------------------------------------------------------
(* The first invariant is inductive.                                       *)

\* What a step leaves of the threads that do not take it.
LEMMA OthersStay ==
  ASSUME RowsInv, NEW t \in Threads,
         \/ Publish(t) \/ PublisherByName(t) \/ InsertPublisher(t) \/ PackageByName(t) \/ InsertPackage(t)
         \/ InsertVersion(t) \/ VersionRejected(t) \/ ReadPackage(t) \/ ReadVersions(t)
         \/ List(t) \/ ListPackage(t) \/ ListVersions(t) \/ InsertYanked(t)
         \/ AnswerRaises(t) \/ RaiseBefore(t) \/ RaiseAfter(t)
  PROVE  \A o \in Threads \ {t} :
           /\ pc'[o] = pc[o] /\ args'[o] = args[o] /\ result'[o] = result[o]
           /\ pubId'[o] = pubId[o] /\ pkgId'[o] = pkgId[o] /\ readId'[o] = readId[o]
<1>. /\ pc \in [Threads -> Location] /\ args \in [Threads -> Args] /\ result = [o \in Threads |-> result[o]]
     /\ pubId \in [Threads -> Id \cup {NoId}] /\ pkgId \in [Threads -> Id \cup {NoId}]
     /\ readId \in [Threads -> Id \cup {NoId}]
  BY DEF RowsInv, TypeOK, RunningHaveNoResult
<1>1. CASE Publish(t) \/ List(t)
  BY <1>1 DEF Publish, List, Goto
<1>2. CASE PublisherByName(t) \/ InsertPublisher(t) \/ PackageByName(t) \/ InsertPackage(t) \/ InsertVersion(t)
  BY <1>2 DEF PublisherByName, InsertPublisher, PackageByName, InsertPackage, InsertVersion, Goto
<1>3. CASE VersionRejected(t) \/ ReadPackage(t) \/ ReadVersions(t)
  BY <1>3 DEF VersionRejected, ReadPackage, ReadVersions, Finish, Goto
<1>4. CASE ListPackage(t) \/ ListVersions(t) \/ AnswerRaises(t) \/ RaiseBefore(t) \/ RaiseAfter(t)
  BY <1>4 DEF ListPackage, ListVersions, AnswerRaises, RaiseBefore, RaiseAfter, Finish, Goto
<1>5. CASE InsertYanked(t)
  BY <1>5 DEF InsertYanked
<1>. QED
  BY <1>1, <1>2, <1>3, <1>4, <1>5

\* A lookup that finds rows takes one of them.
LEMMA FoundIsRow ==
  ASSUME TypeOK, NEW name
  PROVE  /\ PublisherHits(name) # {} =>
              /\ FirstOf(PublisherHits(name)) \in PublisherHits(name)
              /\ publishers[FirstOf(PublisherHits(name))].id \in Id
         /\ PackageHits(name) # {} =>
              /\ FirstOf(PackageHits(name)) \in PackageHits(name)
              /\ packages[FirstOf(PackageHits(name))].id \in Id
<1>1. publishers \in Seq([id : Id, name : StoredOf(PublisherNames)]) /\ packages \in Seq([id : Id, name : StoredOf(PackageNames)])
  BY DEF TypeOK
<1>2. \A i \in 1..Len(publishers) : publishers[i] \in [id : Id, name : StoredOf(PublisherNames)]
  BY <1>1, ElementsFit
<1>3. \A i \in 1..Len(packages) : packages[i] \in [id : Id, name : StoredOf(PackageNames)]
  BY <1>1, ElementsFit
<1>4. PublisherHits(name) \subseteq 1..Len(publishers) /\ PublisherHits(name) \subseteq Nat
  BY DEF PublisherHits
<1>5. PackageHits(name) \subseteq 1..Len(packages) /\ PackageHits(name) \subseteq Nat
  BY DEF PackageHits
<1>6. PublisherHits(name) # {} => FirstOf(PublisherHits(name)) \in PublisherHits(name)
  BY <1>4, FirstIsLeast
<1>7. PackageHits(name) # {} => FirstOf(PackageHits(name)) \in PackageHits(name)
  BY <1>5, FirstIsLeast
<1>. QED
  BY <1>2, <1>3, <1>4, <1>5, <1>6, <1>7

\* The record that is made of a row.
LEMMA RecordFits ==
  ASSUME TypeOK, NEW from, ~ VersionsGarbled(from), NEW i \in VersionRows(from), NEW pkg \in Id \cup {NoId}
  PROVE  RecordOf(versions[i], pkg) \in Record
<1>1. versions \in Seq(VersionRow) /\ i \in 1..Len(versions)
  BY DEF TypeOK, VersionRows
<1>2. versions[i] \in VersionRow
  BY <1>1, ElementsFit
<1>3. ASSUME NEW texts, NEW value \in StoredOf(texts), ~ Garbled(value)
      PROVE  Shown(value) \in ShownOf(texts)
  <2>1. Shown(value) \in Reads(value)
    BY <1>3 DEF Garbled, Shown
  <2>. QED
    BY <2>1 DEF ShownOf
<1>4. ~ Garbled(versions[i].version) /\ ~ Garbled(versions[i].digest)
  BY DEF VersionsGarbled
<1>5. Shown(versions[i].version) \in ShownOf(Versions) /\ Shown(versions[i].digest) \in ShownOf(Digests)
  BY <1>2, <1>3, <1>4 DEF VersionRow
<1>. QED
  BY <1>2, <1>5 DEF RecordOf, Record, VersionRow

\* The functions of the threads.
ThreadTypes ==
  /\ alone \in BOOLEAN
  /\ pc \in [Threads -> Location]
  /\ args \in [Threads -> Args]
  /\ pubId \in [Threads -> Id \cup {NoId}]
  /\ pkgId \in [Threads -> Id \cup {NoId}]
  /\ readId \in [Threads -> Id \cup {NoId}]

LEMMA ThreadTypesStay ==
  ASSUME RowsInv, [Next]_vars
  PROVE  ThreadTypes'
<1>1. ThreadTypes
  BY DEF RowsInv, TypeOK, ThreadTypes
<1>2. CASE UNCHANGED vars
  BY <1>1, <1>2 DEF ThreadTypes, vars
<1>3. ASSUME NEW t \in Threads, Publish(t) \/ List(t)
      PROVE  ThreadTypes'
  <2>1. \E a \in Args : args' = [args EXCEPT ![t] = a]
    <3>1. CASE Publish(t)
      BY <3>1, RegistryAssumption DEF Publish
    <3>2. CASE List(t)
      <4>1. PICK n \in PackageNames, include \in BOOLEAN :
              args' = [args EXCEPT ![t].package = n, ![t].include_yanked = include]
        BY <3>2 DEF List
      <4>. DEFINE a == [args[t] EXCEPT !.package = n, !.include_yanked = include]
      <4>2. a \in Args
        BY <1>1 DEF ThreadTypes, Args
      <4>3. args' = [args EXCEPT ![t] = a]
        BY <1>1, <4>1 DEF ThreadTypes
      <4>. QED
        BY <4>2, <4>3
    <3>. QED
      BY <1>3, <3>1, <3>2
  <2>2. args' \in [Threads -> Args] /\ alone' \in BOOLEAN
    BY <1>1, <1>3, <2>1 DEF Publish, List, ThreadTypes
  <2>3. /\ \E there \in Location : pc' = [pc EXCEPT ![t] = there]
        /\ pubId' \in {pubId, [pubId EXCEPT ![t] = NoId]}
        /\ pkgId' \in {pkgId, [pkgId EXCEPT ![t] = NoId]}
        /\ readId' = [readId EXCEPT ![t] = NoId]
    BY <1>3 DEF Publish, List, Goto, Location
  <2>. QED
    BY <1>1, <2>2, <2>3 DEF ThreadTypes
<1>4. ASSUME NEW t \in Threads, PublisherByName(t) \/ PackageByName(t) \/ ReadPackage(t) \/ ListPackage(t)
      PROVE  ThreadTypes'
  <2>1. /\ PublisherHits(args[t].publisher) # {} => publishers[FirstOf(PublisherHits(args[t].publisher))].id \in Id
        /\ PackageHits(args[t].package) # {} => packages[FirstOf(PackageHits(args[t].package))].id \in Id
    BY FoundIsRow DEF RowsInv
  <2>2. CASE PublisherByName(t)
    BY <1>1, <2>1, <2>2 DEF PublisherByName, Goto, ThreadTypes, Location
  <2>3. CASE PackageByName(t)
    BY <1>1, <2>1, <2>3 DEF PackageByName, Goto, ThreadTypes, Location
  <2>4. CASE ReadPackage(t)
    BY <1>1, <2>1, <2>4 DEF ReadPackage, Finish, Goto, ThreadTypes, Location
  <2>5. CASE ListPackage(t)
    BY <1>1, <2>1, <2>5 DEF ListPackage, Finish, Goto, ThreadTypes, Location
  <2>. QED
    BY <1>4, <2>2, <2>3, <2>4, <2>5
<1>5. ASSUME NEW t \in Threads, Next, InsertPublisher(t) \/ InsertPackage(t)
      PROVE  ThreadTypes'
  <2>1. uuids + 1 \in Id
    BY <1>5, NextIdFits DEF InsertPublisher, InsertPackage, RowsInv
  <2>. QED
    BY <1>1, <1>5, <2>1 DEF InsertPublisher, InsertPackage, Goto, ThreadTypes, Location
<1>6. ASSUME NEW t \in Threads,
             \/ InsertVersion(t) \/ VersionRejected(t) \/ ReadVersions(t) \/ ListVersions(t)
             \/ InsertYanked(t) \/ AnswerRaises(t) \/ RaiseBefore(t) \/ RaiseAfter(t)
      PROVE  ThreadTypes'
  <2>1. /\ UNCHANGED <<alone, args, pubId, pkgId, readId>>
        /\ pc' = pc \/ \E there \in Location : Goto(t, there)
    BY <1>6 DEF InsertVersion, VersionRejected, ReadVersions, ListVersions, InsertYanked, AnswerRaises,
                RaiseBefore, RaiseAfter, Finish, Location
  <2>. QED
    BY <1>1, <2>1 DEF Goto, ThreadTypes
<1>. QED
  BY <1>2, <1>3, <1>4, <1>5, <1>6 DEF Next

LEMMA ResultsStay ==
  ASSUME RowsInv, [Next]_vars
  PROVE  /\ RunningHaveNoResult'
         /\ \A t \in Threads :
              \/ result'[t] \in {NoResult, Raised, ReadBackFailed}
              \/ result'[t].status = "ok" /\ result'[t].record \in Record
              \/ result'[t].status = "list" /\ \A i \in DOMAIN result'[t].records : result'[t].records[i] \in Record
<1>. DEFINE Fits(res) ==
              \/ res \in {NoResult, Raised, ReadBackFailed}
              \/ res.status = "ok" /\ res.record \in Record
              \/ res.status = "list" /\ \A i \in DOMAIN res.records : res.records[i] \in Record
<1>1. /\ pc \in [Threads -> Location] /\ result = [t \in Threads |-> result[t]]
      /\ \A t \in Threads : Fits(result[t]) /\ (pc[t] # "idle" => result[t] = NoResult)
  BY DEF RowsInv, TypeOK, RunningHaveNoResult
<1>. HIDE DEF Fits
<1>2. CASE UNCHANGED vars
  <2>1. \A t \in Threads : Fits(result'[t])
    BY <1>1, <1>2 DEF vars
  <2>. QED
    BY <1>1, <1>2, <2>1 DEF Fits, vars, RunningHaveNoResult
<1>3. ASSUME NEW t \in Threads, NEW res, NEW there \in Location, Fits(res),
             result' = [result EXCEPT ![t] = res], Goto(t, there), there = "idle" \/ res = NoResult
      PROVE  RunningHaveNoResult' /\ \A o \in Threads : Fits(result'[o])
  BY <1>1, <1>3 DEF Goto, RunningHaveNoResult
<1>4. Fits(NoResult) /\ Fits(Raised) /\ Fits(ReadBackFailed) /\ Fits(Listed(<< >>))
  BY DEF Fits, Listed
<1>5. ASSUME NEW t \in Threads, Publish(t) \/ List(t)
      PROVE  RunningHaveNoResult' /\ \A o \in Threads : Fits(result'[o])
  <2>1. \E there \in Location : result' = [result EXCEPT ![t] = NoResult] /\ Goto(t, there)
    BY <1>5 DEF Publish, List, Location
  <2>. QED
    BY <1>3, <1>4, <2>1
<1>6. ASSUME NEW t \in Threads,
             PublisherByName(t) \/ InsertPublisher(t) \/ PackageByName(t) \/ InsertPackage(t) \/ InsertVersion(t)
      PROVE  RunningHaveNoResult' /\ \A o \in Threads : Fits(result'[o])
  <2>1. pc[t] # "idle" /\ result' = result /\ \A o \in Threads \ {t} : pc'[o] = pc[o]
    BY <1>1, <1>6 DEF PublisherByName, InsertPublisher, PackageByName, InsertPackage, InsertVersion, Goto
  <2>. QED
    BY <1>1, <2>1 DEF RunningHaveNoResult
<1>7. ASSUME NEW t \in Threads, VersionRejected(t) \/ AnswerRaises(t) \/ RaiseBefore(t) \/ RaiseAfter(t)
      PROVE  RunningHaveNoResult' /\ \A o \in Threads : Fits(result'[o])
  <2>1. result' = [result EXCEPT ![t] = Raised] /\ Goto(t, "idle") /\ "idle" \in Location
    BY <1>7 DEF VersionRejected, AnswerRaises, RaiseBefore, RaiseAfter, Finish, Location
  <2>. QED
    BY <1>3, <1>4, <2>1
<1>8. ASSUME NEW t \in Threads, ReadPackage(t) \/ ListPackage(t)
      PROVE  RunningHaveNoResult' /\ \A o \in Threads : Fits(result'[o])
  <2>1. CASE UNCHANGED result
    <3>1. pc[t] # "idle" /\ \A o \in Threads \ {t} : pc'[o] = pc[o]
      BY <1>1, <1>8 DEF ReadPackage, ListPackage, Finish, Goto
    <3>. QED
      BY <1>1, <2>1, <3>1 DEF RunningHaveNoResult
  <2>2. CASE Finish(t, ReadBackFailed) \/ Finish(t, Listed(<< >>))
    BY <1>3, <1>4, <2>2 DEF Finish, Location
  <2>. QED
    BY <1>8, <2>1, <2>2 DEF ReadPackage, ListPackage
<1>9. ASSUME NEW t \in Threads, ReadVersions(t)
      PROVE  RunningHaveNoResult' /\ \A o \in Threads : Fits(result'[o])
  <2>. DEFINE hits == VersionHits(readId[t], args[t].version)
  <2>1. hits \subseteq VersionRows(readId[t]) /\ hits \subseteq Nat
    BY DEF VersionHits, VersionRows
  <2>2. readId[t] \in Id /\ ~ VersionsGarbled(readId[t])
    BY <1>9 DEF ReadVersions, RowsInv, IdsAreOfRows, AnswerGarbled
  <2>3. ASSUME hits # {}
        PROVE  Fits(Returned(RecordOf(versions[FirstOf(hits)], readId[t])))
    <3>1. FirstOf(hits) \in VersionRows(readId[t])
      BY <2>1, <2>3, FirstIsLeast
    <3>2. RecordOf(versions[FirstOf(hits)], readId[t]) \in Record
      BY <2>2, <3>1, RecordFits DEF RowsInv
    <3>. QED
      BY <3>2 DEF Fits, Returned
  <2>4. \E res : Finish(t, res) /\ Fits(res)
    BY <1>4, <1>9, <2>3 DEF ReadVersions
  <2>. QED
    BY <1>3, <2>4 DEF Finish, Location
<1>10. ASSUME NEW t \in Threads, ListVersions(t)
      PROVE  RunningHaveNoResult' /\ \A o \in Threads : Fits(result'[o])
  <2>. DEFINE rows == {i \in VersionRows(readId[t]) : versions[i].yanked => args[t].include_yanked}
              recs == [i \in rows |-> RecordOf(versions[i], NoId)]
  <2>0. ~ VersionsGarbled(readId[t])
    BY <1>10 DEF ListVersions, AnswerGarbled
  <2>1. \A i \in DOMAIN recs : recs[i] \in Record
    BY <2>0, RecordFits DEF RowsInv
  <2>2. Finish(t, Listed(recs))
    BY <1>10 DEF ListVersions
  <2>3. Fits(Listed(recs))
    BY <2>1 DEF Fits, Listed
  <2>. QED
    BY <1>3, <2>2, <2>3 DEF Finish, Location
<1>11. ASSUME NEW t \in Threads, InsertYanked(t)
      PROVE  RunningHaveNoResult' /\ \A o \in Threads : Fits(result'[o])
  <2>1. UNCHANGED <<pc, result>>
    BY <1>11 DEF InsertYanked
  <2>. QED
    BY <1>1, <2>1 DEF RunningHaveNoResult
<1>12. CASE Next
  <2>1. RunningHaveNoResult' /\ \A o \in Threads : Fits(result'[o])
    BY <1>5, <1>6, <1>7, <1>8, <1>9, <1>10, <1>11, <1>12 DEF Next
  <2>. QED
    BY <2>1 DEF Fits
<1>. QED
  BY <1>2, <1>12

\* Rows that were there are still there.
LEMMA IdsStayThoseOfRows ==
  ASSUME RowsInv, ThreadTypes', [Next]_vars
  PROVE  IdsAreOfRows'
<1>0. Grows(publishers, publishers') /\ Grows(packages, packages')
  BY RowsAreAppended
<1>1. \A id : (\E i \in 1..Len(publishers) : publishers[i].id = id)
                => \E i \in 1..Len(publishers') : publishers'[i].id = id
  BY <1>0 DEF Grows
<1>2. \A id : (\E i \in 1..Len(packages) : packages[i].id = id)
                => \E i \in 1..Len(packages') : packages'[i].id = id
  BY <1>0 DEF Grows
<1>. DEFINE Held(t) ==
              /\ pc[t] \in HasPublisher => \E i \in 1..Len(publishers) : publishers[i].id = pubId[t]
              /\ pc[t] \in HasPackage => \E i \in 1..Len(packages) : packages[i].id = pkgId[t]
              /\ pc[t] \in {"read_versions", "list_versions"} => readId[t] \in Id
<1>3. \A t \in Threads : Held(t)
  BY DEF RowsInv, IdsAreOfRows
<1>4. ASSUME NEW t \in Threads,
             pc'[t] = pc[t], args'[t] = args[t], pubId'[t] = pubId[t], pkgId'[t] = pkgId[t], readId'[t] = readId[t]
      PROVE  Held(t)'
  <2>1. pc'[t] \in HasPublisher => \E i \in 1..Len(publishers') : publishers'[i].id = pubId'[t]
    BY <1>1, <1>3, <1>4
  <2>2. pc'[t] \in HasPackage => \E i \in 1..Len(packages') : packages'[i].id = pkgId'[t]
    BY <1>2, <1>3, <1>4
  <2>3. pc'[t] \in {"read_versions", "list_versions"} => readId'[t] \in Id
    BY <1>3, <1>4
  <2>. QED
    BY <2>1, <2>2, <2>3
<1>5. CASE UNCHANGED vars
  BY <1>4, <1>5 DEF vars, IdsAreOfRows
<1>6. ASSUME NEW t \in Threads,
             \/ Publish(t) \/ List(t) \/ VersionRejected(t) \/ ReadVersions(t) \/ ListVersions(t)
             \/ InsertYanked(t) \/ AnswerRaises(t) \/ RaiseBefore(t) \/ RaiseAfter(t)
      PROVE  Held(t)'
  <2>1. pc'[t] \in {"idle", "publisher_by_name", "list_package"}
    BY <1>6 DEF Publish, List, VersionRejected, ReadVersions, ListVersions, InsertYanked, AnswerRaises,
                RaiseBefore, RaiseAfter, Finish, Goto,
                RowsInv, TypeOK
  <2>. QED
    BY <2>1 DEF HasPublisher, HasPackage
<1>7. ASSUME NEW t \in Threads, PublisherByName(t)
      PROVE  Held(t)'
  <2>. DEFINE hits == PublisherHits(args[t].publisher)
  <2>1. CASE hits = {}
    BY <1>7, <2>1 DEF PublisherByName, Goto, RowsInv, TypeOK, HasPublisher, HasPackage
  <2>2. CASE hits # {}
    <3>1. FirstOf(hits) \in 1..Len(publishers)
      BY <2>2, FoundIsRow DEF RowsInv, PublisherHits
    <3>2. pc'[t] = "package_by_name" /\ pubId'[t] = publishers[FirstOf(hits)].id /\ publishers' = publishers
      BY <1>7, <2>2 DEF PublisherByName, Goto, RowsInv, TypeOK, tables
    <3>. QED
      BY <3>1, <3>2 DEF HasPublisher, HasPackage
  <2>. QED
    BY <2>1, <2>2
<1>8. ASSUME NEW t \in Threads, InsertPublisher(t)
      PROVE  Held(t)'
  <2>1. /\ pc'[t] = "package_by_name" /\ pubId'[t] = uuids + 1
        /\ publishers' = Append(publishers, [id |-> uuids + 1, name |-> Stored(args[t].publisher)])
    BY <1>8 DEF InsertPublisher, Goto, RowsInv, TypeOK
  <2>2. /\ Len(publishers') = Len(publishers) + 1
        /\ publishers'[Len(publishers) + 1] = [id |-> uuids + 1, name |-> Stored(args[t].publisher)]
    BY <2>1 DEF RowsInv, TypeOK
  <2>3. Len(publishers) + 1 \in 1..Len(publishers')
    BY <1>0, <2>2 DEF Grows
  <2>. QED
    BY <2>1, <2>2, <2>3 DEF HasPublisher, HasPackage
<1>9. ASSUME NEW t \in Threads, PackageByName(t)
      PROVE  Held(t)'
  <2>. DEFINE hits == PackageHits(args[t].package)
  <2>0. \E i \in 1..Len(publishers) : publishers[i].id = pubId[t]
    BY <1>3, <1>9 DEF PackageByName, HasPublisher
  <2>1. CASE hits = {}
    <3>1. pc'[t] = "insert_package" /\ pubId' = pubId /\ publishers' = publishers
      BY <1>9, <2>1 DEF PackageByName, Goto, RowsInv, TypeOK, tables
    <3>. QED
      BY <2>0, <3>1 DEF HasPublisher, HasPackage
  <2>2. CASE hits # {}
    <3>1. FirstOf(hits) \in 1..Len(packages)
      BY <2>2, FoundIsRow DEF RowsInv, PackageHits
    <3>2. /\ pc'[t] = "insert_version" /\ pkgId'[t] = packages[FirstOf(hits)].id
          /\ packages' = packages /\ pubId' = pubId /\ publishers' = publishers /\ args' = args
      BY <1>9, <2>2 DEF PackageByName, Goto, RowsInv, TypeOK, tables
    <3>. QED
      BY <2>0, <3>1, <3>2 DEF HasPublisher, HasPackage
  <2>. QED
    BY <2>1, <2>2
<1>10. ASSUME NEW t \in Threads, InsertPackage(t)
      PROVE  Held(t)'
  <2>0. \E i \in 1..Len(publishers) : publishers[i].id = pubId[t]
    BY <1>3, <1>10 DEF InsertPackage, HasPublisher
  <2>1. /\ pc'[t] = "insert_version" /\ pkgId'[t] = uuids + 1
        /\ pubId' = pubId /\ publishers' = publishers /\ args' = args
        /\ packages' = Append(packages, [id |-> uuids + 1, name |-> Stored(args[t].package)])
    BY <1>10 DEF InsertPackage, Goto, RowsInv, TypeOK
  <2>2. /\ Len(packages') = Len(packages) + 1
        /\ packages'[Len(packages) + 1] = [id |-> uuids + 1, name |-> Stored(args[t].package)]
    BY <2>1 DEF RowsInv, TypeOK
  <2>3. Len(packages) + 1 \in 1..Len(packages')
    BY <1>0, <2>2 DEF Grows
  <2>. QED
    BY <2>0, <2>1, <2>2, <2>3 DEF HasPublisher, HasPackage
<1>11. ASSUME NEW t \in Threads, InsertVersion(t)
      PROVE  Held(t)'
  <2>1. /\ pc[t] = "insert_version" /\ pc'[t] = "read_package" /\ UNCHANGED <<pubId, pkgId, args, publishers, packages>>
    BY <1>11 DEF InsertVersion, Goto, RowsInv, TypeOK
  <2>. QED
    BY <1>3, <2>1 DEF HasPublisher, HasPackage
<1>12. ASSUME NEW t \in Threads, ReadPackage(t) \/ ListPackage(t)
      PROVE  Held(t)'
  <2>. DEFINE hits == PackageHits(args[t].package)
  <2>1. hits # {} => packages[FirstOf(hits)].id \in Id
    BY FoundIsRow DEF RowsInv
  <2>2. UNCHANGED <<pubId, pkgId, args, publishers, packages>>
    BY <1>12 DEF ReadPackage, ListPackage, tables
  <2>3. \/ pc'[t] = "idle"
        \/ pc[t] = "read_package" /\ pc'[t] = "read_versions" /\ readId'[t] = packages[FirstOf(hits)].id /\ hits # {}
        \/ pc[t] = "list_package" /\ pc'[t] = "list_versions" /\ readId'[t] = packages[FirstOf(hits)].id /\ hits # {}
    <3>1. CASE ReadPackage(t)
      BY <3>1 DEF ReadPackage, Finish, Goto, RowsInv, TypeOK
    <3>2. CASE ListPackage(t)
      BY <3>2 DEF ListPackage, Finish, Goto, RowsInv, TypeOK
    <3>. QED
      BY <1>12, <3>1, <3>2
  <2>. QED
    BY <1>3, <2>1, <2>2, <2>3 DEF HasPublisher, HasPackage
<1>13. ASSUME NEW t \in Threads, NEW o \in Threads \ {t},
             \/ Publish(t) \/ PublisherByName(t) \/ InsertPublisher(t) \/ PackageByName(t) \/ InsertPackage(t)
             \/ InsertVersion(t) \/ VersionRejected(t) \/ ReadPackage(t) \/ ReadVersions(t)
             \/ List(t) \/ ListPackage(t) \/ ListVersions(t) \/ InsertYanked(t)
             \/ AnswerRaises(t) \/ RaiseBefore(t) \/ RaiseAfter(t)
      PROVE  Held(o)'
  <2>1. /\ pc'[o] = pc[o] /\ args'[o] = args[o]
        /\ pubId'[o] = pubId[o] /\ pkgId'[o] = pkgId[o] /\ readId'[o] = readId[o]
    BY <1>13, OthersStay
  <2>. QED
    BY <1>4, <2>1
<1>. HIDE DEF Held
<1>14. CASE Next
  <2>1. \A o \in Threads : Held(o)'
    BY <1>6, <1>7, <1>8, <1>9, <1>10, <1>11, <1>12, <1>13, <1>14 DEF Next
  <2>. QED
    BY <2>1 DEF Held, IdsAreOfRows
<1>. QED
  BY <1>5, <1>14

\* A row that names rows keeps doing so; a new version names those its publish holds.
LEMMA ReferencesStay ==
  ASSUME RowsInv, [Next]_vars
  PROVE  ReferencesResolve'
<1>0. Grows(publishers, publishers') /\ Grows(packages, packages') /\ Grows(versions, versions')
  BY RowsAreAppended
<1>1. \A id : (\E i \in 1..Len(publishers) : publishers[i].id = id)
                => \E i \in 1..Len(publishers') : publishers'[i].id = id
  BY <1>0 DEF Grows
<1>2. \A id : (\E i \in 1..Len(packages) : packages[i].id = id)
                => \E i \in 1..Len(packages') : packages'[i].id = id
  BY <1>0 DEF Grows
<1>3. \A row : Refers(row) => Refers(row)'
  BY <1>1, <1>2 DEF Refers
<1>4. \A i \in 1..Len(versions) : Refers(versions[i])
  BY DEF RowsInv, ReferencesResolve, Refers
<1>5. CASE UNCHANGED versions
  <2>1. ASSUME NEW i \in 1..Len(versions')
        PROVE  \E r : r = versions'[i] /\ Refers(r)'
    BY <1>3, <1>4, <1>5
  <2>. QED
    BY <2>1 DEF ReferencesResolve, Refers
<1>6. CASE Next /\ versions' # versions
  <2>1. PICK row \in VersionRow : Refers(row) /\ versions' = Append(versions, row)
    BY <1>6, VersionIsAppended DEF RowsInv
  <2>2. versions \in Seq(VersionRow)
    BY DEF RowsInv, TypeOK
  <2>3. \A i \in 1..Len(versions') : versions'[i] = row \/ (i \in 1..Len(versions) /\ versions'[i] = versions[i])
    BY <2>1, <2>2
  <2>4. ASSUME NEW i \in 1..Len(versions')
        PROVE  \E r : r = versions'[i] /\ Refers(r)'
    BY <1>3, <1>4, <2>1, <2>3
  <2>. QED
    BY <2>4 DEF ReferencesResolve, Refers
<1>. QED
  BY <1>5, <1>6 DEF vars, tables

LEMMA RowsInvInitially ==
  ASSUME Init
  PROVE  RowsInv
<1>1. MaxCalls \in Nat /\ Publications # {} /\ Publications \subseteq Args
  BY RegistryAssumption
<1>2. (CHOOSE a \in Publications : TRUE) \in Args
  BY <1>1
<1>. DEFINE first == CHOOSE a \in Publications : TRUE
<1>3. args = [t \in Threads |-> first] /\ first \in Args
  BY <1>2 DEF Init
<1>. HIDE DEF first
<1>4. args \in [Threads -> Args]
  BY <1>3
<1>5. /\ publishers = << >> /\ packages = << >> /\ versions = << >> /\ uuids = 0 /\ calls = 0 /\ alone = TRUE
      /\ pc = [t \in Threads |-> "idle"] /\ pubId = [t \in Threads |-> NoId] /\ pkgId = [t \in Threads |-> NoId]
      /\ readId = [t \in Threads |-> NoId] /\ result = [t \in Threads |-> NoResult]
  BY DEF Init
<1>6. TypeOK
  BY <1>1, <1>4, <1>5 DEF TypeOK, Location
<1>7. ToDraw = {}
  BY <1>5 DEF ToDraw, Draws
<1>8. IdsSuffice
  BY <1>5, <1>7, FS_EmptySet DEF IdsSuffice
<1>9. IdsAreOfRows /\ ReferencesResolve /\ RunningHaveNoResult
  BY <1>5 DEF IdsAreOfRows, ReferencesResolve, RunningHaveNoResult, HasPublisher, HasPackage
<1>. QED
  BY <1>6, <1>8, <1>9 DEF RowsInv

LEMMA RowsInvStep ==
  ASSUME RowsInv, [Next]_vars
  PROVE  RowsInv'
<1>1. ThreadTypes' /\ IdsAreOfRows'
  BY ThreadTypesStay, IdsStayThoseOfRows
<1>2. IdsSuffice' /\ uuids' \in Nat /\ uuids' <= 3 * calls' /\ calls' \in Nat /\ calls' <= MaxCalls
  BY IdsStaySufficient DEF RowsInv
<1>3. calls' \in 0..MaxCalls /\ uuids' \in 0..(3 * MaxCalls)
  <2>1. ASSUME NEW u \in Nat, NEW c \in Nat, NEW m \in Nat, u <= 3 * c, c <= m
        PROVE  c \in 0..m /\ u \in 0..(3 * m)
    BY <2>1
  <2>. QED
    BY <1>2, <2>1, RegistryAssumption
<1>4. TypeOK'
  BY <1>1, <1>3, RowsAreAppended, ResultsStay DEF TypeOK, ThreadTypes, Table
<1>. QED
  BY <1>1, <1>2, <1>4, ReferencesStay, ResultsStay DEF RowsInv

LEMMA RowsInvariant == Spec => []RowsInv
<1>1. Init => RowsInv
  BY RowsInvInitially
<1>2. RowsInv /\ [Next]_vars => RowsInv'
  BY RowsInvStep
<1>. QED
  BY <1>1, <1>2, PTL DEF Spec

(* The types of the registry's state, for any number of calls: no call     *)
(* draws more than three ids, and the ids that an insert puts into a       *)
(* version are ids that were drawn (publish_package_version).              *)
THEOREM TypeCorrect == Spec => []TypeOK
<1>1. RowsInv => TypeOK
  BY DEF RowsInv
<1>. QED
  BY <1>1, RowsInvariant, PTL

(* Every version names a package and a publisher that exist, although the  *)
(* engine checks no reference and calls may stop between any two           *)
(* statements (publish_package_version inserts in this order).             *)
THEOREM ReferencesAlwaysResolve == Spec => []ReferencesResolve
<1>1. RowsInv => ReferencesResolve
  BY DEF RowsInv
<1>. QED
  BY <1>1, RowsInvariant, PTL

-----------------------------------------------------------------------------
(* What was resolved stays.                                                *)

\* A row that is appended is none of the hits there were before.
LEMMA PackageHitsGrow ==
  ASSUME RowsInv, [Next]_vars, NEW name, PackageHits(name) # {}
  PROVE  /\ FirstOf(PackageHits(name)') = FirstOf(PackageHits(name))
         /\ PackageHits(name)' # {}
         /\ FirstOf(PackageHits(name)) \in 1..Len(packages)
<1>. DEFINE before == PackageHits(name)
            after == PackageHits(name)'
<1>1. Grows(packages, packages')
  BY RowsAreAppended
<1>2. before \subseteq after /\ after \subseteq Nat /\ before \subseteq 1..Len(packages)
  BY <1>1 DEF Grows, PackageHits
<1>3. \A i \in before, j \in after \ before : i < j
  BY <1>1 DEF Grows, PackageHits
<1>4. before # {}
  OBVIOUS
<1>. HIDE DEF before, after
<1>5. FirstOf(after) = FirstOf(before) /\ FirstOf(before) \in before
  BY <1>2, <1>3, <1>4, FirstStays, FirstIsLeast
<1>. QED
  BY <1>2, <1>4, <1>5 DEF before, after

LEMMA VersionHitsGrow ==
  ASSUME RowsInv, [Next]_vars, NEW pkg, NEW version, VersionHits(pkg, version) # {}
  PROVE  /\ FirstOf(VersionHits(pkg, version)') = FirstOf(VersionHits(pkg, version))
         /\ VersionHits(pkg, version)' # {}
         /\ FirstOf(VersionHits(pkg, version)) \in 1..Len(versions)
<1>. DEFINE before == VersionHits(pkg, version)
            after == VersionHits(pkg, version)'
<1>1. Grows(versions, versions')
  BY RowsAreAppended
<1>2. before \subseteq after /\ after \subseteq Nat /\ before \subseteq 1..Len(versions)
  BY <1>1 DEF Grows, VersionHits, VersionRows
<1>3. \A i \in before, j \in after \ before : i < j
  BY <1>1 DEF Grows, VersionHits, VersionRows
<1>4. before # {}
  OBVIOUS
<1>. HIDE DEF before, after
<1>5. FirstOf(after) = FirstOf(before) /\ FirstOf(before) \in before
  BY <1>2, <1>3, <1>4, FirstStays, FirstIsLeast
<1>. QED
  BY <1>2, <1>4, <1>5 DEF before, after

LEMMA ResolvedStays ==
  ASSUME RowsInv, [Next]_vars, NEW n, NEW v, ~ ResolveRaises(n)'
  PROVE  Resolve(n, v) \subseteq Resolve(n, v)'
<1>1. CASE PackageHits(n) = {} \/ ResolveRaises(n)
  BY <1>1 DEF Resolve
<1>2. CASE PackageHits(n) # {} /\ ~ ResolveRaises(n)
  <2>. DEFINE p == FirstOf(PackageHits(n))
              id == packages[p].id
              q == FirstOf(VersionHits(id, v))
  <2>1. FirstOf(PackageHits(n)') = p /\ PackageHits(n)' # {} /\ p \in 1..Len(packages)
    BY <1>2, PackageHitsGrow
  <2>2. packages'[p] = packages[p]
    BY <2>1, RowsAreAppended DEF Grows
  <2>3. CASE VersionHits(id, v) = {}
    BY <1>2, <2>3 DEF Resolve
  <2>4. ASSUME VersionHits(id, v) # {}
        PROVE  Resolve(n, v) \subseteq Resolve(n, v)'
    <3>1. \E pkg : pkg = id /\ FirstOf(VersionHits(pkg, v)') = q /\ VersionHits(pkg, v)' # {} /\ q \in 1..Len(versions)
      BY <2>4, VersionHitsGrow
    <3>2. versions'[q] = versions[q]
      BY <3>1, RowsAreAppended DEF Grows
    <3>3. PICK pkg : pkg = id /\ FirstOf(VersionHits(pkg, v)') = q /\ VersionHits(pkg, v)' # {}
      BY <3>1
    <3>4. packages'[FirstOf(PackageHits(n)')].id = pkg
      BY <2>1, <2>2, <3>3
    <3>5. VersionHits(packages[FirstOf(PackageHits(n))].id, v)' = VersionHits(pkg, v)'
      BY <3>4 DEF VersionHits, VersionRows
    <3>6. Resolve(n, v)' = {versions'[q]}
      BY <2>1, <3>3, <3>5 DEF Resolve
    <3>7. Resolve(n, v) = {versions[q]}
      BY <1>2, <2>4 DEF Resolve
    <3>. QED
      BY <3>2, <3>6, <3>7
  <2>. QED
    BY <2>3, <2>4
<1>. QED
  BY <1>1, <1>2

(* Once readers were given a record for a name and version they are never  *)
(* given another one, whatever is raced, repeated or half done: rows are   *)
(* only appended and a reader takes the first (get_package_version).       *)
THEOREM RecordsAreFinal == Spec => ResolvedRecordsAreFinal
<1>1. RowsInv /\ [Next]_vars =>
        [tables' # tables =>
           \A n \in PackageNames : ~ ResolveRaises(n)' =>
             \A v \in Versions : Resolve(n, v) \subseteq Resolve(n, v)']_vars
  BY ResolvedStays
<1>. QED
  BY <1>1, RowsInvariant, PTL DEF Spec, ResolvedRecordsAreFinal

-----------------------------------------------------------------------------
(* Until two publishes overlap.                                            *)

Step(t) ==
  \/ Publish(t) \/ PublisherByName(t) \/ InsertPublisher(t) \/ PackageByName(t) \/ InsertPackage(t)
  \/ InsertVersion(t) \/ VersionRejected(t) \/ ReadPackage(t) \/ ReadVersions(t)
  \/ List(t) \/ ListPackage(t) \/ ListVersions(t) \/ InsertYanked(t)
  \/ AnswerRaises(t) \/ RaiseBefore(t) \/ RaiseAfter(t)

LEMMA StepsOfThreads == Next <=> \E t \in Threads : Step(t)
BY DEF Next, Step

LEMMA OthersKeepTheirs ==
  ASSUME RowsInv, NEW t \in Threads, Step(t)
  PROVE  \A o \in Threads \ {t} :
           /\ pc'[o] = pc[o] /\ args'[o] = args[o] /\ result'[o] = result[o]
           /\ pubId'[o] = pubId[o] /\ pkgId'[o] = pkgId[o] /\ readId'[o] = readId[o]
BY OthersStay DEF Step

\* A thread that publishes is the only one.
LEMMA LoneStep ==
  ASSUME RowsInv, OneAtATime, NEW t \in Threads, Step(t), alone'
  PROVE  /\ alone
         /\ (pc[t] \in Publishing \/ pc'[t] \in Publishing) => \A o \in Threads \ {t} : pc[o] \notin Publishing
<1>1. pc \in [Threads -> Location]
  BY DEF RowsInv, TypeOK
<1>2. CASE Publish(t)
  <2>1. alone /\ (\A o \in Threads : pc[o] \notin Publishing)
    BY <1>2 DEF Publish
  <2>. QED
    BY <2>1
<1>3. CASE ~ Publish(t)
  <2>1. alone' = alone
    BY <1>3 DEF Step, PublisherByName, InsertPublisher, PackageByName, InsertPackage, InsertVersion, VersionRejected,
                ReadPackage, ReadVersions, List, ListPackage, ListVersions, InsertYanked, AnswerRaises,
                RaiseBefore, RaiseAfter
  <2>2. pc'[t] \in Publishing => pc[t] \in Publishing
    <3>1. CASE PublisherByName(t) \/ InsertPublisher(t) \/ PackageByName(t) \/ InsertPackage(t) \/ InsertVersion(t)
      BY <3>1 DEF PublisherByName, InsertPublisher, PackageByName, InsertPackage, InsertVersion, Publishing, Location
    <3>2. CASE \/ VersionRejected(t) \/ ReadVersions(t) \/ ListVersions(t) \/ InsertYanked(t)
               \/ AnswerRaises(t) \/ RaiseBefore(t) \/ RaiseAfter(t)
      <4>1. pc'[t] = "idle"
        BY <1>1, <3>2 DEF VersionRejected, ReadVersions, ListVersions, InsertYanked, AnswerRaises, RaiseBefore,
                          RaiseAfter, Finish, Goto
      <4>. QED
        BY <4>1 DEF Publishing
    <3>3. CASE ReadPackage(t) \/ List(t) \/ ListPackage(t)
      <4>1. pc[t] = "read_package" \/ pc'[t] \in {"idle", "list_package", "list_versions"}
        BY <1>1, <3>3 DEF ReadPackage, List, ListPackage, Finish, Goto
      <4>. QED
        BY <4>1 DEF Publishing, Location
    <3>. QED
      BY <1>3, <3>1, <3>2, <3>3 DEF Step
  <2>3. alone
    BY <2>1
  <2>4. pc[t] \in Publishing => \A o \in Threads \ {t} : pc[o] \notin Publishing
    BY <2>3 DEF OneAtATime
  <2>. QED
    BY <2>2, <2>3, <2>4
<1>. QED
  BY <1>2, <1>3

LEMMA OneStaysAlone ==
  ASSUME RowsInv, OneAtATime, NEW t \in Threads, Step(t), alone'
  PROVE  \A o, p \in Threads : pc'[o] \in Publishing /\ pc'[p] \in Publishing => o = p
BY LoneStep, OthersKeepTheirs DEF OneAtATime

\* Only a publish writes packages and publishers.
LEMMA QuietTables ==
  ASSUME NEW t \in Threads, Step(t), pc[t] \notin Publishing
  PROVE  UNCHANGED <<publishers, packages>>
BY DEF Step, Publish, PublisherByName, InsertPublisher, PackageByName, InsertPackage, InsertVersion,
       VersionRejected, ReadPackage, ReadVersions, List, ListPackage, ListVersions, InsertYanked, AnswerRaises,
       RaiseBefore, RaiseAfter, Publishing, Location, tables

\* A lookup by name that finds nothing precedes each insert of the name.
LEMMA InsertsStayNew ==
  ASSUME RowsInv, LoneInv, NEW t \in Threads, Step(t), alone'
  PROVE  \A o \in Threads :
           /\ pc'[o] = "insert_publisher" => PublisherHits(args[o].publisher)' = {}
           /\ pc'[o] = "insert_package" => PackageHits(args[o].package)' = {}
<1>0. alone /\ pc \in [Threads -> Location]
  BY LoneStep DEF RowsInv, TypeOK, LoneInv
<1>1. ASSUME NEW o \in Threads \ {t}, pc'[o] \in {"insert_publisher", "insert_package"}
      PROVE  /\ pc'[o] = "insert_publisher" => PublisherHits(args[o].publisher)' = {}
             /\ pc'[o] = "insert_package" => PackageHits(args[o].package)' = {}
  <2>1. pc[o] = pc'[o] /\ args'[o] = args[o]
    BY OthersKeepTheirs
  <2>2. pc[o] \in Publishing
    BY <1>1, <2>1 DEF Publishing, Location
  <2>3. pc[t] \notin Publishing
    BY <2>2, LoneStep DEF LoneInv
  <2>5. publishers' = publishers /\ packages' = packages
    BY <2>3, QuietTables
  <2>. QED
    BY <1>0, <2>1, <2>5 DEF LoneInv, InsertsAreNew, PublisherHits, PackageHits
<1>2. CASE PublisherByName(t)
  <2>1. pc'[t] \in {"insert_publisher", "package_by_name"} /\ UNCHANGED <<args, tables>>
    BY <1>0, <1>2 DEF PublisherByName, Goto
  <2>2. pc'[t] = "insert_publisher" => PublisherHits(args[t].publisher) = {}
    BY <1>0, <1>2 DEF PublisherByName, Goto
  <2>3. PublisherHits(args[t].publisher)' = PublisherHits(args[t].publisher)
    BY <2>1 DEF PublisherHits, tables
  <2>. QED
    BY <1>1, <2>1, <2>2, <2>3
<1>3. CASE PackageByName(t)
  <2>1. pc'[t] \in {"insert_package", "insert_version"} /\ UNCHANGED <<args, tables>>
    BY <1>0, <1>3 DEF PackageByName, Goto
  <2>2. pc'[t] = "insert_package" => PackageHits(args[t].package) = {}
    BY <1>0, <1>3 DEF PackageByName, Goto
  <2>3. PackageHits(args[t].package)' = PackageHits(args[t].package)
    BY <2>1 DEF PackageHits, tables
  <2>. QED
    BY <1>1, <2>1, <2>2, <2>3
<1>4. CASE ~ (PublisherByName(t) \/ PackageByName(t))
  <2>1. pc'[t] \notin {"insert_publisher", "insert_package"}
    BY <1>0, <1>4 DEF Step, Publish, InsertPublisher, InsertPackage, InsertVersion, VersionRejected, ReadPackage,
                ReadVersions, List, ListPackage, ListVersions, InsertYanked, AnswerRaises, RaiseBefore, RaiseAfter,
                Finish, Goto
  <2>. QED
    BY <1>1, <2>1
<1>. QED
  BY <1>2, <1>3, <1>4

\* A table of names in which no name is twice, unless it is what is stored of one that is cut.
Distinct(rows, names) ==
  \A i, j \in 1..Len(rows) : rows[i].name = rows[j].name =>
    i = j \/ \E n \in names : Cut(n) /\ rows[i].name = Stored(n)

\* It stays so when a name is stored that the lookup did not find.
LEMMA StaysDistinct ==
  ASSUME NEW S, NEW rows \in Seq(S), NEW row, NEW names, NEW n \in names, Distinct(rows, names),
         row.name = Stored(n), \A i \in 1..Len(rows) : rows[i].name # Sent(n)
  PROVE  Distinct(Append(rows, row), names)
<1>. DEFINE new == Append(rows, row)
<1>1. \A i \in 1..Len(new) :
         (i \in 1..Len(rows) /\ new[i] = rows[i]) \/ (i = Len(rows) + 1 /\ new[i] = row)
  OBVIOUS
<1>. HIDE DEF new
<1>2. ASSUME NEW i \in 1..Len(new), NEW j \in 1..Len(new), new[i].name = new[j].name, i # j
      PROVE  \E m \in names : Cut(m) /\ new[i].name = Stored(m)
  <2>1. CASE new[i] = row \/ new[j] = row
    <3>1. new[i].name = Stored(n) /\ new[j].name = Stored(n)
      BY <1>2, <2>1
    <3>2. \E k \in 1..Len(rows) : rows[k].name = Stored(n)
      BY <1>1, <1>2, <3>1
    <3>3. Cut(n)
      BY <3>2 DEF Cut
    <3>. QED
      BY <3>1, <3>3
  <2>2. CASE new[i] # row /\ new[j] # row
    BY <1>1, <1>2, <2>2 DEF Distinct
  <2>. QED
    BY <2>1, <2>2
<1>3. Distinct(new, names)
  BY <1>2 DEF Distinct
<1>. QED
  BY <1>3 DEF new

\* So no name is inserted twice.
LEMMA NamesStayUnique ==
  ASSUME RowsInv, LoneInv, NEW t \in Threads, Step(t), alone'
  PROVE  NamesAreUnique'
<1>0. /\ alone
      /\ publishers \in Table(StoredOf(PublisherNames)) /\ packages \in Table(StoredOf(PackageNames))
  BY LoneStep DEF RowsInv, TypeOK, LoneInv, Table
<1>1. Distinct(packages, PackageNames) /\ Distinct(publishers, PublisherNames)
  BY <1>0 DEF LoneInv, NamesAreUnique, Distinct
<1>3. CASE pc[t] = "insert_publisher" /\ publishers' # publishers
  <2>1. /\ publishers' = Append(publishers, [id |-> uuids + 1, name |-> Stored(args[t].publisher)]) /\ packages' = packages
        /\ args[t].publisher \in PublisherNames
    BY <1>3 DEF Step, Publish, PublisherByName, InsertPublisher, PackageByName, InsertPackage, InsertVersion,
                VersionRejected, ReadPackage, ReadVersions, List, ListPackage, ListVersions, InsertYanked, AnswerRaises,
                RaiseBefore, RaiseAfter, tables, RowsInv, TypeOK, Args
  <2>2. \A i \in 1..Len(publishers) : publishers[i].name # Sent(args[t].publisher)
    BY <1>0, <1>3 DEF LoneInv, InsertsAreNew, PublisherHits
  <2>. DEFINE row == [id |-> uuids + 1, name |-> Stored(args[t].publisher)]
  <2>3. row.name = Stored(args[t].publisher)
    OBVIOUS
  <2>. HIDE DEF row
  <2>4. Distinct(Append(publishers, row), PublisherNames)
    BY <1>0, <1>1, <2>1, <2>2, <2>3, StaysDistinct DEF Table
  <2>5. publishers' = Append(publishers, row) /\ packages' = packages
    BY <2>1 DEF row
  <2>6. Distinct(publishers', PublisherNames) /\ Distinct(packages', PackageNames)
    BY <1>1, <2>4, <2>5
  <2>. QED
    BY <2>6 DEF NamesAreUnique, Distinct
<1>4. CASE pc[t] = "insert_package" /\ packages' # packages
  <2>1. /\ packages' = Append(packages, [id |-> uuids + 1, name |-> Stored(args[t].package)]) /\ publishers' = publishers
        /\ args[t].package \in PackageNames
    BY <1>4 DEF Step, Publish, PublisherByName, InsertPublisher, PackageByName, InsertPackage, InsertVersion,
                VersionRejected, ReadPackage, ReadVersions, List, ListPackage, ListVersions, InsertYanked, AnswerRaises,
                RaiseBefore, RaiseAfter, tables, RowsInv, TypeOK, Args
  <2>2. \A i \in 1..Len(packages) : packages[i].name # Sent(args[t].package)
    BY <1>0, <1>4 DEF LoneInv, InsertsAreNew, PackageHits
  <2>. DEFINE row == [id |-> uuids + 1, name |-> Stored(args[t].package)]
  <2>3. row.name = Stored(args[t].package)
    OBVIOUS
  <2>. HIDE DEF row
  <2>4. Distinct(Append(packages, row), PackageNames)
    BY <1>0, <1>1, <2>1, <2>2, <2>3, StaysDistinct DEF Table
  <2>5. packages' = Append(packages, row) /\ publishers' = publishers
    BY <2>1 DEF row
  <2>6. Distinct(packages', PackageNames) /\ Distinct(publishers', PublisherNames)
    BY <1>1, <2>4, <2>5
  <2>. QED
    BY <2>6 DEF NamesAreUnique, Distinct
<1>5. CASE UNCHANGED <<publishers, packages>>
  BY <1>1, <1>5 DEF NamesAreUnique, Distinct
<1>6. \/ pc[t] = "insert_publisher" /\ publishers' # publishers
      \/ pc[t] = "insert_package" /\ packages' # packages
      \/ UNCHANGED <<publishers, packages>>
  BY DEF Step, Publish, PublisherByName, InsertPublisher, PackageByName, InsertPackage, InsertVersion,
         VersionRejected, ReadPackage, ReadVersions, List, ListPackage, ListVersions, InsertYanked, AnswerRaises,
         RaiseBefore, RaiseAfter, tables
<1>. QED
  BY <1>3, <1>4, <1>5, <1>6

\* The rows of a publish that is under way or has returned.
LEMMA OwnRowStays ==
  ASSUME RowsInv, [Next]_vars, NEW t \in Threads, OwnRow(t), args'[t] = args[t], pkgId'[t] = pkgId[t]
  PROVE  OwnRow(t)'
BY RowsAreAppended DEF OwnRow, VersionRows, Grows

\* The package of a publish stays the first of its name.
LEMMA PackageStaysFirst ==
  ASSUME RowsInv, LoneInv, NEW t \in Threads, Step(t), alone'
  PROVE  \A o \in Threads : pc'[o] \in HasPackage =>
           IF PackageHits(args[o].package)' = {} THEN Cut(args'[o].package)
           ELSE pkgId'[o] = packages'[FirstOf(PackageHits(args[o].package)')].id
<1>. DEFINE Good(o) == IF PackageHits(args[o].package) = {} THEN Cut(args[o].package)
                       ELSE pkgId[o] = packages[FirstOf(PackageHits(args[o].package))].id
<1>0. /\ alone /\ pc \in [Threads -> Location] /\ pkgId \in [Threads -> Id \cup {NoId}]
      /\ packages \in Table(StoredOf(PackageNames))
  BY LoneStep DEF RowsInv, TypeOK, LoneInv, Table
<1>1. ASSUME NEW o \in Threads, args'[o] = args[o], packages' = packages, pkgId'[o] = pkgId[o], pc[o] \in HasPackage
      PROVE  Good(o)'
  <2>1. Good(o)
    BY <1>0, <1>1 DEF LoneInv, PackageIsFirst
  <2>2. PackageHits(args[o].package)' = PackageHits(args[o].package)
    BY <1>1 DEF PackageHits
  <2>. QED
    BY <1>1, <2>1, <2>2
<1>2. ASSUME NEW o \in Threads \ {t}, pc'[o] \in HasPackage
      PROVE  Good(o)'
  <2>1. pc[o] = pc'[o] /\ args'[o] = args[o] /\ pkgId'[o] = pkgId[o]
    BY OthersKeepTheirs
  <2>2. pc[o] \in Publishing
    BY <1>2, <2>1 DEF Publishing, Location, HasPackage
  <2>3. pc[t] \notin Publishing
    BY <2>2, LoneStep DEF LoneInv
  <2>4. packages' = packages
    BY <2>3, QuietTables
  <2>. QED
    BY <1>1, <1>2, <2>1, <2>4
<1>3. CASE PackageByName(t)
  <2>1. UNCHANGED <<args, packages>>
    BY <1>3 DEF PackageByName, tables
  <2>2. PackageHits(args[t].package)' = PackageHits(args[t].package)
    BY <2>1 DEF PackageHits
  <2>3. PackageHits(args[t].package) # {} => pkgId'[t] = packages[FirstOf(PackageHits(args[t].package))].id
    BY <1>0, <1>3 DEF PackageByName
  <2>4. PackageHits(args[t].package) = {} => pc'[t] \notin HasPackage
    BY <1>0, <1>3 DEF PackageByName, Goto, HasPackage
  <2>5. pc'[t] \in HasPackage => Good(t)'
    BY <2>1, <2>2, <2>3, <2>4
  <2>. QED
    BY <1>2, <2>5
<1>4. CASE InsertPackage(t)
  <2>1. /\ args' = args /\ pkgId'[t] = uuids + 1
        /\ packages' = Append(packages, [id |-> uuids + 1, name |-> Stored(args[t].package)])
        /\ PackageHits(args[t].package) = {}
    BY <1>0, <1>4 DEF InsertPackage, LoneInv, InsertsAreNew
  <2>2. /\ Len(packages) \in Nat /\ Len(packages') = Len(packages) + 1
        /\ packages'[Len(packages) + 1].name = Stored(args[t].package)
        /\ packages'[Len(packages) + 1].id = uuids + 1
        /\ \A i \in 1..Len(packages) : packages'[i] = packages[i]
    BY <1>0, <2>1 DEF Table
  <2>3. PackageHits(args[t].package)' \subseteq {Len(packages) + 1}
    BY <2>1, <2>2 DEF PackageHits
  <2>4. PackageHits(args[t].package)' = {} => Cut(args[t].package)
    BY <2>1, <2>2 DEF PackageHits, Cut
  <2>5. PackageHits(args[t].package)' # {} => FirstOf(PackageHits(args[t].package)') = Len(packages) + 1
    <3>. DEFINE hits == PackageHits(args[t].package)'
    <3>1. hits \subseteq Nat /\ hits \subseteq {Len(packages) + 1}
      BY <2>2, <2>3
    <3>. HIDE DEF hits
    <3>2. hits # {} => FirstOf(hits) \in hits
      BY <3>1, FirstIsLeast
    <3>3. hits # {} => FirstOf(hits) = Len(packages) + 1
      BY <3>1, <3>2
    <3>. QED
      BY <3>3 DEF hits
  <2>6. Good(t)'
    BY <2>1, <2>2, <2>4, <2>5
  <2>. QED
    BY <1>2, <2>6
<1>5. CASE InsertVersion(t) \/ ReadPackage(t)
  <2>1. /\ args' = args /\ packages' = packages /\ pkgId' = pkgId /\ pc[t] \in HasPackage
    BY <1>5 DEF InsertVersion, ReadPackage, HasPackage, tables
  <2>2. Good(t)'
    BY <1>1, <2>1
  <2>. QED
    BY <1>2, <2>2
<1>6. CASE ~ (PackageByName(t) \/ InsertPackage(t) \/ InsertVersion(t) \/ ReadPackage(t))
  <2>1. pc'[t] \notin HasPackage
    BY <1>0, <1>6 DEF Step, Publish, PublisherByName, InsertPublisher, VersionRejected, ReadVersions, List, ListPackage,
                ListVersions, InsertYanked, AnswerRaises, RaiseBefore, RaiseAfter, Finish, Goto, HasPackage
  <2>. QED
    BY <1>2, <2>1
<1>. QED
  BY <1>3, <1>4, <1>5, <1>6

LEMMA OwnRowStaysThere ==
  ASSUME RowsInv, LoneInv, [Next]_vars, NEW t \in Threads, Step(t), alone'
  PROVE  \A o \in Threads :
           /\ pc'[o] \in {"read_package", "read_versions"} => OwnRow(o)'
           /\ pc'[o] = "read_versions" => readId'[o] = pkgId'[o]
<1>0. /\ alone /\ pc \in [Threads -> Location] /\ readId \in [Threads -> Id \cup {NoId}]
      /\ versions \in Seq(VersionRow)
  BY LoneStep DEF RowsInv, TypeOK, LoneInv
<1>1. ASSUME NEW o \in Threads \ {t}
      PROVE  /\ pc'[o] \in {"read_package", "read_versions"} => OwnRow(o)'
             /\ pc'[o] = "read_versions" => readId'[o] = pkgId'[o]
  <2>1. pc'[o] = pc[o] /\ args'[o] = args[o] /\ pkgId'[o] = pkgId[o] /\ readId'[o] = readId[o]
    BY OthersKeepTheirs
  <2>. QED
    BY <1>0, <2>1, OwnRowStays DEF LoneInv, OwnRowIsThere
<1>2. CASE InsertVersion(t)
  <2>1. /\ pc'[t] = "read_package" /\ UNCHANGED <<args, pkgId>>
        /\ versions' = Append(versions, NewVersion(pkgId[t], pubId[t], args[t].version, args[t].digest, FALSE))
    BY <1>0, <1>2 DEF InsertVersion, Goto
  <2>2. /\ Len(versions) + 1 \in 1..Len(versions')
        /\ versions'[Len(versions) + 1].package = pkgId[t]
        /\ versions'[Len(versions) + 1].version = Stored(args[t].version)
        /\ versions'[Len(versions) + 1].digest = Stored(args[t].digest)
    BY <1>0, <2>1 DEF NewVersion
  <2>3. Len(versions) + 1 \in VersionRows(pkgId[t])'
    BY <2>1, <2>2 DEF VersionRows
  <2>4. OwnRow(t)'
    BY <2>1, <2>2, <2>3 DEF OwnRow
  <2>. QED
    BY <1>1, <2>1, <2>4
<1>3. CASE ReadPackage(t)
  <2>1. pc[t] = "read_package" /\ UNCHANGED <<args, pkgId>>
    BY <1>3 DEF ReadPackage
  <2>2. OwnRow(t)'
    BY <1>0, <2>1, OwnRowStays DEF LoneInv, OwnRowIsThere
  <2>3. PackageHits(args[t].package) # {} => packages[FirstOf(PackageHits(args[t].package))].id = pkgId[t]
    BY <1>0, <2>1 DEF HasPackage, LoneInv, PackageIsFirst
  <2>4. pc'[t] = "read_versions" => readId'[t] = pkgId[t]
    BY <1>0, <1>3, <2>3 DEF ReadPackage, Finish, Goto
  <2>. QED
    BY <1>1, <2>1, <2>2, <2>4
<1>4. CASE ~ (InsertVersion(t) \/ ReadPackage(t))
  <2>1. pc'[t] \notin {"read_package", "read_versions"}
    BY <1>0, <1>4 DEF Step, Publish, PublisherByName, InsertPublisher, PackageByName, InsertPackage, VersionRejected,
                ReadVersions, List, ListPackage, ListVersions, InsertYanked, AnswerRaises, RaiseBefore, RaiseAfter,
                Finish, Goto
  <2>. QED
    BY <1>1, <2>1
<1>. QED
  BY <1>2, <1>3, <1>4

LEMMA RecordsStayOwn ==
  ASSUME RowsInv, LoneInv, [Next]_vars, NEW t \in Threads, Step(t), alone'
  PROVE  \A o \in Threads :
           /\ result'[o] = ReadBackFailed => Cut(args'[o].package) \/ ~ Survives(args'[o].version)
           /\ result'[o].status = "ok" => RecordIsOwn(o)'
<1>0. /\ alone /\ pc \in [Threads -> Location] /\ result = [o \in Threads |-> result[o]]
      /\ versions \in Seq(VersionRow)
  BY LoneStep DEF RowsInv, TypeOK, LoneInv, RunningHaveNoResult
<1>. DEFINE Good(o) == /\ result[o] = ReadBackFailed => Cut(args[o].package) \/ ~ Survives(args[o].version)
                       /\ result[o].status = "ok" => RecordIsOwn(o)
<1>1. \A o \in Threads : Good(o)
  BY <1>0 DEF LoneInv, RecordsAreOwn
<1>2. ASSUME NEW o \in Threads, result'[o] = result[o], args'[o] = args[o], pkgId'[o] = pkgId[o]
      PROVE  Good(o)'
  <2>1. ASSUME RecordIsOwn(o)
        PROVE  RecordIsOwn(o)'
    <3>1. PICK i \in VersionHits(pkgId[o], args[o].version) :
            /\ result[o].record.version = Shown(versions[i].version)
            /\ result[o].record.digest = Shown(versions[i].digest)
      BY <2>1 DEF RecordIsOwn
    <3>2. i \in VersionHits(pkgId[o], args[o].version)' /\ versions'[i] = versions[i]
      BY <1>2, RowsAreAppended DEF Grows, VersionHits, VersionRows
    <3>3. OwnRow(o)'
      BY <1>2, <2>1, OwnRowStays DEF RecordIsOwn
    <3>. QED
      BY <1>2, <2>1, <3>1, <3>2, <3>3 DEF RecordIsOwn
  <2>. QED
    BY <1>1, <1>2, <2>1
<1>3. ASSUME NEW o \in Threads \ {t}
      PROVE  Good(o)'
  BY <1>2, OthersKeepTheirs
<1>4. CASE ReadVersions(t)
  <2>. DEFINE hits == VersionHits(readId[t], args[t].version)
              rec == RecordOf(versions[FirstOf(hits)], readId[t])
  <2>1. pc[t] = "read_versions" /\ UNCHANGED <<args, pkgId, versions>>
    BY <1>4 DEF ReadVersions, tables
  <2>2. readId[t] = pkgId[t] /\ OwnRow(t)
    BY <1>0, <2>1 DEF LoneInv, OwnRowIsThere
  <2>3. hits \subseteq Nat
    BY DEF VersionHits, VersionRows
  <2>4. CASE hits = {}
    <3>1. ~ Survives(args[t].version)
      BY <2>2, <2>4 DEF OwnRow, VersionHits, Survives
    <3>2. result'[t] = ReadBackFailed /\ ReadBackFailed.status # "ok"
      BY <1>0, <1>4, <2>4 DEF ReadVersions, Finish, ReadBackFailed
    <3>3. Good(t)'
      BY <2>1, <3>1, <3>2
    <3>. QED
      BY <1>3, <3>3
  <2>5. CASE hits # {}
    <3>1. FirstOf(hits) \in hits
      BY <2>3, <2>5, FirstIsLeast
    <3>2. result'[t] = Returned(rec)
      BY <1>0, <1>4, <2>5 DEF ReadVersions, Finish
    <3>3. /\ rec.version = Shown(versions[FirstOf(hits)].version) /\ rec.package = pkgId[t]
          /\ rec.digest = Shown(versions[FirstOf(hits)].digest)
      BY <2>2 DEF RecordOf
    <3>4. OwnRow(t)' /\ VersionHits(pkgId[t], args[t].version)' = hits
      BY <2>1, <2>2 DEF OwnRow, VersionHits, VersionRows
    <3>. HIDE DEF hits, rec
    <3>5. result'[t].record = rec /\ result'[t] # ReadBackFailed
      BY <3>2 DEF Returned, ReadBackFailed
    <3>6. RecordIsOwn(t)'
      BY <2>1, <3>1, <3>3, <3>4, <3>5 DEF RecordIsOwn
    <3>7. Good(t)'
      BY <3>5, <3>6
    <3>. QED
      BY <1>3, <3>7
  <2>. QED
    BY <2>4, <2>5
<1>5. CASE result'[t] \in {NoResult, Raised} \/ \E recs : result'[t] = Listed(recs)
  <2>1. result'[t].status \in {"none", "raised", "list"}
    <3>1. NoResult.status = "none" /\ Raised.status = "raised" /\ \A recs : Listed(recs).status = "list"
      BY DEF NoResult, Raised, Listed
    <3>. QED
      BY <1>5, <3>1
  <2>2. ReadBackFailed.status = "read_back_failed"
    BY DEF ReadBackFailed
  <2>. QED
    BY <1>3, <2>1, <2>2
<1>6. CASE UNCHANGED result /\ args'[t] = args[t] /\ pc[t] # "idle"
  <2>1. result'[t] = NoResult
    BY <1>6 DEF RowsInv, RunningHaveNoResult
  <2>. QED
    BY <1>5, <2>1
<1>7. CASE Publish(t) \/ List(t)
  <2>1. result'[t] = NoResult
    BY <1>0, <1>7 DEF Publish, List
  <2>. QED
    BY <1>5, <2>1
<1>8. CASE PublisherByName(t) \/ InsertPublisher(t) \/ PackageByName(t) \/ InsertPackage(t) \/ InsertVersion(t)
  <2>1. UNCHANGED <<result, args>> /\ pc[t] # "idle"
    BY <1>8 DEF PublisherByName, InsertPublisher, PackageByName, InsertPackage, InsertVersion
  <2>. QED
    BY <1>6, <2>1
<1>9. CASE VersionRejected(t) \/ AnswerRaises(t) \/ RaiseBefore(t) \/ RaiseAfter(t)
  <2>1. result'[t] = Raised
    BY <1>0, <1>9 DEF VersionRejected, AnswerRaises, RaiseBefore, RaiseAfter, Finish
  <2>. QED
    BY <1>5, <2>1
<1>10. CASE ReadPackage(t)
  <2>1. pc[t] = "read_package" /\ args' = args
    BY <1>10 DEF ReadPackage
  <2>2. CASE PackageHits(args[t].package) # {}
    BY <1>6, <1>10, <2>1, <2>2 DEF ReadPackage
  <2>3. CASE PackageHits(args[t].package) = {}
    <3>1. Cut(args[t].package)
      BY <1>0, <2>1, <2>3 DEF LoneInv, PackageIsFirst, HasPackage
    <3>2. result'[t] = ReadBackFailed /\ ReadBackFailed.status # "ok"
      BY <1>0, <1>10, <2>3 DEF ReadPackage, Finish, ReadBackFailed
    <3>3. Good(t)'
      BY <2>1, <3>1, <3>2
    <3>. QED
      BY <1>3, <3>3
  <2>. QED
    BY <2>2, <2>3
<1>11. CASE ListPackage(t) \/ ListVersions(t)
  <2>1. \/ UNCHANGED <<result, args>> /\ pc[t] # "idle"
        \/ \E recs : result'[t] = Listed(recs)
    <3>1. CASE ListPackage(t)
      BY <1>0, <3>1 DEF ListPackage, Finish
    <3>2. CASE ListVersions(t)
      BY <1>0, <3>2 DEF ListVersions, Finish
    <3>. QED
      BY <1>11, <3>1, <3>2
  <2>. QED
    BY <1>5, <1>6, <2>1
<1>12. CASE InsertYanked(t)
  <2>1. UNCHANGED <<result, args, pkgId>>
    BY <1>12 DEF InsertYanked
  <2>. QED
    BY <1>2, <2>1
<1>. QED
  BY <1>4, <1>7, <1>8, <1>9, <1>10, <1>11, <1>12 DEF Step

LEMMA LoneInvInitially ==
  ASSUME Init
  PROVE  LoneInv
<1>1. /\ publishers = << >> /\ packages = << >> /\ versions = << >>
      /\ pc = [t \in Threads |-> "idle"] /\ result = [t \in Threads |-> NoResult]
  BY DEF Init
<1>2. \A t \in Threads : pc[t] = "idle" /\ result[t] = NoResult
  BY <1>1
<1>3. OneAtATime /\ InsertsAreNew /\ PackageIsFirst /\ OwnRowIsThere
  BY <1>2 DEF OneAtATime, InsertsAreNew, PackageIsFirst, OwnRowIsThere, Publishing, HasPackage
<1>4. NamesAreUnique
  BY <1>1 DEF NamesAreUnique
<1>5. RecordsAreOwn
  BY <1>2 DEF RecordsAreOwn, NoResult, ReadBackFailed
<1>. QED
  BY <1>3, <1>4, <1>5 DEF LoneInv

LEMMA LoneInvStep ==
  ASSUME RowsInv, LoneInv, [Next]_vars
  PROVE  LoneInv'
<1>1. CASE UNCHANGED vars
  <2>1. /\ UNCHANGED <<publishers, packages, versions, alone, pc, args, pkgId, readId, result>>
    BY <1>1 DEF vars, tables
  <2>. QED
    BY <2>1 DEF LoneInv, OneAtATime, InsertsAreNew, NamesAreUnique, PackageIsFirst, OwnRowIsThere, RecordsAreOwn,
                RecordIsOwn, OwnRow, PublisherHits, PackageHits, VersionHits, VersionRows
<1>2. CASE Next
  <2>1. PICK t \in Threads : Step(t)
    BY <1>2, StepsOfThreads
  <2>2. OneAtATime'
    BY <2>1, OneStaysAlone DEF OneAtATime, LoneInv
  <2>3. InsertsAreNew'
    BY <2>1, InsertsStayNew DEF InsertsAreNew
  <2>4. NamesAreUnique'
    <3>1. CASE alone'
      BY <2>1, <3>1, NamesStayUnique
    <3>2. CASE ~ alone'
      BY <3>2 DEF NamesAreUnique
    <3>. QED
      BY <3>1, <3>2
  <2>5. OwnRowIsThere'
    BY <2>1, OwnRowStaysThere DEF OwnRowIsThere
  <2>6. RecordsAreOwn'
    BY <2>1, RecordsStayOwn DEF RecordsAreOwn
  <2>7. PackageIsFirst'
    BY <2>1, PackageStaysFirst DEF PackageIsFirst
  <2>. QED
    BY <2>2, <2>3, <2>4, <2>5, <2>6, <2>7 DEF LoneInv
<1>. QED
  BY <1>1, <1>2

LEMMA LoneInvariant == Spec => []LoneInv
<1>1. Init => LoneInv
  BY LoneInvInitially
<1>2. RowsInv /\ LoneInv /\ [Next]_vars => LoneInv'
  BY LoneInvStep
<1>. QED
  BY <1>1, <1>2, RowsInvariant, PTL DEF Spec

(* Until two publishes overlap, no name is inserted twice, even when the   *)
(* answer to an insert is lost and the call repeated, but for a name that  *)
(* is cut when it is stored (_ensure_publisher, _ensure_package).          *)
THEOREM NamesStayOnce == Spec => []NamesAreUnique
<1>1. LoneInv => NamesAreUnique
  BY DEF LoneInv
<1>. QED
  BY <1>1, LoneInvariant, PTL

(* Until two publishes overlap, a read-back fails only over a text that the*)
(* way into the table changes, and gives back what was published when that *)
(* version survives it and was published once, whatever calls before it    *)
(* left half done (publish_package_version).                               *)
THEOREM LonePublishIsReadBack == Spec => []LonePublishReadsBack
<1>1. RowsInv /\ LoneInv => LonePublishReadsBack
  <2>. SUFFICES ASSUME RowsInv, LoneInv, alone, NEW t \in Threads
       PROVE  LET rec == result[t].record
              IN  /\ result[t] = ReadBackFailed => Cut(args[t].package) \/ ~ Survives(args[t].version)
                  /\ /\ result[t].status = "ok"
                     /\ Survives(args[t].version)
                     /\ Cardinality(VersionHits(rec.package, args[t].version)) = 1
                     => /\ rec.version = args[t].version
                        /\ rec.digest = Shown(Stored(args[t].digest))
                        /\ rec.package = pkgId[t]
    BY DEF LonePublishReadsBack
  <2>. DEFINE rec == result[t].record
              hits == VersionHits(rec.package, args[t].version)
  <2>1. /\ result[t] = ReadBackFailed => Cut(args[t].package) \/ ~ Survives(args[t].version)
        /\ result[t].status = "ok" => RecordIsOwn(t)
    BY DEF LoneInv, RecordsAreOwn
  <2>2. ASSUME RecordIsOwn(t), Survives(args[t].version), Cardinality(hits) = 1
        PROVE  /\ rec.version = args[t].version
               /\ rec.digest = Shown(Stored(args[t].digest))
               /\ rec.package = pkgId[t]
    <3>1. rec.package = pkgId[t]
      BY <2>2 DEF RecordIsOwn
    <3>2. hits = VersionHits(pkgId[t], args[t].version)
      BY <3>1
    <3>3. PICK i \in hits :
            versions[i].version = Stored(args[t].version) /\ versions[i].digest = Stored(args[t].digest)
      BY <2>2, <3>2 DEF RecordIsOwn, OwnRow, VersionHits, Survives
    <3>4. PICK j \in hits : rec.version = Shown(versions[j].version) /\ rec.digest = Shown(versions[j].digest)
      BY <2>2, <3>2 DEF RecordIsOwn
    <3>5. IsFiniteSet(hits)
      <4>1. Len(versions) \in Nat
        BY DEF RowsInv, TypeOK
      <4>2. hits \subseteq 1..Len(versions)
        BY DEF VersionHits, VersionRows
      <4>3. IsFiniteSet(1..Len(versions))
        BY <4>1, FS_Interval
      <4>. QED
        BY <4>2, <4>3, FS_Subset
    <3>. HIDE DEF hits
    <3>6. PICK x : hits = {x}
      BY <2>2, <3>5, FS_Singleton
    <3>7. i = j
      BY <3>3, <3>4, <3>6
    <3>8. Shown(Stored(args[t].version)) = args[t].version
      BY <2>2 DEF Survives, Shown
    <3>. QED
      BY <3>1, <3>3, <3>4, <3>7, <3>8
  <2>. QED
    BY <2>1, <2>2
<1>. QED
  BY <1>1, RowsInvariant, LoneInvariant, PTL

-----------------------------------------------------------------------------
(* Lists.                                                                  *)

\* A list that is under way looks into the first package of its name.
ListsFirstPackage ==
  \A t \in Threads : pc[t] = "list_versions" =>
    /\ PackageHits(args[t].package) # {}
    /\ readId[t] = packages[FirstOf(PackageHits(args[t].package))].id

LEMMA FirstPackageStays ==
  ASSUME RowsInv, [Next]_vars, NEW t \in Threads, args'[t] = args[t], PackageHits(args[t].package) # {}
  PROVE  /\ PackageHits(args[t].package)' # {}
         /\ packages'[FirstOf(PackageHits(args[t].package)')].id = packages[FirstOf(PackageHits(args[t].package))].id
<1>1. \E name : /\ name = args[t].package
                /\ FirstOf(PackageHits(name)') = FirstOf(PackageHits(name)) /\ PackageHits(name)' # {}
                /\ FirstOf(PackageHits(name)) \in 1..Len(packages)
  BY PackageHitsGrow
<1>2. PICK name : /\ name = args[t].package
                  /\ FirstOf(PackageHits(name)') = FirstOf(PackageHits(name)) /\ PackageHits(name)' # {}
                  /\ FirstOf(PackageHits(name)) \in 1..Len(packages)
  BY <1>1
<1>3. PackageHits(args[t].package)' = PackageHits(name)'
  BY <1>2 DEF PackageHits
<1>4. packages'[FirstOf(PackageHits(name))] = packages[FirstOf(PackageHits(name))]
  BY <1>2, RowsAreAppended DEF Grows
<1>. QED
  BY <1>2, <1>3, <1>4

LEMMA ListsFirstPackageStep ==
  ASSUME RowsInv, ListsFirstPackage, [Next]_vars
  PROVE  ListsFirstPackage'
<1>0. pc \in [Threads -> Location] /\ readId \in [Threads -> Id \cup {NoId}]
  BY DEF RowsInv, TypeOK
<1>1. ASSUME NEW o \in Threads, pc[o] = "list_versions", args'[o] = args[o], readId'[o] = readId[o]
      PROVE  /\ PackageHits(args[o].package)' # {}
             /\ readId'[o] = packages'[FirstOf(PackageHits(args[o].package)')].id
  <2>1. PackageHits(args[o].package) # {} /\ readId[o] = packages[FirstOf(PackageHits(args[o].package))].id
    BY <1>1 DEF ListsFirstPackage
  <2>. QED
    BY <1>1, <2>1, FirstPackageStays
<1>2. CASE UNCHANGED vars
  BY <1>1, <1>2 DEF vars, ListsFirstPackage
<1>3. ASSUME NEW t \in Threads, Step(t), NEW o \in Threads, pc'[o] = "list_versions"
      PROVE  /\ PackageHits(args[o].package)' # {}
             /\ readId'[o] = packages'[FirstOf(PackageHits(args[o].package)')].id
  <2>1. CASE o # t
    BY <1>1, <1>3, <2>1, OthersKeepTheirs
  <2>2. CASE o = t
    <3>1. ListPackage(t)
      BY <1>0, <1>3, <2>2 DEF Step, Publish, PublisherByName, InsertPublisher, PackageByName, InsertPackage,
             InsertVersion, VersionRejected, ReadPackage, ReadVersions, List, ListVersions, InsertYanked, AnswerRaises,
             RaiseBefore, RaiseAfter, Finish, Goto
    <3>2. PackageHits(args[t].package) # {}
      BY <1>0, <1>3, <2>2, <3>1 DEF ListPackage, Finish, Goto
    <3>3. /\ UNCHANGED <<packages, args>>
          /\ readId'[t] = packages[FirstOf(PackageHits(args[t].package))].id
      BY <1>0, <3>1, <3>2 DEF ListPackage, tables
    <3>4. PackageHits(args[t].package)' = PackageHits(args[t].package)
      BY <3>3 DEF PackageHits
    <3>. QED
      BY <2>2, <3>2, <3>3, <3>4
  <2>. QED
    BY <2>1, <2>2
<1>. QED
  BY <1>2, <1>3, StepsOfThreads DEF ListsFirstPackage

\* A row that a reader resolves is one of those that are listed.
LEMMA ResolvedIsListed ==
  ASSUME RowsInv, NEW t \in Threads, NEW v, NEW row \in Resolve(args[t].package, v)
  PROVE  /\ PackageHits(args[t].package) # {}
         /\ \E i \in 1..Len(versions) :
              /\ versions[i] = row
              /\ versions[i].package = packages[FirstOf(PackageHits(args[t].package))].id
<1>. DEFINE id == packages[FirstOf(PackageHits(args[t].package))].id
            hits == VersionHits(id, v)
<1>1. PackageHits(args[t].package) # {}
  BY DEF Resolve
<1>2. hits # {} /\ row = versions[FirstOf(hits)]
  BY <1>1 DEF Resolve
<1>3. hits \subseteq Nat
  BY DEF VersionHits, VersionRows
<1>4. FirstOf(hits) \in hits
  BY <1>2, <1>3, FirstIsLeast
<1>5. FirstOf(hits) \in 1..Len(versions) /\ versions[FirstOf(hits)].package = id
  BY <1>4 DEF VersionHits, VersionRows
<1>. QED
  BY <1>1, <1>2, <1>5

\* What a list returns.
LEMMA ListIsComplete ==
  ASSUME RowsInv, ListsFirstPackage, [Next]_vars, NEW t \in Threads,
         pc[t] \in {"list_package", "list_versions"}, result'[t].status = "list",
         NEW v, NEW row \in Resolve(args[t].package, v)
  PROVE  (row.yanked => args[t].include_yanked) =>
           \E i \in DOMAIN result'[t].records : result'[t].records[i].id = row.id
<1>0. /\ pc \in [Threads -> Location] /\ result = [o \in Threads |-> result[o]] /\ result[t] = NoResult
  BY DEF RowsInv, TypeOK, RunningHaveNoResult
<1>1. /\ PackageHits(args[t].package) # {}
      /\ \E i \in 1..Len(versions) :
           versions[i] = row /\ versions[i].package = packages[FirstOf(PackageHits(args[t].package))].id
  BY ResolvedIsListed
<1>2. result'[t] # result[t]
  BY <1>0 DEF NoResult
<1>3. \E o \in Threads : Step(o)
  BY <1>2, StepsOfThreads DEF vars
<1>4. Step(t)
  BY <1>2, <1>3, OthersKeepTheirs
<1>5. ~ RaiseBefore(t) /\ ~ AnswerRaises(t)
  <2>1. Raised.status = "raised"
    BY DEF Raised
  <2>. QED
    BY <1>0, <2>1 DEF RaiseBefore, AnswerRaises, Finish
<1>6. ListPackage(t) \/ ListVersions(t)
  BY <1>4, <1>5 DEF Step, Publish, PublisherByName, InsertPublisher, PackageByName, InsertPackage, InsertVersion,
                    VersionRejected, ReadPackage, ReadVersions, List, InsertYanked, RaiseAfter
<1>7. ListVersions(t)
  BY <1>1, <1>2, <1>6 DEF ListPackage
<1>. DEFINE rows == {i \in VersionRows(readId[t]) : versions[i].yanked => args[t].include_yanked}
            recs == [i \in rows |-> RecordOf(versions[i], NoId)]
<1>8. result'[t] = Listed(recs)
  BY <1>0, <1>7 DEF ListVersions, Finish
<1>9. pc[t] = "list_versions" /\ readId[t] = packages[FirstOf(PackageHits(args[t].package))].id
  BY <1>7 DEF ListVersions, ListsFirstPackage
<1>. HIDE DEF recs
<1>10. result'[t].records = recs
  BY <1>8 DEF Listed
<1>11. ASSUME row.yanked => args[t].include_yanked
       PROVE  \E i \in DOMAIN recs : recs[i].id = row.id
  <2>1. PICK i \in rows : versions[i] = row
    BY <1>1, <1>9, <1>11 DEF VersionRows
  <2>2. i \in DOMAIN recs /\ recs[i].id = row.id
    BY <2>1 DEF recs, RecordOf
  <2>. QED
    BY <2>2
<1>. QED
  BY <1>10, <1>11

(* A list leaves out nothing that a reader can get by then but yanked rows *)
(* that were not asked for: although the package was looked up in an       *)
(* earlier statement, and its name may have been inserted twice, both take *)
(* its first row (list_package_versions, get_package_version).             *)
THEOREM ListsLeaveOutNothing == Spec => ListsAreComplete
<1>1. Init => ListsFirstPackage
  BY DEF Init, ListsFirstPackage
<1>2. RowsInv /\ ListsFirstPackage /\ [Next]_vars => ListsFirstPackage'
  BY ListsFirstPackageStep
<1>3. RowsInv /\ ListsFirstPackage /\ [Next]_vars =>
        [\A t \in Threads : pc[t] \in {"list_package", "list_versions"} /\ result'[t].status = "list" =>
           \A v \in Versions : \A row \in Resolve(args[t].package, v) :
             (row.yanked => args[t].include_yanked) =>
               \E i \in DOMAIN result'[t].records : result'[t].records[i].id = row.id]_vars
  BY ListIsComplete
<1>. QED
  BY <1>1, <1>2, <1>3, RowsInvariant, PTL DEF Spec, ListsAreComplete

=============================================================================

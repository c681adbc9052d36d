------------------------- MODULE MCEmbeddedDatabase -------------------------
(***************************************************************************)
(* Instances of EmbeddedDatabase for TLC.                                  *)
(***************************************************************************)
EXTENDS SnapshotFile, TLC

CONSTANTS p1, p2, packages, publishers, schema_migrations, yanks, r1, r2, r3

OneTable == {packages, schema_migrations}
LateTable == {packages, schema_migrations, yanks}

\* Alphabetical, as std::map orders the tables of 001_registry.  A bootstrap
\* does not create yanks, an insert does.
MapOrder == [t \in Tables |-> CASE t = packages -> 1
                                [] t = publishers -> 2
                                [] t = schema_migrations -> 3
                                [] t = yanks -> 4]

AllFaults == Fault
\* Sound for the invariants: processes, and rows, differ only in name.
ProcSymmetry == Permutations(Procs) \cup Permutations(Rows)

OpenFault == {"open_fail"}

=============================================================================

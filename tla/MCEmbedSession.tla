--------------------------- MODULE MCEmbedSession ---------------------------
(***************************************************************************)
(* Instances of EmbedSession for TLC: two threads of one interpreter.      *)
(***************************************************************************)
EXTENDS EmbedSession, TLC

CONSTANTS t1, t2, packages, publishers, schema_migrations, yanks, r1, r2, r3

OneTable == {packages, schema_migrations}

\* Alphabetical, as std::map orders the tables of 001_registry.  A bootstrap
\* does not create yanks, an insert does.
MapOrder == [t \in Tables |-> CASE t = packages -> 1
                                [] t = publishers -> 2
                                [] t = schema_migrations -> 3
                                [] t = yanks -> 4]

QuietFaults == {"crash", "open_fail"}

\* Sound for the safety properties: threads, and rows, differ only in name.
ThreadSymmetry == Permutations(Procs) \cup Permutations(Rows)

=============================================================================

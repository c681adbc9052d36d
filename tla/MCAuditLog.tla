----------------------------- MODULE MCAuditLog ------------------------------
(***************************************************************************)
(* An instance of AuditLog for TLC: an administrator is granted one of two*)
(* capabilities, and callers append an event, or try to append one that    *)
(* cannot be written as JSON.                                              *)
(***************************************************************************)
EXTENDS AuditLog, TLC

AdminCaps == {<<"cli_admin", "session">>}
Query == {<<"query", "p1">>, <<"query", "unwritable">>}
Unwritable == {<<"query", "unwritable">>}
Symmetry == Permutations(Threads)

=============================================================================

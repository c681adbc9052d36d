---------------------------- MODULE MCChangefeed ----------------------------
(***************************************************************************)
(* Instances of Changefeed for TLC.                                        *)
(***************************************************************************)
EXTENDS Changefeed, TLC

CONSTANTS i1, i2, c1, c2

\* Sound for the invariants: inserters, and sockets, differ only in name.
FeedSymmetry == Permutations(Inserters) \cup Permutations(Fds)

=============================================================================

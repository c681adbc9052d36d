--------------------------- MODULE MCRegistryOltp ---------------------------
(***************************************************************************)
(* Instances of RegistryOltp for TLC.                                      *)
(***************************************************************************)
EXTENDS RegistryOltp, TLC

CONSTANTS t1, t2, d1, d2

\* Sound for the safety properties: threads differ only in name, and so do
\* digests, which are ordinary text and which no step looks into.
ThreadSymmetry == Permutations({t1, t2}) \cup Permutations({d1, d2})

Text(piece) == <<piece>>
Plain == Text("plain")

\* A name, and one that is not stored whole.
OnePublisher == {Plain}
OnePackage == {Plain}
CutName == Text("cut") \o <<Bar>> \o Plain
TwoPackages == {Plain, CutName}

\* A version the SQL contains, an ordinary one, one that is stored as another
\* and one that no answer can show.
TheVersions == {Text("1"), Plain, Plain \o <<EAcute>>, Plain \o <<Quote>>}
TheRejected == {Text("1")}

\* The name that is cut is published with an ordinary version only.
ThePublications ==
  {a \in Args : ~ a.include_yanked /\ (a.package = Plain \/ a.version = Plain)}

PlainVersions == {Text("1"), Plain}
TwoDigests == {Text(d1), Text(d2)}

=============================================================================

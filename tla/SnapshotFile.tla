---------------------------- MODULE SnapshotFile ----------------------------
(***************************************************************************)
(* The text of .lidb/catalog.heap: how NativeCatalog::save_snapshot writes *)
(* a catalogue and replay_snapshot reads one.  EmbeddedDatabase speaks of  *)
(* the file as of a catalogue, and of a torn file as of one of TornSaves;  *)
(* here is what that rests on.                                             *)
(*                                                                         *)
(* A text is a sequence of atoms: "@table:", the marks "=", "|" and "\n",  *)
(* names, and pieces of values, which a client may fill with marks.  A row *)
(* is the set of its columns, pairs of a name and a value.                 *)
(***************************************************************************)
EXTENDS EmbeddedDatabase, SequencesExt

Header == "@table:"
Equals == "="
Bar == "|"
Newline == "\n"
Comment == "#"
Marks == {Equals, Bar, Newline, Comment}  \* single bytes
Rest == "~"                      \* what remains of an atom that is cut in two

\* Files are finite, and names are not what the format is made of.
ASSUME FileAssumption ==
  /\ IsFiniteSet(Tables) /\ IsFiniteSet(Rows)
  /\ (Tables \cup AllRows) \cap (Marks \cup {Header, Rest, "id", "value", "x"}) = {}

\* Values of the client's column: an ordinary one, none, and some with marks.
Values ==
  {<<"x">>, << >>, <<"x", Equals, "x">>, <<"x", Bar, "x">>, <<"x", Newline>>, <<Newline, Header, "x", Newline>>,
   <<Comment, "x">>, <<Newline, Comment>>}

\* Two columns: one tells the rows apart, the other is the client's.
Content(r, value) == {<<<<"id">>, <<r>>>>, <<<<"value">>, value[r]>>}
Contents(c, value) == [t \in Tables |-> {Content(r, value) : r \in c[t]}]
Ordinary == [r \in AllRows |-> <<"x">>]

Joined(seqs, mark) == FlattenSeq([i \in DOMAIN seqs |-> IF i = 1 THEN seqs[i] ELSE <<mark>> \o seqs[i]])
Split(atoms, mark) ==
  LET upTo[k \in 0..Len(atoms)] ==
        IF k = 0 THEN << << >> >>
        ELSE LET before == upTo[k - 1]
             IN  IF atoms[k] = mark THEN Append(before, << >>)
                 ELSE [before EXCEPT ![Len(before)] = Append(@, atoms[k])]
  IN  upTo[Len(atoms)]

\* mutant: `first` is never reset, and nothing is between the columns
LineUnseparated(row) ==
  LET columns == SetToSeq(row)
  IN  FlattenSeq([i \in DOMAIN columns |-> columns[i][1] \o <<Equals>> \o columns[i][2]])

\* save_snapshot: a line, ...
Line(row) ==
  LET columns == SetToSeq(row)
  IN  Joined([i \in DOMAIN columns |-> columns[i][1] \o <<Equals>> \o columns[i][2]], Bar)

\* ... a table with its header, ...
Section(rows, t) ==
  LET lines == SetToSeq(rows[t])
  IN  <<Header, t, Newline>> \o FlattenSeq([i \in DOMAIN lines |-> Line(lines[i]) \o <<Newline>>])

\* ... and the file, the tables in map order.
PlaceOf(t) == Cardinality({u \in Tables : Rank[u] <= Rank[t]})
Encode(rows) ==
  FlattenSeq([k \in 1..Cardinality(Tables) |-> Section(rows, CHOOSE t \in Tables : PlaceOf(t) = k)])

\* mutant: a column is cut at its last "="
ColumnsAtLast(line) ==
  LET equals(f) == SelectLastInSeq(f, LAMBDA x : x = Equals)
      fields == {f \in ToSet(Split(line, Bar)) : equals(f) # 0}
  IN  {<<SubSeq(f, 1, equals(f) - 1), SubSeq(f, equals(f) + 1, Len(f))>> : f \in fields}

\* replay_snapshot: the columns of a line, cut at the first "=" ...
FirstEquals(f) == SelectInSeq(f, LAMBDA x : x = Equals)
Columns(line) ==
  LET fields == {f \in ToSet(Split(line, Bar)) : FirstEquals(f) # 0}
  IN  {<<SubSeq(f, 1, FirstEquals(f) - 1), SubSeq(f, FirstEquals(f) + 1, Len(f))>> : f \in fields}

\* ... one line, none of it when it is empty or begins with "#" ...
Nothing == [table |-> << >>, rows |-> {}]
Read(state, line) ==
  IF line = << >> \/ line[1] = Comment THEN state
  ELSE IF line[1] = Header
    THEN [table |-> Tail(line), rows |-> {x \in state.rows : x[1] # Tail(line)}]
  ELSE IF state.table = << >> THEN state
  ELSE [state EXCEPT !.rows = @ \cup {<<state.table, Columns(line)>>}]

\* ... after the other, ...
ReadAll(lines) ==
  LET upTo[k \in 0..Len(lines)] == IF k = 0 THEN Nothing ELSE Read(upTo[k - 1], lines[k])
  IN  upTo[Len(lines)]

\* ... and the rows of each table.  Lines before a header are skipped, and a
\* second header empties the table; tables that no statement names are left out.
Replay(file) == [t \in Tables |-> {x[2] : x \in {y \in ReadAll(Split(file, Newline)).rows : y[1] = <<t>>}}]

\* What EmbeddedDatabase calls the rows that are read.
Identified(rows, value) ==
  LET known(row) == {r \in Rows \cup {MigRow} : row = Content(r, value)}
  IN  [t \in Tables |-> UNION {IF known(row) = {} THEN {Junk} ELSE known(row) : row \in rows[t]}]

\* What may be left of a file of which not all was written.
CutTexts(file) ==
  {SubSeq(file, 1, n) : n \in 0..Len(file)}
    \cup {Append(SubSeq(file, 1, n - 1), Rest) : n \in {k \in 1..Len(file) : file[k] \notin Marks}}

-----------------------------------------------------------------------------
(* A file cut at any byte is read as one of the catalogues that a torn save*)
(* leaves in EmbeddedDatabase; and when that is saved and read again, only *)
(* rows without a column are gone from it (save_snapshot, replay_snapshot).*)
(* The run looks at the first session of a directory: the catalogues of    *)
(* later ones are the same, or hold rows from a cut line.                  *)
TornFileIsSplice(c) ==
  \A file \in CutTexts(Encode(Contents(c, Ordinary))) :
    LET rows == Replay(file)
        read == Identified(rows, Ordinary)
        again == Identified(Replay(Encode(rows)), Ordinary)
    IN  /\ read \in TornSaves(c)
        /\ \E skipped \in SUBSET {t \in Tables : Junk \in read[t]} : again = ReadBack(read, skipped)
TornFilesAreSplices == opens = 1 => \A p \in Procs : pc[p] = "save" => TornFileIsSplice(mem[p])

(* Values are written without escaping: what the next open reads is what   *)
(* was saved exactly if no value of it holds a "|" or the end of a line; a *)
(* "=", a "#" and an empty value do no harm (save_snapshot,                *)
(* replay_snapshot).                                                       *)
PlainIsReadBack(c) ==
  \A value \in [Rows -> Values] :
    LET given == [r \in AllRows |-> IF r \in Rows THEN value[r] ELSE <<"x">>]
        inFile == (UNION {c[t] : t \in Tables}) \cap Rows
    IN  Replay(Encode(Contents(c, given))) = Contents(c, given)
          <=> \A r \in inFile : {Bar, Newline} \cap ToSet(value[r]) = {}
SavedRowsAreReadBack == opens = 1 => \A p \in Procs : pc[p] = "save" => PlainIsReadBack(mem[p])

=============================================================================

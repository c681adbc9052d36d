------------------------------- MODULE TextPath -------------------------------
(***************************************************************************)
(* What becomes of the text of an argument on its way into a table and     *)
(* back: str() and json.dumps (exec_parameterized of embed_engine.py),     *)
(* read_params_json (embed_main.cpp), the snapshot (native_catalog.cpp)    *)
(* that the next child reads, exec_result_json (embedded.cpp), json.loads. *)
(*                                                                         *)
(* A text is a sequence of atoms: the characters and objects below, which  *)
(* the conversions treat each in its own way, and pieces of ordinary text, *)
(* which they leave as they are.  Restricted inputs: no ordinary piece     *)
(* starts with one of the letters b, f, n, r, t, u and "/" that JSON reads *)
(* after a backslash; no text has both a bar and an equals sign, nor both a*)
(* quote and a comma or a colon.                                           *)
(***************************************************************************)
EXTENDS Naturals, Sequences

Quote == "quote"
Backslash == "backslash"
Newline == "newline"
Bar == "bar"
EAcute == "e-acute"          \* stands for every character that is not ASCII
EAcuteCode == "u00e9"        \* the text that json.dumps puts after a backslash for it
NewlineCode == "n"           \* likewise
NoneObject == "None object"  \* the Python object, which str() turns into a word

\* The parameter that the engine gets: json.dumps escapes, and read_params_json
\* drops the backslash and keeps the character after it, whatever it stands for.
Received(atom) ==
  CASE atom = EAcute -> EAcuteCode
    [] atom = Newline -> NewlineCode
    [] atom = NoneObject -> "None"
    [] OTHER -> atom
Sent(text) == [i \in DOMAIN text |-> Received(text[i])]

\* What the next child reads of a value that was saved: it ends at its first bar.
Kept(value) ==
  LET bars == {i \in DOMAIN value : value[i] = Bar}
  IN  IF bars = {} THEN value ELSE SubSeq(value, 1, (CHOOSE i \in bars : \A j \in bars : i <= j) - 1)

Stored(text) == Kept(Sent(text))

\* What json.loads makes of a backslash and the atom after it.
Unescaped(atom) ==
  CASE atom \in {Quote, Backslash} -> {<<atom>>}
    [] atom = EAcuteCode -> {<<EAcute>>}
    [] atom = NewlineCode -> {<<Newline>>}
    [] OTHER -> {}

\* How the answer reads that shows a value as it is, between quotes: no way if
\* json.loads raises, which it then does for the answer as a whole.
Reads(value) ==
  LET end == Len(value) + 1
      from[i \in 1..(end + 1)] ==  \* the readings of the value from place i on
        IF i > end THEN {}
        ELSE IF i = end THEN {<< >>}
        ELSE CASE value[i] = Quote -> {}
               [] value[i] = Backslash ->
                    IF i + 1 = end THEN {}
                    ELSE {first \o rest : first \in Unescaped(value[i + 1]), rest \in from[i + 2]}
               [] OTHER -> {<<value[i]>> \o rest : rest \in from[i + 1]}
  IN  from[1]

Garbled(value) == Reads(value) = {}
Shown(value) == CHOOSE reading \in Reads(value) : TRUE

=============================================================================

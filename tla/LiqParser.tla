----------------------------- MODULE LiqParser ------------------------------
(***************************************************************************)
(* liq/parser.py: from the text of one statement to its syntax tree, and   *)
(* the test of its names against the catalogue with which liq/compiler.py  *)
(* goes on.  Each turn of a loop of the parser is a step.                  *)
(*                                                                         *)
(* A text is what str.split() leaves of it: a sequence of tokens, and a    *)
(* token is a sequence of atoms with no blank between them, because "," and*)
(* ":" are cut off tokens, or are not, in different ways at different      *)
(* places.  An atom is a word, a $param, a number, a mark or a piece of a  *)
(* literal; blanks inside a literal are not modelled.                      *)
(***************************************************************************)
EXTENDS Integers, Sequences, FiniteSets, SequencesExt

CONSTANTS
  Words,      \* atoms that are identifiers, keywords included
  Params,     \* atoms "$name"
  Numbers,    \* atoms of digits
  Opens,      \* pieces of a literal that start with a quote ...
  Closes,     \* ... or end with one; a whole literal does both
  Forbidden,  \* atoms with ";" or "${"
  Tables,     \* the words that are tables of CATALOG_ALLOWLIST ...
  Columns,    \* ... and columns
  Sources     \* the texts: [text, meant], with the statement meant, or NoStmt

LBrace == "{"
RBrace == "}"
Equals == "="
Colon == ":"
Comma == ","
Marks == {LBrace, RBrace, Equals, Colon, Comma}
Keywords == {"read", "insert", "update", "delete", "from", "set", "where", "order", "asc", "desc", "limit", "returning"}

\* One kind of atom is not another, and CATALOG_ALLOWLIST has no keyword.
ASSUME AtomsAssumption ==
  /\ Keywords \subseteq Words
  /\ Words \cap (Marks \cup Params \cup Numbers \cup Opens \cup Closes) = {}
  /\ Marks \cap (Params \cup Numbers \cup Opens \cup Closes) = {}
  /\ Numbers \cap (Params \cup Opens \cup Closes) = {} /\ Params \cap (Opens \cup Closes) = {}
  /\ Tables \cup Columns \subseteq Words \ Keywords

\* split() leaves no empty token.
AtomsUsed == UNION {UNION {ToSet(s.text[i]) : i \in DOMAIN s.text} : s \in Sources}
ASSUME SourcesAreTexts == \A s \in Sources : s.text \in Seq(Seq(AtomsUsed) \ {<< >>})

Verbs == {"read", "insert", "update", "delete"}
\* str.lower() of a verb
Lower(tok) == CASE tok = <<"READ">> -> <<"read">>
                [] tok = <<"UPDATE">> -> <<"update">>
                [] OTHER -> tok

VARIABLES
  source, \* the text that is parsed, and history: what its author meant
  pc,     \* where the parser is
  next,   \* how many tokens it has passed: `i` of the loops
  parts,  \* what is left of the loop of _parse_bindings
  stmt    \* the statement so far

vars == <<source, pc, next, parts, stmt>>
text == source.text

Tokens == Len(text)
At(i) == text[i + 1]
Is(i, word) == i < Tokens /\ At(i) = <<word>>

\* The dataclasses as stmt_to_ir shows them: a missing clause and an empty
\* tuple are both << >>, `columns` is the projection or RETURNING.
NewStmt(verb, table) ==
  [verb |-> verb, table |-> table, columns |-> << >>, bindings |-> << >>,
   where |-> << >>, order |-> << >>, limit |-> << >>]
NoStmt == NewStmt("none", << >>)
Binding(column, rhs) == [column |-> column, rhs |-> rhs]

-----------------------------------------------------------------------------
(* The helpers of the parser                                               *)

\* The first place of x, or 0.
PlaceOf(seq, x) == SelectInSeq(seq, LAMBDA y : y = x)

IsIdent(tok) == Len(tok) = 1 /\ tok[1] \in Words

IsParam(tok) == Len(tok) = 1 /\ tok[1] \in Params

\* A number, or anything between quotes.
IsConst(tok) ==
  tok # << >> /\ \/ tok[1] \in Opens /\ Last(tok) \in Closes
                 \/ Len(tok) = 1 /\ tok[1] \in Numbers

IsRhs(tok) == IsParam(tok) \/ IsConst(tok)

\* mutant: only the text before the first comma is kept
UpToComma(tok) == LET k == PlaceOf(tok, Comma) IN IF k = 0 THEN tok ELSE SubSeq(tok, 1, k - 1)

\* rstrip(",")
NoComma(tok) == SubSeq(tok, 1, SelectLastInSeq(tok, LAMBDA x : x # Comma))

\* mutant: one token too many is asked for
LongerPredicateAt(i) == i + 3 < Tokens /\ Is(i + 1, Equals) /\ IsRhs(At(i + 2))

\* _predicate, and the test of a binding of an update, which is the same.
PredicateAt(i) == i + 2 < Tokens /\ Is(i + 1, Equals) /\ IsRhs(At(i + 2))

\* split(","), without the empty parts.
Parts(atoms) ==
  LET upTo[k \in 0..Len(atoms)] ==
        IF k = 0 THEN << >>
        ELSE LET before == upTo[k - 1]
             IN  IF atoms[k] = Comma THEN before
                 ELSE IF k = 1 \/ atoms[k - 1] = Comma THEN Append(before, <<atoms[k]>>)
                 ELSE [before EXCEPT ![Len(before)] = Append(@, atoms[k])]
  IN  upTo[Len(atoms)]

Goto(there, i, s) == pc' = there /\ next' = i /\ stmt' = s /\ UNCHANGED source
Fail == pc' = "error" /\ UNCHANGED <<source, next, parts, stmt>>
\* A step that raises ParseError unless `test` holds; s is looked at only then.
Check(test, there, i, s) == IF test THEN Goto(there, i, s) /\ UNCHANGED parts ELSE Fail

-----------------------------------------------------------------------------
Init ==
  /\ source \in Sources
  /\ pc = "parse" /\ next = 0 /\ parts = << >> /\ stmt = NoStmt

Legal == text # << >> /\ \A i \in 1..Tokens : \A k \in 1..Len(text[i]) : text[i][k] \notin Forbidden
Dispatch(verb) == pc = "parse" /\ Legal /\ Lower(At(0)) = <<verb>>

(* parse(): nothing to parse, a forbidden token, or no verb.               *)
Unsupported ==
  /\ pc = "parse"
  /\ IF Legal THEN \A v \in Verbs : Lower(At(0)) # <<v>> ELSE TRUE
  /\ Fail

StartRead ==
  /\ Dispatch("read")
  /\ Check(Tokens >= 2 /\ IsIdent(At(1)), "read", 2, NewStmt("read", At(1)))

StartInsert ==
  /\ Dispatch("insert")
  /\ IF Tokens >= 4 /\ Is(2, LBrace) /\ IsIdent(At(1)) /\ Is(Tokens - 1, RBrace)
       THEN /\ Goto("bindings", Tokens, NewStmt("insert", At(1)))
            /\ parts' = Parts(FlattenSeq(SubSeq(text, 4, Tokens - 1)))
       ELSE Fail

(* The keyword is compared again, but not in lower case.                   *)
StartUpdate ==
  /\ Dispatch("update")
  /\ Check(Tokens >= 5 /\ Is(0, "update") /\ Is(2, "set") /\ IsIdent(At(1)), "set", 3, NewStmt("update", At(1)))

(* What follows the predicate is not looked at.                            *)
ParseDelete ==
  /\ Dispatch("delete")
  /\ LET t == IF Is(1, "from") THEN 2 ELSE 1
         s == NewStmt("delete", At(t))
     IN  IF t >= Tokens \/ ~ IsIdent(At(t)) THEN Fail
         ELSE IF t + 1 = Tokens THEN Check(TRUE, "parsed", Tokens, s)
         ELSE Check(Is(t + 1, "where") /\ PredicateAt(t + 2), "parsed", Tokens,
                    [s EXCEPT !.where = <<Binding(At(t + 2), At(t + 4))>>])

-----------------------------------------------------------------------------
(* _parse_read and the second loop of _parse_update, by the clause at next *)

InClauses == pc \in {"read", "tail"} /\ next < Tokens

ReadProjection ==
  /\ InClauses /\ pc = "read" /\ Is(next, LBrace)
  /\ LET close == next + PlaceOf(SubSeq(text, next + 1, Tokens), <<RBrace>>) - 1
         columns == [k \in 1..(close - next - 1) |-> NoComma(At(next + k))]
     IN  Check(close >= next, "read", close + 1, [stmt EXCEPT !.columns = columns])

(* Mutant: the tokens of the predicate are not passed.                     *)
WhereStays ==
  /\ InClauses /\ Is(next, "where")
  /\ Check(PredicateAt(next + 1), pc, next,
           [stmt EXCEPT !.where = <<Binding(At(next + 1), At(next + 3))>>])

Where ==
  /\ InClauses /\ Is(next, "where")
  /\ Check(PredicateAt(next + 1), pc, next + 4,
           [stmt EXCEPT !.where = <<Binding(At(next + 1), At(next + 3))>>])

(* Mutant: a direction is always passed over, written or not.              *)
ReadOrderThree ==
  /\ InClauses /\ pc = "read" /\ Is(next, "order")
  /\ Check(next + 1 < Tokens, "read", next + 3,
           [stmt EXCEPT !.order = <<[column |-> At(next + 1), desc |-> Is(next + 2, "desc")]>>])

(* A direction stays until another one is read: order_desc is not reset.   *)
ReadOrder ==
  /\ InClauses /\ pc = "read" /\ Is(next, "order")
  /\ LET directed == Is(next + 2, "asc") \/ Is(next + 2, "desc")
         desc == IF directed THEN Is(next + 2, "desc") ELSE stmt.order # << >> /\ stmt.order[1].desc
     IN  Check(next + 1 < Tokens, "read", next + (IF directed THEN 3 ELSE 2),
               [stmt EXCEPT !.order = <<[column |-> At(next + 1), desc |-> desc]>>])

ReadLimit ==
  /\ InClauses /\ pc = "read" /\ Is(next, "limit")
  /\ Check(\E n \in Numbers : Is(next + 1, n), "read", next + 2, [stmt EXCEPT !.limit = At(next + 1)])

(* The rest of the text is the list of columns.                            *)
Returning ==
  /\ InClauses /\ pc = "tail" /\ Is(next, "returning")
  /\ Goto("tail", Tokens, [stmt EXCEPT !.columns = [k \in 1..(Tokens - next - 1) |-> NoComma(At(next + k))]])
  /\ UNCHANGED parts

Starters == IF pc = "read" THEN {LBrace, "where", "order", "limit"} ELSE {"where", "returning"}

(* Mutant: a token that starts no clause is passed over.                   *)
UnexpectedPassed ==
  /\ InClauses
  /\ \A w \in Starters : ~ Is(next, w)
  /\ Check(TRUE, pc, next + 1, stmt)

Unexpected ==
  /\ InClauses
  /\ \A w \in Starters : ~ Is(next, w)
  /\ Fail

(* _parse_update: the first loop, a binding ...                            *)
SetBinding ==
  /\ pc = "set" /\ next < Tokens /\ ~ Is(next, "where") /\ ~ Is(next, "returning")
  /\ Check(PredicateAt(next), "set", next + 3,
           [stmt EXCEPT !.bindings = Append(@, Binding(At(next), At(next + 2)))])

(* ... and its end.                                                        *)
SetDone ==
  /\ pc = "set"
  /\ next >= Tokens \/ Is(next, "where") \/ Is(next, "returning")
  /\ Check(TRUE, "tail", next, stmt)

EndOfText ==
  /\ pc \in {"read", "tail"} /\ next >= Tokens
  /\ Check(pc = "read" \/ stmt.bindings # << >>, "parsed", next, stmt)

(* _parse_bindings: one part, cut at its first colon ...                   *)
InsertBinding ==
  /\ pc = "bindings" /\ parts # << >>
  /\ LET part == Head(parts)
         k == PlaceOf(part, Colon)
         value == SubSeq(part, k + 1, Len(part))
     IN  IF k # 0 /\ IsRhs(value)
           THEN /\ Goto("bindings", next, [stmt EXCEPT !.bindings = Append(@, Binding(SubSeq(part, 1, k - 1), value))])
                /\ parts' = Tail(parts)
           ELSE Fail

(* ... and no more.                                                        *)
InsertDone ==
  /\ pc = "bindings" /\ parts = << >>
  /\ Check(TRUE, "parsed", next, stmt)

-----------------------------------------------------------------------------
\* The columns that the compiler resolves.
Named(s) ==
  ToSet(s.columns) \cup {s.order[i].column : i \in DOMAIN s.order}
    \cup {(s.bindings \o s.where)[i].column : i \in DOMAIN (s.bindings \o s.where)}

InCatalogue(s) ==
  /\ s.table[1] \in Tables
  /\ \A name \in Named(s) : Len(name) = 1 /\ name[1] \in Columns
ComparesWithLiteral(s) == \E i \in DOMAIN s.where : ~ IsParam(s.where[i].rhs)

\* compile() after parse().
Compiles(s) == InCatalogue(s) /\ ~ ComparesWithLiteral(s)

Compile == pc = "parsed" /\ Check(TRUE, IF Compiles(stmt) THEN "compiled" ELSE "refused", next, stmt)

Next ==
  \/ Unsupported \/ StartRead \/ StartInsert \/ StartUpdate \/ ParseDelete
  \/ ReadProjection \/ Where \/ ReadOrder \/ ReadLimit \/ Returning \/ Unexpected \/ EndOfText
  \/ SetBinding \/ SetDone \/ InsertBinding \/ InsertDone \/ Compile

Spec == Init /\ [][Next]_vars
FairSpec == Spec /\ WF_vars(Next)

-----------------------------------------------------------------------------
(* The grammar of docs/liq-spec.md, as the text of a statement             *)

Listed(items) == FlattenSeq([i \in 1..(2 * Len(items) - 1) |-> IF i % 2 = 0 THEN <<Comma>> ELSE items[(i + 1) \div 2]])
Filter(s) == IF s.where = << >> THEN << >> ELSE <<"where">> \o s.where[1].column \o <<Equals>> \o s.where[1].rhs
Bindings(s, is) == [i \in DOMAIN s.bindings |-> s.bindings[i].column \o <<is>> \o s.bindings[i].rhs]

Atoms(s) ==
  <<s.verb>> \o s.table \o
  CASE s.verb = "read" ->
         (IF s.columns = << >> THEN << >> ELSE <<LBrace>> \o Listed(s.columns) \o <<RBrace>>) \o Filter(s) \o
         (IF s.order = << >> THEN << >>
          ELSE <<"order">> \o s.order[1].column \o (IF s.order[1].desc THEN <<"desc">> ELSE << >>)) \o
         (IF s.limit = << >> THEN << >> ELSE <<"limit">> \o s.limit)
    [] s.verb = "insert" -> <<LBrace>> \o Listed(Bindings(s, Colon)) \o <<RBrace>>
    [] s.verb = "update" ->
         <<"set">> \o FlattenSeq(Bindings(s, Equals)) \o Filter(s) \o
         (IF s.columns = << >> THEN << >> ELSE <<"returning">> \o Listed(s.columns))
    [] s.verb = "delete" -> Filter(s)

\* A text with a blank before every atom but those in `glued`.
Split(atoms, glued) ==
  LET upTo[k \in 0..Len(atoms)] ==
        IF k = 0 THEN << >>
        ELSE IF k \in glued THEN [upTo[k - 1] EXCEPT ![Len(upTo[k - 1])] = Append(@, atoms[k])]
        ELSE Append(upTo[k - 1], <<atoms[k]>>)
  IN  upTo[Len(atoms)]

\* The examples of the documents end a name or value with its comma or colon.
Documented(s) == LET atoms == Atoms(s) IN Split(atoms, {k \in DOMAIN atoms : atoms[k] \in {Comma, Colon}})

\* The statements of the grammar: names are no keywords, a literal ends with its
\* first closing piece, and that of a WHERE holds no "=" and no "}".
Names == {<<w>> : w \in Words \ Keywords}
IsLiteral(rhs) == rhs # << >> /\ rhs[1] \in Opens /\ \A k \in DOMAIN rhs : rhs[k] \in Closes <=> k = Len(rhs)
Values == {<<x>> : x \in Params \cup Numbers} \cup {rhs \in Seq(AtomsUsed) : IsLiteral(rhs)}
AtMostOne(S) == {seq \in Seq(S) : Len(seq) <= 1}
Sentences ==
  {s \in [verb : Verbs, table : Names, columns : Seq(Names),
          bindings : Seq([column : Names, rhs : Values]), where : AtMostOne([column : Names, rhs : Values]),
          order : AtMostOne([column : Names, desc : BOOLEAN]), limit : AtMostOne(Numbers)] :
     /\ s.bindings # << >> <=> s.verb \in {"insert", "update"}
     /\ s.columns # << >> => s.verb \in {"read", "update"}
     /\ s.where # << >> => s.verb # "insert" /\ {Equals, RBrace} \cap ToSet(s.where[1].rhs) = {}
     /\ s.order # << >> \/ s.limit # << >> => s.verb = "read"}

\* What an author means is written out, with blanks somewhere.
ASSUME SpellingAssumption ==
  \A s \in Sources : s.meant = NoStmt \/ (s.meant \in Sentences /\ FlattenSeq(s.text) = Atoms(s.meant))

\* A token that has one literal inside and ends with another.
LiteralsTouch(toks) == \E i \in DOMAIN toks : IsConst(toks[i]) /\ \E k \in 1..(Len(toks[i]) - 1) : toks[i][k] \in Closes

-----------------------------------------------------------------------------
(* Whatever the author puts between the atoms of a sentence of the grammar,*)
(* blanks or nothing, if the text compiles then to the statement meant, and*)
(* not to one with other names, values or clauses (parse cuts commas and   *)
(* colons off in three different ways).  The exception is an update that   *)
(* sets two literals with no blank after the first: _const takes           *)
(* 'x'b='y' for one literal.                                               *)
NeverMisread ==
  pc = "compiled" /\ source.meant # NoStmt /\ (source.meant.verb = "update" => ~ LiteralsTouch(text)) => stmt = source.meant

\* No literal is cut by the commas of an insert, or by its own blanks.
WholeLiterals(s) ==
  \A i \in DOMAIN (s.bindings \o s.where) :
    LET rhs == (s.bindings \o s.where)[i].rhs
    IN  IF s.verb = "insert" THEN Comma \notin ToSet(rhs) ELSE Len(rhs) = 1

(* A sentence of the grammar, spaced as the examples of liq/README.md and  *)
(* with no commas between the bindings of an update, parses exactly if no  *)
(* literal holds a comma (insert) or a blank (the others), and compiles    *)
(* exactly if besides its names are in the catalogue and its WHERE compares*)
(* with a parameter: a literal there, which the documents do not rule out, *)
(* is refused (_lower_read, _lower_update, _lower_delete).                 *)
DocumentedFormIsAccepted ==
  pc \in {"compiled", "refused", "error"} /\ source.meant # NoStmt /\ text = Documented(source.meant) =>
    /\ pc # "error" <=> WholeLiterals(source.meant)
    /\ pc = "compiled" <=> /\ WholeLiterals(source.meant)
                         /\ InCatalogue(source.meant) /\ ~ ComparesWithLiteral(source.meant)

\* The atoms without commas and optional words.
Plain(atoms) ==
  LET upTo[k \in 0..Len(atoms)] ==
        IF k = 0 THEN << >>
        ELSE IF atoms[k] \in {Comma, "from", "returning"} THEN upTo[k - 1]
        ELSE Append(upTo[k - 1], atoms[k])
  IN  upTo[Len(atoms)]

\* The statement has the atoms of the text, or, for a delete with a condition, its first.
IsKept(toks, s) ==
  LET written == Plain(FlattenSeq(toks))
      kept == Plain(Atoms(s))
      oneWhere == \A i, j \in DOMAIN written : written[i] = "where" /\ written[j] = "where" => i = j
  IN  /\ s.verb = "insert" => written = kept
      /\ s.verb = "update" /\ oneWhere => written = kept
      /\ s.verb = "delete" /\ s.where # << >> => IsPrefix(kept, written)
      /\ s.verb = "delete" /\ s.where = << >> => written = kept

(* Text that compiles to a write has the atoms of that write, in order, up *)
(* to commas and optional words: nothing that was written is left out and  *)
(* nothing is added, but for a repeated WHERE of an update and for what    *)
(* follows the predicate of a delete (_parse_insert, _parse_update,        *)
(* _parse_delete).  It is not said where one binding ends: _const takes    *)
(* 'x'b='y' and, without a comma, 'x' b: 'y' for one literal, and the      *)
(* second binding is in the value of the first (see NeverMisread).         *)
WritesAreKept == pc = "compiled" => IsKept(text, stmt)

\* The tokens after the first i, up to the j-th, are a clause of a read.
IsClause(toks, i, j) ==
  \/ /\ toks[i + 1] = <<LBrace>> /\ i + 1 < j
     /\ toks[j] = <<RBrace>> /\ \A k \in (i + 2)..(j - 1) : toks[k] # <<RBrace>>
  \/ toks[i + 1] = <<"where">> /\ j = i + 4 /\ toks[i + 3] = <<Equals>> /\ IsRhs(toks[j])
  \/ toks[i + 1] = <<"order">> /\ (j = i + 2 \/ (j = i + 3 /\ toks[j] \in {<<"asc">>, <<"desc">>}))
  \/ toks[i + 1] = <<"limit">> /\ j = i + 2 /\ \E n \in Numbers : toks[j] = <<n>>

\* How many tokens, the verb and the table first, a sequence of clauses may leave behind.
ClauseEnds(toks) ==
  LET upTo[k \in 0..(Len(toks) - 2)] ==
        IF k = 0 THEN {2}
        ELSE LET before == upTo[k - 1]
             IN  before \cup {j \in {k + 2} : \E i \in before : IsClause(toks, i, j)}
  IN  upTo[Len(toks) - 2]

\* Where the clauses of a kind start, in the first n tokens.
Starts(toks, n, word) == {i \in ClauseEnds(toks) : i < n /\ toks[i + 1] = <<word>>}
Directed(toks, n) == {i \in Starts(toks, n, "order") : i + 2 < n /\ toks[i + 3] \in {<<"asc">>, <<"desc">>}}
Latest(S) == {i \in S : \A k \in S : k <= i}

\* Each part of s is that of the last clause of its kind among the first n tokens.
HasParts(toks, n, s) ==
  LET last(word) == Latest(Starts(toks, n, word))
      descends == \E k \in Latest(Directed(toks, n)) : toks[k + 3] = <<"desc">>
  IN  /\ ToSet(s.where) = {Binding(toks[i + 2], toks[i + 4]) : i \in last("where")}
      /\ ToSet(s.limit) = {toks[i + 2][1] : i \in last("limit")}
      /\ ToSet(s.order) = {[column |-> toks[i + 2], desc |-> descends] : i \in last("order")}
      /\ last(LBrace) = {} => s.columns = << >>
      /\ \A i \in last(LBrace) : /\ toks[i + 2 + Len(s.columns)] = <<RBrace>>
                             /\ \A k \in DOMAIN s.columns : s.columns[k] = NoComma(toks[i + 1 + k])

(* A read is accepted exactly when its text after the table is a sequence  *)
(* of clauses, in any order, and each part of the statement is that of the *)
(* last clause of its kind; only the direction of an order may be that of  *)
(* an earlier one (the loop of _parse_read).                               *)
ReadsAreClauses ==
  pc \in {"parsed", "error"} /\ Legal /\ Tokens >= 2 /\ Lower(At(0)) = <<"read">> /\ IsIdent(At(1)) =>
    /\ pc = "parsed" <=> Tokens \in ClauseEnds(text)
    /\ pc = "parsed" => HasParts(text, Tokens, stmt)

(* The parser answers, with a statement or an error, for every text: no    *)
(* turn of a loop leaves the position where it was.                        *)
ParserStops == <>(pc \in {"compiled", "refused", "error"})

=============================================================================

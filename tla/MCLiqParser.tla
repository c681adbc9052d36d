---------------------------- MODULE MCLiqParser -----------------------------
(***************************************************************************)
(* Instances of LiqParser for TLC: every spacing of the sentences of some  *)
(* statements, and the texts that differ from one of them by an edit.      *)
(***************************************************************************)
EXTENDS LiqParser

AllWords == Keywords \cup {"t", "a", "b", "hidden"}
Pieces == {"'x'", "'y"}
Ends == {"'x'", "z'"}

a == <<"a">>
b == <<"b">>
p == <<"$p">>
q == <<"$q">>
Maybe(S) == {<< >>} \cup {<<x>> : x \in S}

Reads ==
  {[NewStmt("read", <<"t">>) EXCEPT !.columns = c, !.where = w, !.order = o, !.limit = l] :
     c \in {<< >>, <<a>>, <<a, b>>}, w \in Maybe({Binding(a, p)}),
     o \in Maybe([column : {b}, desc : BOOLEAN]), l \in Maybe({"7"})}

\* Literals with a blank, with a comma, and beside each other.
Inserts ==
  {[NewStmt("insert", <<"t">>) EXCEPT !.bindings = bs] :
     bs \in { <<Binding(a, p)>>, <<Binding(b, p), Binding(a, q)>>, <<Binding(a, <<"7">>), Binding(b, p)>>,
              <<Binding(a, <<"'y", "z'">>), Binding(b, p)>>, <<Binding(a, <<"'y", ",", "z'">>)>>,
              <<Binding(a, <<"'x'">>), Binding(a, <<"'x'">>)>>, <<Binding(<<"hidden">>, p)>> }}

Updates ==
  {[NewStmt("update", <<"t">>) EXCEPT !.bindings = bs, !.where = w, !.columns = c] :
     bs \in {<<Binding(a, p)>>, <<Binding(a, p), Binding(b, <<"'x'">>)>>},
     w \in Maybe({Binding(b, q), Binding(b, <<"'y", "z'">>)}), c \in {<< >>, <<a, b>>}}
  \cup {[NewStmt("update", <<"t">>) EXCEPT !.bindings = <<Binding(a, <<"'x'">>), Binding(b, <<"'y", "z'">>)>>]}

Deletes == {[NewStmt("delete", table) EXCEPT !.where = w] :
              table \in {<<"t">>, <<"hidden">>}, w \in Maybe({Binding(a, p)})}

Statements == Reads \cup Inserts \cup Updates \cup Deletes

\* Two of these with nothing between them would be one atom.
Lexeme(x) == x \in AllWords \cup {"$p", "$q", "7"}
Gaps(atoms) == {k \in 2..Len(atoms) : ~ (Lexeme(atoms[k - 1]) /\ Lexeme(atoms[k]))}
Spacings(atoms) == {Split(atoms, glued) : glued \in SUBSET Gaps(atoms)}
Spaced == UNION {{[text |-> toks, meant |-> s] : toks \in Spacings(Atoms(s))} : s \in Statements}

Cut(toks, i, j) == SubSeq(toks, 1, i) \o SubSeq(toks, j, Len(toks))
Put(toks, i, tok) == SubSeq(toks, 1, i) \o <<tok>> \o SubSeq(toks, i + 1, Len(toks))
Intruders == {<<w>> : w \in {"where", "order", "asc", "from", "limit", "returning", "{", "}", ",", "=", "$p", "a", ";", "${"}}

Edits(toks) ==
  {Cut(toks, i, i + 2) : i \in 0..(Len(toks) - 1)} \cup {SubSeq(toks, 1, i) : i \in 0..Len(toks)}
    \cup {Put(toks, i, tok) : i \in 0..Len(toks), tok \in Intruders}
    \cup {Put(Cut(toks, i, i + 2), i + 1, toks[i + 1]) : i \in 0..(Len(toks) - 2)}
    \cup {Put(Tail(toks), 0, <<verb>>) : verb \in {"READ", "UPDATE", "delete", "a"}}

\* Also statements with the clauses of another one after theirs.
Edited == UNION {Edits(Documented(s)) : s \in Statements}
            \cup {Documented(s) \o SubSeq(Documented(o), 3, Len(Documented(o))) : s, o \in Reads}
            \cup {Documented(s) \o Split(<<"where">> \o c \o <<"=">> \o p, {}) : s \in Updates \cup Deletes, c \in {a, b}}

Texts == Spaced \cup {[text |-> toks, meant |-> NoStmt] : toks \in Edited}

=============================================================================

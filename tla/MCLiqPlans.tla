----------------------------- MODULE MCLiqPlans -----------------------------
(***************************************************************************)
(* Instances of LiqPlans for TLC: a table of three columns.                *)
(***************************************************************************)
EXTENDS LiqPlans, TLC

CONSTANTS a, b, c, x, y, i1, f1, f2, t1, t2

\* Two that one text is stored of, one that no answer can show, and the empty
\* string, which occurs in every text.
Accent == <<EAcute>>
Barred == <<EAcuteCode, Bar, "two">>
Quoted == <<"one", Quote>>
Texts == {Accent, Barred, Quoted, << >>}
InEverySql == {<< >>}

P(column, name) == [column |-> column, rhs |-> [kind |-> "param", name |-> name]]
K(column, value) == [column |-> column, rhs |-> [kind |-> "const", name |-> value]]
InsertOf(bindings) == [verb |-> "insert", bindings |-> bindings, where |-> << >>, columns |-> {}]
ReadOf(where, columns) == [verb |-> "read", bindings |-> << >>, where |-> where, columns |-> columns]

\* Literals between parameters and a column twice, a parameter twice, reads, a
\* statement the engine does not know, two that do not compile, and an INSERT
\* of nothing.
AnyStatements ==
  { InsertOf(<<P(b, y), K(c, Accent), K(a, Accent), P(a, x)>>),
    InsertOf(<<P(a, x), P(b, x)>>),
    ReadOf(<<P(b, y)>>, {}),
    ReadOf(<< >>, {b}),
    [verb |-> "update", bindings |-> <<P(a, x)>>, where |-> <<P(b, y)>>, columns |-> {}],
    ReadOf(<<K(a, Accent)>>, {}),
    InsertOf(<<P("hidden", x)>>),
    InsertOf(<< >>) }

AnyThread == Permutations({t1, t2})

RegistryPlans == << [id |-> f1, stmt |-> InsertOf(<<P(a, x), P(b, y)>>)],
                    [id |-> f2, stmt |-> ReadOf(<<P(a, x), P(b, y)>>, {})] >>

=============================================================================

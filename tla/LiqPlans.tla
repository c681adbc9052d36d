------------------------------ MODULE LiqPlans ------------------------------
(***************************************************************************)
(* From a liq statement to the row it stores: liq/compiler.py lowers the   *)
(* statement to SQL with placeholders and a parameter schema, liorm's plan *)
(* registry keeps both (liorm/execute.py, registry/bootstrap.py), execute  *)
(* binds the arguments of a call in the order of the schema, and the native*)
(* catalogue puts them in the place of the placeholders, in the order of   *)
(* the text.  Threads register and execute plans at the same time; the     *)
(* statement itself is atomic (ImplementsRowStore of EmbedSession).        *)
(*                                                                         *)
(* One table.  SQL text is the sequence of its columns and of what stands  *)
(* in the place of their values.  Values are texts of TextPath: the table  *)
(* holds what is stored of an argument, a condition compares with what is  *)
(* sent of it, and an answer shows what is read.  COUNT, LIMIT and ORDER BY*)
(* are left out.                                                           *)
(***************************************************************************)
EXTENDS TextPath, FiniteSets

CONSTANTS
  Threads,
  Columns,      \* column names that occur in statements
  Catalogued,   \* those in CATALOG_ALLOWLIST
  Params,       \* parameter names
  Values,       \* texts of parameters and constants
  Verbatim,     \* those that occur in the text of SQL
  Statements,   \* the liq statements that clients compile
  LiqIds,       \* plan ids under which clients register
  FrozenPlans,  \* _REGISTRY_PLANS: a sequence of plan ids with their statements
  MaxRegisters, \* bound: registrations by clients
  MaxCalls,     \* bound: calls of execute
  MaxClears     \* bound: calls of clear_plans

Rhs == [kind : {"param"}, name : Params] \cup [kind : {"const"}, name : Values]
Binding == [column : Columns, rhs : Rhs]
FrozenIds == {FrozenPlans[i].id : i \in 1..Len(FrozenPlans)}

\* `columns` is the projection of a read or the RETURNING of an update.
IsStatement(s) ==
  /\ s.verb \in {"read", "insert", "update", "delete"}
  /\ s.bindings \in Seq(Binding)
  /\ s.where \in Seq(Binding)
  /\ s.columns \subseteq Columns
  /\ s.verb \in {"read", "delete"} => s.bindings = << >>
  /\ s.verb = "insert" => s.where = << >>

IsParam(b) == b.rhs.kind = "param"

ASSUME PlansAssumption ==
  /\ Catalogued \subseteq Columns
  /\ Verbatim \subseteq Values
  /\ \A s \in Statements : IsStatement(s) /\ Len(s.where) <= 1
  /\ FrozenPlans \in Seq({FrozenPlans[i] : i \in 1..Len(FrozenPlans)})
  /\ \A i \in 1..Len(FrozenPlans) :
       /\ IsStatement(FrozenPlans[i].stmt)
       /\ \A k \in 1..Len(FrozenPlans[i].stmt.where) : IsParam(FrozenPlans[i].stmt.where[k])
       /\ \A j \in 1..Len(FrozenPlans) : FrozenPlans[i].id = FrozenPlans[j].id => i = j
  /\ LiqIds \cap FrozenIds = {}
  /\ MaxRegisters \in Nat /\ MaxCalls \in Nat /\ MaxClears \in Nat

VARIABLES
  plans,      \* _PLANS
  registered, \* _REGISTERED
  rows,       \* the rows of the table, each with the statement and arguments that made it
  pc,         \* where each thread is
  todo,       \* what is left of the loop of register_registry_plans
  running,    \* the plan each thread executes, its arguments, and the bound values
  result,     \* what the last call of each thread returned or raised
  built,      \* history: threads that have a RegistryOltp
  registers, calls, clears

vars == <<plans, registered, rows, pc, todo, running, result, built, registers, calls, clears>>

-----------------------------------------------------------------------------
(* liq/compiler.py                                                         *)

\* Where a statement has values, and which of them are parameters.
ValuesOf(s) == s.bindings \o s.where
Uses(s) == {i \in 1..Len(ValuesOf(s)) : IsParam(ValuesOf(s)[i])}
NameAt(s, i) == ValuesOf(s)[i].rhs.name

\* The statement names a parameter in more than one place.
Repeats(s) == \E i, j \in Uses(s) : i # j /\ NameAt(s, i) = NameAt(s, j)

\* The k-th of a set of places.
Nth(places, k) == CHOOSE i \in places : Cardinality({j \in places : j < i}) = k - 1

\* The keys of param_schema: a dict, so each parameter where it is first used.
FirstUses(s) == {i \in Uses(s) : \A j \in Uses(s) : j < i => NameAt(s, j) # NameAt(s, i)}
Schema(s) == [k \in 1..Cardinality(FirstUses(s)) |-> NameAt(s, Nth(FirstUses(s), k))]

\* mutant: a constant gets a placeholder too
ConstantPlaceholder(b) == "?"

\* What stands in the SQL for a value: the $n of a parameter, which
\* flatten_catalog_sql turns into "?", and "%s" for every constant.
Placeholder(b) == IF IsParam(b) THEN "?" ELSE "%s"

\* compile() succeeds: the identifiers are in the catalogue, and a value that
\* is compared with is a parameter.
Compiles(s) ==
  /\ s.columns \subseteq Catalogued
  /\ \A i \in 1..Len(s.bindings) : s.bindings[i].column \in Catalogued
  /\ \A i \in 1..Len(s.where) : s.where[i].column \in Catalogued /\ IsParam(s.where[i])

\* The registered plan; `source` is history.
Lower(s) ==
  [verb    |-> s.verb,
   slots   |-> [i \in 1..Len(s.bindings) |-> [column |-> s.bindings[i].column,
                                              text   |-> Placeholder(s.bindings[i])]],
   where   |-> [i \in 1..Len(s.where) |-> s.where[i].column],
   columns |-> s.columns,
   schema  |-> Schema(s),
   source  |-> s]

NoPlan == [verb |-> "none"]

-----------------------------------------------------------------------------
(* native_catalog.cpp                                                      *)

\* How many parameters the text asks for up to and including slot i.
Asked(plan, i) == Cardinality({j \in 1..i : plan.slots[j].text = "?"})

\* The row of an INSERT, as it is read from the snapshot afterwards.  A column
\* named twice has the later value.
RowOf(plan, bound) ==
  [c \in {plan.slots[i].column : i \in 1..Len(plan.slots)} |->
     LET named == {i \in 1..Len(plan.slots) : plan.slots[i].column = c}
         i == CHOOSE i \in named : \A j \in named : j <= i
     IN  IF plan.slots[i].text = "?" THEN Kept(bound[Asked(plan, i)]) ELSE <<plan.slots[i].text>>]

\* The first condition alone decides, and there is no LIMIT.
Meets(r, plan, bound) ==
  plan.where = << >> \/ (plan.where[1] \in DOMAIN r /\ r[plan.where[1]] = bound[1])
Projected(r, plan) == [c \in (IF plan.columns = {} THEN DOMAIN r ELSE DOMAIN r \cap plan.columns) |-> r[c]]

\* mutant: the WHERE clause is not looked at
AnswerAll(plan, bound) ==
  LET hits == {i \in 1..Len(rows) : DOMAIN Projected(rows[i].row, plan) # {}}
  IN  [k \in 1..Cardinality(hits) |-> Projected(rows[Nth(hits, k)].row, plan)]

\* The answer to a SELECT, in the order of the table; a row with none of the
\* columns asked for is left out.  json.loads raises for an answer that shows
\* a garbled value.
Answer(plan, bound) ==
  LET hits == {i \in 1..Len(rows) : Meets(rows[i].row, plan, bound) /\ DOMAIN Projected(rows[i].row, plan) # {}}
  IN  [k \in 1..Cardinality(hits) |-> Projected(rows[Nth(hits, k)].row, plan)]
Unreadable(answer) == \E k \in DOMAIN answer : \E c \in DOMAIN answer[k] : Garbled(answer[k][c])
AsShown(r) == [c \in DOMAIN r |-> Shown(r[c])]

-----------------------------------------------------------------------------
Idle == [plan |-> NoPlan, args |-> << >>, bound |-> << >>]
Raised(why) == [status |-> why, rows |-> << >>]
Arguments == UNION {[S -> Values] : S \in SUBSET Params}

Init ==
  /\ plans = [id \in LiqIds \cup FrozenIds |-> NoPlan]
  /\ registered = FALSE
  /\ rows = << >>
  /\ pc = [t \in Threads |-> "idle"]
  /\ todo = [t \in Threads |-> << >>]
  /\ running = [t \in Threads |-> Idle]
  /\ result = [t \in Threads |-> Raised("none")]
  /\ built = {}
  /\ registers = 0 /\ calls = 0 /\ clears = 0

(* A client compiles a statement and registers the plan, in the place of   *)
(* any other with that id.                                                 *)
Register(t, s, id) ==
  /\ pc[t] = "idle"
  /\ registers < MaxRegisters
  /\ registers' = registers + 1
  /\ IF Compiles(s)
       THEN plans' = [plans EXCEPT ![id] = Lower(s)] /\ UNCHANGED result
       ELSE result' = [result EXCEPT ![t] = Raised("compile_error")] /\ UNCHANGED plans
  /\ UNCHANGED <<registered, rows, pc, todo, running, built, calls, clears>>

(* Mutant: _REGISTERED is set before the loop.                             *)
ConstructFlagFirst(t, force) ==
  /\ pc[t] = "idle"
  /\ t \notin built
  /\ registered' = TRUE
  /\ IF registered /\ ~ force
       THEN built' = built \cup {t} /\ UNCHANGED <<pc, todo>>
       ELSE /\ pc' = [pc EXCEPT ![t] = "registering"]
            /\ todo' = [todo EXCEPT ![t] = FrozenPlans]
            /\ UNCHANGED built
  /\ UNCHANGED <<plans, rows, running, result, registers, calls, clears>>

(* RegistryOltp(): register_registry_plans returns at once or starts its   *)
(* loop; a test may force the loop.                                        *)
Construct(t, force) ==
  /\ pc[t] = "idle"
  /\ t \notin built
  /\ IF registered /\ ~ force
       THEN built' = built \cup {t} /\ UNCHANGED <<pc, todo>>
       ELSE /\ pc' = [pc EXCEPT ![t] = "registering"]
            /\ todo' = [todo EXCEPT ![t] = FrozenPlans]
            /\ UNCHANGED built
  /\ UNCHANGED <<plans, registered, rows, running, result, registers, calls, clears>>

(* One turn of the loop ...                                                *)
RegisterFrozen(t) ==
  /\ pc[t] = "registering"
  /\ todo[t] # << >>
  /\ plans' = [plans EXCEPT ![Head(todo[t]).id] = Lower(Head(todo[t]).stmt)]
  /\ todo' = [todo EXCEPT ![t] = Tail(@)]
  /\ UNCHANGED <<registered, rows, pc, running, result, built, registers, calls, clears>>

(* ... and what follows it.                                                *)
FinishRegistration(t) ==
  /\ pc[t] = "registering"
  /\ todo[t] = << >>
  /\ registered' = TRUE
  /\ built' = built \cup {t}
  /\ pc' = [pc EXCEPT ![t] = "idle"]
  /\ UNCHANGED <<plans, rows, todo, running, result, registers, calls, clears>>

(* clear_plans, which leaves _REGISTERED as it is.                         *)
ClearPlans ==
  /\ clears < MaxClears
  /\ clears' = clears + 1
  /\ plans' = [id \in DOMAIN plans |-> NoPlan]
  /\ UNCHANGED <<registered, rows, pc, todo, running, result, built, registers, calls>>

-----------------------------------------------------------------------------
Elements(s) == {s[i] : i \in 1..Len(s)}

\* mutant: the values in the reverse of the order declared
BoundReversed(plan, args) ==
  [k \in 1..Len(plan.schema) |-> Sent(args[plan.schema[Len(plan.schema) + 1 - k]])]

\* _ordered_params, and what the engine gets of each value.
Bound(plan, args) == [k \in 1..Len(plan.schema) |-> Sent(args[plan.schema[k]])]

(* execute() up to _run_engine: the plan is looked up once, the arguments  *)
(* are checked against it and bound.                                       *)
Execute(t, id, args) ==
  /\ pc[t] = "idle"
  /\ calls < MaxCalls
  /\ calls' = calls + 1
  /\ LET plan == plans[id]
         refused == IF plan = NoPlan THEN "unknown_plan"
                    ELSE IF DOMAIN args # Elements(plan.schema) \/ \E k \in DOMAIN args : args[k] \in Verbatim
                           THEN "mismatch" ELSE "none"
     IN  /\ result' = [result EXCEPT ![t] = Raised(refused)]
         /\ IF refused = "none"
              THEN /\ pc' = [pc EXCEPT ![t] = "engine"]
                   /\ running' = [running EXCEPT ![t] = [plan |-> plan, args |-> args, bound |-> Bound(plan, args)]]
              ELSE UNCHANGED <<pc, running>>
  /\ UNCHANGED <<plans, registered, rows, todo, built, registers, clears>>

Return(t, res) ==
  /\ result' = [result EXCEPT ![t] = res]
  /\ running' = [running EXCEPT ![t] = Idle]
  /\ pc' = [pc EXCEPT ![t] = "idle"]
  /\ UNCHANGED <<plans, registered, todo, built, registers, calls, clears>>

Store(t) == LET run == running[t]
            IN  rows' = Append(rows, [row |-> RowOf(run.plan, run.bound), stmt |-> run.plan.source, args |-> run.args])

(* exec_insert: it gives up when the text asks for more parameters than    *)
(* there are.                                                              *)
ExecInsert(t) ==
  /\ pc[t] = "engine"
  /\ running[t].plan.verb = "insert"
  /\ IF Asked(running[t].plan, Len(running[t].plan.slots)) <= Len(running[t].bound)
       THEN Store(t) /\ Return(t, Raised("ok"))
       ELSE Return(t, Raised("failed")) /\ UNCHANGED rows

(* exec_select, and what json.loads makes of its answer.                   *)
ExecSelect(t) ==
  /\ pc[t] = "engine"
  /\ running[t].plan.verb = "read"
  /\ LET answer == Answer(running[t].plan, running[t].bound)
     IN  Return(t, IF Unreadable(answer) THEN Raised("unreadable")
                   ELSE [status |-> "ok", rows |-> [k \in DOMAIN answer |-> AsShown(answer[k])]])
  /\ UNCHANGED rows

(* NativeCatalog::exec knows no other statement.                           *)
ExecOther(t) ==
  /\ pc[t] = "engine"
  /\ running[t].plan.verb \notin {"insert", "read"}
  /\ Return(t, Raised("failed"))
  /\ UNCHANGED rows

(* The engine is not there, or its answer is lost.                         *)
EngineLost(t) ==
  /\ pc[t] = "engine"
  /\ \/ UNCHANGED rows
     \/ /\ running[t].plan.verb = "insert"
        /\ Asked(running[t].plan, Len(running[t].plan.slots)) <= Len(running[t].bound)
        /\ Store(t)
  /\ Return(t, Raised("lost"))

Next ==
  \/ \E t \in Threads :
       \/ \E s \in Statements, id \in LiqIds : Register(t, s, id)
       \/ \E force \in BOOLEAN : Construct(t, force)
       \/ RegisterFrozen(t) \/ FinishRegistration(t)
       \/ \E id \in LiqIds \cup FrozenIds, args \in Arguments : Execute(t, id, args)
       \/ ExecInsert(t) \/ ExecSelect(t) \/ ExecOther(t) \/ EngineLost(t)
  \/ ClearPlans

Spec == Init /\ [][Next]_vars

-----------------------------------------------------------------------------
\* The last binding of column c in statement s.
BindingOf(s, c) ==
  LET named == {i \in 1..Len(s.bindings) : s.bindings[i].column = c}
  IN  s.bindings[CHOOSE i \in named : \A j \in named : j <= i]

(* What is stored is what the statement says, by name: a column bound to   *)
(* $p has the text stored of argument p of that call, whatever the order of*)
(* parameters, the constants between them, the other columns, and however  *)
(* often the plan was replaced meanwhile.  The compiler numbers by         *)
(* position, execute binds by the order of a dict, the engine counts       *)
(* question marks.                                                         *)
StoredAsBound ==
  \A i \in 1..Len(rows) : \A c \in DOMAIN rows[i].row :
    LET rhs == BindingOf(rows[i].stmt, c).rhs
    IN  rhs.kind = "param" => rows[i].row[c] = Stored(rows[i].args[rhs.name])

\* The rows with what is sent of the argument that the condition of s names
\* (exec_select takes the first bound value for it), but for rows without any
\* column, which an INSERT of nothing leaves.
Wanted(s, args) ==
  {i \in 1..Len(rows) :
     /\ DOMAIN rows[i].row # {}
     /\ \/ s.where = << >>
        \/ /\ s.where[1].column \in DOMAIN rows[i].row
           /\ rows[i].row[s.where[1].column] = Sent(args[s.where[1].rhs.name])}
GarbledAmong(places) == \E i \in places : \E c \in DOMAIN rows[i].row : Garbled(rows[i].row[c])

(* A read of all columns with at most one condition, when it is executed,  *)
(* returns exactly the rows whose column has the text sent of the argument *)
(* the condition names, each as it reads, or raises because one of them    *)
(* cannot be read.  Two arguments that are sent as one text find the same  *)
(* rows, and an argument with a bar finds none: what is stored ends there. *)
ReadsAnswerTheirWhere ==
  [][\A t \in Threads :
       /\ pc[t] = "engine" /\ running[t].plan.verb = "read" /\ pc'[t] = "idle"
       /\ Len(running[t].plan.source.where) <= 1 /\ running[t].plan.columns = {}
       => LET hits == Wanted(running[t].plan.source, running[t].args)
          IN  /\ result'[t].status = "ok" =>
                   /\ ~ GarbledAmong(hits)
                   /\ result'[t].rows = [k \in 1..Cardinality(hits) |-> AsShown(rows[Nth(hits, k)].row)]
              /\ result'[t].status = "unreadable" => GarbledAmong(hits)]_vars

(* An INSERT that execute accepted is refused by the engine exactly when   *)
(* it names a parameter twice: then the text asks for more values than the *)
(* schema, a dict, declares.                                               *)
InsertsFailOnlyOnRepeats ==
  [][\A t \in Threads :
       pc[t] = "engine" /\ running[t].plan.verb = "insert" /\ pc'[t] = "idle" =>
         /\ result'[t].status = "failed" => Repeats(running[t].plan.source)
         /\ result'[t].status = "ok" => ~ Repeats(running[t].plan.source)]_vars

(* Until the plans are cleared: a thread that has a RegistryOltp finds all *)
(* of the registry's plans, also when another thread is still registering  *)
(* them (register_registry_plans sets its flag last).                      *)
RegistryPlansAreThere ==
  built # {} /\ clears = 0 =>
    \A i \in 1..Len(FrozenPlans) : plans[FrozenPlans[i].id] = Lower(FrozenPlans[i].stmt)

(* liq/README.md: values are given "only via `$name` or typed literals".   *)
(* A literal of an INSERT is not stored: the row gets the text "%s".       *)
LiteralsAreStored ==
  \A i \in 1..Len(rows) : \A c \in DOMAIN rows[i].row :
    LET rhs == BindingOf(rows[i].stmt, c).rhs
    IN  rhs.kind = "const" => rows[i].row[c] = Stored(rhs.name)

=============================================================================

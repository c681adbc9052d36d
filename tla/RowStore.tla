------------------------------ MODULE RowStore ------------------------------
(***************************************************************************)
(* What execute_sql promises its callers: a set of rows per table that is  *)
(* changed and read by calls, each of which takes effect at one instant    *)
(* between its start and its return, and at most once.  A call that returns*)
(* normally took effect; one that was refused did not and never will; of   *)
(* one whose answer was lost the caller does not know.  Nothing removes a  *)
(* row.                                                                    *)
(***************************************************************************)
CONSTANTS Clients, Tables, Rows, NoRow

VARIABLES
  rows,    \* the rows of each table
  status,  \* "idle", "called" or "applied", for each client
  request, \* the call each client makes
  answer   \* what the last call of each client returned

vars == <<rows, status, request, answer>>

Request == [op : {"insert", "select"}, table : Tables, row : Rows \cup {NoRow}]
Answer == [status : {"none", "ok", "failed", "lost"}, rows : SUBSET Rows]
Nothing == [status |-> "none", rows |-> {}]
Failed == [status |-> "failed", rows |-> {}]
Lost == [status |-> "lost", rows |-> {}]

TypeOK ==
  /\ rows \in [Tables -> SUBSET Rows]
  /\ status \in [Clients -> {"idle", "called", "applied"}]
  /\ request \in [Clients -> Request]
  /\ answer \in [Clients -> Answer]

Init ==
  /\ rows = [t \in Tables |-> {}]
  /\ status = [c \in Clients |-> "idle"]
  /\ request \in [Clients -> Request]
  /\ answer = [c \in Clients |-> Nothing]

Call(c, req) ==
  /\ status[c] = "idle"
  /\ status' = [status EXCEPT ![c] = "called"]
  /\ request' = [request EXCEPT ![c] = req]
  /\ answer' = [answer EXCEPT ![c] = Nothing]
  /\ UNCHANGED rows

ApplyInsert(c) ==
  /\ status[c] = "called"
  /\ request[c].op = "insert"
  /\ rows' = [rows EXCEPT ![request[c].table] = @ \cup {request[c].row}]
  /\ status' = [status EXCEPT ![c] = "applied"]
  /\ answer' = [answer EXCEPT ![c] = [status |-> "ok", rows |-> {}]]
  /\ UNCHANGED request

ApplySelect(c) ==
  /\ status[c] = "called"
  /\ request[c].op = "select"
  /\ status' = [status EXCEPT ![c] = "applied"]
  /\ answer' = [answer EXCEPT ![c] = [status |-> "ok", rows |-> rows[request[c].table]]]
  /\ UNCHANGED <<rows, request>>

Return(c) ==
  /\ status[c] = "applied"
  /\ status' = [status EXCEPT ![c] = "idle"]
  /\ UNCHANGED <<rows, request, answer>>

Refuse(c) ==
  /\ status[c] = "called"
  /\ status' = [status EXCEPT ![c] = "idle"]
  /\ answer' = [answer EXCEPT ![c] = Failed]
  /\ UNCHANGED <<rows, request>>

Lose(c) ==
  /\ status[c] \in {"called", "applied"}
  /\ status' = [status EXCEPT ![c] = "idle"]
  /\ answer' = [answer EXCEPT ![c] = Lost]
  /\ UNCHANGED <<rows, request>>

Next == \E c \in Clients :
  \/ \E req \in Request : Call(c, req)
  \/ ApplyInsert(c) \/ ApplySelect(c) \/ Return(c) \/ Refuse(c) \/ Lose(c)

Spec == Init /\ [][Next]_vars

=============================================================================

------------------------------ MODULE Requests ------------------------------
(***************************************************************************)
(* How the HTTP server works on the database.  A handler is one action if  *)
(* its decision and its write are one statement.  Otherwise it is an       *)
(* action that reads and decides, which leaves a call behind, and further  *)
(* steps that execute the statements of the call, one at a time, on        *)
(* whatever the database is by then.  A request that is refused changes    *)
(* nothing and is no step; a call that never goes on is a server that      *)
(* stopped, or a connection that was lost, between two statements.         *)
(***************************************************************************)
EXTENDS Tables

CONSTANTS
    Before,      \* the rows of the tenant before the first request
    FirstId,     \* the number of the first request, above all ids of Before
    Scenarios,   \* bound: the operations a behaviour uses and how many requests
    Names        \* bound: the names, addresses and words requests carry

\* No row has the number of a request that is still to come, and none is NULL.
ASSUME FirstIdAssumption ==
    FirstId \in Id /\ \A t \in DOMAIN Before : \A x \in Before[t] : x.id < FirstId

VARIABLES
    db,          \* the tables
    calls,       \* requests between two of their statements
    serial,      \* the number of the next request
    page,        \* the last answer to a viewer
    scenario     \* the member of Scenarios this behaviour follows

vars == <<db, calls, serial, page, scenario>>

Init ==
    /\ db = Before
    /\ calls = {}
    /\ serial = FirstId
    /\ page = [by |-> CHOOSE u \in Users : Role[u] \in Staff,
               scope |-> {}, shown |-> {}, internal |-> FALSE]
    /\ scenario \in Scenarios

MoreRequests == serial < FirstId + scenario.requests

\* A request reaches its handler.
Arrives(op) ==
    /\ op \in scenario.ops
    /\ serial' = serial + 1
    /\ UNCHANGED <<page, scenario>>

AtOnce(op, d) == Arrives(op) /\ db' = d /\ UNCHANGED calls

Begin(op, row) ==
    /\ Arrives(op)
    /\ calls' = calls \cup {[n |-> serial, op |-> op, row |-> row]}
    /\ UNCHANGED db

\* A statement of a call, after which the call is done or does what is next.
Continue(c, d, next) ==
    /\ calls' = (calls \ {c}) \cup next
    /\ db' = d
    /\ UNCHANGED <<page, serial, scenario>>

Write(c, d) == Continue(c, d, {})

\* The call goes on to another statement.
On(c, op, row) == {[c EXCEPT !.op = op, !.row = row]}

\* The last statement of a read.
ReplyAs(c, ids, shown, internal) ==
    /\ calls' = calls \ {c}
    /\ page' = [by |-> c.row.by, scope |-> ids, shown |-> shown, internal |-> internal]
    /\ UNCHANGED <<db, serial, scenario>>

\* RequireRole("admin", "agent") and RequireRole("admin") on the route.
ByStaff(u) == Role[u] \in Staff
ByAdmin(u) == Role[u] = "admin"
=============================================================================

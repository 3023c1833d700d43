------------------------------- MODULE Tables -------------------------------
(***************************************************************************)
(* Tables of one tenant, and the SQL statements every repository of        *)
(* infrastructure/postgres is made of.  A database is a record of tables,  *)
(* a table a set of rows with an "id".  An operator returns the database   *)
(* after the statement: the old one where a constraint fails or no row     *)
(* matches.  An id is the number of the request that inserted the row, so  *)
(* ids are never used again.                                               *)
(***************************************************************************)
EXTENDS Integers, FiniteSets

CONSTANTS
    Users,   \* the users of the tenant, none of them is ever deleted
    Role     \* the role of each user

ASSUME RoleAssumption == Role \in [Users -> {"admin", "agent", "end_user"}]

None == 0   \* NULL: no ticket, no contract, nobody
Id == Nat \ {None}
OrNone(S) == S \cup {None}

Staff == {"admin", "agent"}

Has(d, table, id) == \E x \in d[table] : x.id = id
Row(d, table, id) == CHOOSE x \in d[table] : x.id = id
Keyed(d, table, id) == id = None \/ Has(d, table, id)

\* INSERT of a row whose foreign and unique keys are as the condition says.
Insert(d, table, row, ok) == IF ok THEN [d EXCEPT ![table] = @ \cup {row}] ELSE d

\* UPDATE of every column by id.
Put(d, table, row) ==
    [d EXCEPT ![table] = {IF x.id = row.id THEN row ELSE x : x \in @}]

\* UPDATE of one column.
SetField(d, table, ids, field, value) ==
    [d EXCEPT ![table] =
        {IF x.id \in ids THEN [x EXCEPT ![field] = value] ELSE x : x \in @}]

\* DELETE by id.
Remove(d, table, id) == [d EXCEPT ![table] = {x \in @ : x.id # id}]

\* Variant: an empty list restricts nothing, as if it were nil.
InScope_EmptyIsAll(scope, k) == scope.all \/ scope.ids = {} \/ k \in scope.ids

\* The restriction of a query to the clients (or customers) of a viewer.  A nil
\* list is [all |-> TRUE]; an empty list matches nothing.
InScope(scope, k) == scope.all \/ k \in scope.ids

\* That restriction and an optional filter on the same column.
Where(rows, column, scope, k) ==
    {x \in rows : InScope(scope, x[column]) /\ k \in {None, x[column]}}
=============================================================================

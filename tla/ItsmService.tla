----------------------------- MODULE ItsmService -----------------------------
(***************************************************************************)
(* What the ITSM service decides on the rows it reads (application/itsm).  *)
(***************************************************************************)
EXTENDS ItsmStore

CategoryAccepted(c) == ValidCategoryName(c.name)
CategoryRenamed(c) == ValidCategoryName(c.name)
TypeAccepted(t) == ValidCategoryName(t.name)

\* A status that is not given is "active", for a new asset and for no other.
NewAsset(a) == [a EXCEPT !.status = IF @ = "" THEN "active" ELSE @]

\* checkTicketAndAsset
TicketAndAsset(d, l) == Has(d, "tickets", l.ticket) /\ Has(d, "assets", l.id)

NewProblem(p) == [p EXCEPT !.status = "open"]

\* Variant: a text that the request does not mention is emptied.
Patched_Clears(p, status, cause, workaround) ==
    {q \in {[p EXCEPT !.status = IF status = "" THEN @ ELSE status,
                      !.cause = cause, !.workaround = workaround]} :
        status = "" \/ ProblemCanMoveTo(p, status)}

\* UpdateProblem: the row that was read, with what the request mentions; no row
\* if it may not move there.
Patched(p, status, cause, workaround) ==
    {q \in {[p EXCEPT !.status = IF status = "" THEN @ ELSE status,
                      !.cause = IF cause = "" THEN @ ELSE cause,
                      !.workaround = IF workaround = "" THEN @ ELSE workaround]} :
        status = "" \/ ProblemCanMoveTo(p, status)}

IncidentAccepted(d, l) == Has(d, "problems", l.problem) /\ Has(d, "tickets", l.id)

\* A change starts as a draft of medium risk, unless the request says otherwise.
NewChange(d, c) ==
    {x \in {[c EXCEPT !.risk = IF @ = "" THEN "medium" ELSE @]} :
        ValidChange(x) /\ Keyed(d, "problems", x.problem)}

ChangeTicketAccepted(d, l) == Has(d, "changes", l.change) /\ Has(d, "tickets", l.id)
=============================================================================

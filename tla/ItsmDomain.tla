----------------------------- MODULE ItsmDomain -----------------------------
(***************************************************************************)
(* The rules of the service catalogue, the inventory (CMDB), problems and  *)
(* the plan of a change (domain/itsm).  How a change moves, and who may    *)
(* approve it, is ChangeControl.  "" is an empty text.                     *)
(***************************************************************************)
EXTENDS Tables

ValidCategoryName(name) == name # ""

ValidService(s) == ValidCategoryName(s.name)

AssetStatus == {"active", "maintenance", "retired", "stock"}
ValidAsset(a) == a.name # "" /\ a.status \in AssetStatus

RelationshipTypes == {"depends_on", "hosts", "uses"}
ValidRelationship(r) ==
    r.kind \in RelationshipTypes /\ None \notin {r.source, r.target} /\ r.source # r.target

ProblemTransitions ==
    [open          |-> {"investigating", "resolved", "closed"},
     investigating |-> {"resolved", "closed", "open"},
     resolved      |-> {"closed", "investigating"},
     closed        |-> {"investigating"}]

ProblemCanMoveTo(p, next) == next \in ProblemTransitions[p.status]

ValidProblem(p) == p.title # "" /\ p.status \in DOMAIN ProblemTransitions

ChangeRisks == {"low", "medium", "high", "critical"}

\* A window that is given on both sides does not end before it starts.
ValidChange(c) ==
    c.title # "" /\ c.risk \in ChangeRisks
    /\ (None \notin {c.from, c.until} => c.from <= c.until)
=============================================================================

------------------------------ MODULE ItsmStore ------------------------------
(***************************************************************************)
(* The statements of infrastructure/postgres/itsm_repo.go on the catalogue,*)
(* the inventory, problems and changes, with the keys of migrations 000012 *)
(* to 000014.  The rows that link two tables have the number of the asset  *)
(* or of the ticket they link.  MSP writes the inventory too.              *)
(***************************************************************************)
EXTENDS ItsmDomain

CatalogCategory == [id : Id, name : STRING]
CatalogService == [id : Id, category : OrNone(Id), name : STRING, approval : BOOLEAN,
                   active : BOOLEAN]
CIType == [id : Id, name : STRING]
Asset == [id : Id, type : Id, name : STRING, status : AssetStatus]
CIRelationship == [id : Id, source : Id, target : Id, kind : RelationshipTypes]
TicketAsset == [id : Id, ticket : Id]        \* the asset and the ticket about it
Problem == [id : Id, title : STRING, status : DOMAIN ProblemTransitions, cause : STRING,
            workaround : STRING]
ProblemIncident == [id : Id, problem : Id]   \* the ticket and its problem
Change == [id : Id, title : STRING, problem : OrNone(Id), risk : ChangeRisks,
           from : OrNone(Nat), until : OrNone(Nat)]
ChangeTicket == [id : Id, change : Id]       \* the ticket and the change that touches it

\* UNIQUE (tenant_id, name)
NameIsFree(d, table, row) == \A x \in d[table] : x.name = row.name => x.id = row.id

---------------------------------------------------------------------------
(* Catalogue *)

InsertCategory(d, c) == Insert(d, "categories", c, NameIsFree(d, "categories", c))
UpdateCategoryRow(d, c) == IF NameIsFree(d, "categories", c) THEN Put(d, "categories", c) ELSE d

\* ON DELETE SET NULL: the services of the category stay.
DeleteCategoryRow(d, id) ==
    SetField(Remove(d, "categories", id), "services",
             {s.id : s \in {x \in d.services : x.category = id}}, "category", None)

ServiceKeys(d, s) == NameIsFree(d, "services", s) /\ Keyed(d, "categories", s.category)
InsertService(d, s) == Insert(d, "services", s, ServiceKeys(d, s))
UpdateServiceRow(d, s) == IF ServiceKeys(d, s) THEN Put(d, "services", s) ELSE d
DeleteServiceRow(d, id) == Remove(d, "services", id)

---------------------------------------------------------------------------
(* Inventory *)

InsertCIType(d, t) == Insert(d, "citypes", t, NameIsFree(d, "citypes", t))

\* ON DELETE RESTRICT: a type that has assets stays.
DeleteCITypeRow(d, id) ==
    IF \E a \in d.assets : a.type = id THEN d ELSE Remove(d, "citypes", id)

AssetKeys(d, a) == NameIsFree(d, "assets", a) /\ Has(d, "citypes", a.type)
InsertAsset(d, a) == Insert(d, "assets", a, AssetKeys(d, a))
UpdateAssetRow(d, a) == IF AssetKeys(d, a) THEN Put(d, "assets", a) ELSE d

\* ON DELETE CASCADE to relationships, tickets and clients; what a discovery
\* became is forgotten (ON DELETE SET NULL).
DeleteAssetRow(d, id) ==
    SetField([Remove(d, "assets", id) EXCEPT
                 !.relationships = {r \in @ : id \notin {r.source, r.target}},
                 !.ticketAssets = {l \in @ : l.id # id},
                 !.linked = {l \in @ : l.id # id}],
             "discovered", {x.id : x \in {y \in d.discovered : y.asset = id}}, "asset", None)

\* The first statement of CreateRelationship counts the two ends, the second inserts.
BothEnds(d, r) == Has(d, "assets", r.source) /\ Has(d, "assets", r.target)
InsertRelationship(d, r) ==
    Insert(d, "relationships", r,
           /\ BothEnds(d, r)
           /\ \A x \in d.relationships :
                 <<x.source, x.target, x.kind>> # <<r.source, r.target, r.kind>>)
DeleteRelationshipRow(d, id) == Remove(d, "relationships", id)

\* ON CONFLICT DO NOTHING: a link that is there is inserted in vain.
InsertTicketAsset(d, l) ==
    Insert(d, "ticketAssets", l, Has(d, "assets", l.id) /\ Has(d, "tickets", l.ticket))
DeleteTicketAsset(d, l) == [d EXCEPT !.ticketAssets = @ \ {l}]

---------------------------------------------------------------------------
(* Problems and changes, which are never deleted *)

InsertProblem(d, p) == Insert(d, "problems", p, TRUE)
\* Every column, by id.
UpdateProblemRow(d, p) == Put(d, "problems", p)

InsertIncident(d, l) == Insert(d, "incidents", l, Has(d, "problems", l.problem))
DeleteIncident(d, l) == [d EXCEPT !.incidents = @ \ {l}]

InsertChange(d, c) == Insert(d, "changes", c, Keyed(d, "problems", c.problem))
InsertChangeTicket(d, l) == Insert(d, "changeTickets", l, Has(d, "changes", l.change))
DeleteChangeTicket(d, l) == [d EXCEPT !.changeTickets = @ \ {l}]
=============================================================================

-------------------------------- MODULE Itsm --------------------------------
(***************************************************************************)
(* The catalogue, the inventory, problems and the links of changes: the    *)
(* routes under /catalog, /ci-types, /assets, /ticket-assets, /problems    *)
(* and /changes that write (interfaces/http/handler/itsm.go).  Reading is  *)
(* open to every user of the tenant and is left out.                       *)
(***************************************************************************)
EXTENDS ItsmService, Requests

CONSTANT Window   \* bound: the days a change may be planned for

---------------------------------------------------------------------------
(* Catalogue *)

CategoryInput(id) == [id : {id}, name : Names \cup {""}]

CreateCategory(u) ==
    \E c \in CategoryInput(serial) :
        ByStaff(u) /\ CategoryAccepted(c) /\ AtOnce("CreateCategory", InsertCategory(db, c))

UpdateCategory(u) ==
    \E x \in db.categories : \E c \in CategoryInput(x.id) :
        ByStaff(u) /\ CategoryRenamed(c) /\ AtOnce("UpdateCategory", UpdateCategoryRow(db, c))

DeleteCategory(u) ==
    \E x \in db.categories : ByStaff(u) /\ AtOnce("DeleteCategory", DeleteCategoryRow(db, x.id))

ServiceInput(id) ==
    [id : {id}, category : OrNone({x.id : x \in db.categories}), name : Names \cup {""},
     approval : BOOLEAN, active : BOOLEAN]

CreateService(u) ==
    \E s \in ServiceInput(serial) :
        ByStaff(u) /\ ValidService(s) /\ AtOnce("CreateService", InsertService(db, s))

UpdateService(u) ==
    \E x \in db.services : \E s \in ServiceInput(x.id) :
        ByStaff(u) /\ ValidService(s) /\ AtOnce("UpdateService", UpdateServiceRow(db, s))

DeleteService(u) ==
    \E x \in db.services : ByStaff(u) /\ AtOnce("DeleteService", DeleteServiceRow(db, x.id))

---------------------------------------------------------------------------
(* Inventory *)

CreateCIType(u) ==
    \E t \in CategoryInput(serial) :
        ByStaff(u) /\ TypeAccepted(t) /\ AtOnce("CreateCIType", InsertCIType(db, t))

DeleteCIType(u) ==
    \E x \in db.citypes : ByStaff(u) /\ AtOnce("DeleteCIType", DeleteCITypeRow(db, x.id))

AssetInput(id) ==
    [id : {id}, type : {x.id : x \in db.citypes}, name : Names \cup {""},
     status : {"", "retired"}]

CreateAsset(u) ==
    \E in \in AssetInput(serial) :
        LET a == NewAsset(in)
        IN  ByStaff(u) /\ ValidAsset(a) /\ AtOnce("CreateAsset", InsertAsset(db, a))

UpdateAsset(u) ==
    \E x \in db.assets : \E a \in AssetInput(x.id) :
        ByStaff(u) /\ ValidAsset(a) /\ AtOnce("UpdateAsset", UpdateAssetRow(db, a))

DeleteAsset(u) ==
    \E x \in db.assets : ByStaff(u) /\ AtOnce("DeleteAsset", DeleteAssetRow(db, x.id))

CreateRelationship(u) ==
    \E a, b \in db.assets, kind \in {"depends_on", "hosts"} :
        LET r == [id |-> serial, source |-> a.id, target |-> b.id, kind |-> kind]
        IN  ByStaff(u) /\ ValidRelationship(r) /\ BothEnds(db, r)
            /\ Begin("CreateRelationship", r)

DeleteRelationship(u) ==
    \E r \in db.relationships :
        ByStaff(u) /\ AtOnce("DeleteRelationship", DeleteRelationshipRow(db, r.id))

LinkTicketAsset(u) ==
    \E a \in db.assets, t \in db.tickets :
        LET l == [id |-> a.id, ticket |-> t.id]
        IN  ByStaff(u) /\ TicketAndAsset(db, l) /\ Begin("LinkTicketAsset", l)

UnlinkTicketAsset(u) ==
    \E l \in db.ticketAssets :
        ByStaff(u) /\ AtOnce("UnlinkTicketAsset", DeleteTicketAsset(db, l))

---------------------------------------------------------------------------
(* Problems and changes.  A PATCH of a problem writes back the row it read;  *)
(* nothing that a link names can go between its checks and its INSERT.       *)

CreateProblem(u) ==
    \E title, cause \in {"", "n1"} :
        LET p == NewProblem([id |-> serial, title |-> title, status |-> "", cause |-> cause,
                             workaround |-> ""])
        IN  ByStaff(u) /\ ValidProblem(p) /\ AtOnce("CreateProblem", InsertProblem(db, p))

UpdateProblem(u) ==
    \E p \in db.problems, status \in DOMAIN ProblemTransitions \cup {""},
       cause, workaround \in {"", "n1"} :
        \E q \in Patched(p, status, cause, workaround) :
            ByStaff(u) /\ ValidProblem(q) /\ Begin("UpdateProblem", [was |-> p, row |-> q])

LinkIncident(u) ==
    \E p \in db.problems, t \in db.tickets :
        LET l == [id |-> t.id, problem |-> p.id]
        IN  ByStaff(u) /\ IncidentAccepted(db, l) /\ AtOnce("LinkIncident", InsertIncident(db, l))

UnlinkIncident(u) ==
    \E l \in db.incidents : ByStaff(u) /\ AtOnce("UnlinkIncident", DeleteIncident(db, l))

ChangeInput(id) ==
    [id : {id}, title : {"", "n1"}, problem : OrNone({p.id : p \in db.problems}),
     risk : {"", "critical"}, from : OrNone(Window), until : OrNone(Window)]

CreateChange(u) ==
    \E in \in ChangeInput(serial) : \E c \in NewChange(db, in) :
        ByStaff(u) /\ AtOnce("CreateChange", InsertChange(db, c))

LinkChangeTicket(u) ==
    \E c \in db.changes, t \in db.tickets :
        LET l == [id |-> t.id, change |-> c.id]
        IN  /\ ByStaff(u) /\ ChangeTicketAccepted(db, l)
            /\ AtOnce("LinkChangeTicket", InsertChangeTicket(db, l))

UnlinkChangeTicket(u) ==
    \E l \in db.changeTickets :
        ByStaff(u) /\ AtOnce("UnlinkChangeTicket", DeleteChangeTicket(db, l))

---------------------------------------------------------------------------

\* The second statements.
ItsmFinish(c) ==
    \/ c.op = "CreateRelationship" /\ Write(c, InsertRelationship(db, c.row))
    \/ c.op = "LinkTicketAsset" /\ Write(c, InsertTicketAsset(db, c.row))
    \/ c.op = "UpdateProblem" /\ Write(c, UpdateProblemRow(db, c.row.row))

ItsmRequest(u) ==
    \/ CreateCategory(u) \/ UpdateCategory(u) \/ DeleteCategory(u)
    \/ CreateService(u) \/ UpdateService(u) \/ DeleteService(u)
    \/ CreateCIType(u) \/ DeleteCIType(u)
    \/ CreateAsset(u) \/ UpdateAsset(u) \/ DeleteAsset(u)
    \/ CreateRelationship(u) \/ DeleteRelationship(u)
    \/ LinkTicketAsset(u) \/ UnlinkTicketAsset(u)
    \/ CreateProblem(u) \/ UpdateProblem(u) \/ LinkIncident(u) \/ UnlinkIncident(u)
    \/ CreateChange(u) \/ LinkChangeTicket(u) \/ UnlinkChangeTicket(u)

ItsmNext ==
    \/ MoreRequests /\ \E u \in Users : ItsmRequest(u)
    \/ \E c \in calls : ItsmFinish(c)
=============================================================================

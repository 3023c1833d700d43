--------------------------- MODULE MCServiceDesk ---------------------------
(* Small instances of ServiceDesk for TLC. *)
EXTENDS ServiceDesk, TLC

CONSTANTS admin, agent, contact, stranger

MCUsers == {admin, agent, contact, stranger}
MCRole == [u \in MCUsers |-> IF u = admin THEN "admin" ELSE IF u = agent THEN "agent"
                             ELSE "end_user"]
MCDays == 1..2
MCWindow == 1..2
MCNames == {"n1", "n3"}
MCResources == {"r1"}
MCTokens == {"", "t1", "t2"}

\* Two clients; the first has a contact, an active contract and a row of most
\* tables; the stranger is a technician and a contact of nobody.
MspBefore ==
    [clients |-> {[id |-> 1, name |-> "n1", domain |-> "n1", status |-> "active"],
                  [id |-> 2, name |-> "n2", domain |-> "n2", status |-> "active"]},
     contacts |-> {[id |-> 1, client |-> 1, user |-> contact, email |-> "n1"]},
     contracts |-> {[id |-> 1, client |-> 1, status |-> "active", starts |-> 1, ends |-> None,
                     fee |-> 5, base |-> 8, high |-> 4]},
     tickets |-> {[id |-> 1, by |-> contact, category |-> "general"]},
     contexts |-> {[id |-> 1, client |-> 1, contract |-> 1, minutes |-> 8]},
     technicians |-> {[id |-> 1, user |-> stranger, rate |-> 90, active |-> TRUE]},
     availability |-> {},
     interventions |-> {[id |-> 1, client |-> 2, tech |-> 1, ticket |-> None,
                         starts |-> 2, ends |-> 3, status |-> "scheduled"]},
     entries |-> {[id |-> 1, client |-> 1, tech |-> 1, ticket |-> 1, intervention |-> None,
                   minutes |-> 10, billable |-> TRUE, billed |-> FALSE, rate |-> 90,
                   cost |-> 15, day |-> 1],
                  [id |-> 2, client |-> 1, tech |-> 1, ticket |-> None, intervention |-> 1,
                   minutes |-> 10, billable |-> FALSE, billed |-> FALSE, rate |-> 90,
                   cost |-> 15, day |-> 2]},
     expenses |-> {[id |-> 1, client |-> 1, ticket |-> None, project |-> 1, amount |-> 7,
                    billed |-> FALSE, day |-> 2]},
     projects |-> {[id |-> 1, client |-> 1, status |-> "planned"]},
     tasks |-> {[id |-> 1, project |-> 1, tech |-> 1, status |-> "todo"]},
     drafts |-> {},
     linked |-> {[id |-> 1, client |-> 1]},
     discovered |-> {[id |-> 1, client |-> 2, external |-> "r2", status |-> "pending",
                      asset |-> None]},
     sources |-> {[id |-> 1, name |-> "n1", token |-> "t1"]},
     alerts |-> {},
     sessions |-> {[id |-> 1, client |-> 2, ticket |-> None, tech |-> 1,
                    status |-> "requested", by |-> None, started |-> FALSE, ended |-> FALSE]}]

\* A customer with an open conversation that the contact may see, and one with
\* an e-mail thread that was resolved.
CxBefore ==
    [customers |-> {[id |-> 1, name |-> "n1", email |-> "N1", phone |-> "p1",
                     status |-> "active"],
                    [id |-> 2, name |-> "n2", email |-> "", phone |-> "", status |-> "active"]},
     custcontacts |-> {[id |-> 1, customer |-> 1, user |-> contact, email |-> "n1"]},
     conversations |-> {[id |-> 1, customer |-> 1, channel |-> "portal", thread |-> "",
                         status |-> "waiting_customer", priority |-> "high",
                         assigned |-> None, by |-> contact, sla |-> 120, answered |-> FALSE,
                         escalated |-> FALSE, ended |-> FALSE],
                        [id |-> 2, customer |-> 1, channel |-> "email", thread |-> "th",
                         status |-> "resolved", priority |-> "medium", assigned |-> agent,
                         by |-> None, sla |-> 240, answered |-> FALSE, escalated |-> FALSE,
                         ended |-> TRUE]},
     messages |-> {[id |-> 1, conversation |-> 1, sender |-> "agent", internal |-> TRUE,
                    external |-> ""],
                   [id |-> 2, conversation |-> 2, sender |-> "customer", internal |-> FALSE,
                    external |-> "x2"]},
     emailAccounts |-> {[id |-> 1, name |-> "n1", port |-> 25]},
     whatsappAccounts |-> {[id |-> 1, name |-> "n1", token |-> "t1", active |-> TRUE]},
     policies |-> {[id |-> 1, channel |-> "portal", priority |-> "critical", minutes |-> 40]},
     rules |-> {[id |-> 1, channel |-> "portal", priority |-> "critical", assignee |-> agent,
                 position |-> 1, active |-> TRUE]},
     replies |-> {[id |-> 1, kind |-> "keyword", keyword |-> "n1", channel |-> "",
                   active |-> TRUE]},
     surveys |-> {}]

\* Two assets of one type that are related, the first about the ticket; a problem
\* with an incident and a change.
ItsmBefore ==
    [categories |-> {[id |-> 1, name |-> "n2"]},
     services |-> {[id |-> 1, category |-> 1, name |-> "n2", approval |-> TRUE,
                    active |-> TRUE]},
     citypes |-> {[id |-> 1, name |-> "n2"], [id |-> 2, name |-> "n4"]},
     assets |-> {[id |-> 1, type |-> 1, name |-> "n2", status |-> "active"],
                 [id |-> 2, type |-> 1, name |-> "n4", status |-> "stock"]},
     relationships |-> {[id |-> 1, source |-> 1, target |-> 2, kind |-> "hosts"]},
     ticketAssets |-> {[id |-> 1, ticket |-> 1]},
     problems |-> {[id |-> 1, title |-> "n2", status |-> "investigating", cause |-> "",
                    workaround |-> ""]},
     incidents |-> {[id |-> 1, problem |-> 1]},
     changes |-> {[id |-> 1, title |-> "n2", problem |-> 1, risk |-> "low",
                   from |-> 1, until |-> None]},
     changeTickets |-> {[id |-> 1, change |-> 1]}]

MCBefore == MspBefore @@ CxBefore @@ ItsmBefore

MCLower(address) == IF address = "N1" THEN "n1" ELSE address
MCAddresses == {"n1", "N1"}

\* No thread, or that of two of the messages.
MCThreads == {"", "wa-p1"}

\* Two messages of one WhatsApp sender, two of a known and of an unknown e-mail
\* sender.
MCMail ==
    {[channel |-> "whatsapp", from |-> "p1", thread |-> "wa-p1", external |-> "x3"],
     [channel |-> "whatsapp", from |-> "p1", thread |-> "wa-p1", external |-> "x4"],
     [channel |-> "whatsapp", from |-> "p2", thread |-> "wa-p2", external |-> "x5"],
     [channel |-> "email", from |-> "N1", thread |-> "th", external |-> "x6"],
     [channel |-> "email", from |-> "n4", thread |-> "", external |-> ""]}

Reads == {"ListClients", "GetClient", "ListContacts", "ListContracts", "ListMSPTickets",
          "GetTicketContext", "ListInterventions", "ListTimeEntries", "ListExpenses",
          "ListProjects", "ListTasks", "ListBillingDrafts", "Profitability",
          "ListClientAssets", "ListDiscoveredAssets", "ListMonitoringAlerts",
          "ListRemoteSessions"}
CxReads == {"ListCustomers", "GetCustomer", "ListCustomerContacts", "ListConversations",
            "GetConversation", "ListMessages", "ListSurveys", "Report"}
Moves == {"UpdateConversation", "AssignConversation"}
Inbox == {"Ingest-sender", "Ingest-thread"}

\* One area at a time, each with the deletion that cascades through it.
MCScenarios ==
    {[ops |-> Reads \cup {"DeleteContact", "CreateContact"}, requests |-> 2],
     [ops |-> {"CreateClient", "UpdateClient", "DeleteClient"}, requests |-> 3],
     [ops |-> {"CreateContact", "DeleteContact", "CreateContract", "DeleteClient",
               "UpdateContract", "CreateMSPTicket"}, requests |-> 2],
     [ops |-> {"CreateTechnician", "UpdateTechnician", "CreateAvailability"}, requests |-> 2],
     [ops |-> {"CreateIntervention", "UpdateInterventionStatus", "DeleteClient"},
      requests |-> 3],
     [ops |-> {"CreateTimeEntry", "CreateExpense", "DeleteClient"}, requests |-> 2],
     [ops |-> {"CreateProject", "CreateTask", "UpdateProjectStatus", "UpdateTaskStatus",
               "DeleteClient"}, requests |-> 3],
     [ops |-> {"GenerateBillingDraft", "UpdateBillingDraftStatus", "DeleteClient"},
      requests |-> 3],
     [ops |-> {"LinkClientAsset", "UnlinkClientAsset", "CreateDiscoveredAsset",
               "ImportDiscoveredAsset", "DeleteClient"}, requests |-> 3],
     [ops |-> {"CreateMonitoringSource", "RotateSourceToken", "TicketForAlert"},
      requests |-> 2],
     [ops |-> {"UpdateAlert", "InsertAlert", "TicketForAlert", "DeleteClient"},
      requests |-> 3],
     [ops |-> {"RequestRemoteSession", "UpdateRemoteSession", "DeleteClient"},
      requests |-> 2],
     [ops |-> {"UpdateRemoteSession"}, requests |-> 4],
     [ops |-> CxReads \cup {"DeleteCustomerContact", "CreateCustomerContact"}, requests |-> 2],
     [ops |-> {"CreateCustomer", "UpdateCustomer", "DeleteCustomer"}, requests |-> 2],
     [ops |-> {"CreateCustomerContact", "DeleteCustomerContact", "DeleteCustomer"},
      requests |-> 2],
     [ops |-> {"CreateConversation", "CreateAssignmentRule", "DeleteAssignmentRule",
               "UpsertSLAPolicy", "DeleteCustomer"}, requests |-> 3],
     [ops |-> {"CreateEmailAccount", "UpdateEmailAccount", "CreateWhatsAppAccount",
               "UpdateWhatsAppAccount", "CreateAutoReply", "DeleteAutoReply"},
      requests |-> 2],
     [ops |-> {"AddMessage", "DeleteAutoReply", "DeleteCustomer"} \cup Moves, requests |-> 2],
     [ops |-> {"AddMessage", "UpdateConversation"}, requests |-> 3],
     [ops |-> {"CreateSurvey", "DeleteCustomer"} \cup Moves, requests |-> 3],
     [ops |-> Inbox \cup {"UpdateConversation", "DeleteCustomer", "UpdateCustomer"},
      requests |-> 3],
     [ops |-> Inbox, requests |-> 3],
     [ops |-> Inbox \cup {"CreateConversation"}, requests |-> 2],
     [ops |-> {"CreateCategory", "UpdateCategory", "DeleteCategory", "CreateService",
               "UpdateService", "DeleteService"}, requests |-> 2],
     [ops |-> {"CreateCIType", "DeleteCIType", "CreateAsset", "UpdateAsset",
               "ImportDiscoveredAsset"}, requests |-> 2],
     [ops |-> {"CreateRelationship", "DeleteRelationship", "LinkTicketAsset",
               "UnlinkTicketAsset", "LinkClientAsset", "DeleteAsset",
               "ImportDiscoveredAsset"}, requests |-> 3],
     [ops |-> {"CreateProblem", "LinkIncident", "UnlinkIncident", "CreateChange",
               "LinkChangeTicket", "UnlinkChangeTicket"}, requests |-> 2],
     [ops |-> {"UpdateProblem"}, requests |-> 3]}

\* Two messages from outside, and nothing else.
MCInbox == {[ops |-> Inbox, requests |-> 2]}
=============================================================================

---------------------------- MODULE RealtimeHub ----------------------------
(***************************************************************************)
(* The WebSocket hub (realtime/hub.go, realtime/client.go).  One goroutine *)
(* runs the hub and owns the set of registered clients; every client has a *)
(* reader, a writer and a guard that watches its session; requests post    *)
(* events.  They meet on unbuffered channels, so that a meeting is one     *)
(* step, and on each client's buffered channel "send".                     *)
(***************************************************************************)
EXTENDS Naturals, Sequences, FiniteSets

CONSTANTS
    Clients,      \* connections a behaviour may open
    Principals,   \* the [tenant, user] records each of them may authenticate as
    Revocable,    \* the connections whose sessions a behaviour may end
    Events,       \* the events the application posts, each once
    Buffer        \* capacity of a client's channel (256 in the code)

\* An event is for a tenant, and for some of its users if it is scoped.
ASSUME EventsAssumption ==
    \A e \in Events : /\ DOMAIN e = {"tenant", "scoped", "users"}
                      /\ e.scoped \in BOOLEAN
ASSUME BufferAssumption == Buffer \in Nat \ {0}

VARIABLES
    running,      \* the hub has not seen its context cancelled
    registered,   \* h.clients
    serve,        \* ServeWs of each client: "idle", "registering", "served"
    who,          \* its tenant and user; NobodyYet before ServeWs
    conn,         \* the connection is up
    open,         \* the channel "send" has not been closed
    send,         \* the messages in that channel
    reader, writer, guard,   \* goroutines: "off", "on", "leaving", "done"
    revoked,      \* the session of the client is no longer valid
    posting,      \* events whose callers wait for the hub
    log,          \* history: the events the hub has taken, in order
    since,        \* history: how many of them before the client registered
    received      \* history: what was written to the connection

hubVars == <<running, registered, serve, who, conn, open, send, reader, writer, guard, revoked,
             posting, log, since, received>>

NobodyYet == [tenant |-> "none", user |-> "none"]

HubInit ==
    /\ running = TRUE
    /\ registered = {}
    /\ serve = [c \in Clients |-> "idle"]
    /\ who = [c \in Clients |-> NobodyYet]
    /\ conn = [c \in Clients |-> FALSE]
    /\ open = [c \in Clients |-> TRUE]
    /\ send = [c \in Clients |-> <<>>]
    /\ reader = [c \in Clients |-> "off"]
    /\ writer = [c \in Clients |-> "off"]
    /\ guard = [c \in Clients |-> "off"]
    /\ revoked = [c \in Clients |-> FALSE]
    /\ posting = {}
    /\ log = <<>>
    /\ since = [c \in Clients |-> 0]
    /\ received = [c \in Clients |-> <<>>]

\* conn.Close is idempotent.
Close(c) == conn' = [conn EXCEPT ![c] = FALSE]

---------------------------------------------------------------------------
(* The hub *)

\* The client's goroutines start once the hub has taken it.
Register(c) ==
    /\ running /\ serve[c] = "registering"
    /\ registered' = registered \cup {c}
    /\ since' = [since EXCEPT ![c] = Len(log)]
    /\ serve' = [serve EXCEPT ![c] = "served"]
    /\ reader' = [reader EXCEPT ![c] = "on"]
    /\ writer' = [writer EXCEPT ![c] = "on"]
    /\ guard' = [guard EXCEPT ![c] = "on"]
    /\ UNCHANGED <<who, running, conn, open, send, revoked, posting, log, received>>

\* The reader ends with this meeting.  A client that was dropped is not there.
Unregister(c) ==
    /\ running /\ reader[c] = "leaving"
    /\ registered' = registered \ {c}
    /\ open' = [open EXCEPT ![c] = @ /\ c \notin registered]
    /\ reader' = [reader EXCEPT ![c] = "done"]
    /\ Close(c)
    /\ UNCHANGED <<who, running, serve, send, writer, guard, revoked, posting, log, since,
                   received>>

IsFor(e, c) == e.tenant = who[c].tenant /\ (e.scoped => who[c].user \in e.users)

HasRoom(c) == Len(send[c]) < Buffer

\* Variant: the channel of a full client is closed, and the client stays registered.
Broadcast_KeepsFull(e) ==
    LET for == {c \in registered : IsFor(e, c)}
        full == {c \in for : ~HasRoom(c)}
    IN  /\ running /\ e \in posting
        /\ posting' = posting \ {e}
        /\ log' = Append(log, e)
        /\ send' = [c \in Clients |-> IF c \in for \ full THEN Append(send[c], e) ELSE send[c]]
        /\ open' = [c \in Clients |-> open[c] /\ c \notin full]
        /\ UNCHANGED <<who, running, registered, serve, conn, reader, writer, guard, revoked,
                       since, received>>

\* Variant: a message for a client without room is dropped, and the client is kept.
Broadcast_Skips(e) ==
    LET for == {c \in registered : IsFor(e, c) /\ HasRoom(c)}
    IN  /\ running /\ e \in posting
        /\ posting' = posting \ {e}
        /\ log' = Append(log, e)
        /\ send' = [c \in Clients |-> IF c \in for THEN Append(send[c], e) ELSE send[c]]
        /\ UNCHANGED <<who, running, registered, serve, conn, open, reader, writer, guard,
                       revoked, since, received>>

\* A client whose channel is full is dropped and its channel closed.  The loop
\* over the clients is one step: their channels do not depend on each other.
Broadcast(e) ==
    LET for == {c \in registered : IsFor(e, c)}
        full == {c \in for : ~HasRoom(c)}
    IN  /\ running /\ e \in posting
        /\ posting' = posting \ {e}
        /\ log' = Append(log, e)
        /\ send' = [c \in Clients |-> IF c \in for \ full THEN Append(send[c], e) ELSE send[c]]
        /\ open' = [c \in Clients |-> open[c] /\ c \notin full]
        /\ registered' = registered \ full
        /\ UNCHANGED <<who, running, serve, conn, reader, writer, guard, revoked, since, received>>

\* The context is cancelled; h.done is closed on the way out.
Stop ==
    /\ running
    /\ running' = FALSE
    /\ registered' = {}
    /\ open' = [c \in Clients |-> open[c] /\ c \notin registered]
    /\ conn' = [c \in Clients |-> conn[c] /\ c \notin registered]
    /\ UNCHANGED <<who, serve, send, reader, writer, guard, revoked, posting, log, since, received>>

---------------------------------------------------------------------------
(* Clients and their goroutines *)

ServeWs(c) ==
    /\ serve[c] = "idle"
    /\ \E p \in Principals[c] : who' = [who EXCEPT ![c] = p]
    /\ serve' = [serve EXCEPT ![c] = "registering"]
    /\ conn' = [conn EXCEPT ![c] = TRUE]
    /\ UNCHANGED <<running, registered, open, send, reader, writer, guard, revoked, posting,
                   log, since, received>>

\* The peer closes the connection, or answers no ping.
Hangup(c) ==
    /\ conn[c] /\ Close(c)
    /\ UNCHANGED <<who, running, registered, serve, open, send, reader, writer, guard, revoked,
                   posting, log, since, received>>

\* A read fails; close(c.done), and on to the hub.
ReadFails(c) ==
    /\ reader[c] = "on" /\ ~conn[c]
    /\ reader' = [reader EXCEPT ![c] = "leaving"]
    /\ UNCHANGED <<who, running, registered, serve, conn, open, send, writer, guard, revoked,
                   posting, log, since, received>>

\* Variant: the reader waits for a hub that has stopped.
ReaderLeaves_Waits(c) ==
    /\ running /\ reader[c] = "leaving" /\ c \notin registered
    /\ reader' = [reader EXCEPT ![c] = "done"]
    /\ Close(c)
    /\ UNCHANGED <<who, running, registered, serve, open, send, writer, guard, revoked,
                   posting, log, since, received>>

\* h.done is closed: nobody takes Unregister any more.
ReaderLeaves(c) ==
    /\ ~running /\ reader[c] = "leaving"
    /\ reader' = [reader EXCEPT ![c] = "done"]
    /\ Close(c)
    /\ UNCHANGED <<who, running, registered, serve, open, send, writer, guard, revoked, posting,
                   log, since, received>>

\* The message and whatever else is queued go out in one frame.
Write(c) ==
    /\ writer[c] = "on" /\ conn[c] /\ send[c] # <<>>
    /\ received' = [received EXCEPT ![c] = @ \o send[c]]
    /\ send' = [send EXCEPT ![c] = <<>>]
    /\ UNCHANGED <<who, running, registered, serve, conn, open, reader, writer, guard, revoked,
                   posting, log, since>>

\* The channel is closed and empty, or a message or a ping cannot be written.
WriterLeaves(c) ==
    /\ writer[c] = "on"
    /\ ~conn[c] \/ (~open[c] /\ send[c] = <<>>)
    /\ writer' = [writer EXCEPT ![c] = "done"]
    /\ Close(c)
    /\ UNCHANGED <<who, running, registered, serve, open, send, reader, guard, revoked, posting,
                   log, since, received>>

Revoke(c) ==
    /\ c \in Revocable /\ serve[c] # "idle" /\ ~revoked[c]
    /\ revoked' = [revoked EXCEPT ![c] = TRUE]
    /\ UNCHANGED <<who, running, registered, serve, conn, open, send, reader, writer, guard,
                   posting, log, since, received>>

\* Once a second the guard asks whether the session is valid.
GuardCloses(c) ==
    /\ guard[c] = "on" /\ revoked[c]
    /\ guard' = [guard EXCEPT ![c] = "done"]
    /\ Close(c)
    /\ UNCHANGED <<who, running, registered, serve, open, send, reader, writer, revoked, posting,
                   log, since, received>>

GuardLeaves(c) ==
    /\ guard[c] = "on" /\ (reader[c] \in {"leaving", "done"} \/ ~running)
    /\ guard' = [guard EXCEPT ![c] = "done"]
    /\ UNCHANGED <<who, running, registered, serve, conn, open, send, reader, writer, revoked,
                   posting, log, since, received>>

---------------------------------------------------------------------------
(* Posting: BroadcastEvent and SendToUsers *)

\* An event for no users is not posted at all.
Post(e) ==
    /\ e \notin posting /\ \A k \in DOMAIN log : log[k] # e
    /\ e.scoped => e.users # {}
    /\ posting' = posting \cup {e}
    /\ UNCHANGED <<who, running, registered, serve, conn, open, send, reader, writer, guard,
                   revoked, log, since, received>>

\* h.done is closed.
PostGivesUp(e) ==
    /\ ~running /\ e \in posting
    /\ posting' = posting \ {e}
    /\ UNCHANGED <<who, running, registered, serve, conn, open, send, reader, writer, guard,
                   revoked, log, since, received>>

---------------------------------------------------------------------------

Goroutines(c) ==
    \/ ReadFails(c) \/ ReaderLeaves(c) \/ Write(c) \/ WriterLeaves(c)
    \/ GuardCloses(c) \/ GuardLeaves(c)

HubNext ==
    \/ Stop
    \/ \E c \in Clients :
        \/ ServeWs(c) \/ Register(c) \/ Unregister(c) \/ Hangup(c) \/ Revoke(c)
        \/ Goroutines(c)
    \/ \E e \in Events : Post(e) \/ Broadcast(e) \/ PostGivesUp(e)

\* The scheduler runs every goroutine that can run, and the hub's select chooses
\* at random among the channels that are ready.  Nothing makes peers hang up,
\* sessions end or the server stop.
HubFairness ==
    /\ \A c \in Clients :
        /\ WF_hubVars(Register(c)) /\ WF_hubVars(Unregister(c))
        /\ WF_hubVars(ReadFails(c)) /\ WF_hubVars(ReaderLeaves(c))
        /\ WF_hubVars(Write(c)) /\ WF_hubVars(WriterLeaves(c))
        /\ WF_hubVars(GuardCloses(c)) /\ WF_hubVars(GuardLeaves(c))
    /\ \A e \in Events : WF_hubVars(Broadcast(e)) /\ WF_hubVars(PostGivesUp(e))

HubSpec == HubInit /\ [][HubNext]_hubVars
HubFairSpec == HubSpec /\ HubFairness

---------------------------------------------------------------------------
(* Correctness *)

\* A client is registered exactly as long as its channel is open: the hub never
\* sends on a closed channel and never closes one twice, which would be a panic,
\* although a client may be dropped, unregistered and shut down in any order.
ChannelOpenIffRegistered ==
    \A c \in Clients : serve[c] = "served" => (open[c] <=> c \in registered)

\* The places of the log that are meant for a client: taken after it registered, for
\* its tenant and, if scoped, for its user.
Meant(c) == {k \in DOMAIN log : /\ k > since[c]
                                /\ log[k].tenant = who[c].tenant
                                /\ log[k].scoped => who[c].user \in log[k].users}

\* s is what the first n places of the log mean for c: nothing else, nothing less,
\* each event once and in the order of the log.
Reads(s, c, n) ==
    /\ \A i \in DOMAIN s : \E k \in Meant(c) : k <= n /\ s[i] = log[k]
    /\ \A k \in Meant(c) : k <= n => \E i \in DOMAIN s : s[i] = log[k]
    /\ \A i, j \in DOMAIN s, k, l \in DOMAIN log :
         i < j /\ s[i] = log[k] /\ s[j] = log[l] => k < l

\* A client reads the events of its tenant that are meant for its user, each
\* once, in the order in which the hub took them and without a gap, until it is
\* cut off; and as long as it is registered, nothing was lost on the way.
StreamHasNoGaps ==
    \A c \in {x \in Clients : serve[x] = "served"} :
        /\ \E n \in 0..Len(log) : Reads(received[c], c, n)
        /\ c \in registered => Reads(received[c] \o send[c], c, Len(log))

\* Nobody waits for ever: the caller of an event returns, a client whose session
\* was revoked is cut off within a tick of its guard, and after the hub stopped no
\* goroutine of a client is left.  It says nothing of a client that waits to be
\* registered when the hub stops: that one does wait for ever.
EverybodyReturns ==
    /\ \A e \in Events : e \in posting ~> e \notin posting
    /\ \A c \in Clients :
        /\ revoked[c] /\ serve[c] = "served" ~> ~conn[c]
        /\ ~running /\ serve[c] = "served" ~>
              {reader[c], writer[c], guard[c]} = {"done"}
=============================================================================

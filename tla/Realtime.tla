------------------------------ MODULE Realtime ------------------------------
(***************************************************************************)
(* The WebSocket service (src/src/realtime): its one endpoint, a handler   *)
(* for every socket, and the ConnectionManager that the handlers share.    *)
(* Handlers take turns where they await.  What is said over a socket is    *)
(* left out, and so are heartbeats, which nothing reads.                   *)
(***************************************************************************)
EXTENDS Sessions

CONSTANTS
    Socket,    \* connections of the clients, each of them used once
    Chat,      \* rooms that a client asks to join
    GroupRoom  \* the room of the group of all users here

ASSUME SocketAssumption == NoRow \notin Socket

VARIABLES
    connections,  \* _connections: for each user the socket to write to
    rooms,        \* _rooms
    handler,      \* where the handler of each socket is, and whose it is
    up,           \* sockets that neither side has closed
    muddled       \* users of whom a handler unregistered the socket of another, or
                  \* two connected at once (history)

realtimeTables == <<connections, rooms, handler, up, muddled>>
realtimeVars == <<connections, rooms, handler, up, muddled, txn, overlap>>

ChatRoom == Chat \cup {GroupRoom}
None == [at |-> "none"]
Handler == {None} \cup [at: {"accepted", "replacing", "serving", "ended"}, user: Member]

RealtimeTypeOK ==
    /\ connections \in [Member -> Socket \cup {NoRow}]
    /\ rooms \in [ChatRoom -> SUBSET Member]
    /\ handler \in [Socket -> Handler]
    /\ up \subseteq Socket
    /\ muddled \subseteq Member

RealtimeTablesInit ==
    /\ connections = [u \in Member |-> NoRow]
    /\ rooms = [r \in ChatRoom |-> {}]
    /\ handler = [s \in Socket |-> None]
    /\ up = {}
    /\ muddled = {}

RealtimeInit == RealtimeTablesInit /\ SessionsInit

At(s, place) == handler[s].at = place
Goes(s, place) == handler' = [handler EXCEPT ![s].at = place]
Connecting(s) == At(s, "accepted") \/ At(s, "replacing")
Serving(u) == {s \in Socket : At(s, "serving") /\ handler[s].user = u}

-----------------------------------------------------------------------------
(* websocket_endpoint and connect: after accept the socket that the user had is
   closed, which is awaited, and then the new one takes its place. *)

Accepted(s, u) ==
    /\ At(s, "none")
    /\ handler' = [handler EXCEPT ![s] = [at |-> "accepted", user |-> u]]
    /\ up' = up \cup {s}
    /\ muddled' = IF \E t \in Socket : Connecting(t) /\ handler[t].user = u
                  THEN muddled \cup {u} ELSE muddled
    /\ UNCHANGED <<connections, rooms>>

(* Seeded fault: the old socket stays open. *)
ReplacesUnclosed(s) ==
    /\ At(s, "accepted")
    /\ connections[handler[s].user] # NoRow
    /\ Goes(s, "replacing")
    /\ UNCHANGED <<connections, rooms, up, muddled>>

Replaces(s) ==
    /\ At(s, "accepted")
    /\ LET old == connections[handler[s].user] IN old # NoRow /\ up' = up \ {old}
    /\ Goes(s, "replacing")
    /\ UNCHANGED <<connections, rooms, muddled>>

Registers(s) ==
    /\ At(s, "replacing") \/ (At(s, "accepted") /\ connections[handler[s].user] = NoRow)
    /\ connections' = [connections EXCEPT ![handler[s].user] = s]
    /\ rooms' = [rooms EXCEPT ![GroupRoom] = @ \cup {handler[s].user}]
    /\ Goes(s, "serving")
    /\ UNCHANGED <<up, muddled>>

(* Seeded fault: the rooms are left only if the user was registered. *)
ForgetsRegistered(u) ==
    /\ connections' = [connections EXCEPT ![u] = NoRow]
    /\ rooms' = IF connections[u] = NoRow THEN rooms ELSE [r \in ChatRoom |-> rooms[r] \ {u}]

(* disconnect goes by the user, whichever socket is registered. *)
Forgets(u) ==
    /\ connections' = [connections EXCEPT ![u] = NoRow]
    /\ rooms' = [r \in ChatRoom |-> rooms[r] \ {u}]

(* A write of send_to_user fails, to the socket that was registered when it began. *)
SendFails(s) ==
    /\ At(s, "serving") \/ At(s, "ended")
    /\ s \notin up
    /\ LET u == handler[s].user IN
         /\ connections[u] # NoRow
         /\ Forgets(u)
         /\ muddled' = IF connections[u] = s THEN muddled ELSE muddled \cup {u}
    /\ UNCHANGED <<handler, up>>

Joins(s, r) ==
    /\ At(s, "serving")
    /\ rooms' = [rooms EXCEPT ![r] = @ \cup {handler[s].user}]
    /\ UNCHANGED <<connections, handler, up, muddled>>

Leaves(s, r) ==
    /\ At(s, "serving")
    /\ rooms' = [rooms EXCEPT ![r] = @ \ {handler[s].user}]
    /\ UNCHANGED <<connections, handler, up, muddled>>

(* The client goes away; its handler notices when it next receives. *)
Drops(s) ==
    /\ s \in up
    /\ up' = up \ {s}
    /\ UNCHANGED <<connections, rooms, handler, muddled>>

(* A closed socket, or a frame that is no JSON, ends the loop. *)
ServingEnds(s) ==
    /\ At(s, "serving")
    /\ LET u == handler[s].user IN
         /\ Forgets(u)
         /\ muddled' = IF connections[u] = s THEN muddled ELSE muddled \cup {u}
    /\ up' = up \ {s}
    /\ Goes(s, "ended")

(* accept raises: there is nothing to undo. *)
AcceptFails(s) ==
    /\ At(s, "accepted") /\ s \notin up
    /\ Goes(s, "ended")
    /\ UNCHANGED <<connections, rooms, up, muddled>>

RealtimeNext ==
    /\ \E s \in Socket :
         \/ \E u \in Member : Accepted(s, u)
         \/ Replaces(s) \/ Registers(s) \/ Drops(s) \/ ServingEnds(s) \/ AcceptFails(s)
         \/ SendFails(s)
         \/ \E r \in ChatRoom : Joins(s, r) \/ Leaves(s, r)
    /\ UNCHANGED sessions

RealtimeSpec == RealtimeInit /\ [][RealtimeNext]_realtimeVars

-----------------------------------------------------------------------------
(* However the handlers of one user follow and interleave, nothing outlives them:
   a registered socket has a handler that will unregister it, and whoever is in a
   room has one that will take them out of it. *)
NothingLeaks == \A u \in Member :
    /\ connections[u] # NoRow => connections[u] \in Serving(u)
    /\ (\E r \in ChatRoom : u \in rooms[r]) => Serving(u) # {}

(* "Close existing connection for this user if any": the only socket of a user that
   is up and served is the registered one, unless two connect at once, or the
   end of a replaced socket, which goes by the user, has unregistered the new one. *)
OneSocketPerUser == \A u \in Member : u \notin muddled =>
    Serving(u) \cap up \subseteq {connections[u]}

(* What the manager knows of a user is what the handlers of that user do. *)
SocketsAreTracked == NothingLeaks /\ OneSocketPerUser
=============================================================================

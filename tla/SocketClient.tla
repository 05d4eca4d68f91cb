---------------------------- MODULE SocketClient ----------------------------
(***************************************************************************)
(* The client of the realtime service in the mobile applications           *)
(* (src/mobile/packages/shared-api/src/ws-client.ts): one object that      *)
(* connects, is closed by the network or by disconnect, and connects again *)
(* after a while, up to a number of times.                                 *)
(*                                                                         *)
(* A socket ends some time after close was called on it or the network     *)
(* failed, and then calls onclose, whichever socket the object has by then.*)
(* JavaScript runs one callback at a time, so each is one step.            *)
(***************************************************************************)
EXTENDS FiniteSets, Integers, Sessions

CONSTANTS
    WebSocketId,          \* sockets; with the timers, never more than these at a time
    MaxReconnectAttempts  \* maxReconnectAttempts

ASSUME SocketClientAssumption ==
    /\ MaxReconnectAttempts \in Nat \ {0}
    /\ IsFiniteSet(WebSocketId) /\ NoRow \notin WebSocketId

VARIABLES
    webSockets,      \* readyState of each; an id that is closed stands for a new one too
    ws,              \* this.ws
    connected,       \* _connected
    shouldReconnect, \* _shouldReconnect
    reconnectAttempts,
    timer,           \* whether the timer of reconnectTimer has yet to fire
    lostTimers,      \* timers yet to fire that reconnectTimer no longer names
    hasty            \* connect was called while a socket or a timer was left, or by a
                     \* listener of 'close' (history)

socketClientTables ==
    <<webSockets, ws, connected, shouldReconnect, reconnectAttempts, timer, lostTimers, hasty>>
socketClientVars ==
    <<webSockets, ws, connected, shouldReconnect, reconnectAttempts, timer, lostTimers, hasty,
      txn, overlap>>

SocketClientTypeOK ==
    /\ webSockets \in [WebSocketId -> {"connecting", "open", "closing", "closed"}]
    /\ ws \in WebSocketId \cup {NoRow}
    /\ connected \in BOOLEAN /\ shouldReconnect \in BOOLEAN /\ timer \in BOOLEAN
    /\ reconnectAttempts \in 0..MaxReconnectAttempts
    /\ lostTimers \in 0..Cardinality(WebSocketId)
    /\ hasty \in BOOLEAN

SocketClientTablesInit ==
    /\ webSockets = [s \in WebSocketId |-> "closed"]
    /\ ws = NoRow
    /\ connected = FALSE /\ shouldReconnect = TRUE /\ reconnectAttempts = 0
    /\ timer = FALSE /\ lostTimers = 0
    /\ hasty = FALSE

SocketClientInit == SocketClientTablesInit /\ SessionsInit

-----------------------------------------------------------------------------
InState(states) == {s \in WebSocketId : webSockets[s] \in states}
Left == InState({"connecting", "open", "closing"})
Timers == lostTimers + (IF timer THEN 1 ELSE 0)

ConnectionCreated ==
    \E s \in InState({"closed"}) :
      /\ webSockets' = [webSockets EXCEPT ![s] = "connecting"]
      /\ ws' = s

MayConnect == Cardinality(Left) + Timers < Cardinality(WebSocketId)   \* bounds the calls

(* connect does not look at what is there. *)
Connects ==
    /\ MayConnect
    /\ shouldReconnect' = TRUE /\ reconnectAttempts' = 0
    /\ ConnectionCreated
    /\ hasty' = (hasty \/ Left # {} \/ Timers > 0)
    /\ UNCHANGED <<connected, timer, lostTimers>>

(* Seeded fault: the timer still fires. *)
DisconnectsOnly ==
    /\ shouldReconnect' = FALSE /\ connected' = FALSE
    /\ webSockets' = [s \in WebSocketId |-> IF s = ws /\ s \in Left THEN "closing"
                                            ELSE webSockets[s]]
    /\ ws' = NoRow
    /\ UNCHANGED <<reconnectAttempts, timer, lostTimers, hasty>>

Disconnects ==
    /\ shouldReconnect' = FALSE /\ connected' = FALSE /\ timer' = FALSE
    /\ webSockets' = [s \in WebSocketId |-> IF s = ws /\ s \in Left THEN "closing"
                                            ELSE webSockets[s]]
    /\ ws' = NoRow
    /\ UNCHANGED <<reconnectAttempts, lostTimers, hasty>>

(* onopen, of whichever socket. *)
Opens(s) ==
    /\ s \in InState({"connecting"})
    /\ webSockets' = [webSockets EXCEPT ![s] = "open"]
    /\ connected' = TRUE /\ reconnectAttempts' = 0
    /\ UNCHANGED <<ws, shouldReconnect, timer, lostTimers, hasty>>

(* Seeded fault: a socket that disconnect has closed is reconnected. *)
AlwaysReconnects == reconnectAttempts < MaxReconnectAttempts

Reconnects == shouldReconnect /\ reconnectAttempts < MaxReconnectAttempts

(* onclose and attemptReconnect: the timer that was there is forgotten, not cleared. *)
Closes(s) ==
    /\ s \in Left
    /\ webSockets' = [webSockets EXCEPT ![s] = "closed"]
    /\ connected' = FALSE
    /\ IF Reconnects
       THEN /\ reconnectAttempts' = reconnectAttempts + 1
            /\ timer' = TRUE /\ lostTimers' = Timers
       ELSE UNCHANGED <<reconnectAttempts, timer, lostTimers>>
    /\ UNCHANGED <<ws, shouldReconnect, hasty>>

(* A listener of 'close' calls connect, before attemptReconnect sets a timer all the
   same.  The new socket takes the id of the one that closed. *)
ClosesAndConnects(s) ==
    /\ s \in Left /\ MayConnect
    /\ webSockets' = [webSockets EXCEPT ![s] = "connecting"] /\ ws' = s
    /\ connected' = FALSE /\ shouldReconnect' = TRUE /\ reconnectAttempts' = 1
    /\ timer' = TRUE /\ lostTimers' = Timers
    /\ hasty' = TRUE

(* A timer creates a connection without a look at shouldReconnect. *)
TimerFires ==
    /\ \/ timer /\ timer' = FALSE /\ UNCHANGED lostTimers
       \/ lostTimers > 0 /\ lostTimers' = lostTimers - 1 /\ UNCHANGED timer
    /\ ConnectionCreated
    /\ UNCHANGED <<connected, shouldReconnect, reconnectAttempts, hasty>>

SocketClientNext ==
    /\ \/ Connects \/ Disconnects \/ TimerFires
       \/ \E s \in WebSocketId : Opens(s) \/ Closes(s) \/ ClosesAndConnects(s)
    /\ UNCHANGED sessions

SocketClientSpec == SocketClientInit /\ [][SocketClientNext]_socketClientVars

-----------------------------------------------------------------------------
(* "Disconnect and stop reconnection attempts": as long as connect is called only
   when no socket and no timer is left, not even one that has yet to close, and not
   by a listener of 'close', there is one socket or timer at most, none after disconnect, and before it always one until
   the attempts are used up; isConnected tells whether the socket that send writes
   to is open.  However it is called, some socket is open where isConnected says so. *)
DisconnectedStays ==
    LET live == InState({"connecting", "open"}) IN
      /\ connected => InState({"open"}) # {}
      /\ ~hasty =>
           /\ Cardinality(live) + Timers <= 1
           /\ ~shouldReconnect => live = {} /\ Timers = 0
           /\ shouldReconnect /\ ws # NoRow /\ live = {} /\ Timers = 0 =>
                reconnectAttempts = MaxReconnectAttempts
           /\ connected <=> ws # NoRow /\ webSockets[ws] = "open"
=============================================================================

------------------------------- MODULE Uplink -------------------------------
(***************************************************************************)
(* What the programs on the child's devices have yet to send: the queue of *)
(* the browser extension (src/extension/src/background/service-worker.ts), *)
(* its cache for Chromebooks (src/extension/src/offline-cache.ts) and the  *)
(* queue of the mobile applications                                        *)
(* (src/mobile/packages/shared-api/src/offline-queue.ts).                  *)
(*                                                                         *)
(* Each behaviour is about one of the three.  A worker is a call of an     *)
(* async function, which others interleave with wherever it awaits.  An    *)
(* answer that is lost looks like a failure to send.                       *)
(***************************************************************************)
EXTENDS FiniteSetsExt, Naturals, SequencesExt, Sessions

CONSTANTS
    Report,      \* events to capture, requests to make
    Refused,     \* those that the server answers with an error, always
    MaxQueue,    \* MAX_QUEUE_SIZE, MAX_EVENTS, maxSize
    MaxRetries   \* MAX_RETRIES

ASSUME UplinkAssumption ==
    /\ IsFiniteSet(Worker)
    /\ Refused \subseteq Report /\ MaxQueue \in Nat \ {0} /\ MaxRetries \in Nat

VARIABLES
    client,     \* whose queue it is
    enabled,    \* chrome.storage: config.enabled
    outbox,     \* eventQueue, the object store in order of time, or this.queue
    captured,   \* what was handed to the client (history)
    reached,    \* what the server has (history)
    confirmed,  \* what the client knows that the server has (history)
    shed,       \* what the client gave up: no room, too old, too many
                \* failures, removed, or lost with its memory (history)
    disturbed   \* a queue was changed under a call that is sending from it (history)

uplinkTables == <<client, enabled, outbox, captured, reached, confirmed, shed, disturbed>>
uplinkVars == <<client, enabled, outbox, captured, reached, confirmed, shed, disturbed,
                txn, overlap>>

Client == {"extension", "cache", "app"}
QueueItem == [event: Report, tries: 0..MaxRetries, old: BOOLEAN]

UplinkTxn ==
    {Idle}
    \cup [op: {"send"}, event: Report]
    \cup [op: {"flush"}, event: Report]
    \cup [op: {"evict", "add"}, event: Report, count: 0..MaxQueue + Cardinality(Worker)]
    \cup [op: {"sync"}, rest: Seq(QueueItem)]
    \cup [op: {"replay"}, rest: Seq(QueueItem), kept: Seq(QueueItem)]

UplinkTypeOK ==
    /\ client \in Client /\ enabled \in BOOLEAN /\ disturbed \in BOOLEAN
    /\ outbox \in Seq(QueueItem)
    /\ captured \subseteq Report
    /\ reached \subseteq captured /\ confirmed \subseteq reached /\ shed \subseteq captured
    /\ txn \in [Worker -> UplinkTxn]

UplinkTablesInit ==
    /\ client \in Client
    /\ enabled = FALSE
    /\ outbox = <<>>
    /\ captured = {} /\ reached = {} /\ confirmed = {} /\ shed = {}
    /\ disturbed = FALSE

UplinkInit == UplinkTablesInit /\ SessionsInit

Events(items) == {items[i].event : i \in DOMAIN items}
NewItem(e) == [event |-> e, tries |-> 0, old |-> FALSE]
Sending(op) == \E w \in Worker : Open(w, op)

(* sendEvent, client.request: the server got it or not, the client heard of it or not. *)
Sent(e, got, heard) ==
    /\ heard => got
    /\ got => e \notin Refused
    /\ reached' = IF got THEN reached \cup {e} ELSE reached
    /\ confirmed' = IF heard THEN confirmed \cup {e} ELSE confirmed

(* The oldest items give way; all that is left of them is that they were there. *)
Latest(items) == SubSeq(items, Len(items) - Min({MaxQueue, Len(items)}) + 1, Len(items))
Queued(e, op) ==
    LET items == Append(outbox, NewItem(e))  kept == Latest(items) IN
      /\ outbox' = kept
      /\ shed' = shed \cup (Events(items) \ Events(kept))
      /\ disturbed' = (disturbed \/ (Sending(op) /\ (op = "replay" \/ kept # items)))

-----------------------------------------------------------------------------
(* The service worker of the extension. *)

(* handleCaptureEvent, at its second await *)
CaptureBegins(w, e) ==
    /\ client = "extension" /\ enabled /\ e \notin captured
    /\ Begin(w, [op |-> "send", event |-> e])
    /\ captured' = captured \cup {e}
    /\ UNCHANGED <<client, enabled, outbox, reached, confirmed, shed, disturbed>>

CaptureSent(w, got, heard) ==
    /\ Open(w, "send")
    /\ Sent(txn[w].event, got, heard)
    /\ IF heard THEN UNCHANGED <<outbox, shed, disturbed>> ELSE Queued(txn[w].event, "flush")
    /\ End(w)
    /\ UNCHANGED <<client, enabled, captured>>

Toggled ==
    /\ client = "extension"
    /\ enabled' = ~enabled
    /\ UNCHANGED <<client, outbox, captured, reached, confirmed, shed, disturbed, sessions>>

(* flushQueue, by an alarm every minute, whether or not the last one has ended *)
FlushBegins(w) ==
    /\ client = "extension" /\ outbox # <<>>
    /\ Begin(w, [op |-> "flush", event |-> Head(outbox).event])
    /\ disturbed' = (disturbed \/ Sending("flush"))
    /\ UNCHANGED <<client, enabled, outbox, captured, reached, confirmed, shed>>

(* Seeded fault: the event leaves the queue whatever the answer was. *)
AfterAnyFlush(heard) == IF outbox = <<>> THEN outbox ELSE Tail(outbox)

(* Seeded fault: the event stays although it was sent. *)
AfterNoFlush(heard) == outbox

AfterFlush(heard) == IF heard /\ outbox # <<>> THEN Tail(outbox) ELSE outbox

FlushSent(w, got, heard) ==
    /\ Open(w, "flush")
    /\ Sent(txn[w].event, got, heard)
    /\ outbox' = AfterFlush(heard)
    /\ IF heard /\ outbox' # <<>>
       THEN Continue(w, [op |-> "flush", event |-> Head(outbox').event])
       ELSE End(w)
    /\ UNCHANGED <<client, enabled, captured, shed, disturbed>>

-----------------------------------------------------------------------------
(* The cache: each of its operations is a transaction of IndexedDB of its own. *)

AddCounts(w, e) ==
    /\ client = "cache" /\ e \notin captured
    /\ Begin(w, [op |-> IF Len(outbox) >= MaxQueue THEN "evict" ELSE "add",
                 event |-> e, count |-> Len(outbox)])
    /\ captured' = captured \cup {e}
    /\ UNCHANGED <<client, enabled, outbox, reached, confirmed, shed, disturbed>>

(* Seeded fault: no room is made for the event to be added. *)
TooFewToEvict(count) == Min({count - MaxQueue, Len(outbox)})

ToEvict(count) == Min({count - MaxQueue + 1, Len(outbox)})

AddEvicts(w) ==
    /\ Open(w, "evict")
    /\ LET n == ToEvict(txn[w].count) IN
         /\ outbox' = SubSeq(outbox, n + 1, Len(outbox))
         /\ shed' = shed \cup Events(SubSeq(outbox, 1, n))
    /\ Continue(w, [txn[w] EXCEPT !.op = "add"])
    /\ UNCHANGED <<client, enabled, captured, reached, confirmed, disturbed>>

AddPuts(w) ==
    /\ Open(w, "add")
    /\ outbox' = Append(outbox, NewItem(txn[w].event))
    /\ End(w)
    /\ UNCHANGED <<client, enabled, captured, reached, confirmed, shed, disturbed>>

SyncBegins(w) ==
    /\ client = "cache" /\ outbox # <<>>
    /\ Begin(w, [op |-> "sync", rest |-> outbox])
    /\ UNCHANGED uplinkTables

WithoutEvent(e) ==
    IF e \in Events(outbox)
    THEN RemoveAt(outbox, CHOOSE i \in DOMAIN outbox : outbox[i].event = e)
    ELSE outbox

Retried(e) == [i \in DOMAIN outbox |->
    IF outbox[i].event # e THEN outbox[i]
    ELSE [outbox[i] EXCEPT !.tries = Min({@ + 1, MaxRetries})]]

(* removeEvent and incrementRetry go by the id, as the store is then. *)
SyncSends(w, got, heard) ==
    /\ Open(w, "sync")
    /\ LET item == Head(txn[w].rest)  e == item.event IN
         /\ IF item.tries >= MaxRetries
            THEN /\ outbox' = WithoutEvent(e)
                 /\ shed' = shed \cup {e}
                 /\ ~got /\ ~heard /\ UNCHANGED <<reached, confirmed>>
            ELSE /\ Sent(e, got, heard)
                 /\ outbox' = IF heard THEN WithoutEvent(e) ELSE Retried(e)
                 /\ UNCHANGED shed
         /\ IF Len(txn[w].rest) = 1 THEN End(w)
            ELSE Continue(w, [txn[w] EXCEPT !.rest = Tail(@)])
    /\ UNCHANGED <<client, enabled, captured, disturbed>>

-----------------------------------------------------------------------------
(* The queue of the applications: ApiClient.request offline, and replay. *)

Enqueued(e) ==
    /\ client = "app" /\ e \notin captured
    /\ captured' = captured \cup {e}
    /\ Queued(e, "replay")
    /\ UNCHANGED <<client, enabled, reached, confirmed, sessions>>

Ages(i) ==
    /\ client = "app" /\ i \in DOMAIN outbox /\ ~outbox[i].old
    /\ outbox' = [outbox EXCEPT ![i].old = TRUE]
    /\ UNCHANGED <<client, enabled, captured, reached, confirmed, shed, disturbed, sessions>>

(* Seeded fault: no flag keeps a second replay away. *)
MayReplayTwice == client = "app"

MayReplay == client = "app" /\ ~Sending("replay")

Fresh == {i \in DOMAIN outbox : ~outbox[i].old}

(* The requests to send, in the order of the queue. *)
Replayed(order) == [k \in DOMAIN order |-> outbox[order[k]]]

ReplayBegins(w) ==
    /\ MayReplay /\ outbox # <<>>
    /\ shed' = shed \cup {outbox[i].event : i \in DOMAIN outbox \ Fresh}
    /\ \/ Fresh = {} /\ outbox' = <<>> /\ Free(w) /\ UNCHANGED sessions
       \/ /\ Fresh # {} /\ outbox' = outbox
          /\ \E order \in Bijection(1..Cardinality(Fresh), Fresh) :
               /\ \A i, j \in DOMAIN order : i < j => order[i] < order[j]
               /\ Begin(w, [op |-> "replay", rest |-> Replayed(order), kept |-> <<>>])
    /\ UNCHANGED <<client, enabled, captured, reached, confirmed, disturbed>>

(* With the last answer the queue becomes what has failed, whatever it was. *)
ReplaySent(w, got, heard) ==
    /\ Open(w, "replay")
    /\ LET item == Head(txn[w].rest)
           kept == IF heard THEN txn[w].kept ELSE Append(txn[w].kept, item) IN
         /\ Sent(item.event, got, heard)
         /\ IF Len(txn[w].rest) = 1
            THEN outbox' = kept /\ End(w)
            ELSE /\ UNCHANGED outbox
                 /\ Continue(w, [txn[w] EXCEPT !.rest = Tail(@), !.kept = kept])
    /\ UNCHANGED <<client, enabled, captured, shed, disturbed>>

(* remove: during a replay the request comes back when the replay ends. *)
RequestRemoved(e) ==
    /\ client = "app" /\ e \in Events(outbox)
    /\ outbox' = WithoutEvent(e)
    /\ shed' = shed \cup {e}
    /\ UNCHANGED <<client, enabled, captured, reached, confirmed, disturbed, sessions>>

-----------------------------------------------------------------------------
InHand == {txn[w].event : w \in {v \in Worker : txn[v].op \in {"send", "evict", "add"}}}

(* The browser ends the service worker, the user the application: every call that
   awaits, and what was kept in memory. *)
Restarts ==
    /\ outbox # <<>> \/ \E w \in Worker : txn[w] # Idle
    /\ outbox' = IF client = "cache" THEN outbox ELSE <<>>
    /\ shed' = shed \cup InHand \cup (IF client = "cache" THEN {} ELSE Events(outbox))
    /\ txn' = [w \in Worker |-> Idle]
    /\ UNCHANGED <<client, enabled, captured, reached, confirmed, disturbed, overlap>>

UplinkStep(w) ==
    \/ \E e \in Report : CaptureBegins(w, e) \/ AddCounts(w, e)
    \/ FlushBegins(w) \/ AddEvicts(w) \/ AddPuts(w) \/ SyncBegins(w) \/ ReplayBegins(w)
    \/ \E got, heard \in BOOLEAN :
         CaptureSent(w, got, heard) \/ FlushSent(w, got, heard)
           \/ SyncSends(w, got, heard) \/ ReplaySent(w, got, heard)

UplinkNext ==
    \/ \E w \in Worker : UplinkStep(w)
    \/ \E e \in Report : Enqueued(e) \/ RequestRemoved(e)
    \/ \E i \in 1..MaxQueue : Ages(i)
    \/ Toggled \/ Restarts

UplinkSpec == UplinkInit /\ [][UplinkNext]_uplinkVars

(* The alarm rings every minute, every fetch ends, and a server that answers
   again and again answers a flush some day. *)
SendEnds(w) == \E got, heard \in BOOLEAN : CaptureSent(w, got, heard) \/ FlushSent(w, got, heard)

UplinkFairness == \A w \in Worker :
    /\ WF_uplinkVars(SendEnds(w))
    /\ WF_uplinkVars(FlushBegins(w))
    /\ SF_uplinkVars(FlushSent(w, TRUE, TRUE))

-----------------------------------------------------------------------------
(* "Offline event queue -- flushed when the API becomes reachable", "Keep failed
   requests for retry (unless stale)": what was handed to a client is with the
   server, in the queue, under way or known to have been given up, unless a queue
   was changed under the call that sends from it: a second flush, or an eviction
   during one, takes an event that nobody sent from the head of the extension's
   queue, and a request that is enqueued during a replay is overwritten at its
   end.  The cache, which goes by ids, has no such case. *)
NothingIsLost ==
    ~disturbed => captured \subseteq Events(outbox) \cup InHand \cup reached \cup shed

(* What the client knows to be with the server is not sent again, although a call
   goes on with the queue as it was when it began: the replay by its flag, the
   others as long as one call at a time sends. *)
StillToSend == IF Sending("replay")
           THEN UNION {Events(txn[w].rest \o txn[w].kept) :
                         w \in {v \in Worker : Open(v, "replay")}}
           ELSE Events(outbox)
SentUntilConfirmed ==
    \/ client = "extension" /\ disturbed
    \/ client = "cache" /\ overlap
    \/ StillToSend \cap confirmed = {}

(* "Enforces MAX_EVENTS with FIFO eviction": two adds that count together exceed it,
   but never by more than the calls that overlap, and the next add makes up for it;
   no other queue exceeds its limit. *)
CacheIsBounded ==
    Len(outbox) <= MaxQueue + (IF client = "cache" /\ overlap
                               THEN Cardinality(Worker) - 1 ELSE 0)

(* A queue keeps what it was given, until it is sent, once, and within its limit. *)
QueueIsFaithful == NothingIsLost /\ SentUntilConfirmed /\ CacheIsBounded

(* An event of the extension does not stay queued for ever, except behind one that
   the server refuses, which is sent again every minute until the queue overflows
   or the browser ends the worker. *)
Behind(e) == \E i, j \in DOMAIN outbox :
    i <= j /\ outbox[j].event = e /\ outbox[i].event \in Refused
QueueDrains == \A e \in Report :
    client = "extension" /\ e \in Events(outbox) ~> e \notin Events(outbox) \/ Behind(e)
=============================================================================

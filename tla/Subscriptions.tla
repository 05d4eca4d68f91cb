--------------------------- MODULE Subscriptions ---------------------------
(***************************************************************************)
(* The subscription rows of one group and the webhooks by which they       *)
(* follow Stripe (src/src/billing/service.py, stripe_client.py).  Stripe   *)
(* delivers an event at least once and in no order; a handler that raises  *)
(* answers 500 and the event comes again.  "active" stands for trialing    *)
(* too, which no code tells from it, and plans, periods and prices are     *)
(* left out.                                                               *)
(***************************************************************************)
EXTENDS Naturals, FiniteSets, Sessions

CONSTANTS
    SubscriptionId,  \* ids of subscriptions rows
    StripeId         \* ids of Stripe's subscriptions and of the checkouts they come from

VARIABLES
    subscriptions,  \* rows: the Stripe subscription (NoRow: none yet) and the status
    checkouts,      \* checkouts opened and not paid
    reported        \* by Stripe subscription, the statuses Stripe has sent events for

subscriptionsTables == <<subscriptions, checkouts, reported>>
subscriptionsVars == <<subscriptions, checkouts, reported, txn, overlap>>

Status == {"active", "past_due", "cancelled"}

SubscriptionRow == [stripe: StripeId \cup {NoRow}, status: Status]

ASSUME StripeAssumption == NoRow \notin StripeId \cup SubscriptionRow

SubscriptionsTxn ==
    {Idle, [op |-> "subscribe"]}
    \cup [op: {"webhook"}, row: SubscriptionId, was: SubscriptionRow, becomes: SubscriptionRow]
    \cup [op: {"first"}, becomes: SubscriptionRow]

SubscriptionsTypeOK ==
    /\ subscriptions \in [SubscriptionId -> SubscriptionRow \cup {NoRow}]
    /\ checkouts \subseteq StripeId
    /\ reported \in [StripeId -> SUBSET Status]
    /\ txn \in [Worker -> SubscriptionsTxn]
    /\ overlap \in BOOLEAN

SubscriptionsTablesInit ==
    /\ subscriptions = [k \in SubscriptionId |-> NoRow]
    /\ checkouts = {}
    /\ reported = [s \in StripeId |-> {}]

SubscriptionsInit == SubscriptionsTablesInit /\ SessionsInit

OfGroup == {k \in SubscriptionId : subscriptions[k] # NoRow}
OfStripe(s) == {k \in OfGroup : subscriptions[k].stripe = s}

-----------------------------------------------------------------------------
(* create_subscription: one row at most may be active, and a second query result
   raises.  create_checkout_session_for_group and get_subscription raise on any
   second row. *)

SubscribeRead(w) ==
    /\ \A k \in OfGroup : subscriptions[k].status # "active"
    /\ Begin(w, [op |-> "subscribe"])
    /\ UNCHANGED subscriptionsTables

SubscribeWrite(w) ==
    /\ Open(w, "subscribe") /\ Room(subscriptions)
    /\ subscriptions' = Inserted(subscriptions, [stripe |-> NoRow, status |-> "active"])
    /\ End(w)
    /\ UNCHANGED <<checkouts, reported>>

Checkout(w, s) ==
    /\ Free(w) /\ Cardinality(OfGroup) <= 1
    /\ s \notin checkouts /\ reported[s] = {}
    /\ checkouts' = checkouts \cup {s}
    /\ UNCHANGED <<subscriptions, reported, sessions>>

(* What Stripe does meanwhile: a checkout is paid, a payment fails or succeeds,
   and what is cancelled stays so. *)
StripeReports(s, status) ==
    /\ \/ s \in checkouts /\ status = "active"
       \/ reported[s] # {} /\ "cancelled" \notin reported[s]
    /\ status \notin reported[s]
    /\ reported' = [reported EXCEPT ![s] = @ \cup {status}]
    /\ checkouts' = checkouts \ {s}
    /\ UNCHANGED <<subscriptions, sessions>>

-----------------------------------------------------------------------------
(* handle_webhook_event.  created takes over the group's row where none has the
   subscription's id; the other three events change the row that has it, and are
   answered "ok" where there is none. *)

CreatedRead(w, s) ==
    /\ "active" \in reported[s]
    /\ LET found == IF OfStripe(s) # {} THEN OfStripe(s) ELSE OfGroup
           becomes == [stripe |-> s, status |-> "active"]
       IN  \/ found = {} /\ Begin(w, [op |-> "first", becomes |-> becomes])
           \/ \E k \in SubscriptionId :
                /\ found = {k}
                /\ Begin(w, [op |-> "webhook", row |-> k, was |-> subscriptions[k],
                             becomes |-> becomes])
    /\ UNCHANGED subscriptionsTables

CreatedFirst(w) ==
    /\ Open(w, "first") /\ Room(subscriptions)
    /\ subscriptions' = Inserted(subscriptions, txn[w].becomes)
    /\ End(w)
    /\ UNCHANGED <<checkouts, reported>>

(* Seeded fault: the row is looked up by the event's group. *)
ChangedByGroup(s) == OfGroup

Changed(s) == OfStripe(s)

StatusRead(w, s, status) ==
    /\ status \in reported[s]
    /\ \E k \in SubscriptionId :
         /\ Changed(s) = {k}
         /\ Begin(w, [op |-> "webhook", row |-> k, was |-> subscriptions[k],
                      becomes |-> [subscriptions[k] EXCEPT !.status = status]])
    /\ UNCHANGED subscriptionsTables

(* Of a row only the columns are written that differ from what was read. *)
Column(now, was, becomes) == IF becomes = was THEN now ELSE becomes

WebhookWrite(w) ==
    /\ Open(w, "webhook")
    /\ LET t == txn[w] IN
         subscriptions' = [subscriptions EXCEPT ![t.row] =
             [stripe |-> Column(@.stripe, t.was.stripe, t.becomes.stripe),
              status |-> Column(@.status, t.was.status, t.becomes.status)]]
    /\ End(w)
    /\ UNCHANGED <<checkouts, reported>>

SubscriptionsStep(w) ==
    \/ SubscribeRead(w) \/ SubscribeWrite(w) \/ CreatedFirst(w) \/ WebhookWrite(w)
    \/ \E s \in StripeId : Checkout(w, s) \/ CreatedRead(w, s)
    \/ \E s \in StripeId, status \in Status : StatusRead(w, s, status)
    \/ Abandon(w) /\ UNCHANGED subscriptionsTables

SubscriptionsNext ==
    \/ \E w \in Worker : SubscriptionsStep(w)
    \/ \E s \in StripeId, status \in Status : StripeReports(s, status)

SubscriptionsSpec == SubscriptionsInit /\ [][SubscriptionsNext]_subscriptionsVars

-----------------------------------------------------------------------------
(* However late, often and out of order the webhooks come, a Stripe subscription
   has one row at most, and a row with its id has a status Stripe sent for that
   very subscription: an event of the one before, left behind when the group paid
   a second checkout, never changes it.  Overlapping webhooks break both: two
   creations insert two rows, and a status lands on a row taken over meanwhile. *)
RowsFollowStripe == ~overlap => \A s \in StripeId :
    /\ Cardinality(OfStripe(s)) <= 1
    /\ \A k \in OfStripe(s) : subscriptions[k].status \in reported[s]
=============================================================================

----------------------------- MODULE ScreenTime -----------------------------
(***************************************************************************)
(* Screen time rules and the requests of a child for more minutes          *)
(* (src/src/screen_time/service.py, router.py).  Schedules, the evaluation *)
(* of the usage and the weekly report read these tables and change         *)
(* nothing in them; names, limits and minutes of a rule are left out.      *)
(***************************************************************************)
EXTENDS FiniteSets, Naturals, Sessions

CONSTANTS
    RuleId,         \* primary keys of screen_time_rules
    RequestId,      \* primary keys of extension_requests (bounds the requests)
    ExtensionLimit  \* EXTENSION_DAILY_LIMITS of the child's age tier

ASSUME ExtensionLimitAssumption == ExtensionLimit \in [Member -> Nat]

VARIABLES
    ruleOf,    \* table screen_time_rules: the child of each rule
    requests   \* table extension_requests

screenTimeTables == <<ruleOf, requests>>
screenTimeVars == <<ruleOf, requests, txn, overlap>>

Answer == {"approved", "denied", "expired"}
Request == [member: Member, rule: RuleId, status: {"pending"} \cup Answer,
            today: BOOLEAN,   \* requested since midnight, UTC
            fresh: BOOLEAN]   \* younger than EXTENSION_EXPIRY_MINUTES

ExtensionTxn == [op: {"request extension"}, member: Member, rule: RuleId]
RespondTxn == [op: {"respond extension"}, request: RequestId, answer: Answer]
ScreenTimeTxn == {Idle} \cup ExtensionTxn \cup RespondTxn

ScreenTimeTypeOK ==
    /\ ruleOf \in [RuleId -> Member \cup {NoRow}]
    /\ requests \in [RequestId -> Request \cup {NoRow}]
    /\ txn \in [Worker -> ScreenTimeTxn] /\ overlap \in BOOLEAN

ScreenTimeTablesInit ==
    /\ ruleOf = [r \in RuleId |-> NoRow]
    /\ requests = [q \in RequestId |-> NoRow]

ScreenTimeInit == ScreenTimeTablesInit /\ SessionsInit

Requests == {q \in RequestId : requests[q] # NoRow}

CreateRule(w, m) ==
    /\ Free(w) /\ Room(ruleOf)
    /\ ruleOf' = Inserted(ruleOf, m)
    /\ UNCHANGED <<requests, sessions>>

(* delete_rule; the database deletes the requests that refer to the rule. *)
DeleteRule(w, r) ==
    /\ Free(w) /\ ruleOf[r] # NoRow
    /\ ruleOf' = [ruleOf EXCEPT ![r] = NoRow]
    /\ requests' = [q \in RequestId |->
         IF q \in Requests /\ requests[q].rule = r THEN NoRow ELSE requests[q]]
    /\ UNCHANGED sessions

-----------------------------------------------------------------------------
(* create_extension_request: count, then insert. *)

RequestsToday(m) == {q \in Requests : requests[q].member = m /\ requests[q].today}

(* Seeded fault: one request more than the limit. *)
BelowLimitByOne(m) == Cardinality(RequestsToday(m)) <= ExtensionLimit[m]

BelowLimit(m) ==
    /\ ExtensionLimit[m] # 0
    /\ Cardinality(RequestsToday(m)) < ExtensionLimit[m]

RequestCount(w, m, r) ==
    /\ ruleOf[r] # NoRow
    /\ BelowLimit(m)
    /\ Begin(w, [op |-> "request extension", member |-> m, rule |-> r])
    /\ UNCHANGED screenTimeTables

RequestInsert(w) ==
    /\ Open(w, "request extension")
    /\ ruleOf[txn[w].rule] # NoRow   \* foreign key
    /\ Room(requests)
    /\ requests' = Inserted(requests,
         [member |-> txn[w].member, rule |-> txn[w].rule, status |-> "pending",
          today |-> TRUE, fresh |-> TRUE])
    /\ End(w)
    /\ UNCHANGED ruleOf

-----------------------------------------------------------------------------
(* respond_to_extension. *)

Answerable(q) == q \in Requests /\ requests[q].status = "pending"

RespondExtension(w, q, approved) ==
    /\ Answerable(q)
    /\ Begin(w, [op |-> "respond extension", request |-> q,
                 answer |-> IF ~requests[q].fresh THEN "expired"
                            ELSE IF approved THEN "approved" ELSE "denied"])
    /\ UNCHANGED screenTimeTables

RespondExtensionWrite(w) ==
    /\ Open(w, "respond extension")
    /\ requests[txn[w].request] # NoRow
    /\ requests' = [requests EXCEPT ![txn[w].request].status = txn[w].answer]
    /\ End(w)
    /\ UNCHANGED ruleOf

-----------------------------------------------------------------------------
(* Time: a quarter of an hour passes, while no session is open, for none lasts
   that long; a day ends. *)

RequestAges(q) ==
    /\ q \in Requests /\ requests[q].fresh
    /\ \A w \in Worker : txn[w] = Idle
    /\ requests' = [requests EXCEPT ![q].fresh = FALSE]
    /\ UNCHANGED <<ruleOf, sessions>>

RequestDayEnds ==
    /\ \E q \in Requests : requests[q].today
    /\ requests' = [q \in RequestId |->
         IF q \in Requests THEN [requests[q] EXCEPT !.today = FALSE] ELSE NoRow]
    /\ UNCHANGED <<ruleOf, sessions>>

ScreenTimeStep(w) ==
    \/ \E m \in Member : CreateRule(w, m) \/ \E r \in RuleId : RequestCount(w, m, r)
    \/ \E r \in RuleId : DeleteRule(w, r)
    \/ RequestInsert(w)
    \/ \E q \in RequestId, approved \in BOOLEAN : RespondExtension(w, q, approved)
    \/ RespondExtensionWrite(w)
    \/ Abandon(w) /\ UNCHANGED screenTimeTables

ScreenTimeNext ==
    \/ \E w \in Worker : ScreenTimeStep(w)
    \/ \E q \in RequestId : RequestAges(q)
    \/ RequestDayEnds

ScreenTimeSpec == ScreenTimeInit /\ [][ScreenTimeNext]_screenTimeVars

-----------------------------------------------------------------------------
(* "Enforces age-tier daily rate limit": a member never has more requests of one
   day than its tier allows, however requests, answers and midnight follow each
   other.  Two devices that ask at once get past it. *)
WithinExtensionLimit == ~overlap =>
    \A m \in Member : Cardinality(RequestsToday(m)) <= ExtensionLimit[m]
=============================================================================

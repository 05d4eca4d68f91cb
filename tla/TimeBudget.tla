----------------------------- MODULE TimeBudget -----------------------------
(***************************************************************************)
(* Daily screen time budgets (src/src/blocking/time_budget.py), the block  *)
(* rules their enforcement job creates and lifts, and the requests to lift *)
(* one (approval.py, service.py revoke_block).                             *)
(*                                                                         *)
(* Sessions are those of Contacts.  The selects a handler makes in a row   *)
(* are one step, except the enforcement's, which reads member by member.   *)
(***************************************************************************)
EXTENDS FiniteSets, Integers

CONSTANTS
    Member,      \* members with a budget, each with a calendar of its own
    Day,         \* calendar dates (an interval that starts at 1)
    Weekend,     \* the dates that are a Saturday or a Sunday
    Settings,    \* budgets a parent may set
    Length,      \* minutes of a reported session
    MaxReported, \* bound on the minutes reported for a member and a date
    RuleId,      \* primary keys of block_rules
    ApprovalId,  \* primary keys of block_approvals
    Worker,      \* concurrent sessions, of requests and of job runs
    NoRow

ASSUME DayAssumption == Day \subseteq Nat /\ 1 \in Day
Budget == [weekday: Nat, weekend: Nat, enabled: BOOLEAN]

ASSUME SettingsAssumption == Settings \subseteq Budget
ASSUME LengthAssumption == Length \subseteq Nat \ {0}

VARIABLES
    today,      \* the date in the time zone of the member
    budget,     \* table time_budgets, unique per member
    usage,      \* table time_budget_usage, unique per member and date
    rules,      \* the rows of block_rules with reason "Time budget exceeded"
    approvals,  \* table block_approvals
    reported,   \* history: minutes of the reports that were answered
    txn         \* what each worker's open session has read

tables == <<budget, usage, rules, approvals>>
vars == <<today, budget, usage, rules, approvals, reported, txn>>

Usage == [minutes: Nat, exceeded: BOOLEAN]
Rule == [member: Member, active: BOOLEAN]
Approval == [rule: RuleId, status: {"pending", "approved", "denied"}]

ASSUME RowAssumption == NoRow \notin Budget \cup Usage \cup Rule \cup Approval

Idle == [op |-> "idle"]
Txn ==
    {Idle}
    \cup [op: {"set"}, member: Member, seen: Budget \cup {NoRow}, new: Settings]
    \cup [op: {"record"}, member: Member, day: Day, length: Length, allowance: Nat,
          seen: Usage \cup {NoRow}]
    \cup [op: {"enforce"}, todo: SUBSET [member: Member, budget: Budget],
          block: SUBSET Member, lift: SUBSET RuleId]
    \cup [op: {"request"}, rule: RuleId]
    \cup [op: {"decide"}, approval: ApprovalId]

TypeOK ==
    /\ today \in [Member -> Day]
    /\ budget \in [Member -> Budget \cup {NoRow}]
    /\ usage \in [Member -> [Day -> Usage \cup {NoRow}]]
    /\ rules \in [RuleId -> Rule \cup {NoRow}]
    /\ approvals \in [ApprovalId -> Approval \cup {NoRow}]
    /\ reported \in [Member -> [Day -> Nat]]
    /\ txn \in [Worker -> Txn]

Init ==
    /\ today = [m \in Member |-> 1]
    /\ budget = [m \in Member |-> NoRow]
    /\ usage = [m \in Member |-> [d \in Day |-> NoRow]]
    /\ rules = [r \in RuleId |-> NoRow]
    /\ approvals = [a \in ApprovalId |-> NoRow]
    /\ reported = [m \in Member |-> [d \in Day |-> 0]]
    /\ txn = [w \in Worker |-> Idle]

-----------------------------------------------------------------------------
Allowance(b, d) == IF d \in Weekend THEN b.weekend ELSE b.weekday

(* Seeded fault: the last minute of the budget is free. *)
OverStrict(minutes, allowance) == minutes > allowance /\ allowance > 0

(* A budget of 0 minutes is no limit. *)
Over(minutes, allowance) == minutes >= allowance /\ allowance > 0

Used(m, d) == IF usage[m][d] = NoRow THEN 0 ELSE usage[m][d].minutes

BudgetBlocks(m) ==
    {r \in RuleId : rules[r] # NoRow /\ rules[r].member = m /\ rules[r].active}

Requests(r) == {a \in ApprovalId : approvals[a] # NoRow /\ approvals[a].rule = r}
Pending(r) == {a \in Requests(r) : approvals[a].status = "pending"}

(* A key is free if it has no row, or an inactive one that no request and no
   session refers to: nothing reads such a row again. *)
FreeRule(r) ==
    \/ rules[r] = NoRow
    \/ /\ ~rules[r].active
       /\ Requests(r) = {}
       /\ \A w \in Worker : /\ txn[w].op = "enforce" => r \notin txn[w].lift
                            /\ txn[w].op = "request" => txn[w].rule # r

Begin(w, t) ==
    /\ txn[w] = Idle
    /\ txn' = [txn EXCEPT ![w] = t]
    /\ UNCHANGED <<today, tables, reported>>
End(w) == txn' = [txn EXCEPT ![w] = Idle]
Rollback(w) == txn[w] # Idle /\ End(w) /\ UNCHANGED <<today, tables, reported>>

-----------------------------------------------------------------------------
(* Seeded fault: the new date starts with the minutes of the old one. *)
MidnightCarrying(m) ==
    /\ today[m] + 1 \in Day
    /\ today' = [today EXCEPT ![m] = @ + 1]
    /\ usage' = [usage EXCEPT ![m][today[m] + 1] = usage[m][today[m]]]
    /\ UNCHANGED <<budget, rules, approvals, reported, txn>>

(* Usage rows are per date, so a new date starts without one. *)
Midnight(m) ==
    /\ today[m] + 1 \in Day
    /\ today' = [today EXCEPT ![m] = @ + 1]
    /\ UNCHANGED <<tables, reported, txn>>

(* set_time_budget: insert, or update the columns that differ from those read. *)
SetRead(w, m, s) ==
    Begin(w, [op |-> "set", member |-> m, seen |-> budget[m], new |-> s])

Changed(row, seen, new) ==
    [column \in DOMAIN new |->
       IF new[column] # seen[column] THEN new[column] ELSE row[column]]

SetWrite(w) ==
    LET t == txn[w]
    IN  /\ t.op = "set"
        /\ t.seen = NoRow => budget[t.member] = NoRow  \* unique index
        /\ budget' = [budget EXCEPT ![t.member] =
                        IF t.seen = NoRow THEN t.new ELSE Changed(@, t.seen, t.new)]
        /\ End(w)
        /\ UNCHANGED <<today, usage, rules, approvals, reported>>

-----------------------------------------------------------------------------
(* record_session_time. *)

RecordRead(w, m, n) ==
    LET d == today[m]
    IN  /\ reported[m][d] + n <= MaxReported
        /\ Begin(w, [op |-> "record", member |-> m, day |-> d, length |-> n,
                     allowance |-> IF budget[m] = NoRow THEN 0 ELSE Allowance(budget[m], d),
                     seen |-> usage[m][d]])

(* Seeded fault: a report replaces the minutes of the day. *)
RecordedRowReplacing(t) ==
    [minutes |-> t.length, exceeded |-> Over(t.length, t.allowance)]

(* The row a report leaves, from the one it has read. *)
RecordedRow(t) ==
    LET minutes == t.length + IF t.seen = NoRow THEN 0 ELSE t.seen.minutes
    IN  [minutes |-> minutes,
         exceeded |-> Over(minutes, t.allowance) \/ (t.seen # NoRow /\ t.seen.exceeded)]

RecordWrite(w) ==
    LET t == txn[w]
        new == RecordedRow(t)
    IN  /\ t.op = "record"
        /\ t.seen = NoRow => usage[t.member][t.day] = NoRow  \* unique index
        /\ usage' = [usage EXCEPT ![t.member][t.day] =
                       IF t.seen = NoRow THEN new ELSE Changed(@, t.seen, new)]
        /\ reported' = [reported EXCEPT ![t.member][t.day] = @ + t.length]
        /\ End(w)
        /\ UNCHANGED <<today, budget, rules, approvals>>

-----------------------------------------------------------------------------
(* enforce_time_budgets, a job of every five minutes, that POST /jobs/run starts
   as well. *)

EnforceStart(w) ==
    Begin(w, [op |-> "enforce", block |-> {}, lift |-> {},
              todo |-> {[member |-> m, budget |-> budget[m]] :
                          m \in {x \in Member : budget[x] # NoRow /\ budget[x].enabled}}])

(* Seeded faults: a block that is already there is not looked for; and nothing
   is lifted. *)
EnforceMemberBlind(w) ==
    /\ txn[w].op = "enforce"
    /\ \E t \in txn[w].todo :
         txn' = [txn EXCEPT
           ![w].todo = @ \ {t},
           ![w].block = IF Over(Used(t.member, today[t.member]),
                                Allowance(t.budget, today[t.member]))
                          THEN @ \cup {t.member} ELSE @]
    /\ UNCHANGED <<today, tables, reported>>

EnforceMemberKeeping(w) ==
    /\ txn[w].op = "enforce"
    /\ \E t \in txn[w].todo :
         txn' = [txn EXCEPT
           ![w].todo = @ \ {t},
           ![w].block = IF BudgetBlocks(t.member) = {}
                           /\ Over(Used(t.member, today[t.member]),
                                   Allowance(t.budget, today[t.member]))
                          THEN @ \cup {t.member} ELSE @]
    /\ UNCHANGED <<today, tables, reported>>

(* Two active blocks of a member raise: run_job logs it, the other members are
   left out, and what was done for the earlier ones is committed. *)
EnforceMember(w) ==
    /\ txn[w].op = "enforce"
    /\ \E t \in txn[w].todo :
         LET m == t.member
             over == Over(Used(m, today[m]), Allowance(t.budget, today[m]))
             found == BudgetBlocks(m)
         IN  txn' = [txn EXCEPT
               ![w].todo = IF Cardinality(found) > 1 THEN {} ELSE @ \ {t},
               ![w].block = IF over /\ found = {} THEN @ \cup {m} ELSE @,
               ![w].lift = IF ~over /\ Cardinality(found) = 1 THEN @ \cup found ELSE @]
    /\ UNCHANGED <<today, tables, reported>>

EnforceCommit(w) ==
    /\ txn[w].op = "enforce"
    /\ txn[w].todo = {}
    /\ \E key \in [txn[w].block -> {r \in RuleId : FreeRule(r)}] :
         /\ \A m, n \in txn[w].block : key[m] = key[n] => m = n
         /\ rules' = [r \in RuleId |->
              IF \E m \in txn[w].block : key[m] = r
                THEN [member |-> CHOOSE m \in txn[w].block : key[m] = r, active |-> TRUE]
              ELSE IF r \in txn[w].lift THEN [rules[r] EXCEPT !.active = FALSE]
              ELSE rules[r]]
    /\ End(w)
    /\ UNCHANGED <<today, budget, usage, approvals, reported>>

-----------------------------------------------------------------------------
(* request_unblock, approve_unblock and deny_unblock (approval.py), and
   revoke_block. *)

MayRequest(r) == rules[r] # NoRow /\ rules[r].active /\ Pending(r) = {}

RequestRead(w, r) == MayRequest(r) /\ Begin(w, [op |-> "request", rule |-> r])

RequestWrite(w) ==
    /\ txn[w].op = "request"
    /\ \E a \in ApprovalId :
         /\ approvals[a] = NoRow
         /\ approvals' = [approvals EXCEPT ![a] = [rule |-> txn[w].rule, status |-> "pending"]]
    /\ End(w)
    /\ UNCHANGED <<today, budget, usage, rules, reported>>

DecideRead(w, a) ==
    /\ approvals[a] # NoRow
    /\ approvals[a].status = "pending"
    /\ Begin(w, [op |-> "decide", approval |-> a])

Lifted(r) == [rules EXCEPT ![r].active = FALSE]

(* Seeded fault: the rule of an approved request stays. *)
ApproveOnly(w) ==
    /\ txn[w].op = "decide"
    /\ approvals' = [approvals EXCEPT ![txn[w].approval].status = "approved"]
    /\ End(w)
    /\ UNCHANGED <<today, budget, usage, rules, reported>>

Approve(w) ==
    /\ txn[w].op = "decide"
    /\ approvals' = [approvals EXCEPT ![txn[w].approval].status = "approved"]
    /\ rules' = Lifted(approvals[txn[w].approval].rule)
    /\ End(w)
    /\ UNCHANGED <<today, budget, usage, reported>>

(* Seeded fault: a status the table does not know. *)
DenyMisnamed(w) ==
    /\ txn[w].op = "decide"
    /\ approvals' = [approvals EXCEPT ![txn[w].approval].status = "rejected"]
    /\ End(w)
    /\ UNCHANGED <<today, budget, usage, rules, reported>>

Deny(w) ==
    /\ txn[w].op = "decide"
    /\ approvals' = [approvals EXCEPT ![txn[w].approval].status = "denied"]
    /\ End(w)
    /\ UNCHANGED <<today, budget, usage, rules, reported>>

Revoke(w, r) ==
    /\ txn[w] = Idle
    /\ rules[r] # NoRow
    /\ rules' = Lifted(r)
    /\ UNCHANGED <<today, budget, usage, approvals, reported, txn>>

-----------------------------------------------------------------------------
WorkerStep(w) ==
    \/ \E m \in Member, s \in Settings : SetRead(w, m, s)
    \/ SetWrite(w)
    \/ \E m \in Member, n \in Length : RecordRead(w, m, n)
    \/ RecordWrite(w)
    \/ EnforceStart(w) \/ EnforceMember(w) \/ EnforceCommit(w)
    \/ \E r \in RuleId : RequestRead(w, r) \/ Revoke(w, r)
    \/ RequestWrite(w)
    \/ \E a \in ApprovalId : DecideRead(w, a)
    \/ Approve(w) \/ Deny(w)
    \/ Rollback(w)

Next == (\E w \in Worker : WorkerStep(w)) \/ (\E m \in Member : Midnight(m))

Spec == Init /\ [][Next]_vars

(* get_db ends every session, and the cron starts the job again and again; a run
   that fails is followed by one that does not. *)
FairSpec ==
    /\ Spec
    /\ \A w \in Worker : /\ WF_vars(Rollback(w))
                         /\ SF_vars(EnforceStart(w))
                         /\ SF_vars(EnforceMember(w))
                         /\ SF_vars(EnforceCommit(w))

-----------------------------------------------------------------------------
(* enforce_time_budgets looks for "the" block of a member: there is one at most;
   request_unblock "A pending unblock request already exists for this rule". *)
OneOfEach ==
    /\ \A m \in Member : Cardinality(BudgetBlocks(m)) <= 1
    /\ \A r \in RuleId : Cardinality(Pending(r)) <= 1

(* record_session_time "Add minutes to a member's daily usage": one session at a
   time, the row of a date holds all the minutes reported for it. *)
MinutesCounted == \A m \in Member, d \in Day : Used(m, d) = reported[m][d]

(* Whatever sessions race, a member is never charged a minute nobody reported. *)
NeverOvercharged == \A m \in Member, d \in Day : Used(m, d) <= reported[m][d]

(* approve_unblock "Approve an unblock request and deactivate the block rule": no
   race with a denial, a revocation or the job leaves an approved rule active. *)
ApprovedIsLifted ==
    \A a \in ApprovalId : approvals[a] # NoRow /\ approvals[a].status = "approved"
        => ~rules[approvals[a].rule].active

Exceeded(m) ==
    LET minutes == IF today[m] \in Weekend THEN budget[m].weekend ELSE budget[m].weekday
    IN  minutes > 0 /\ Used(m, today[m]) >= minutes

(* enforce_time_budgets "creating auto-blocks for exceeded members": a member who
   has used up an enabled budget is blocked in the end, again if the parent lifts
   the block. *)
Unlimited(m) == budget[m] = NoRow \/ ~budget[m].enabled \/ ~Exceeded(m)
ExceededIsBlocked ==
    \A m \in Member : []<>(Unlimited(m) \/ BudgetBlocks(m) # {})

(* "and removing blocks when a new day starts": while the budget is enabled, the
   block of a member who is within it is lifted. *)
WithinBudget(m) == budget[m] # NoRow /\ budget[m].enabled /\ ~Exceeded(m)
BlockIsLifted ==
    \A m \in Member : []<>(~WithinBudget(m) \/ BudgetBlocks(m) = {})

(* The job's promise, both ways: the block of a member follows the budget. *)
BlockFollowsBudget == ExceededIsBlocked /\ BlockIsLifted
=============================================================================

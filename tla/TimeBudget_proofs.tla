------------------------- MODULE TimeBudget_proofs -------------------------
(***************************************************************************)
(* Nobody is charged for minutes that were not reported, and an approved   *)
(* request leaves no active rule, for every set of members, dates, budgets *)
(* and rules and any number of concurrent sessions and runs of the job.    *)
(*                                                                         *)
(* Neither is inductive.  A report adds to the minutes it has read, so     *)
(* what it has read must have been reported; and the rule of a request is  *)
(* a row, which no block of the job takes the place of (Backed).           *)
(*                                                                         *)
(* The last section is about one session at a time, where no minute is     *)
(* lost either and no row has a double.                                    *)
(***************************************************************************)
EXTENDS TimeBudget, FiniteSetTheorems, TLAPS

RuleRows == {r \in RuleId : rules[r] # NoRow}

SetTxn == [op: {"set"}, member: Member, seen: Budget \cup {NoRow}, new: Settings]
RecordTxn == [op: {"record"}, member: Member, day: Day, length: Length, allowance: Nat,
              seen: Usage \cup {NoRow}]
EnforceTxn == [op: {"enforce"}, todo: SUBSET [member: Member, budget: Budget],
               block: SUBSET Member, lift: SUBSET RuleId]

(* What session t has established about the rows it has read. *)
Backed(t) ==
    /\ t.op = "set" /\ t.seen # NoRow => budget[t.member] # NoRow
    /\ t.op = "record" /\ t.seen # NoRow =>
         /\ usage[t.member][t.day] # NoRow
         /\ t.seen.minutes <= reported[t.member][t.day]
    /\ t.op = "enforce" => t.lift \subseteq RuleRows
    /\ t.op = "request" => t.rule \in RuleRows
    /\ t.op = "decide" => approvals[t.approval] # NoRow

SessionsBacked == \A w \in Worker : Backed(txn[w])

RequestsHaveRule == \A a \in ApprovalId : approvals[a] # NoRow => approvals[a].rule \in RuleRows

IInv ==
    /\ TypeOK
    /\ SessionsBacked
    /\ RequestsHaveRule
    /\ NeverOvercharged
    /\ ApprovedIsLifted

(* No row disappears, and no report is taken back. *)
RowsKept ==
    /\ \A m \in Member : budget[m] # NoRow => budget'[m] # NoRow
    /\ \A m \in Member, d \in Day : /\ usage[m][d] # NoRow => usage'[m][d] # NoRow
                                    /\ reported[m][d] <= reported'[m][d]
    /\ RuleRows \subseteq RuleRows'
    /\ \A a \in ApprovalId : approvals[a] # NoRow => approvals'[a] # NoRow

-----------------------------------------------------------------------------
LEMMA IdleBacked == Idle \in Txn /\ Backed(Idle)
BY DEF Txn, Idle, Backed

(* The empty tables satisfy the invariant. *)
LEMMA InitIInv == Init => IInv
<1> SUFFICES ASSUME Init PROVE IInv
  OBVIOUS
<1>1. TypeOK /\ SessionsBacked
  BY IdleBacked, DayAssumption DEF Init, TypeOK, SessionsBacked
<1>2. NeverOvercharged
  BY DEF Init, NeverOvercharged, Used
<1> QED BY <1>1, <1>2 DEF Init, IInv, RequestsHaveRule, ApprovedIsLifted

(* The record of an open session, by the kind of the session. *)
LEMMA TxnShape ==
    ASSUME NEW t \in Txn
    PROVE  /\ t.op = "set" => t \in SetTxn
           /\ t.op = "record" => t \in RecordTxn
           /\ t.op = "enforce" => t \in EnforceTxn
           /\ t.op = "request" => t.rule \in RuleId
           /\ t.op = "decide" => t.approval \in ApprovalId
BY DEF Txn, Idle, SetTxn, RecordTxn, EnforceTxn

(* What a session has established stays true of rows that are kept. *)
LEMMA StaysBacked ==
    ASSUME TypeOK, TypeOK', NEW t \in Txn, Backed(t), RowsKept
    PROVE  Backed(t)'
<1>1. t.op = "set" /\ t.seen # NoRow => budget'[t.member] # NoRow
  BY TxnShape DEF Backed, RowsKept, SetTxn
<1>2. ASSUME t.op = "record", t.seen # NoRow
      PROVE  /\ usage'[t.member][t.day] # NoRow
             /\ t.seen.minutes <= reported'[t.member][t.day]
  <2>1. t.member \in Member /\ t.day \in Day /\ t.seen \in Usage
    BY <1>2, TxnShape DEF RecordTxn
  <2>2. /\ t.seen.minutes \in Nat
        /\ reported[t.member][t.day] \in Nat
        /\ reported'[t.member][t.day] \in Nat
    BY <2>1 DEF Usage, TypeOK
  <2> QED BY <1>2, <2>1, <2>2 DEF Backed, RowsKept
<1>3. t.op = "enforce" => t.lift \subseteq RuleRows'
  BY DEF Backed, RowsKept
<1>4. t.op = "request" => t.rule \in RuleRows'
  BY DEF Backed, RowsKept
<1>5. t.op = "decide" => approvals'[t.approval] # NoRow
  BY TxnShape DEF Backed, RowsKept
<1> QED BY <1>1, <1>2, <1>3, <1>4, <1>5 DEF Backed

(* Every step keeps the invariant that keeps rows, leaves a session that is backed,
   and keeps the two properties. *)
LEMMA Preserved ==
    ASSUME IInv, TypeOK', RowsKept, NEW w \in Worker, NEW t \in Txn, Backed(t),
           txn' = [txn EXCEPT ![w] = t],
           RequestsHaveRule', NeverOvercharged', ApprovedIsLifted'
    PROVE  IInv'
<1>1. \A v \in Worker : txn'[v] \in Txn /\ Backed(txn'[v])
  BY DEF IInv, TypeOK, SessionsBacked
<1>2. SessionsBacked'
  BY <1>1, StaysBacked DEF SessionsBacked, IInv
<1> QED BY <1>2 DEF IInv

(* A step that reads, or gives up. *)
LEMMA ReadStep ==
    ASSUME IInv, NEW w \in Worker, NEW t \in Txn, Backed(t),
           txn' = [txn EXCEPT ![w] = t], UNCHANGED <<today, tables, reported>>
    PROVE  IInv'
<1>1. TypeOK'
  BY DEF IInv, TypeOK, tables
<1>2. RowsKept
  BY DEF RowsKept, RuleRows, IInv, TypeOK, tables
<1>3. RequestsHaveRule' /\ NeverOvercharged' /\ ApprovedIsLifted'
  BY DEF IInv, RequestsHaveRule, RuleRows, NeverOvercharged, Used, ApprovedIsLifted, tables
<1> QED BY <1>1, <1>2, <1>3, Preserved

LEMMA BeginStep ==
    ASSUME IInv, NEW w \in Worker, NEW t \in Txn, Backed(t), Begin(w, t)  PROVE IInv'
BY ReadStep DEF Begin

LEMMA RollbackStep ==
    ASSUME IInv, NEW w \in Worker, Rollback(w)  PROVE IInv'
BY IdleBacked, ReadStep DEF Rollback, End

LEMMA SetReadStep ==
    ASSUME IInv, NEW w \in Worker, NEW m \in Member, NEW s \in Settings, SetRead(w, m, s)
    PROVE  IInv'
<1> DEFINE t == [op |-> "set", member |-> m, seen |-> budget[m], new |-> s]
<1>1. t \in Txn /\ Backed(t) /\ Begin(w, t)
  BY DEF Txn, Backed, SetRead, IInv, TypeOK
<1> HIDE DEF t
<1> QED BY <1>1, BeginStep

LEMMA RecordReadStep ==
    ASSUME IInv, NEW w \in Worker, NEW m \in Member, NEW n \in Length, RecordRead(w, m, n)
    PROVE  IInv'
<1> DEFINE d == today[m]
           allowance == IF budget[m] = NoRow THEN 0 ELSE Allowance(budget[m], d)
           t == [op |-> "record", member |-> m, day |-> d, length |-> n,
                 allowance |-> allowance, seen |-> usage[m][d]]
<1>1. d \in Day /\ usage[m][d] \in Usage \cup {NoRow}
  BY DEF IInv, TypeOK
<1>2. allowance \in Nat
  BY DEF IInv, TypeOK, Budget, Allowance
<1>3. usage[m][d] # NoRow => usage[m][d].minutes <= reported[m][d]
  BY <1>1 DEF IInv, NeverOvercharged, Used
<1>4. Begin(w, t)
  BY DEF RecordRead
<1> HIDE DEF d, allowance
<1>5. t \in Txn /\ Backed(t)
  BY <1>1, <1>2, <1>3 DEF Txn, Backed
<1> HIDE DEF t
<1> QED BY <1>4, <1>5, BeginStep

LEMMA EnforceStartStep ==
    ASSUME IInv, NEW w \in Worker, EnforceStart(w)  PROVE IInv'
<1> DEFINE todo == {[member |-> m, budget |-> budget[m]] :
                      m \in {x \in Member : budget[x] # NoRow /\ budget[x].enabled}}
           t == [op |-> "enforce", block |-> {}, lift |-> {}, todo |-> todo]
<1>1. todo \subseteq [member: Member, budget: Budget]
  BY DEF IInv, TypeOK
<1>2. Begin(w, t)
  BY DEF EnforceStart
<1> HIDE DEF todo
<1>3. t \in Txn /\ Backed(t)
  BY <1>1 DEF Txn, Backed
<1> HIDE DEF t
<1> QED BY <1>2, <1>3, BeginStep

LEMMA EnforceMemberStep ==
    ASSUME IInv, NEW w \in Worker, EnforceMember(w)  PROVE IInv'
<1>1. /\ txn[w] \in EnforceTxn /\ Backed(txn[w]) /\ txn[w].op = "enforce"
      /\ UNCHANGED <<today, tables, reported>>
  BY TxnShape DEF EnforceMember, IInv, TypeOK, SessionsBacked
<1>2. PICK u \in txn[w].todo :
        LET m == u.member
            over == Over(Used(m, today[m]), Allowance(u.budget, today[m]))
            found == BudgetBlocks(m)
        IN  txn' = [txn EXCEPT
              ![w].todo = IF Cardinality(found) > 1 THEN {} ELSE @ \ {u},
              ![w].block = IF over /\ found = {} THEN @ \cup {m} ELSE @,
              ![w].lift = IF ~over /\ Cardinality(found) = 1 THEN @ \cup found ELSE @]
  BY DEF EnforceMember
<1> DEFINE found == BudgetBlocks(u.member)
<1>3. u.member \in Member
  BY <1>1 DEF EnforceTxn
<1>4. \E todo \in {{}, txn[w].todo \ {u}},
         block \in {txn[w].block, txn[w].block \cup {u.member}},
         lift \in {txn[w].lift, txn[w].lift \cup found} :
        txn' = [txn EXCEPT ![w] = [txn[w] EXCEPT !.todo = todo, !.block = block, !.lift = lift]]
  BY <1>1, <1>2 DEF IInv, TypeOK
<1>5. ASSUME NEW todo \in {{}, txn[w].todo \ {u}},
             NEW block \in {txn[w].block, txn[w].block \cup {u.member}},
             NEW lift \in {txn[w].lift, txn[w].lift \cup found},
             txn' = [txn EXCEPT ![w] =
                       [txn[w] EXCEPT !.todo = todo, !.block = block, !.lift = lift]]
      PROVE  IInv'
  <2> DEFINE t == [txn[w] EXCEPT !.todo = todo, !.block = block, !.lift = lift]
  <2>1. found \subseteq RuleRows /\ found \subseteq RuleId
    BY DEF BudgetBlocks, RuleRows
  <2>2. lift \subseteq RuleRows /\ lift \subseteq RuleId
    BY <1>1, <2>1 DEF Backed, EnforceTxn
  <2>3. /\ todo \subseteq [member: Member, budget: Budget]
        /\ block \subseteq Member
    BY <1>1, <1>3 DEF EnforceTxn
  <2>4. t \in EnforceTxn /\ t.op = "enforce" /\ t.lift = lift
    BY <1>1, <2>2, <2>3 DEF EnforceTxn
  <2> HIDE DEF t
  <2>5. t \in Txn /\ Backed(t)
    BY <2>2, <2>4 DEF Txn, EnforceTxn, Backed
  <2>6. txn' = [txn EXCEPT ![w] = t]
    BY <1>5 DEF t
  <2> QED BY <1>1, <2>5, <2>6, ReadStep
<1> QED BY <1>4, <1>5

LEMMA RequestReadStep ==
    ASSUME IInv, NEW w \in Worker, NEW r \in RuleId, RequestRead(w, r)  PROVE IInv'
<1> DEFINE t == [op |-> "request", rule |-> r]
<1>1. t \in Txn /\ Backed(t) /\ Begin(w, t)
  BY DEF Txn, Backed, RequestRead, MayRequest, RuleRows
<1> HIDE DEF t
<1> QED BY <1>1, BeginStep

LEMMA DecideReadStep ==
    ASSUME IInv, NEW w \in Worker, NEW a \in ApprovalId, DecideRead(w, a)  PROVE IInv'
<1> DEFINE t == [op |-> "decide", approval |-> a]
<1>1. t \in Txn /\ Backed(t) /\ Begin(w, t)
  BY DEF Txn, Backed, DecideRead
<1> HIDE DEF t
<1> QED BY <1>1, BeginStep

-----------------------------------------------------------------------------
(* The row that an update leaves, by columns. *)
LEMMA BudgetChanged ==
    ASSUME NEW row \in Budget, NEW seen \in Budget, NEW new \in Budget
    PROVE  Changed(row, seen, new) \in Budget
BY DEF Changed, Budget

LEMMA UsageChanged ==
    ASSUME NEW row \in Usage, NEW seen \in Usage, NEW new \in Usage
    PROVE  /\ Changed(row, seen, new) \in Usage
           /\ Changed(row, seen, new).minutes =
                IF new.minutes # seen.minutes THEN new.minutes ELSE row.minutes
BY DEF Changed, Usage

(* A commit, of a session that then is over. *)
LEMMA WriteStep ==
    ASSUME IInv, NEW w \in Worker, End(w),
           UNCHANGED today,
           budget' \in [Member -> Budget \cup {NoRow}],
           usage' \in [Member -> [Day -> Usage \cup {NoRow}]],
           rules' \in [RuleId -> Rule \cup {NoRow}],
           approvals' \in [ApprovalId -> Approval \cup {NoRow}],
           reported' \in [Member -> [Day -> Nat]],
           RowsKept, RequestsHaveRule', NeverOvercharged', ApprovedIsLifted'
    PROVE  IInv'
<1>1. txn' = [txn EXCEPT ![w] = Idle] /\ txn' \in [Worker -> Txn]
  BY IdleBacked DEF End, IInv, TypeOK
<1>2. TypeOK'
  BY <1>1 DEF IInv, TypeOK
<1> QED BY <1>1, <1>2, IdleBacked, Preserved

(* A commit that concerns neither rules nor requests, or nothing else. *)
LEMMA ChargeStep ==
    ASSUME IInv, NEW w \in Worker, End(w), UNCHANGED <<today, rules, approvals>>,
           budget' \in [Member -> Budget \cup {NoRow}],
           usage' \in [Member -> [Day -> Usage \cup {NoRow}]],
           reported' \in [Member -> [Day -> Nat]],
           \A m \in Member : budget[m] # NoRow => budget'[m] # NoRow,
           \A m \in Member, d \in Day : /\ usage[m][d] # NoRow => usage'[m][d] # NoRow
                                        /\ reported[m][d] <= reported'[m][d],
           NeverOvercharged'
    PROVE  IInv'
<1>1. RowsKept /\ RequestsHaveRule' /\ ApprovedIsLifted'
  BY DEF RowsKept, RuleRows, IInv, RequestsHaveRule, ApprovedIsLifted
<1>2. /\ rules' \in [RuleId -> Rule \cup {NoRow}]
      /\ approvals' \in [ApprovalId -> Approval \cup {NoRow}]
  BY DEF IInv, TypeOK
<1> QED BY <1>1, <1>2, WriteStep

LEMMA RulesStep ==
    ASSUME IInv, NEW w \in Worker, End(w), UNCHANGED <<today, budget, usage, reported>>,
           rules' \in [RuleId -> Rule \cup {NoRow}],
           approvals' \in [ApprovalId -> Approval \cup {NoRow}],
           RuleRows \subseteq RuleRows',
           \A a \in ApprovalId : approvals[a] # NoRow => approvals'[a] # NoRow,
           RequestsHaveRule', ApprovedIsLifted'
    PROVE  IInv'
<1>1. \A m \in Member, d \in Day : reported[m][d] \in Nat
  BY DEF IInv, TypeOK
<1>2. RowsKept /\ NeverOvercharged'
  BY <1>1 DEF RowsKept, IInv, NeverOvercharged, Used
<1>3. /\ budget' \in [Member -> Budget \cup {NoRow}]
      /\ usage' \in [Member -> [Day -> Usage \cup {NoRow}]]
      /\ reported' \in [Member -> [Day -> Nat]]
  BY DEF IInv, TypeOK
<1> QED BY <1>2, <1>3, WriteStep

LEMMA SetWriteStep ==
    ASSUME IInv, NEW w \in Worker, SetWrite(w)  PROVE IInv'
<1> DEFINE t == txn[w]
           new == IF t.seen = NoRow THEN t.new ELSE Changed(budget[t.member], t.seen, t.new)
<1>1. t \in SetTxn /\ Backed(t) /\ t.op = "set"
  BY TxnShape DEF SetWrite, IInv, TypeOK, SessionsBacked
<1>2. /\ t.member \in Member /\ t.new \in Budget
      /\ t.seen # NoRow => t.seen \in Budget /\ budget[t.member] \in Budget
  BY <1>1, SettingsAssumption DEF SetTxn, Backed, IInv, TypeOK
<1>3. new \in Budget
  BY <1>2, BudgetChanged
<1>4. budget' = [budget EXCEPT ![t.member] = new]
  BY DEF SetWrite
<1>5. End(w) /\ UNCHANGED <<today, usage, rules, approvals, reported>>
  BY DEF SetWrite
<1> HIDE DEF new, t
<1>6. /\ budget' \in [Member -> Budget \cup {NoRow}]
      /\ \A m \in Member : budget[m] # NoRow => budget'[m] # NoRow
  BY <1>3, <1>4, RowAssumption DEF IInv, TypeOK
<1>7. \A m \in Member, d \in Day : reported[m][d] \in Nat
  BY DEF IInv, TypeOK
<1>8. /\ usage' \in [Member -> [Day -> Usage \cup {NoRow}]]
      /\ reported' \in [Member -> [Day -> Nat]]
      /\ \A m \in Member, d \in Day : /\ usage[m][d] # NoRow => usage'[m][d] # NoRow
                                      /\ reported[m][d] <= reported'[m][d]
      /\ NeverOvercharged'
  BY <1>5, <1>7 DEF IInv, TypeOK, NeverOvercharged, Used
<1> QED BY <1>5, <1>6, <1>8, ChargeStep

(* A report leaves at most the minutes it has read and its own. *)
LEMMA RecordWriteStep ==
    ASSUME IInv, NEW w \in Worker, RecordWrite(w)  PROVE IInv'
<1>1. txn[w] \in RecordTxn /\ Backed(txn[w]) /\ txn[w].op = "record"
  BY TxnShape DEF RecordWrite, IInv, TypeOK, SessionsBacked
<1>2. PICK m \in Member, d \in Day : m = txn[w].member /\ d = txn[w].day
  BY <1>1 DEF RecordTxn
<1>3. PICK n \in Nat \ {0} : n = txn[w].length
  BY <1>1, LengthAssumption DEF RecordTxn
<1> DEFINE seen == txn[w].seen
           new == RecordedRow(txn[w])
           row == IF seen = NoRow THEN new ELSE Changed(usage[m][d], seen, new)
<1>4. /\ seen \in Usage \cup {NoRow}
      /\ seen # NoRow => usage[m][d] \in Usage /\ seen.minutes <= reported[m][d]
      /\ reported[m][d] \in Nat
      /\ usage[m][d] # NoRow => usage[m][d].minutes <= reported[m][d]
  BY <1>1, <1>2 DEF RecordTxn, Backed, IInv, TypeOK, NeverOvercharged, Used
<1>5. /\ new \in Usage
      /\ new.minutes = n + (IF seen = NoRow THEN 0 ELSE seen.minutes)
  BY <1>1, <1>3, <1>4 DEF RecordedRow, Usage, RecordTxn, Over
<1>6. /\ usage' = [usage EXCEPT ![m][d] = row]
      /\ reported' = [reported EXCEPT ![m][d] = @ + n]
      /\ End(w) /\ UNCHANGED <<today, budget, rules, approvals>>
  BY <1>2, <1>3 DEF RecordWrite
<1> HIDE DEF new, seen
<1>7. row \in Usage /\ row.minutes <= reported[m][d] + n
  <2>1. CASE seen = NoRow
    BY <1>4, <1>5, <2>1
  <2>2. CASE seen # NoRow
    <3>1. seen \in Usage /\ usage[m][d] \in Usage /\ seen.minutes \in Nat
      BY <1>4, <2>2 DEF Usage
    <3>2. row = Changed(usage[m][d], seen, new)
      BY <2>2
    <3>3. row \in Usage /\ row.minutes = new.minutes
      BY <1>5, <2>2, <3>1, <3>2, UsageChanged
    <3> QED BY <1>4, <1>5, <2>2, <3>1, <3>3
  <2> QED BY <2>1, <2>2
<1> HIDE DEF row
<1>8. /\ usage'[m][d] = row /\ reported'[m][d] = reported[m][d] + n
      /\ \A x \in Member, y \in Day : x # m \/ y # d =>
           usage'[x][y] = usage[x][y] /\ reported'[x][y] = reported[x][y]
  BY <1>6 DEF IInv, TypeOK
<1>9. /\ usage' \in [Member -> [Day -> Usage \cup {NoRow}]]
      /\ reported' \in [Member -> [Day -> Nat]]
      /\ budget' \in [Member -> Budget \cup {NoRow}]
  BY <1>4, <1>6, <1>7 DEF IInv, TypeOK
<1>10. ASSUME NEW x \in Member, NEW y \in Day
       PROVE  /\ usage[x][y] # NoRow => usage'[x][y] # NoRow
              /\ reported[x][y] <= reported'[x][y]
              /\ Used(x, y)' <= reported'[x][y]
  <2>1. reported[x][y] \in Nat /\ Used(x, y) <= reported[x][y]
    BY DEF IInv, TypeOK, NeverOvercharged
  <2>2. CASE x = m /\ y = d
    BY <1>4, <1>7, <1>8, <2>2, RowAssumption DEF Used
  <2>3. CASE x # m \/ y # d
    BY <1>8, <2>1, <2>3 DEF Used
  <2> QED BY <2>2, <2>3
<1>11. NeverOvercharged'
  BY <1>10 DEF NeverOvercharged
<1>12. \A x \in Member : budget[x] # NoRow => budget'[x] # NoRow
  BY <1>6
<1> QED BY <1>6, <1>9, <1>10, <1>11, <1>12, ChargeStep

(* A block takes a key that has no row, or a row no request refers to. *)
LEMMA EnforceCommitStep ==
    ASSUME IInv, NEW w \in Worker, EnforceCommit(w)  PROVE IInv'
<1>1. txn[w] \in EnforceTxn /\ Backed(txn[w]) /\ txn[w].op = "enforce"
  BY TxnShape DEF EnforceCommit, IInv, TypeOK, SessionsBacked
<1>2. PICK key \in [txn[w].block -> {r \in RuleId : FreeRule(r)}] :
        rules' = [r \in RuleId |->
           IF \E m \in txn[w].block : key[m] = r
             THEN [member |-> CHOOSE m \in txn[w].block : key[m] = r, active |-> TRUE]
           ELSE IF r \in txn[w].lift THEN [rules[r] EXCEPT !.active = FALSE]
           ELSE rules[r]]
  BY DEF EnforceCommit
<1>3. End(w) /\ UNCHANGED <<today, budget, usage, approvals, reported>>
  BY DEF EnforceCommit
<1>4. ASSUME NEW r \in RuleId
      PROVE  /\ rules'[r] \in Rule \cup {NoRow}
             /\ rules[r] # NoRow => rules'[r] # NoRow
             /\ rules[r] # NoRow /\ ~rules[r].active /\ ~FreeRule(r) => ~rules'[r].active
  <2>1. rules[r] \in Rule \cup {NoRow}
    BY DEF IInv, TypeOK
  <2>2. CASE \E m \in txn[w].block : key[m] = r
    <3>1. PICK n \in txn[w].block : n = (CHOOSE m \in txn[w].block : key[m] = r)
      BY <2>2
    <3>2. n \in Member
      BY <1>1 DEF EnforceTxn
    <3>3. rules'[r] = [member |-> n, active |-> TRUE]
      BY <1>2, <2>2, <3>1
    <3>4. rules'[r] \in Rule
      BY <3>2, <3>3 DEF Rule
    <3>5. FreeRule(r)
      BY <2>2
    <3> QED BY <3>4, <3>5, RowAssumption
  <2>3. CASE ~\E m \in txn[w].block : key[m] = r
    <3>1. rules'[r] = IF r \in txn[w].lift THEN [rules[r] EXCEPT !.active = FALSE] ELSE rules[r]
      BY <1>2, <2>3
    <3>2. CASE r \in txn[w].lift
      <4>1. rules[r] \in Rule
        BY <1>1, <2>1, <3>2 DEF Backed, RuleRows
      <4>2. rules'[r] \in Rule /\ ~rules'[r].active
        BY <3>1, <3>2, <4>1 DEF Rule
      <4> QED BY <4>2, RowAssumption
    <3>3. CASE r \notin txn[w].lift
      BY <2>1, <3>1, <3>3
    <3> QED BY <3>2, <3>3
  <2> QED BY <2>2, <2>3
<1>5. /\ rules' \in [RuleId -> Rule \cup {NoRow}]
      /\ RuleRows \subseteq RuleRows'
  <2>1. rules' = [r \in RuleId |-> rules'[r]]
    BY <1>2
  <2> QED BY <1>4, <2>1 DEF RuleRows
<1>6. approvals' \in [ApprovalId -> Approval \cup {NoRow}]
  BY <1>3 DEF IInv, TypeOK
<1>7. RequestsHaveRule'
  BY <1>3, <1>5 DEF IInv, RequestsHaveRule
<1>8. ApprovedIsLifted'
  <2> SUFFICES ASSUME NEW a \in ApprovalId, approvals[a] # NoRow,
                      approvals[a].status = "approved"
               PROVE  ~rules'[approvals[a].rule].active
    BY <1>3 DEF ApprovedIsLifted
  <2> DEFINE r == approvals[a].rule
  <2>1. r \in RuleId /\ rules[r] # NoRow /\ ~rules[r].active
    BY DEF IInv, RequestsHaveRule, RuleRows, ApprovedIsLifted
  <2>2. a \in Requests(r)
    BY DEF Requests
  <2>3. ~FreeRule(r)
    BY <2>1, <2>2 DEF FreeRule
  <2> QED BY <1>4, <2>1, <2>3
<1> QED BY <1>3, <1>5, <1>6, <1>7, <1>8, RulesStep

LEMMA RequestWriteStep ==
    ASSUME IInv, NEW w \in Worker, RequestWrite(w)  PROVE IInv'
<1> DEFINE row == [rule |-> txn[w].rule, status |-> "pending"]
<1>1. txn[w].rule \in RuleRows /\ txn[w].rule \in RuleId
  BY TxnShape DEF RequestWrite, IInv, TypeOK, SessionsBacked, Backed
<1>2. row \in Approval /\ row.rule \in RuleRows /\ row.status = "pending"
  BY <1>1 DEF Approval
<1>3. PICK a \in ApprovalId :
        approvals[a] = NoRow /\ approvals' = [approvals EXCEPT ![a] = row]
  BY DEF RequestWrite
<1>4. End(w) /\ UNCHANGED <<today, budget, usage, rules, reported>>
  BY DEF RequestWrite
<1> HIDE DEF row
<1>5. /\ approvals' \in [ApprovalId -> Approval \cup {NoRow}]
      /\ approvals'[a] = row
      /\ \A x \in ApprovalId : x # a => approvals'[x] = approvals[x]
  BY <1>2, <1>3 DEF IInv, TypeOK
<1>6. RequestsHaveRule' /\ ApprovedIsLifted'
  BY <1>2, <1>4, <1>5 DEF IInv, RequestsHaveRule, RuleRows, ApprovedIsLifted
<1>7. /\ rules' \in [RuleId -> Rule \cup {NoRow}]
      /\ RuleRows \subseteq RuleRows'
      /\ \A x \in ApprovalId : approvals[x] # NoRow => approvals'[x] # NoRow
  BY <1>3, <1>4, <1>5 DEF IInv, TypeOK, RuleRows
<1> QED BY <1>4, <1>5, <1>6, <1>7, RulesStep

(* Lifting a rule, with the ruling on a request or without. *)
LEMMA LiftStep ==
    ASSUME IInv, NEW r \in RuleRows, rules' = Lifted(r)
    PROVE  /\ rules' \in [RuleId -> Rule \cup {NoRow}]
           /\ RuleRows \subseteq RuleRows'
           /\ ~rules'[r].active
           /\ \A x \in RuleRows : ~rules[x].active => ~rules'[x].active
<1>1. r \in RuleId /\ rules[r] \in Rule
  BY DEF RuleRows, IInv, TypeOK
<1>2. /\ rules'[r] = [rules[r] EXCEPT !.active = FALSE]
      /\ \A x \in RuleId : x # r => rules'[x] = rules[x]
  BY <1>1 DEF Lifted, IInv, TypeOK
<1>3. rules'[r] \in Rule /\ ~rules'[r].active
  BY <1>1, <1>2 DEF Rule
<1>4. rules' \in [RuleId -> Rule \cup {NoRow}]
  BY <1>3 DEF Lifted, IInv, TypeOK
<1> QED BY <1>1, <1>2, <1>3, <1>4, RowAssumption DEF RuleRows

(* A ruling changes the status of its request only. *)
LEMMA Ruled ==
    ASSUME IInv, NEW a \in ApprovalId, approvals[a] # NoRow,
           NEW status \in {"approved", "denied"},
           approvals' = [approvals EXCEPT ![a].status = status]
    PROVE  /\ approvals' \in [ApprovalId -> Approval \cup {NoRow}]
           /\ approvals'[a].status = status
           /\ \A x \in ApprovalId : x # a => approvals'[x] = approvals[x]
           /\ \A x \in ApprovalId : approvals[x] # NoRow =>
                approvals'[x] # NoRow /\ approvals'[x].rule = approvals[x].rule
           /\ \A x \in ApprovalId : approvals'[x] # NoRow => approvals[x] # NoRow
<1>1. approvals[a] \in Approval
  BY DEF IInv, TypeOK
<1>2. /\ approvals'[a] = [approvals[a] EXCEPT !.status = status]
      /\ \A x \in ApprovalId : x # a => approvals'[x] = approvals[x]
  BY DEF IInv, TypeOK
<1>3. /\ approvals'[a] \in Approval
      /\ approvals'[a].status = status
      /\ approvals'[a].rule = approvals[a].rule
  BY <1>1, <1>2 DEF Approval
<1>4. approvals' \in [ApprovalId -> Approval \cup {NoRow}]
  BY <1>3 DEF IInv, TypeOK
<1> QED BY <1>2, <1>3, <1>4, RowAssumption

LEMMA ApproveStep ==
    ASSUME IInv, NEW w \in Worker, Approve(w)  PROVE IInv'
<1>1. PICK a \in ApprovalId : a = txn[w].approval /\ approvals[a] # NoRow
  BY TxnShape DEF Approve, IInv, TypeOK, SessionsBacked, Backed
<1>2. PICK r \in RuleRows : r = approvals[a].rule
  BY <1>1 DEF IInv, RequestsHaveRule
<1>3. /\ approvals' = [approvals EXCEPT ![a].status = "approved"]
      /\ rules' = Lifted(r)
      /\ End(w) /\ UNCHANGED <<today, budget, usage, reported>>
  BY <1>1, <1>2 DEF Approve
<1>4. /\ approvals' \in [ApprovalId -> Approval \cup {NoRow}]
      /\ \A x \in ApprovalId : x # a => approvals'[x] = approvals[x]
      /\ \A x \in ApprovalId : approvals[x] # NoRow =>
           approvals'[x] # NoRow /\ approvals'[x].rule = approvals[x].rule
      /\ \A x \in ApprovalId : approvals'[x] # NoRow => approvals[x] # NoRow
  BY <1>1, <1>3, Ruled
<1>5. /\ rules' \in [RuleId -> Rule \cup {NoRow}]
      /\ RuleRows \subseteq RuleRows'
      /\ ~rules'[r].active
      /\ \A x \in RuleRows : ~rules[x].active => ~rules'[x].active
  BY <1>3, LiftStep
<1>6. RequestsHaveRule'
  BY <1>4, <1>5 DEF IInv, RequestsHaveRule
<1>7. ApprovedIsLifted'
  BY <1>2, <1>4, <1>5 DEF IInv, RequestsHaveRule, ApprovedIsLifted
<1> QED BY <1>3, <1>4, <1>5, <1>6, <1>7, RulesStep

LEMMA DenyStep ==
    ASSUME IInv, NEW w \in Worker, Deny(w)  PROVE IInv'
<1>1. PICK a \in ApprovalId : a = txn[w].approval /\ approvals[a] # NoRow
  BY TxnShape DEF Deny, IInv, TypeOK, SessionsBacked, Backed
<1>2. /\ approvals' = [approvals EXCEPT ![a].status = "denied"]
      /\ End(w) /\ UNCHANGED <<today, budget, usage, rules, reported>>
  BY <1>1 DEF Deny
<1>3. /\ approvals' \in [ApprovalId -> Approval \cup {NoRow}]
      /\ approvals'[a].status = "denied"
      /\ \A x \in ApprovalId : x # a => approvals'[x] = approvals[x]
      /\ \A x \in ApprovalId : approvals[x] # NoRow =>
           approvals'[x] # NoRow /\ approvals'[x].rule = approvals[x].rule
      /\ \A x \in ApprovalId : approvals'[x] # NoRow => approvals[x] # NoRow
  BY <1>1, <1>2, Ruled
<1>4. RequestsHaveRule' /\ ApprovedIsLifted'
  BY <1>2, <1>3 DEF IInv, RequestsHaveRule, RuleRows, ApprovedIsLifted
<1>5. rules' \in [RuleId -> Rule \cup {NoRow}] /\ RuleRows \subseteq RuleRows'
  BY <1>2 DEF IInv, TypeOK, RuleRows
<1> QED BY <1>2, <1>3, <1>4, <1>5, RulesStep

LEMMA RevokeStep ==
    ASSUME IInv, NEW w \in Worker, NEW r \in RuleId, Revoke(w, r)  PROVE IInv'
<1>1. /\ r \in RuleRows /\ rules' = Lifted(r)
      /\ UNCHANGED <<today, budget, usage, approvals, reported>>
  BY DEF Revoke, RuleRows
<1>2. End(w)
  BY DEF Revoke, End, IInv, TypeOK
<1>3. /\ rules' \in [RuleId -> Rule \cup {NoRow}]
      /\ RuleRows \subseteq RuleRows'
      /\ \A x \in RuleRows : ~rules[x].active => ~rules'[x].active
  BY <1>1, LiftStep
<1>4. RequestsHaveRule' /\ ApprovedIsLifted'
  BY <1>1, <1>3 DEF IInv, RequestsHaveRule, ApprovedIsLifted
<1>5. approvals' \in [ApprovalId -> Approval \cup {NoRow}]
  BY <1>1 DEF IInv, TypeOK
<1> QED BY <1>1, <1>2, <1>3, <1>4, <1>5, RulesStep

LEMMA MidnightStep ==
    ASSUME IInv, NEW m \in Member, Midnight(m)  PROVE IInv'
<1>1. today' \in [Member -> Day] /\ UNCHANGED <<tables, reported, txn>>
  BY DEF Midnight, IInv, TypeOK
<1> QED BY <1>1 DEF tables, IInv, TypeOK, SessionsBacked, Backed, RequestsHaveRule, RuleRows,
                    NeverOvercharged, Used, ApprovedIsLifted

-----------------------------------------------------------------------------
LEMMA NextIInv == IInv /\ [Next]_vars => IInv'
<1> SUFFICES ASSUME IInv, [Next]_vars  PROVE IInv'
  OBVIOUS
<1>1. CASE UNCHANGED vars
  BY <1>1 DEF vars, IInv, TypeOK, SessionsBacked, Backed, RequestsHaveRule, RuleRows,
              NeverOvercharged, Used, ApprovedIsLifted
<1>2. ASSUME NEW w \in Worker, WorkerStep(w)  PROVE IInv'
  BY <1>2, SetReadStep, SetWriteStep, RecordReadStep, RecordWriteStep, EnforceStartStep,
     EnforceMemberStep, EnforceCommitStep, RequestReadStep, RevokeStep, RequestWriteStep,
     DecideReadStep, ApproveStep, DenyStep, RollbackStep
     DEF WorkerStep
<1> QED BY <1>1, <1>2, MidnightStep DEF Next

THEOREM AlwaysIInv == Spec => []IInv
BY InitIInv, NextIInv, PTL DEF Spec

(* Rows and sessions are what the code makes them, for any number of sessions. *)
THEOREM TypeCorrect == Spec => []TypeOK
BY AlwaysIInv, PTL DEF IInv

(* record_session_time charges reported minutes only, however many reports race. *)
THEOREM OnlyReportedIsCharged == Spec => []NeverOvercharged
BY AlwaysIInv, PTL DEF IInv

(* The rule of an approved request stays lifted, whatever requests and runs of the
   job interleave: the job blocks anew with a rule of its own. *)
THEOREM ApprovalLifts == Spec => []ApprovedIsLifted
BY AlwaysIInv, PTL DEF IInv

-----------------------------------------------------------------------------
(* One session at a time.  What it has read is then what the tables still hold
   when it writes, but for the date, which a report stores with what it read. *)
OneSession == \A v, w \in Worker : v = w

Current(t) ==
    /\ t.op = "record" => t.seen = usage[t.member][t.day]
    /\ t.op = "enforce" => \A m \in t.block : BudgetBlocks(m) = {}
    /\ t.op = "request" => Pending(t.rule) = {}

SessionsCurrent == \A w \in Worker : Current(txn[w])

OneBlockEach == \A m \in Member : \A r, s \in BudgetBlocks(m) : r = s
OnePendingEach == \A r \in RuleId : \A a, b \in Pending(r) : a = b

SeqInv ==
    /\ SessionsCurrent
    /\ OneBlockEach
    /\ OnePendingEach
    /\ MinutesCounted

LEMMA InitSeqInv == Init => SeqInv
<1> SUFFICES ASSUME Init PROVE SeqInv
  OBVIOUS
<1>1. \A m \in Member : BudgetBlocks(m) = {}
  BY DEF Init, BudgetBlocks
<1>2. \A r \in RuleId : Pending(r) = {}
  BY DEF Init, Pending, Requests
<1>3. SessionsCurrent /\ MinutesCounted
  BY DEF Init, SessionsCurrent, Current, Idle, MinutesCounted, Used
<1> QED BY <1>1, <1>2, <1>3 DEF SeqInv, OneBlockEach, OnePendingEach

(* A step that reads, or gives up. *)
LEMMA SeqReadStep ==
    ASSUME IInv, SeqInv, NEW w \in Worker, NEW t, Current(t),
           txn' = [txn EXCEPT ![w] = t], UNCHANGED <<today, tables, reported>>
    PROVE  SeqInv'
<1>1. /\ \A m \in Member : BudgetBlocks(m)' = BudgetBlocks(m)
      /\ \A r \in RuleId : Pending(r)' = Pending(r)
  BY DEF tables, BudgetBlocks, Pending, Requests
<1>2. \A x : Current(x) => Current(x)'
  BY DEF tables, Current, BudgetBlocks, Pending, Requests
<1>3. \A v \in Worker : txn'[v] = t \/ txn'[v] = txn[v]
  BY DEF IInv, TypeOK
<1>4. SessionsCurrent'
  BY <1>2, <1>3 DEF SeqInv, SessionsCurrent
<1>5. MinutesCounted'
  BY DEF SeqInv, MinutesCounted, Used, tables
<1> QED BY <1>1, <1>4, <1>5 DEF SeqInv, OneBlockEach, OnePendingEach

(* A commit leaves no session that has read anything. *)
LEMMA SeqWriteStep ==
    ASSUME OneSession, IInv, NEW w \in Worker, End(w),
           OneBlockEach', OnePendingEach', MinutesCounted'
    PROVE  SeqInv'
<1>1. \A v \in Worker : txn'[v] = Idle
  BY DEF OneSession, End, IInv, TypeOK
<1>2. SessionsCurrent'
  BY <1>1 DEF SessionsCurrent, Current, Idle
<1> QED BY <1>2 DEF SeqInv

(* Blocks, requests and minutes are as they were where their rows are. *)
LEMMA BlocksStay ==
    ASSUME SeqInv, \A m \in Member : BudgetBlocks(m)' \subseteq BudgetBlocks(m)
    PROVE  OneBlockEach'
BY DEF SeqInv, OneBlockEach

LEMMA RequestsStay ==
    ASSUME SeqInv, \A r \in RuleId : Pending(r)' \subseteq Pending(r)
    PROVE  OnePendingEach'
BY DEF SeqInv, OnePendingEach

LEMMA MinutesStay == ASSUME SeqInv, UNCHANGED <<usage, reported>>  PROVE MinutesCounted'
BY DEF SeqInv, MinutesCounted, Used

(* The row of a report is the one it has read, with its minutes added. *)
LEMMA SeqRecordWriteStep ==
    ASSUME OneSession, IInv, SeqInv, NEW w \in Worker, RecordWrite(w)  PROVE SeqInv'
<1>1. txn[w] \in RecordTxn /\ Current(txn[w]) /\ txn[w].op = "record"
  BY TxnShape DEF RecordWrite, IInv, TypeOK, SeqInv, SessionsCurrent
<1>2. PICK m \in Member, d \in Day : m = txn[w].member /\ d = txn[w].day
  BY <1>1 DEF RecordTxn
<1>3. PICK n \in Nat \ {0} : n = txn[w].length
  BY <1>1, LengthAssumption DEF RecordTxn
<1>4. PICK seen \in Usage \cup {NoRow} : seen = txn[w].seen
  BY <1>1 DEF RecordTxn
<1> DEFINE new == RecordedRow(txn[w])
           row == IF seen = NoRow THEN new ELSE Changed(usage[m][d], seen, new)
<1>5. /\ usage' = [usage EXCEPT ![m][d] = row]
      /\ reported' = [reported EXCEPT ![m][d] = @ + n]
      /\ End(w) /\ UNCHANGED <<today, budget, rules, approvals>>
  BY <1>2, <1>3, <1>4 DEF RecordWrite
<1>6. /\ usage[m][d] = seen
      /\ reported[m][d] = IF seen = NoRow THEN 0 ELSE seen.minutes
  BY <1>1, <1>2, <1>4 DEF Current, SeqInv, MinutesCounted, Used
<1>7. /\ new \in Usage
      /\ new.minutes = n + (IF seen = NoRow THEN 0 ELSE seen.minutes)
  BY <1>1, <1>3, <1>4 DEF RecordedRow, Usage, RecordTxn, Over
<1> HIDE DEF new
<1>8. row # NoRow /\ row.minutes = reported[m][d] + n
  <2>1. CASE seen = NoRow
    BY <1>6, <1>7, <2>1, RowAssumption
  <2>2. CASE seen # NoRow
    <3>1. seen \in Usage /\ seen.minutes \in Nat
      BY <2>2 DEF Usage
    <3>2. row \in Usage /\ row.minutes = new.minutes
      BY <1>6, <1>7, <2>2, <3>1, UsageChanged
    <3> QED BY <1>6, <1>7, <2>2, <3>1, <3>2, RowAssumption
  <2> QED BY <2>1, <2>2
<1> HIDE DEF row
<1>9. /\ usage'[m][d] = row /\ reported'[m][d] = reported[m][d] + n
      /\ \A x \in Member, y \in Day : x # m \/ y # d =>
           usage'[x][y] = usage[x][y] /\ reported'[x][y] = reported[x][y]
  BY <1>5 DEF IInv, TypeOK
<1>10. ASSUME NEW x \in Member, NEW y \in Day
       PROVE  Used(x, y)' = reported'[x][y]
  <2>1. CASE x = m /\ y = d
    BY <1>8, <1>9, <2>1 DEF Used
  <2>2. CASE x # m \/ y # d
    BY <1>9, <2>2 DEF Used, SeqInv, MinutesCounted
  <2> QED BY <2>1, <2>2
<1>11. MinutesCounted'
  BY <1>10 DEF MinutesCounted
<1>12. OneBlockEach' /\ OnePendingEach'
  BY <1>5 DEF SeqInv, OneBlockEach, OnePendingEach, BudgetBlocks, Pending, Requests
<1> QED BY <1>5, <1>11, <1>12, SeqWriteStep

(* The job looks for a block of the member before it means to add one. *)
LEMMA SeqEnforceMemberStep ==
    ASSUME IInv, SeqInv, NEW w \in Worker, EnforceMember(w)  PROVE SeqInv'
<1>1. /\ txn[w] \in EnforceTxn /\ Current(txn[w]) /\ txn[w].op = "enforce"
      /\ UNCHANGED <<today, tables, reported>>
  BY TxnShape DEF EnforceMember, IInv, TypeOK, SeqInv, SessionsCurrent
<1>2. PICK u \in txn[w].todo :
        LET m == u.member
            over == Over(Used(m, today[m]), Allowance(u.budget, today[m]))
            found == BudgetBlocks(m)
        IN  txn' = [txn EXCEPT
              ![w].todo = IF Cardinality(found) > 1 THEN {} ELSE @ \ {u},
              ![w].block = IF over /\ found = {} THEN @ \cup {m} ELSE @,
              ![w].lift = IF ~over /\ Cardinality(found) = 1 THEN @ \cup found ELSE @]
  BY DEF EnforceMember
<1> DEFINE m == u.member
           more == IF BudgetBlocks(m) = {} THEN {m} ELSE {}
<1>3. \E todo, lift, block :
        /\ block \subseteq txn[w].block \cup more
        /\ txn' = [txn EXCEPT ![w] = [txn[w] EXCEPT !.todo = todo, !.block = block, !.lift = lift]]
  <2> DEFINE over == Over(Used(m, today[m]), Allowance(u.budget, today[m]))
             found == BudgetBlocks(m)
             todo == IF Cardinality(found) > 1 THEN {} ELSE txn[w].todo \ {u}
             block == IF over /\ found = {} THEN txn[w].block \cup {m} ELSE txn[w].block
             lift == IF ~over /\ Cardinality(found) = 1 THEN txn[w].lift \cup found
                     ELSE txn[w].lift
  <2>1. txn' = [txn EXCEPT ![w] = [txn[w] EXCEPT !.todo = todo, !.block = block, !.lift = lift]]
    BY <1>1, <1>2 DEF IInv, TypeOK
  <2>2. block \subseteq txn[w].block \cup more
    OBVIOUS
  <2> QED BY <2>1, <2>2
<1>4. PICK todo, lift, block :
        /\ block \subseteq txn[w].block \cup more
        /\ txn' = [txn EXCEPT ![w] = [txn[w] EXCEPT !.todo = todo, !.block = block, !.lift = lift]]
  BY <1>3
<1> DEFINE t == [txn[w] EXCEPT !.todo = todo, !.block = block, !.lift = lift]
<1>5. t.op = "enforce" /\ t.block = block
  BY <1>1 DEF EnforceTxn
<1>6. \A x \in block : BudgetBlocks(x) = {}
  BY <1>1, <1>4 DEF Current
<1>7. txn' = [txn EXCEPT ![w] = t]
  BY <1>4
<1> HIDE DEF t
<1>8. Current(t)
  BY <1>5, <1>6 DEF Current
<1> QED BY <1>1, <1>7, <1>8, SeqReadStep

(* A member whom the job blocks had no block, and gets one. *)
LEMMA SeqEnforceCommitStep ==
    ASSUME OneSession, IInv, SeqInv, NEW w \in Worker, EnforceCommit(w)  PROVE SeqInv'
<1>1. txn[w] \in EnforceTxn /\ Backed(txn[w]) /\ Current(txn[w]) /\ txn[w].op = "enforce"
  BY TxnShape DEF EnforceCommit, IInv, TypeOK, SessionsBacked, SeqInv, SessionsCurrent
<1>2. PICK key \in [txn[w].block -> {r \in RuleId : FreeRule(r)}] :
        /\ \A m, n \in txn[w].block : key[m] = key[n] => m = n
        /\ rules' = [r \in RuleId |->
             IF \E m \in txn[w].block : key[m] = r
               THEN [member |-> CHOOSE m \in txn[w].block : key[m] = r, active |-> TRUE]
             ELSE IF r \in txn[w].lift THEN [rules[r] EXCEPT !.active = FALSE]
             ELSE rules[r]]
  BY DEF EnforceCommit
<1>3. End(w) /\ UNCHANGED <<today, budget, usage, approvals, reported>>
  BY DEF EnforceCommit
<1>4. ASSUME NEW m \in Member, NEW r \in BudgetBlocks(m)'
      PROVE  IF m \in txn[w].block THEN r = key[m] ELSE r \in BudgetBlocks(m)
  <2>1. r \in RuleId /\ rules'[r] # NoRow /\ rules'[r].member = m /\ rules'[r].active
    BY DEF BudgetBlocks
  <2>2. CASE \E n \in txn[w].block : key[n] = r
    <3>1. PICK n \in txn[w].block : n = (CHOOSE x \in txn[w].block : key[x] = r) /\ key[n] = r
      BY <2>2
    <3>2. rules'[r] = [member |-> n, active |-> TRUE]
      BY <1>2, <2>1, <2>2, <3>1
    <3> QED BY <2>1, <3>1, <3>2
  <2>3. CASE ~\E n \in txn[w].block : key[n] = r
    <3>1. rules'[r] = IF r \in txn[w].lift THEN [rules[r] EXCEPT !.active = FALSE] ELSE rules[r]
      BY <1>2, <2>1, <2>3
    <3>2. r \notin txn[w].lift
      <4>1. ASSUME r \in txn[w].lift  PROVE FALSE
        <5>1. rules[r] \in Rule
          BY <1>1, <4>1 DEF Backed, RuleRows, IInv, TypeOK
        <5>2. ~rules'[r].active
          BY <3>1, <4>1, <5>1 DEF Rule
        <5> QED BY <2>1, <5>2
      <4> QED BY <4>1
    <3>3. r \in BudgetBlocks(m)
      BY <2>1, <3>1, <3>2 DEF BudgetBlocks
    <3> QED BY <1>1, <3>3 DEF Current
  <2> QED BY <2>2, <2>3
<1>5. OneBlockEach'
  BY <1>4 DEF SeqInv, OneBlockEach
<1>6. OnePendingEach' /\ MinutesCounted'
  BY <1>3 DEF SeqInv, OnePendingEach, Pending, Requests, MinutesCounted, Used
<1> QED BY <1>3, <1>5, <1>6, SeqWriteStep

(* A request is made of a rule for which none is pending. *)
LEMMA SeqRequestWriteStep ==
    ASSUME OneSession, IInv, SeqInv, NEW w \in Worker, RequestWrite(w)  PROVE SeqInv'
<1>1. Current(txn[w]) /\ txn[w].op = "request"
  BY DEF RequestWrite, SeqInv, SessionsCurrent
<1>2. PICK rule : rule = txn[w].rule
  OBVIOUS
<1>3. PICK a \in ApprovalId :
        /\ approvals[a] = NoRow
        /\ approvals' = [approvals EXCEPT ![a] = [rule |-> rule, status |-> "pending"]]
  BY <1>2 DEF RequestWrite
<1>4. End(w) /\ UNCHANGED <<today, budget, usage, rules, reported>>
  BY DEF RequestWrite
<1>5. Pending(rule) = {}
  BY <1>1, <1>2 DEF Current
<1>6. ASSUME NEW r \in RuleId, NEW x \in Pending(r)'
      PROVE  IF r = rule THEN x = a ELSE x \in Pending(r)
  <2>1. /\ approvals'[a] = [rule |-> rule, status |-> "pending"]
        /\ \A b \in ApprovalId : b # a => approvals'[b] = approvals[b]
    BY <1>3 DEF IInv, TypeOK
  <2>2. x \in ApprovalId /\ (x = a \/ x \in Pending(r))
    BY <2>1 DEF Pending, Requests
  <2>3. x = a => r = rule
    BY <2>1 DEF Pending, Requests
  <2> QED BY <1>5, <2>2, <2>3
<1>7. OnePendingEach'
  BY <1>6 DEF SeqInv, OnePendingEach
<1>8. OneBlockEach' /\ MinutesCounted'
  BY <1>4, MinutesStay DEF SeqInv, OneBlockEach, BudgetBlocks
<1> QED BY <1>4, <1>7, <1>8, SeqWriteStep

(* A ruling, and the lifting of a rule, leave no more of either than there were. *)
LEMMA LiftedBlocks ==
    ASSUME IInv, NEW r \in RuleRows, rules' = Lifted(r)
    PROVE  \A m \in Member : BudgetBlocks(m)' \subseteq BudgetBlocks(m)
<1>1. r \in RuleId /\ rules[r] \in Rule
  BY DEF RuleRows, IInv, TypeOK
<1>2. /\ ~rules'[r].active
      /\ \A x \in RuleId : x # r => rules'[x] = rules[x]
  BY <1>1, LiftStep DEF Lifted, IInv, TypeOK
<1> QED BY <1>2 DEF BudgetBlocks

LEMMA RuledPending ==
    ASSUME IInv, NEW a \in ApprovalId, approvals[a] # NoRow,
           NEW status \in {"approved", "denied"},
           approvals' = [approvals EXCEPT ![a].status = status]
    PROVE  \A r \in RuleId : Pending(r)' \subseteq Pending(r)
<1>1. /\ approvals'[a].status = status
      /\ \A x \in ApprovalId : x # a => approvals'[x] = approvals[x]
  BY Ruled
<1> QED BY <1>1 DEF Pending, Requests

LEMMA SeqApproveStep ==
    ASSUME OneSession, IInv, SeqInv, NEW w \in Worker, Approve(w)  PROVE SeqInv'
<1>1. PICK a \in ApprovalId : a = txn[w].approval /\ approvals[a] # NoRow
  BY TxnShape DEF Approve, IInv, TypeOK, SessionsBacked, Backed
<1>2. PICK r \in RuleRows : r = approvals[a].rule
  BY <1>1 DEF IInv, RequestsHaveRule
<1>3. /\ approvals' = [approvals EXCEPT ![a].status = "approved"]
      /\ rules' = Lifted(r)
      /\ End(w) /\ UNCHANGED <<today, budget, usage, reported>>
  BY <1>1, <1>2 DEF Approve
<1>4. OneBlockEach'
  BY <1>3, LiftedBlocks, BlocksStay
<1>5. OnePendingEach'
  BY <1>1, <1>3, RuledPending, RequestsStay
<1> QED BY <1>3, <1>4, <1>5, MinutesStay, SeqWriteStep

LEMMA SeqDenyStep ==
    ASSUME OneSession, IInv, SeqInv, NEW w \in Worker, Deny(w)  PROVE SeqInv'
<1>1. PICK a \in ApprovalId : a = txn[w].approval /\ approvals[a] # NoRow
  BY TxnShape DEF Deny, IInv, TypeOK, SessionsBacked, Backed
<1>2. /\ approvals' = [approvals EXCEPT ![a].status = "denied"]
      /\ End(w) /\ UNCHANGED <<today, budget, usage, rules, reported>>
  BY <1>1 DEF Deny
<1>3. OneBlockEach'
  BY <1>2 DEF SeqInv, OneBlockEach, BudgetBlocks
<1>4. OnePendingEach'
  BY <1>1, <1>2, RuledPending, RequestsStay
<1> QED BY <1>2, <1>3, <1>4, MinutesStay, SeqWriteStep

LEMMA SeqRevokeStep ==
    ASSUME OneSession, IInv, SeqInv, NEW w \in Worker, NEW r \in RuleId, Revoke(w, r)
    PROVE  SeqInv'
<1>1. /\ r \in RuleRows /\ rules' = Lifted(r)
      /\ UNCHANGED <<today, budget, usage, approvals, reported>>
  BY DEF Revoke, RuleRows
<1>2. End(w)
  BY DEF Revoke, End, IInv, TypeOK
<1>3. OneBlockEach'
  BY <1>1, LiftedBlocks, BlocksStay
<1>4. OnePendingEach'
  BY <1>1 DEF SeqInv, OnePendingEach, Pending, Requests
<1> QED BY <1>1, <1>2, <1>3, <1>4, MinutesStay, SeqWriteStep

LEMMA SeqSetWriteStep ==
    ASSUME OneSession, IInv, SeqInv, NEW w \in Worker, SetWrite(w)  PROVE SeqInv'
<1>1. End(w) /\ UNCHANGED <<today, usage, rules, approvals, reported>>
  BY DEF SetWrite
<1>2. OneBlockEach' /\ OnePendingEach'
  BY <1>1 DEF SeqInv, OneBlockEach, BudgetBlocks, OnePendingEach, Pending, Requests
<1> QED BY <1>1, <1>2, MinutesStay, SeqWriteStep

(* The selects. *)
LEMMA SeqReads ==
    ASSUME IInv, SeqInv, NEW w \in Worker,
           \/ \E m \in Member, s \in Settings : SetRead(w, m, s)
           \/ \E m \in Member, n \in Length : RecordRead(w, m, n)
           \/ EnforceStart(w)
           \/ \E r \in RuleId : RequestRead(w, r)
           \/ \E a \in ApprovalId : DecideRead(w, a)
           \/ Rollback(w)
    PROVE  SeqInv'
<1> SUFFICES \E t : /\ Current(t)
                    /\ txn' = [txn EXCEPT ![w] = t]
                    /\ UNCHANGED <<today, tables, reported>>
  BY SeqReadStep
<1>1. ASSUME NEW m \in Member, NEW s \in Settings, SetRead(w, m, s)
      PROVE  Current([op |-> "set", member |-> m, seen |-> budget[m], new |-> s])
  BY DEF Current
<1>2. ASSUME NEW m \in Member, NEW n \in Length
      PROVE  Current([op |-> "record", member |-> m, day |-> today[m], length |-> n,
                      allowance |-> IF budget[m] = NoRow THEN 0
                                    ELSE Allowance(budget[m], today[m]),
                      seen |-> usage[m][today[m]]])
  BY DEF Current
<1>3. ASSUME NEW todo
      PROVE  Current([op |-> "enforce", block |-> {}, lift |-> {}, todo |-> todo])
  BY DEF Current
<1>4. ASSUME NEW r, Pending(r) = {}  PROVE Current([op |-> "request", rule |-> r])
  BY <1>4 DEF Current
<1>5. ASSUME NEW a  PROVE Current([op |-> "decide", approval |-> a])
  BY DEF Current
<1>6. Current(Idle)
  BY DEF Current, Idle
<1> QED BY <1>1, <1>2, <1>3, <1>4, <1>5, <1>6
        DEF Begin, End, SetRead, RecordRead, EnforceStart, RequestRead, MayRequest, DecideRead,
            Rollback

LEMMA NextSeqInv == ASSUME OneSession, IInv, SeqInv, [Next]_vars  PROVE SeqInv'
<1>1. CASE UNCHANGED vars
  BY <1>1 DEF vars, SeqInv, SessionsCurrent, Current, OneBlockEach, OnePendingEach,
              BudgetBlocks, Pending, Requests, MinutesCounted, Used
<1>2. ASSUME NEW m \in Member, Midnight(m)  PROVE SeqInv'
  BY <1>2 DEF Midnight, tables, SeqInv, SessionsCurrent, Current, OneBlockEach,
              OnePendingEach, BudgetBlocks, Pending, Requests, MinutesCounted, Used
<1>3. ASSUME NEW w \in Worker, WorkerStep(w)  PROVE SeqInv'
  BY <1>3, SeqReads, SeqSetWriteStep, SeqRecordWriteStep, SeqEnforceMemberStep,
     SeqEnforceCommitStep, SeqRequestWriteStep, SeqApproveStep, SeqDenyStep, SeqRevokeStep
     DEF WorkerStep
<1> QED BY <1>1, <1>2, <1>3 DEF Next

THEOREM AlwaysSeqInv == ASSUME OneSession  PROVE Spec => []SeqInv
<1>1. IInv /\ SeqInv /\ [Next]_vars => SeqInv'
  BY NextSeqInv
<1> QED BY <1>1, InitSeqInv, AlwaysIInv, PTL DEF Spec

(* record_session_time adds: with one session at a time, whatever the order of
   reports, of changes of the budget and of the job, the row of a date holds the
   minutes reported for it, no more and no less. *)
THEOREM EveryMinuteCounts == ASSUME OneSession  PROVE Spec => []MinutesCounted
BY AlwaysSeqInv, PTL DEF SeqInv

LEMMA AtMostOne ==
    ASSUME NEW S, \A x, y \in S : x = y
    PROVE  Cardinality(S) <= 1
<1>1. CASE S = {}
  BY <1>1, FS_EmptySet
<1>2. CASE S # {}
  <2>1. PICK x \in S : S = {x}
    BY <1>2
  <2> QED BY <2>1, FS_Singleton
<1> QED BY <1>1, <1>2

(* One block of a member and one pending request of a rule: with one session at a
   time no lifting, ruling or run of the job leaves a second one. *)
THEOREM NoSecondRow == ASSUME OneSession  PROVE Spec => []OneOfEach
<1>1. SeqInv => OneOfEach
  BY AtMostOne DEF SeqInv, OneBlockEach, OnePendingEach, OneOfEach
<1> QED BY <1>1, AlwaysSeqInv, PTL
=============================================================================

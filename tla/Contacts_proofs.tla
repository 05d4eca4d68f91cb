-------------------------- MODULE Contacts_proofs --------------------------
(***************************************************************************)
(* Parental consent for every family, every number of rows and every       *)
(* number of concurrent sessions.  ConsentBeforeContact is not inductive:  *)
(* a session that is about to write "accepted" must itself be backed by a  *)
(* recorded approval, and the rows that never asked a parent must be ones  *)
(* no response can reach.  IInv adds what open sessions rely on.           *)
(*                                                                         *)
(* The last section is about one session at a time, where the rows of a    *)
(* pair agree and no decision is taken twice.                              *)
(***************************************************************************)
EXTENDS Contacts, FiniteSetTheorems, TLAPS

Minor(c) == Tier[contacts[c].requester] \in Under13

(* A child's row that asked no parent was created by block_contact. *)
UnaskedIsBlocked ==
    \A c \in Rows : Minor(c) /\ contacts[c].approval = "not_required"
                        => contacts[c].status = "blocked"

(* What a response in flight has established about its row. *)
ResponseBacked ==
    \A w \in Worker, c \in ContactId :
        txn[w].op = "respond" /\ txn[w].contact = c =>
            /\ contacts[c] # NoRow
            /\ Minor(c) => contacts[c].approval # "not_required"
            /\ Minor(c) /\ txn[w].new = "accepted"
                 => ApprovedBy(c, ParentOf[contacts[c].requester])

(* What a parent's decision in flight has established about its rows. *)
DecisionBacked ==
    \A w \in Worker : txn[w].op = "decide" =>
        \A c \in ContactId : (\E s \in Status : <<c, s>> \in txn[w].read) =>
            /\ contacts[c] # NoRow
            /\ contacts[c].approval # "not_required"
            /\ ParentOf[contacts[c].requester] = txn[w].parent

BlockBacked ==
    \A w \in Worker : txn[w].op = "block_update" => contacts[txn[w].contact] # NoRow

IInv ==
    /\ TypeOK
    /\ DecisionOnRecord
    /\ ConsentBeforeContact
    /\ UnaskedIsBlocked
    /\ ResponseBacked
    /\ DecisionBacked
    /\ BlockBacked

(* A row that stays in place, keeps its people and never goes back to "not
   required" keeps what the open sessions established about it. *)
RowKept(c) ==
    /\ contacts'[c] # NoRow
    /\ contacts'[c].requester = contacts[c].requester
    /\ contacts'[c].target = contacts[c].target
    /\ contacts[c].approval # "not_required" => contacts'[c].approval # "not_required"
    /\ contacts[c].approval # "pending" => contacts'[c].approval # "pending"

-----------------------------------------------------------------------------
(* The tables before any request satisfy the invariant. *)
LEMMA InitIInv == Init => IInv
BY DEF Init, IInv, TypeOK, Txn, Rows, DecisionOnRecord, ConsentBeforeContact,
       UnaskedIsBlocked, ResponseBacked, DecisionBacked, BlockBacked, Idle

(* A worker that is not idle is in a session of one of the four kinds. *)
LEMMA TxnShape ==
    ASSUME TypeOK, NEW w \in Worker
    PROVE  /\ txn[w].op \in {"send_existing", "send_limit", "send_insert"} => txn[w] \in SendTxn
           /\ txn[w].op = "respond" => txn[w] \in RespondTxn
           /\ txn[w].op = "decide" => txn[w] \in DecideTxn
           /\ txn[w].op \in {"block_update", "block_insert"} => txn[w] \in BlockTxn
BY DEF TypeOK, Txn, Idle, SendTxn, RespondTxn, DecideTxn, BlockTxn

(* Starting or continuing a session without writing a table preserves the part
   of the invariant about tables; what is left is what the session relies on. *)
LEMMA TablesKept ==
    ASSUME IInv, UNCHANGED <<contacts, approvals>>, txn' \in [Worker -> Txn],
           ResponseBacked', DecisionBacked', BlockBacked'
    PROVE  IInv'
BY DEF IInv, TypeOK, DecisionOnRecord, ConsentBeforeContact, UnaskedIsBlocked,
       Rows, ApprovedBy, Minor

(* A write that keeps every row, and only adds decisions, leaves the sessions
   of the other workers backed. *)
LEMMA SessionsKept ==
    ASSUME IInv, NEW w \in Worker, End(w),
           \A c \in Rows : RowKept(c), approvals \subseteq approvals'
    PROVE  ResponseBacked' /\ DecisionBacked' /\ BlockBacked'
<1>1. \A v \in Worker : /\ v # w => txn'[v] = txn[v]
                        /\ txn'[w] = Idle
  BY DEF End, IInv, TypeOK
<1>2. ResponseBacked'
  <2> SUFFICES ASSUME NEW v \in Worker, NEW c \in ContactId,
                      txn'[v].op = "respond", txn'[v].contact = c
               PROVE  /\ contacts'[c] # NoRow
                      /\ Minor(c)' => contacts'[c].approval # "not_required"
                      /\ Minor(c)' /\ txn'[v].new = "accepted"
                           => ApprovedBy(c, ParentOf[contacts[c].requester])'
    BY DEF ResponseBacked
  <2>1. txn'[v] = txn[v] /\ c \in Rows
    BY <1>1 DEF Idle, IInv, ResponseBacked, Rows
  <2>2. contacts'[c].requester = contacts[c].requester
    BY <2>1 DEF RowKept
  <2> QED BY <2>1, <2>2 DEF IInv, ResponseBacked, RowKept, Minor, ApprovedBy
<1>3. DecisionBacked'
  <2> SUFFICES ASSUME NEW v \in Worker, txn'[v].op = "decide", NEW c \in ContactId,
                      \E s \in Status : <<c, s>> \in txn'[v].read
               PROVE  /\ contacts'[c] # NoRow
                      /\ contacts'[c].approval # "not_required"
                      /\ ParentOf[contacts'[c].requester] = txn'[v].parent
    BY DEF DecisionBacked
  <2>1. txn'[v] = txn[v]
    BY <1>1 DEF Idle
  <2> QED BY <2>1 DEF IInv, DecisionBacked, RowKept, Rows
<1>4. BlockBacked'
  <2> SUFFICES ASSUME NEW v \in Worker, txn'[v].op = "block_update"
               PROVE  contacts'[txn'[v].contact] # NoRow
    BY DEF BlockBacked
  <2>1. txn'[v] = txn[v] /\ txn[v] \in BlockTxn
    BY <1>1, TxnShape DEF Idle, IInv
  <2>2. txn[v].contact \in Rows
    BY <2>1 DEF IInv, BlockBacked, Rows, BlockTxn
  <2> QED BY <2>1, <2>2 DEF RowKept
<1> QED BY <1>2, <1>3, <1>4

(* A read that opens or continues a session with t keeps the invariant, if what
   t will rely on holds when it is read. *)
LEMMA SessionStep ==
    ASSUME IInv, NEW w \in Worker, NEW t \in Txn, UNCHANGED <<contacts, approvals>>,
           txn' = [txn EXCEPT ![w] = t],
           \A c \in ContactId : t.op = "respond" /\ t.contact = c =>
               /\ contacts[c] # NoRow
               /\ Minor(c) => contacts[c].approval # "not_required"
               /\ Minor(c) /\ t.new = "accepted"
                    => ApprovedBy(c, ParentOf[contacts[c].requester]),
           \A c \in ContactId : t.op = "decide" /\ (\E s \in Status : <<c, s>> \in t.read) =>
               /\ contacts[c] # NoRow
               /\ contacts[c].approval # "not_required"
               /\ ParentOf[contacts[c].requester] = t.parent,
           t.op = "block_update" => contacts[t.contact] # NoRow
    PROVE  IInv'
<1>1. txn' \in [Worker -> Txn]
  BY DEF IInv, TypeOK
<1>2. txn'[w] = t /\ \A v \in Worker : v # w => txn'[v] = txn[v]
  BY DEF IInv, TypeOK
<1>3. ResponseBacked'
  BY <1>2 DEF IInv, ResponseBacked, Minor, ApprovedBy
<1>4. DecisionBacked'
  BY <1>2 DEF IInv, DecisionBacked
<1>5. BlockBacked'
  BY <1>2 DEF IInv, BlockBacked
<1> QED BY <1>1, <1>3, <1>4, <1>5, TablesKept

LEMMA EndWithoutWrite ==
    ASSUME IInv, NEW w \in Worker, End(w), UNCHANGED <<contacts, approvals>>
    PROVE  IInv'
<1>1. Idle \in Txn /\ Idle.op = "idle"
  BY DEF Idle, Txn
<1> QED BY <1>1, SessionStep DEF End

LEMMA SendReadStep ==
    ASSUME IInv, NEW w \in Worker,
           \/ \E u, v \in User : SendStart(w, u, v)
           \/ SendCheckExisting(w) \/ SendCheckLimit(w)
    PROVE  IInv'
<1>1. ASSUME NEW u \in User, NEW v \in User, SendStart(w, u, v)  PROVE IInv'
  <2> DEFINE t == [op |-> "send_existing", user |-> u, other |-> v]
  <2>1. t \in Txn /\ t.op = "send_existing"
    BY DEF Txn, SendTxn
  <2> HIDE DEF t
  <2> QED BY <1>1, <2>1, SessionStep DEF SendStart, Begin, t
<1>2. ASSUME txn[w] \in SendTxn, NEW op \in {"send_limit", "send_insert"},
             Continue(w, [txn[w] EXCEPT !.op = op]), UNCHANGED <<contacts, approvals>>
      PROVE  IInv'
  <2> DEFINE t == [txn[w] EXCEPT !.op = op]
  <2>1. t \in Txn /\ t.op \notin {"respond", "decide", "block_update"}
    BY <1>2 DEF Txn, SendTxn
  <2> HIDE DEF t
  <2> QED BY <1>2, <2>1, SessionStep DEF Continue, t
<1>3. ASSUME End(w), UNCHANGED <<contacts, approvals>>  PROVE IInv'
  BY <1>3, EndWithoutWrite
<1>4. txn[w].op \in {"send_existing", "send_limit"} => txn[w] \in SendTxn
  BY TxnShape DEF IInv
<1> QED BY <1>1, <1>2, <1>3, <1>4 DEF SendCheckExisting, SendCheckLimit

LEMMA RespondReadStep ==
    ASSUME IInv, NEW w \in Worker, NEW u \in User, NEW c \in ContactId, RespondRead(w, u, c)
    PROVE  IInv'
<1>1. contacts[c] # NoRow /\ contacts[c] \in Row /\ c \in Rows
      /\ contacts[c].status = "pending"
  BY DEF RespondRead, MayAccept, MayRespond, IInv, TypeOK, Rows
<1>2. Minor(c) => contacts[c].approval # "not_required"
  BY <1>1 DEF IInv, UnaskedIsBlocked
<1>3. ASSUME NEW new \in {"accepted", "rejected"},
             Begin(w, [op |-> "respond", contact |-> c, new |-> new]),
             new = "accepted" => MayAccept(u, c)
      PROVE  IInv'
  <2> DEFINE t == [op |-> "respond", contact |-> c, new |-> new]
  <2>1. t \in Txn /\ t.op = "respond" /\ t.contact = c /\ t.new = new
    BY DEF Txn, RespondTxn
  <2>2. Minor(c) /\ new = "accepted" => ApprovedBy(c, ParentOf[contacts[c].requester])
    BY <1>1, <1>2, <1>3 DEF MayAccept, IInv, DecisionOnRecord, ApprovedBy, Decision
  <2> HIDE DEF t
  <2>3. txn' = [txn EXCEPT ![w] = t] /\ UNCHANGED <<contacts, approvals>>
    BY <1>3 DEF Begin, t, RespondRead
  <2> QED BY <1>1, <1>2, <2>1, <2>2, <2>3, SessionStep
<1> QED BY <1>3 DEF RespondRead

LEMMA DecideReadStep ==
    ASSUME IInv, NEW w \in Worker,
           \/ \E p \in Guardian, cs \in SUBSET ContactId, d \in Decision :
                  DecideStart(w, p, cs, d)
           \/ DecideRead(w)
    PROVE  IInv'
<1>1. ASSUME NEW p \in Guardian, NEW cs \in SUBSET ContactId, NEW d \in Decision,
             DecideStart(w, p, cs, d)
      PROVE  IInv'
  <2> DEFINE t == [op |-> "decide", parent |-> p, decision |-> d, todo |-> cs, read |-> {}]
  <2>1. t \in Txn /\ t.op = "decide" /\ t.read = {}
    BY DEF Txn, DecideTxn
  <2> HIDE DEF t
  <2>2. txn' = [txn EXCEPT ![w] = t] /\ UNCHANGED <<contacts, approvals>>
    BY <1>1 DEF DecideStart, Begin, t
  <2> QED BY <2>1, <2>2, SessionStep
<1>2. ASSUME DecideRead(w)  PROVE IInv'
  <2>1. txn[w] \in DecideTxn /\ txn[w].op = "decide"
    BY <1>2, TxnShape DEF DecideRead, IInv
  <2>2. PICK c \in txn[w].todo :
          Continue(w, [txn[w] EXCEPT
            !.todo = @ \ {c},
            !.read = IF MayDecide(txn[w].parent, c)
                       THEN @ \cup {<<c, contacts[c].status>>} ELSE @])
    BY <1>2 DEF DecideRead
  <2> DEFINE t == [txn[w] EXCEPT
            !.todo = @ \ {c},
            !.read = IF MayDecide(txn[w].parent, c)
                       THEN @ \cup {<<c, contacts[c].status>>} ELSE @]
  <2>3. c \in ContactId /\ (contacts[c] # NoRow => contacts[c].status \in Status)
    BY <2>1 DEF DecideTxn, IInv, TypeOK, Row
  <2>4. /\ t.op = "decide" /\ t.parent = txn[w].parent
        /\ t.read = IF MayDecide(txn[w].parent, c)
                      THEN txn[w].read \cup {<<c, contacts[c].status>>} ELSE txn[w].read
    BY <2>1 DEF DecideTxn
  <2>5. t \in Txn
    <3> DEFINE td == txn[w].todo \ {c}
               r == IF MayDecide(txn[w].parent, c)
                      THEN txn[w].read \cup {<<c, contacts[c].status>>} ELSE txn[w].read
    <3>1. r \in SUBSET (ContactId \X Status) /\ td \in SUBSET ContactId
      BY <2>1, <2>3 DEF DecideTxn, MayDecide
    <3>2. t = [txn[w] EXCEPT !.todo = td, !.read = r]
      OBVIOUS
    <3> HIDE DEF t, td, r
    <3>3. t \in DecideTxn
      BY <2>1, <3>1, <3>2 DEF DecideTxn
    <3> QED BY <3>3 DEF Txn
  <2>6. \A x \in ContactId : (\E s \in Status : <<x, s>> \in t.read) =>
            /\ contacts[x] # NoRow
            /\ contacts[x].approval # "not_required"
            /\ ParentOf[contacts[x].requester] = t.parent
    BY <2>1, <2>4 DEF IInv, DecisionBacked, MayDecide
  <2> HIDE DEF t
  <2>7. txn' = [txn EXCEPT ![w] = t] /\ UNCHANGED <<contacts, approvals>>
    BY <1>2, <2>2 DEF DecideRead, Continue, t
  <2> QED BY <2>4, <2>5, <2>6, <2>7, SessionStep
<1> QED BY <1>1, <1>2

LEMMA BlockReadStep ==
    ASSUME IInv, NEW w \in Worker, NEW u \in User, NEW v \in User, BlockRead(w, u, v)
    PROVE  IInv'
<1>1. ASSUME Begin(w, [op |-> "block_insert", user |-> u, other |-> v])  PROVE IInv'
  <2> DEFINE t == [op |-> "block_insert", user |-> u, other |-> v]
  <2>1. t \in Txn /\ t.op = "block_insert"
    BY DEF Txn, BlockTxn
  <2> HIDE DEF t
  <2>2. txn' = [txn EXCEPT ![w] = t] /\ UNCHANGED <<contacts, approvals>>
    BY <1>1 DEF BlockRead, Begin, t
  <2> QED BY <2>1, <2>2, SessionStep
<1>2. ASSUME NEW c \in Between(u, v), Begin(w, [op |-> "block_update", contact |-> c])
      PROVE  IInv'
  <2> DEFINE t == [op |-> "block_update", contact |-> c]
  <2>1. c \in ContactId /\ contacts[c] # NoRow
    BY <1>2 DEF Between, Rows
  <2>2. t \in Txn /\ t.op = "block_update" /\ t.contact = c
    BY <2>1 DEF Txn, BlockTxn
  <2> HIDE DEF t
  <2>3. txn' = [txn EXCEPT ![w] = t] /\ UNCHANGED <<contacts, approvals>>
    BY <1>2 DEF BlockRead, Begin, t
  <2> QED BY <2>1, <2>2, <2>3, SessionStep
<1> QED BY <1>1, <1>2 DEF BlockRead
-----------------------------------------------------------------------------
(* Adding a row: other rows are untouched, so only the new one is in question. *)
LEMMA InsertStep ==
    ASSUME IInv, NEW w \in Worker, NEW u \in User, NEW v \in User,
           NEW status \in Status, NEW approval \in {"pending", "not_required"},
           InsertRow(u, v, status, approval), End(w), UNCHANGED approvals,
           status # "accepted",
           Tier[u] \in Under13 /\ approval = "not_required" => status = "blocked"
    PROVE  IInv'
<1>1. PICK c \in ContactId \ Rows :
        contacts' = [contacts EXCEPT ![c] =
            [requester |-> u, target |-> v, status |-> status, approval |-> approval]]
  BY DEF InsertRow
<1> DEFINE row == [requester |-> u, target |-> v, status |-> status, approval |-> approval]
<1>2. row \in Row /\ row.requester = u /\ row.status = status /\ row.approval = approval
  BY DEF Row, ApprovalStatus
<1> HIDE DEF row
<1>3. contacts' = [contacts EXCEPT ![c] = row]
  BY <1>1 DEF row
<1>4. /\ contacts'[c] = row
      /\ \A x \in ContactId : x # c => contacts'[x] = contacts[x]
  BY <1>3 DEF IInv, TypeOK
<1>5. TypeOK'
  BY <1>2, <1>3 DEF IInv, TypeOK, End, Idle, Txn
<1>6. \A x \in Rows : RowKept(x)
  BY <1>4 DEF RowKept, Rows
<1>7. DecisionOnRecord'
  BY <1>2, <1>4 DEF IInv, DecisionOnRecord, Rows, Decision
<1>8. ConsentBeforeContact'
  BY <1>2, <1>4 DEF IInv, ConsentBeforeContact, Rows, ApprovedBy
<1>9. UnaskedIsBlocked'
  BY <1>2, <1>4 DEF IInv, UnaskedIsBlocked, Rows, Minor
<1> QED BY <1>5, <1>6, <1>7, <1>8, <1>9, SessionsKept DEF IInv

LEMMA SendInsertStep ==
    ASSUME IInv, NEW w \in Worker, SendInsert(w)  PROVE IInv'
<1>1. txn[w].user \in User /\ txn[w].other \in User
  BY TxnShape DEF SendInsert, SendTxn, IInv
<1>2. RequiredApproval(txn[w].user) \in {"pending", "not_required"}
      /\ (Tier[txn[w].user] \in Under13 => RequiredApproval(txn[w].user) = "pending")
  BY DEF RequiredApproval
<1> QED BY <1>1, <1>2, InsertStep DEF SendInsert, Status

LEMMA BlockInsertStep ==
    ASSUME IInv, NEW w \in Worker, BlockInsert(w)  PROVE IInv'
<1>1. txn[w].user \in User /\ txn[w].other \in User
  BY TxnShape DEF BlockInsert, BlockTxn, IInv
<1> QED BY <1>1, InsertStep DEF BlockInsert, Status

(* Writing the status of one row: approvals and the row's people stay. *)
LEMMA StatusStep ==
    ASSUME IInv, NEW w \in Worker, NEW c \in Rows, NEW status \in Status,
           contacts' = [contacts EXCEPT ![c].status = status], End(w), UNCHANGED approvals,
           status = "accepted" /\ Minor(c)
               => ApprovedBy(c, ParentOf[contacts[c].requester]),
           Minor(c) /\ contacts[c].approval = "not_required" => status = "blocked"
    PROVE  IInv'
<1>1. c \in ContactId /\ contacts[c] \in Row
  BY DEF Rows, IInv, TypeOK
<1>2. /\ contacts'[c] \in Row
      /\ contacts'[c].status = status
      /\ contacts'[c].approval = contacts[c].approval
      /\ contacts'[c].requester = contacts[c].requester
      /\ contacts'[c].target = contacts[c].target
  BY <1>1 DEF IInv, TypeOK, Row
<1>3. \A x \in ContactId : x # c => contacts'[x] = contacts[x]
  BY <1>1 DEF IInv, TypeOK
<1>4. Rows' = Rows
  BY <1>1, <1>2, <1>3, RowAssumption DEF Rows
<1>5. TypeOK'
  <2>1. contacts' \in [ContactId -> Row \cup {NoRow}]
    BY <1>1, <1>2, <1>3 DEF IInv, TypeOK
  <2> QED BY <2>1 DEF IInv, TypeOK, End, Idle, Txn
<1>6. \A x \in Rows : RowKept(x)
  BY <1>2, <1>3, <1>4 DEF RowKept, Rows
<1>7. DecisionOnRecord'
  BY <1>2, <1>3, <1>4 DEF IInv, DecisionOnRecord, Rows
<1>8. ConsentBeforeContact'
  BY <1>2, <1>3, <1>4 DEF IInv, ConsentBeforeContact, Rows, ApprovedBy, Minor
<1>9. UnaskedIsBlocked'
  BY <1>2, <1>3, <1>4 DEF IInv, UnaskedIsBlocked, Rows, Minor
<1> QED BY <1>5, <1>6, <1>7, <1>8, <1>9, SessionsKept DEF IInv

LEMMA RespondWriteStep ==
    ASSUME IInv, NEW w \in Worker, RespondWrite(w)  PROVE IInv'
<1>1. txn[w] \in RespondTxn /\ txn[w].op = "respond"
  BY TxnShape DEF RespondWrite, IInv
<1> DEFINE c == txn[w].contact
<1>2. c \in Rows /\ txn[w].new \in Status
  BY <1>1 DEF RespondTxn, IInv, ResponseBacked, Rows, Status
<1>3. /\ Minor(c) => contacts[c].approval # "not_required"
      /\ Minor(c) /\ txn[w].new = "accepted"
           => ApprovedBy(c, ParentOf[contacts[c].requester])
  BY <1>1, <1>2 DEF IInv, ResponseBacked, Rows
<1> QED BY <1>2, <1>3, StatusStep DEF RespondWrite

LEMMA BlockUpdateStep ==
    ASSUME IInv, NEW w \in Worker, BlockUpdate(w)  PROVE IInv'
<1>1. txn[w] \in BlockTxn /\ txn[w].op = "block_update"
  BY TxnShape DEF BlockUpdate, IInv
<1>2. txn[w].contact \in Rows
  BY <1>1 DEF BlockTxn, IInv, BlockBacked, Rows
<1> QED BY <1>2, StatusStep DEF BlockUpdate, Status

LEMMA DecideCommitStep ==
    ASSUME IInv, NEW w \in Worker, DecideCommit(w)  PROVE IInv'
<1>1. txn[w] \in DecideTxn /\ txn[w].op = "decide"
  BY TxnShape DEF DecideCommit, IInv
<1>2. txn[w].parent \in Guardian /\ txn[w].decision \in Decision
  BY <1>1 DEF DecideTxn
<1>3. \A c \in Decided(w) : /\ c \in Rows
                            /\ contacts[c] \in Row
                            /\ contacts[c].approval # "not_required"
                            /\ ParentOf[contacts[c].requester] = txn[w].parent
  BY <1>1 DEF Decided, IInv, DecisionBacked, Rows, TypeOK
<1>4. \A c \in Decided(w) :
        /\ contacts'[c] \in Row
        /\ contacts'[c].requester = contacts[c].requester
        /\ contacts'[c].target = contacts[c].target
        /\ contacts'[c].approval = (IF txn[w].decision = "approve" THEN "approved" ELSE "denied")
        /\ contacts'[c].status \in {contacts[c].status, "rejected"}
  <2> SUFFICES ASSUME NEW c \in Decided(w)
               PROVE  /\ DecidedRow(w, c) \in Row
                      /\ DecidedRow(w, c).requester = contacts[c].requester
                      /\ DecidedRow(w, c).target = contacts[c].target
                      /\ DecidedRow(w, c).approval
                           = (IF txn[w].decision = "approve" THEN "approved" ELSE "denied")
                      /\ DecidedRow(w, c).status \in {contacts[c].status, "rejected"}
    BY DEF DecideCommit, Decided
  <2>1. contacts[c] \in Row
    BY <1>3
  <2> QED BY <2>1 DEF DecidedRow, Row, Status, ApprovalStatus
<1>5. \A c \in ContactId : c \notin Decided(w) => contacts'[c] = contacts[c]
  BY DEF DecideCommit
<1>6. Rows' = Rows
  BY <1>3, <1>4, <1>5, RowAssumption DEF Rows
<1>7. approvals \subseteq approvals'
  BY DEF DecideCommit
<1>8. \A c \in Decided(w) :
        [contact |-> c, parent |-> ParentOf[contacts[c].requester],
         decision |-> txn[w].decision] \in approvals'
  BY <1>3 DEF DecideCommit
<1>9. TypeOK'
  <2>1. contacts' \in [ContactId -> Row \cup {NoRow}]
    BY <1>4, <1>5 DEF DecideCommit, IInv, TypeOK
  <2>2. approvals' \subseteq Approval
    BY <1>2 DEF DecideCommit, Decided, IInv, TypeOK, Approval
  <2> QED BY <2>1, <2>2 DEF DecideCommit, IInv, TypeOK, End, Idle, Txn
<1>10. \A c \in Rows : RowKept(c)
  BY <1>3, <1>4, <1>5, <1>6 DEF RowKept, Rows
<1>11. DecisionOnRecord'
  <2> SUFFICES ASSUME NEW c \in Rows, NEW d \in Decision,
                      contacts'[c].approval = (IF d = "approve" THEN "approved" ELSE "denied")
               PROVE  [contact |-> c, parent |-> ParentOf[contacts'[c].requester],
                       decision |-> d] \in approvals'
    BY <1>6 DEF DecisionOnRecord
  <2>1. CASE c \in Decided(w)
    <3>1. d = txn[w].decision
      BY <1>2, <1>4, <2>1 DEF Decision
    <3> QED BY <1>4, <1>8, <2>1, <3>1
  <2>2. CASE c \notin Decided(w)
    BY <1>5, <1>7, <2>2 DEF IInv, DecisionOnRecord, Rows
  <2> QED BY <2>1, <2>2
<1>12. ConsentBeforeContact'
  BY <1>3, <1>4, <1>5, <1>6, <1>7 DEF IInv, ConsentBeforeContact, Rows, ApprovedBy
<1>13. UnaskedIsBlocked'
  BY <1>4, <1>5, <1>6 DEF IInv, UnaskedIsBlocked, Rows, Minor
<1> QED BY <1>7, <1>9, <1>10, <1>11, <1>12, <1>13, SessionsKept DEF IInv, DecideCommit

-----------------------------------------------------------------------------
(* Every step of every session preserves the invariant. *)
LEMMA NextIInv == IInv /\ [Next]_vars => IInv'
<1>1. ASSUME IInv, NEW w \in Worker, WorkerStep(w)  PROVE IInv'
  <2>1. Rollback(w) => IInv'
    BY <1>1, EndWithoutWrite DEF Rollback
  <2> QED BY <1>1, <2>1, SendReadStep, SendInsertStep, RespondReadStep, RespondWriteStep,
             DecideReadStep, DecideCommitStep, BlockReadStep, BlockUpdateStep,
             BlockInsertStep DEF WorkerStep
<1>2. ASSUME IInv, UNCHANGED vars  PROVE IInv'
  BY <1>2 DEF vars, IInv, TypeOK, DecisionOnRecord, ConsentBeforeContact, UnaskedIsBlocked,
              ResponseBacked, DecisionBacked, BlockBacked, Rows, Minor, ApprovedBy
<1> QED BY <1>1, <1>2 DEF Next

LEMMA AlwaysIInv == Spec => []IInv
BY InitIInv, NextIInv, PTL DEF Spec

(* The tables and the sessions keep their types. *)
THEOREM TypeCorrect == Spec => []TypeOK
<1>1. IInv => TypeOK
  BY DEF IInv
<1> QED BY <1>1, AlwaysIInv, PTL

(* No interleaving of send, respond, decide and block sessions lets a child's
   request be accepted without that child's parent having approved it. *)
THEOREM Consent == Spec => []ConsentBeforeContact
<1>1. IInv => ConsentBeforeContact
  BY DEF IInv
<1> QED BY <1>1, AlwaysIInv, PTL

(* What a row says about the parent's decision is always backed by a recorded
   decision of the requester's own parent. *)
THEOREM Record == Spec => []DecisionOnRecord
<1>1. IInv => DecisionOnRecord
  BY DEF IInv
<1> QED BY <1>1, AlwaysIInv, PTL

-----------------------------------------------------------------------------
(* No step removes a row, changes its people, or reopens a decided request. *)
LEMMA RowsKept ==
    ASSUME IInv, NEW w \in Worker, WorkerStep(w)
    PROVE  \A c \in Rows : RowKept(c)
<1>1. ASSUME UNCHANGED contacts  PROVE \A c \in Rows : RowKept(c)
  BY <1>1 DEF RowKept, Rows
<1>2. ASSUME NEW u, NEW v, NEW status, NEW approval, InsertRow(u, v, status, approval)
      PROVE  \A c \in Rows : RowKept(c)
  BY <1>2 DEF InsertRow, RowKept, Rows, IInv, TypeOK
<1>3. ASSUME NEW c \in Rows, NEW status \in Status,
             contacts' = [contacts EXCEPT ![c].status = status]
      PROVE  \A x \in Rows : RowKept(x)
  <2>1. contacts[c] \in Row
    BY DEF IInv, TypeOK, Rows
  <2>2. /\ contacts'[c] \in Row
        /\ contacts'[c].approval = contacts[c].approval
        /\ contacts'[c].requester = contacts[c].requester
        /\ contacts'[c].target = contacts[c].target
    BY <1>3, <2>1 DEF IInv, TypeOK, Row, Rows
  <2>3. \A x \in Rows : x # c => contacts'[x] = contacts[x]
    BY <1>3 DEF IInv, TypeOK, Rows
  <2> QED BY <2>2, <2>3, RowAssumption DEF RowKept, Rows
<1>4. RespondWrite(w) => \A c \in Rows : RowKept(c)
  <2> SUFFICES ASSUME RespondWrite(w)  PROVE \A c \in Rows : RowKept(c)
    OBVIOUS
  <2>1. txn[w] \in RespondTxn /\ txn[w].op = "respond"
    BY TxnShape DEF RespondWrite, IInv
  <2>2. txn[w].contact \in Rows /\ txn[w].new \in Status
    BY <2>1 DEF RespondTxn, IInv, ResponseBacked, Rows, Status
  <2> QED BY <1>3, <2>2 DEF RespondWrite
<1>5. BlockUpdate(w) => \A c \in Rows : RowKept(c)
  <2> SUFFICES ASSUME BlockUpdate(w)  PROVE \A c \in Rows : RowKept(c)
    OBVIOUS
  <2>1. txn[w] \in BlockTxn /\ txn[w].op = "block_update"
    BY TxnShape DEF BlockUpdate, IInv
  <2>2. txn[w].contact \in Rows
    BY <2>1 DEF BlockTxn, IInv, BlockBacked, Rows
  <2> QED BY <1>3, <2>2 DEF BlockUpdate, Status
<1>6. DecideCommit(w) => \A c \in Rows : RowKept(c)
  <2> SUFFICES ASSUME DecideCommit(w), NEW c \in Rows  PROVE RowKept(c)
    OBVIOUS
  <2>1. c \in ContactId /\ contacts[c] \in Row /\ contacts[c] # NoRow
    BY DEF Rows, IInv, TypeOK
  <2>2. contacts'[c] = IF c \in Decided(w) THEN DecidedRow(w, c) ELSE contacts[c]
    BY <2>1 DEF DecideCommit
  <2>3. /\ DecidedRow(w, c) \in Row
        /\ DecidedRow(w, c).requester = contacts[c].requester
        /\ DecidedRow(w, c).target = contacts[c].target
        /\ DecidedRow(w, c).approval \in {"approved", "denied"}
    BY <2>1 DEF DecidedRow, Row, Status, ApprovalStatus
  <2> QED BY <2>1, <2>2, <2>3, RowAssumption DEF RowKept
<1> QED BY <1>1, <1>2, <1>4, <1>5, <1>6
        DEF WorkerStep, SendStart, SendCheckExisting, SendCheckLimit, SendInsert, RespondRead,
            DecideStart, DecideRead, BlockRead, BlockInsert, Rollback

(* A decided request is never asked again and no row changes hands, for any
   number of sessions. *)
THEOREM NeverReopened == Spec => DecisionNeverReopened
<1>1. IInv /\ [Next]_vars =>
        [\A c \in Rows :
          /\ contacts'[c] # NoRow
          /\ contacts[c].approval # "pending" => contacts'[c].approval # "pending"
          /\ contacts'[c].requester = contacts[c].requester
          /\ contacts'[c].target = contacts[c].target]_vars
  BY RowsKept DEF Next, RowKept
<1> QED BY <1>1, AlwaysIInv, PTL DEF Spec, DecisionNeverReopened

-----------------------------------------------------------------------------
(***************************************************************************)
(* Contacts implements ParentalConsent.  The map takes rows and recorded   *)
(* decisions to requests, consents and connections; reads stutter, and     *)
(* every commit is one abstract step.  Beyond IInv, two facts are needed:  *)
(* only a child's row ever asks a parent, and decisions are recorded for   *)
(* rows that exist, so a row inserted later inherits no consent.           *)
(***************************************************************************)
AskedIsMinor == \A c \in Rows : contacts[c].approval # "not_required" => Minor(c)

RecordedRows == \A a \in approvals : a.contact \in Rows

RInv == IInv /\ AskedIsMinor /\ RecordedRows

(* The effects of a commit on the tables. *)
Inserts ==
    \E u \in User, v \in User, status \in {"pending", "blocked"} :
        \E approval \in {"not_required"} \cup {RequiredApproval(u)} :
            InsertRow(u, v, status, approval) /\ UNCHANGED approvals

WritesStatus(c, status) ==
    contacts' = [contacts EXCEPT ![c].status = status] /\ UNCHANGED approvals

-----------------------------------------------------------------------------
(* A step reads, inserts a row, writes the status of one row, or commits a
   batch of decisions. *)
LEMMA Commits ==
    ASSUME IInv, NEW w \in Worker, WorkerStep(w)
    PROVE  \/ UNCHANGED <<contacts, approvals>>
           \/ Inserts
           \/ \E c \in Rows : WritesStatus(c, "rejected") \/ WritesStatus(c, "blocked")
           \/ \E c \in Rows : /\ WritesStatus(c, "accepted")
                              /\ Minor(c) => ApprovedBy(c, ParentOf[contacts[c].requester])
           \/ DecideCommit(w)
<1>1. SendInsert(w) => Inserts
  <2> SUFFICES ASSUME SendInsert(w)  PROVE Inserts
    OBVIOUS
  <2>1. txn[w].user \in User /\ txn[w].other \in User
    BY TxnShape DEF SendInsert, SendTxn, IInv
  <2> QED BY <2>1 DEF SendInsert, Inserts
<1>2. BlockInsert(w) => Inserts
  <2> SUFFICES ASSUME BlockInsert(w)  PROVE Inserts
    OBVIOUS
  <2>1. txn[w].user \in User /\ txn[w].other \in User
    BY TxnShape DEF BlockInsert, BlockTxn, IInv
  <2> QED BY <2>1 DEF BlockInsert, Inserts
<1>3. ASSUME RespondWrite(w)
      PROVE  \E c \in Rows : \/ WritesStatus(c, "rejected")
                             \/ /\ WritesStatus(c, "accepted")
                                /\ Minor(c) => ApprovedBy(c, ParentOf[contacts[c].requester])
  <2>1. txn[w] \in RespondTxn /\ txn[w].op = "respond"
    BY <1>3, TxnShape DEF RespondWrite, IInv
  <2>2. txn[w].contact \in Rows /\ txn[w].new \in {"accepted", "rejected"}
    BY <2>1 DEF RespondTxn, IInv, ResponseBacked, Rows
  <2>3. Minor(txn[w].contact) /\ txn[w].new = "accepted"
          => ApprovedBy(txn[w].contact, ParentOf[contacts[txn[w].contact].requester])
    BY <2>1, <2>2 DEF IInv, ResponseBacked, Rows
  <2> QED BY <1>3, <2>2, <2>3 DEF RespondWrite, WritesStatus
<1>4. ASSUME BlockUpdate(w)  PROVE \E c \in Rows : WritesStatus(c, "blocked")
  <2>1. txn[w] \in BlockTxn /\ txn[w].op = "block_update"
    BY <1>4, TxnShape DEF BlockUpdate, IInv
  <2>2. txn[w].contact \in Rows
    BY <2>1 DEF BlockTxn, IInv, BlockBacked, Rows
  <2> QED BY <1>4, <2>2 DEF BlockUpdate, WritesStatus
<1> QED BY <1>1, <1>2, <1>3, <1>4
        DEF WorkerStep, SendStart, SendCheckExisting, SendCheckLimit, RespondRead,
            DecideStart, DecideRead, BlockRead, Rollback

(* What an insert leaves: one new row, of a child exactly if it may ask. *)
LEMMA InsertEffect ==
    ASSUME IInv, Inserts
    PROVE  \E c \in ContactId \ Rows :
             /\ contacts'[c] \in Row
             /\ contacts'[c].status # "accepted"
             /\ contacts'[c].approval # "not_required" => Minor(c)'
             /\ \A x \in ContactId : x # c => contacts'[x] = contacts[x]
             /\ Rows' = Rows \cup {c}
             /\ UNCHANGED approvals
<1>1. PICK u \in User, v \in User, status \in {"pending", "blocked"} :
        \E approval \in {"not_required"} \cup {RequiredApproval(u)} :
            InsertRow(u, v, status, approval) /\ UNCHANGED approvals
  BY DEF Inserts
<1> PICK approval \in {"not_required"} \cup {RequiredApproval(u)} :
            InsertRow(u, v, status, approval) /\ UNCHANGED approvals
  BY <1>1
<1>2. PICK c \in ContactId \ Rows :
        contacts' = [contacts EXCEPT ![c] =
            [requester |-> u, target |-> v, status |-> status, approval |-> approval]]
  BY DEF InsertRow
<1> DEFINE row == [requester |-> u, target |-> v, status |-> status, approval |-> approval]
<1>3. /\ row \in Row /\ row.requester = u
      /\ row.status # "accepted"
      /\ row.approval # "not_required" => Tier[u] \in Under13
  BY DEF Row, Status, ApprovalStatus, RequiredApproval
<1> HIDE DEF row
<1>4. /\ contacts'[c] = row
      /\ \A x \in ContactId : x # c => contacts'[x] = contacts[x]
  <2>1. contacts' = [contacts EXCEPT ![c] = row]
    BY <1>2 DEF row
  <2> QED BY <2>1 DEF IInv, TypeOK
<1>5. Rows' = Rows \cup {c}
  BY <1>3, <1>4, RowAssumption DEF Rows
<1> QED BY <1>3, <1>4, <1>5 DEF Minor

(* What a write of one status leaves. *)
LEMMA StatusEffect ==
    ASSUME IInv, NEW c \in Rows, NEW status \in Status, WritesStatus(c, status)
    PROVE  /\ Rows' = Rows
           /\ contacts'[c].status = status
           /\ contacts'[c].requester = contacts[c].requester
           /\ contacts'[c].approval = contacts[c].approval
           /\ \A x \in ContactId : x # c => contacts'[x] = contacts[x]
<1>1. c \in ContactId /\ contacts[c] \in Row
  BY DEF Rows, IInv, TypeOK
<1>2. /\ contacts'[c] \in Row
      /\ contacts'[c].status = status
      /\ contacts'[c].requester = contacts[c].requester
      /\ contacts'[c].approval = contacts[c].approval
      /\ \A x \in ContactId : x # c => contacts'[x] = contacts[x]
  BY <1>1 DEF WritesStatus, IInv, TypeOK, Row
<1> QED BY <1>1, <1>2, RowAssumption DEF Rows

(* What a batch of decisions leaves. *)
LEMMA DecideEffect ==
    ASSUME IInv, NEW w \in Worker, DecideCommit(w)
    PROVE  /\ Rows' = Rows
           /\ Decided(w) \subseteq Rows
           /\ \A c \in Decided(w) :
                /\ contacts[c].approval # "not_required"
                /\ ParentOf[contacts[c].requester] = txn[w].parent
           /\ \A c \in Rows :
                /\ contacts'[c].requester = contacts[c].requester
                /\ contacts'[c].approval # "not_required"
                     => contacts[c].approval # "not_required"
                /\ \/ contacts'[c].status = contacts[c].status
                   \/ /\ txn[w].decision # "approve"
                      /\ contacts'[c].status = "rejected"
           /\ approvals' = approvals \cup
                [contact: Decided(w), parent: {txn[w].parent}, decision: {txn[w].decision}]
<1>1. txn[w] \in DecideTxn /\ txn[w].op = "decide"
  BY TxnShape DEF DecideCommit, IInv
<1>2. \A c \in Decided(w) : /\ c \in Rows
                            /\ contacts[c] \in Row
                            /\ contacts[c].approval # "not_required"
                            /\ ParentOf[contacts[c].requester] = txn[w].parent
  BY <1>1 DEF Decided, IInv, DecisionBacked, Rows, TypeOK
<1>3. ASSUME NEW c \in Decided(w)
      PROVE  /\ DecidedRow(w, c) \in Row
             /\ DecidedRow(w, c).requester = contacts[c].requester
             /\ \/ DecidedRow(w, c).status = contacts[c].status
                \/ txn[w].decision # "approve" /\ DecidedRow(w, c).status = "rejected"
  <2>1. contacts[c] \in Row
    BY <1>2
  <2> QED BY <2>1 DEF DecidedRow, Row, Status, ApprovalStatus
<1>4. \A c \in ContactId :
        contacts'[c] = IF c \in Decided(w) THEN DecidedRow(w, c) ELSE contacts[c]
  BY DEF DecideCommit
<1>5. Decided(w) \subseteq ContactId
  BY DEF Decided
<1>6. Rows' = Rows
  BY <1>2, <1>3, <1>4, <1>5, RowAssumption DEF Rows
<1> QED BY <1>2, <1>3, <1>4, <1>6 DEF DecideCommit, Rows

-----------------------------------------------------------------------------
(* The strengthened invariant. *)
LEMMA InitRInv == Init => RInv
BY InitIInv DEF Init, RInv, AskedIsMinor, RecordedRows, Rows

LEMMA NextRInv == RInv /\ [Next]_vars => RInv'
<1> SUFFICES ASSUME RInv, [Next]_vars  PROVE RInv'
  OBVIOUS
<1>1. IInv /\ IInv'
  BY NextIInv DEF RInv
<1>2. ASSUME UNCHANGED <<contacts, approvals>>  PROVE AskedIsMinor' /\ RecordedRows'
  BY <1>2 DEF RInv, AskedIsMinor, RecordedRows, Rows, Minor
<1>3. ASSUME Inserts  PROVE AskedIsMinor' /\ RecordedRows'
  BY <1>1, <1>3, InsertEffect DEF RInv, AskedIsMinor, RecordedRows, Rows, Minor
<1>4. ASSUME NEW c \in Rows, NEW status \in Status, WritesStatus(c, status)
      PROVE  AskedIsMinor' /\ RecordedRows'
  BY <1>1, <1>4, StatusEffect DEF RInv, AskedIsMinor, RecordedRows, Rows, Minor, WritesStatus
<1>5. ASSUME NEW w \in Worker, DecideCommit(w)  PROVE AskedIsMinor' /\ RecordedRows'
  <2>1. AskedIsMinor'
    BY <1>1, <1>5, DecideEffect DEF RInv, AskedIsMinor, Minor
  <2>2. RecordedRows'
    BY <1>1, <1>5, DecideEffect DEF RInv, RecordedRows
  <2> QED BY <2>1, <2>2
<1>6. ASSUME NEW w \in Worker, WorkerStep(w)  PROVE AskedIsMinor' /\ RecordedRows'
  BY <1>1, <1>2, <1>3, <1>4, <1>5, <1>6, Commits DEF Status
<1>7. UNCHANGED vars => AskedIsMinor' /\ RecordedRows'
  BY <1>2 DEF vars
<1> QED BY <1>1, <1>6, <1>7 DEF RInv, Next

-----------------------------------------------------------------------------
(* Each kind of commit is a step of ParentalConsent. *)
LEMMA InsertFiles == RInv /\ Inserts => PC!Next
<1> SUFFICES ASSUME RInv, Inserts  PROVE PC!Next
  OBVIOUS
<1>1. PICK c \in ContactId \ Rows :
        /\ contacts'[c] \in Row
        /\ contacts'[c].status # "accepted"
        /\ contacts'[c].approval # "not_required" => Minor(c)'
        /\ \A x \in ContactId : x # c => contacts'[x] = contacts[x]
        /\ Rows' = Rows \cup {c}
        /\ UNCHANGED approvals
  BY InsertEffect DEF RInv
<1> DEFINE kind == IF Minor(c)' THEN "child" ELSE "free"
<1>2. Filed' = [Filed EXCEPT ![c] = kind]
  BY <1>1, RowAssumption DEF Filed, Minor, Rows
<1>3. Consented' = Consented
  BY <1>1 DEF RInv, RecordedRows, Consented, ApprovedBy, Rows
<1>4. Connected' = Connected
  BY <1>1 DEF Connected, Rows
<1>5. Filed[c] = "none" /\ c \in ContactId
  BY <1>1 DEF Filed, Rows
<1>6. PC!File(c, "child") \/ PC!File(c, "free")
  BY <1>2, <1>3, <1>4, <1>5 DEF PC!File
<1> QED BY <1>5, <1>6 DEF PC!Next

LEMMA StatusConnects ==
    ASSUME RInv, NEW c \in Rows, NEW status \in Status, WritesStatus(c, status),
           status = "accepted" /\ Minor(c)
               => ApprovedBy(c, ParentOf[contacts[c].requester])
    PROVE  PC!Next
<1>1. /\ Rows' = Rows
      /\ contacts'[c].status = status
      /\ contacts'[c].requester = contacts[c].requester
      /\ \A x \in ContactId : x # c => contacts'[x] = contacts[x]
      /\ UNCHANGED approvals
  BY StatusEffect DEF RInv, WritesStatus
<1>2. Filed' = Filed
  BY <1>1 DEF Filed, Rows
<1>3. Consented' = Consented
  BY <1>1 DEF Consented, ApprovedBy, Rows
<1>4. CASE status = "accepted"
  <2>1. Connected' = Connected \cup {c}
    BY <1>1, <1>4 DEF Connected, Rows
  <2>2. Filed[c] = "free" \/ c \in Consented
    BY <1>4 DEF Filed, Consented, Rows, Minor
  <2> QED BY <1>2, <1>3, <2>1, <2>2 DEF PC!Next, PC!Connect, Rows
<1>5. CASE status # "accepted"
  <2>1. Connected' = Connected \ {c}
    BY <1>1, <1>5 DEF Connected, Rows
  <2>2. {c} \in SUBSET ContactId
    BY DEF Rows
  <2> QED BY <1>2, <1>3, <2>1, <2>2 DEF PC!Next, PC!Disconnect
<1> QED BY <1>4, <1>5

LEMMA DecisionConsents ==
    ASSUME RInv, NEW w \in Worker, DecideCommit(w)  PROVE PC!Next
<1>1. /\ Rows' = Rows
      /\ Decided(w) \subseteq Rows
      /\ \A c \in Decided(w) : /\ Minor(c)
                                /\ ParentOf[contacts[c].requester] = txn[w].parent
      /\ \A c \in Rows :
           /\ contacts'[c].requester = contacts[c].requester
           /\ \/ contacts'[c].status = contacts[c].status
              \/ txn[w].decision # "approve" /\ contacts'[c].status = "rejected"
      /\ approvals' = approvals \cup
           [contact: Decided(w), parent: {txn[w].parent}, decision: {txn[w].decision}]
  BY DecideEffect DEF RInv, AskedIsMinor
<1>2. Filed' = Filed
  BY <1>1 DEF Filed, Rows
<1>3. CASE txn[w].decision = "approve"
  <2>1. Consented' = Consented \cup Decided(w)
    BY <1>1, <1>3 DEF Consented, ApprovedBy
  <2>2. Connected' = Connected
    BY <1>1, <1>3 DEF Connected
  <2>3. /\ Decided(w) \in SUBSET ContactId
        /\ \A c \in Decided(w) : Filed[c] = "child"
    BY <1>1 DEF Filed, Rows, Minor
  <2> QED BY <1>2, <2>1, <2>2, <2>3 DEF PC!Next, PC!Consent
<1>4. CASE txn[w].decision # "approve"
  <2>1. Consented' = Consented
    BY <1>1, <1>4 DEF Consented, ApprovedBy
  <2> DEFINE dropped == Connected \ Connected'
  <2>2. Connected' = Connected \ dropped
    BY <1>1 DEF Connected
  <2>3. dropped \in SUBSET ContactId
    BY DEF Connected, Rows
  <2> QED BY <1>2, <2>1, <2>2, <2>3 DEF PC!Next, PC!Disconnect
<1> QED BY <1>3, <1>4

LEMMA ReadStutters ==
    UNCHANGED <<contacts, approvals>> => UNCHANGED <<Filed, Consented, Connected>>
BY DEF Filed, Consented, Connected, Rows, ApprovedBy

LEMMA StepMaps == RInv /\ [Next]_vars => [PC!Next]_<<Filed, Consented, Connected>>
<1>1. ASSUME RInv, NEW w \in Worker, WorkerStep(w)
      PROVE  PC!Next \/ UNCHANGED <<contacts, approvals>>
  BY <1>1, Commits, InsertFiles, StatusConnects, DecisionConsents DEF Status, RInv
<1>2. UNCHANGED vars => UNCHANGED <<contacts, approvals>>
  BY DEF vars
<1> QED BY <1>1, <1>2, ReadStutters DEF Next

(* Contacts implements ParentalConsent for every family, and any number of rows
   and sessions: what the parent was promised is a theorem about the handlers. *)
THEOREM Promise == Spec => KeepsPromise
<1>1. Init => PC!Init
  BY DEF Init, PC!Init, Filed, Consented, Connected, Rows
<1> QED BY <1>1, InitRInv, NextRInv, StepMaps, PTL DEF Spec, KeepsPromise, PC!Spec

-----------------------------------------------------------------------------
(* One session at a time.  What it has read of a pair and of a request is then what
   the tables still hold when it writes. *)
OneSession == \A v, w \in Worker : v = w

Joins(c, u, v) ==
    \/ contacts[c].requester = u /\ contacts[c].target = v
    \/ contacts[c].requester = v /\ contacts[c].target = u
SamePair(c, d) == Joins(c, contacts[d].requester, contacts[d].target)
Live(c) == contacts[c].status \in {"pending", "accepted"}

Current(t) ==
    /\ t.op = "send_existing" =>
         \A c \in Rows : Joins(c, t.user, t.other) => contacts[c].status # "blocked"
    /\ t.op \in {"send_limit", "send_insert"} =>
         \A c \in Rows : Joins(c, t.user, t.other) => contacts[c].status = "rejected"
    /\ t.op = "respond" => contacts[t.contact].status = "pending"
    /\ t.op = "decide" =>
         \A c \in ContactId, s \in Status : <<c, s>> \in t.read => contacts[c].approval = "pending"
    /\ t.op = "block_update" => \A c \in Rows : SamePair(c, t.contact) => c = t.contact
    /\ t.op = "block_insert" => \A c \in Rows : ~Joins(c, t.user, t.other)

SessionsCurrent == \A w \in Worker : Current(txn[w])

(* Beside a request or a contact, the other rows of the pair are rejected ones. *)
OneStory ==
    \A c, d \in Rows : c # d /\ SamePair(c, d) /\ Live(c) => contacts[d].status = "rejected"

SeqInv == SessionsCurrent /\ OneStory

(* What DecisionFinal says of one step. *)
DecisionKept ==
    \A c \in Rows : contacts[c].approval \in {"approved", "denied"}
                      => contacts'[c].approval = contacts[c].approval

LEMMA InitSeqInv == Init => SeqInv
BY DEF Init, SeqInv, SessionsCurrent, Current, Idle, OneStory, Rows

(* A step that reads, or gives up. *)
LEMMA SeqReadStep ==
    ASSUME IInv, SeqInv, NEW w \in Worker, NEW t, Current(t),
           txn' = [txn EXCEPT ![w] = t], UNCHANGED <<contacts, approvals>>
    PROVE  SeqInv' /\ DecisionKept
<1>1. \A x : Current(x) => Current(x)'
  BY DEF Current, Rows, Joins, SamePair
<1>2. \A v \in Worker : txn'[v] = t \/ txn'[v] = txn[v]
  BY DEF IInv, TypeOK
<1>3. SessionsCurrent'
  BY <1>1, <1>2 DEF SeqInv, SessionsCurrent
<1>4. OneStory' /\ DecisionKept
  BY DEF SeqInv, OneStory, Rows, SamePair, Joins, Live, DecisionKept
<1> QED BY <1>3, <1>4 DEF SeqInv

(* A commit leaves no session that has read anything. *)
LEMMA SeqWriteStep ==
    ASSUME OneSession, IInv, NEW w \in Worker, End(w), OneStory'
    PROVE  SeqInv'
<1>1. \A v \in Worker : txn'[v] = Idle
  BY DEF OneSession, End, IInv, TypeOK
<1>2. SessionsCurrent'
  BY <1>1 DEF SessionsCurrent, Current, Idle
<1> QED BY <1>2 DEF SeqInv

(* An insert into a pair whose rows, if it has any, are all rejected. *)
LEMMA InsertStory ==
    ASSUME IInv, SeqInv, NEW u \in User, NEW v \in User, NEW status, NEW approval,
           InsertRow(u, v, status, approval),
           \A c \in Rows : Joins(c, u, v) => contacts[c].status = "rejected"
    PROVE  OneStory' /\ DecisionKept
<1> DEFINE row == [requester |-> u, target |-> v, status |-> status, approval |-> approval]
<1>1. PICK e \in ContactId \ Rows : contacts' = [contacts EXCEPT ![e] = row]
  BY DEF InsertRow
<1>2. row.requester = u /\ row.target = v
  OBVIOUS
<1> HIDE DEF row
<1>3. /\ contacts'[e] = row
      /\ \A x \in Rows : x # e /\ contacts'[x] = contacts[x]
      /\ \A x \in Rows' : x # e => x \in Rows
  BY <1>1 DEF IInv, TypeOK, Rows
<1>4. ASSUME NEW c \in Rows', NEW d \in Rows', c # d, SamePair(c, d)', Live(c)'
      PROVE  contacts'[d].status = "rejected"
  <2>1. CASE c = e
    BY <1>2, <1>3, <1>4, <2>1 DEF SamePair, Joins
  <2>2. CASE d = e
    BY <1>2, <1>3, <1>4, <2>2 DEF SamePair, Joins, Live
  <2>3. CASE c # e /\ d # e
    <3>1. c \in Rows /\ d \in Rows /\ contacts'[c] = contacts[c] /\ contacts'[d] = contacts[d]
      BY <1>3, <2>3
    <3>2. SamePair(c, d) /\ Live(c)
      BY <1>4, <3>1 DEF SamePair, Joins, Live
    <3> QED BY <1>4, <3>1, <3>2 DEF SeqInv, OneStory
  <2> QED BY <2>1, <2>2, <2>3
<1>5. OneStory'
  BY <1>4 DEF OneStory
<1>6. DecisionKept
  BY <1>3 DEF DecisionKept
<1> QED BY <1>5, <1>6

LEMMA SeqSendInsertStep ==
    ASSUME OneSession, IInv, SeqInv, NEW w \in Worker, SendInsert(w)
    PROVE  SeqInv' /\ DecisionKept
<1>1. PICK u \in User, v \in User : u = txn[w].user /\ v = txn[w].other
  BY TxnShape DEF SendInsert, SendTxn, IInv
<1>2. \A c \in Rows : Joins(c, u, v) => contacts[c].status = "rejected"
  BY <1>1 DEF SendInsert, SeqInv, SessionsCurrent, Current
<1>3. InsertRow(u, v, "pending", RequiredApproval(u)) /\ End(w)
  BY <1>1 DEF SendInsert
<1> QED BY <1>2, <1>3, InsertStory, SeqWriteStep

LEMMA SeqBlockInsertStep ==
    ASSUME OneSession, IInv, SeqInv, NEW w \in Worker, BlockInsert(w)
    PROVE  SeqInv' /\ DecisionKept
<1>1. PICK u \in User, v \in User : u = txn[w].user /\ v = txn[w].other
  BY TxnShape DEF BlockInsert, BlockTxn, IInv
<1>2. \A c \in Rows : ~Joins(c, u, v)
  BY <1>1 DEF BlockInsert, SeqInv, SessionsCurrent, Current
<1>3. InsertRow(u, v, "blocked", "not_required") /\ End(w)
  BY <1>1 DEF BlockInsert
<1> QED BY <1>2, <1>3, InsertStory, SeqWriteStep

(* Rows that keep their people and become live only if they were. *)
LEMMA StoryKept ==
    ASSUME SeqInv, Rows' = Rows,
           \A c \in Rows :
              /\ contacts'[c].requester = contacts[c].requester
              /\ contacts'[c].target = contacts[c].target
              /\ \/ contacts'[c].status \in {contacts[c].status, "rejected"}
                 \/ Live(c) /\ Live(c)'
    PROVE  OneStory'
<1> SUFFICES ASSUME NEW c \in Rows, NEW d \in Rows, c # d, SamePair(c, d)', Live(c)'
             PROVE  contacts'[d].status = "rejected"
  BY DEF OneStory
<1>1. SamePair(c, d) /\ Live(c)
  BY DEF SamePair, Joins, Live
<1>2. contacts[d].status = "rejected"
  BY <1>1 DEF SeqInv, OneStory
<1> QED BY <1>2 DEF Live

LEMMA SeqRespondWriteStep ==
    ASSUME OneSession, IInv, SeqInv, NEW w \in Worker, RespondWrite(w)
    PROVE  SeqInv' /\ DecisionKept
<1>1. txn[w] \in RespondTxn /\ txn[w].op = "respond" /\ Current(txn[w])
  BY TxnShape DEF RespondWrite, IInv, SeqInv, SessionsCurrent
<1>2. PICK c \in Rows, new \in {"accepted", "rejected"} : c = txn[w].contact /\ new = txn[w].new
  BY <1>1 DEF RespondTxn, IInv, ResponseBacked, Rows
<1>3. contacts[c].status = "pending"
  BY <1>1, <1>2 DEF Current
<1>4. WritesStatus(c, new) /\ End(w)
  BY <1>2 DEF RespondWrite, WritesStatus
<1>5. /\ Rows' = Rows
      /\ contacts'[c].status = new
      /\ contacts'[c].approval = contacts[c].approval
      /\ \A x \in ContactId : x # c => contacts'[x] = contacts[x]
  BY <1>4, StatusEffect DEF Status
<1>6. \A x \in Rows : /\ contacts'[x].requester = contacts[x].requester
                      /\ contacts'[x].target = contacts[x].target
  BY RowsKept DEF WorkerStep, RowKept
<1>7. OneStory'
  BY <1>2, <1>3, <1>5, <1>6, StoryKept DEF Live, Rows
<1>8. DecisionKept
  BY <1>5 DEF DecisionKept, Rows
<1> QED BY <1>4, <1>7, <1>8, SeqWriteStep

(* A batch decides only what is still undecided, and leaves nobody more live. *)
LEMMA SeqDecideCommitStep ==
    ASSUME OneSession, IInv, SeqInv, NEW w \in Worker, DecideCommit(w)
    PROVE  SeqInv' /\ DecisionKept
<1>1. /\ Rows' = Rows
      /\ \A c \in Rows : contacts'[c].status \in {contacts[c].status, "rejected"}
  BY DecideEffect
<1>2. \A x \in Rows : /\ contacts'[x].requester = contacts[x].requester
                      /\ contacts'[x].target = contacts[x].target
  BY RowsKept DEF WorkerStep, RowKept
<1>3. OneStory'
  BY <1>1, <1>2, StoryKept
<1>4. \A c \in Decided(w) : contacts[c].approval = "pending"
  BY DEF DecideCommit, Decided, SeqInv, SessionsCurrent, Current
<1>5. \A c \in ContactId : c \notin Decided(w) => contacts'[c] = contacts[c]
  BY DEF DecideCommit
<1>6. DecisionKept
  BY <1>4, <1>5 DEF DecisionKept, Rows
<1>7. End(w)
  BY DEF DecideCommit
<1> QED BY <1>3, <1>6, <1>7, SeqWriteStep

(* What is blocked is the only row of its pair. *)
LEMMA SeqBlockUpdateStep ==
    ASSUME OneSession, IInv, SeqInv, NEW w \in Worker, BlockUpdate(w)
    PROVE  SeqInv' /\ DecisionKept
<1>1. txn[w] \in BlockTxn /\ txn[w].op = "block_update" /\ Current(txn[w])
  BY TxnShape DEF BlockUpdate, IInv, SeqInv, SessionsCurrent
<1>2. PICK c \in Rows : c = txn[w].contact
  BY <1>1 DEF BlockTxn, IInv, BlockBacked, Rows
<1>3. \A x \in Rows : SamePair(x, c) => x = c
  BY <1>1, <1>2 DEF Current
<1>4. WritesStatus(c, "blocked") /\ End(w)
  BY <1>2 DEF BlockUpdate, WritesStatus
<1>5. /\ Rows' = Rows
      /\ contacts'[c].status = "blocked"
      /\ contacts'[c].approval = contacts[c].approval
      /\ \A x \in ContactId : x # c => contacts'[x] = contacts[x]
  BY <1>4, StatusEffect DEF Status
<1>6. \A x \in Rows : /\ contacts'[x].requester = contacts[x].requester
                      /\ contacts'[x].target = contacts[x].target
  BY RowsKept DEF WorkerStep, RowKept
<1>7. ASSUME NEW x \in Rows, NEW y \in Rows, x # y, SamePair(x, y)', Live(x)'
      PROVE  contacts'[y].status = "rejected"
  <2>1. SamePair(x, y) /\ x # c
    BY <1>5, <1>6, <1>7 DEF SamePair, Joins, Live
  <2>2. y # c
    BY <1>3, <1>7, <2>1
  <2> QED BY <1>5, <1>7, <2>1, <2>2 DEF Rows, Live, SeqInv, OneStory
<1>8. OneStory'
  BY <1>5, <1>7 DEF OneStory
<1>9. DecisionKept
  BY <1>5 DEF DecisionKept, Rows
<1> QED BY <1>4, <1>8, <1>9, SeqWriteStep

-----------------------------------------------------------------------------
LEMMA SeqDecideReadStep ==
    ASSUME IInv, SeqInv, NEW w \in Worker, DecideRead(w)  PROVE SeqInv' /\ DecisionKept
<1>1. txn[w] \in DecideTxn /\ txn[w].op = "decide" /\ Current(txn[w])
  BY TxnShape DEF DecideRead, IInv, SeqInv, SessionsCurrent
<1>2. PICK c \in txn[w].todo :
        Continue(w, [txn[w] EXCEPT
          !.todo = @ \ {c},
          !.read = IF MayDecide(txn[w].parent, c)
                     THEN @ \cup {<<c, contacts[c].status>>} ELSE @])
  BY DEF DecideRead
<1> DEFINE t == [txn[w] EXCEPT
                   !.todo = @ \ {c},
                   !.read = IF MayDecide(txn[w].parent, c)
                              THEN @ \cup {<<c, contacts[c].status>>} ELSE @]
<1>3. /\ t.op = "decide"
      /\ t.read = IF MayDecide(txn[w].parent, c)
                    THEN txn[w].read \cup {<<c, contacts[c].status>>} ELSE txn[w].read
  BY <1>1 DEF DecideTxn
<1>4. \A x \in ContactId, s \in Status : <<x, s>> \in t.read => contacts[x].approval = "pending"
  BY <1>1, <1>3 DEF Current, MayDecide
<1>5. txn' = [txn EXCEPT ![w] = t] /\ UNCHANGED <<contacts, approvals>>
  BY <1>2 DEF DecideRead, Continue
<1> HIDE DEF t
<1>6. Current(t)
  BY <1>3, <1>4 DEF Current
<1> QED BY <1>5, <1>6, SeqReadStep

LEMMA SeqSendReads ==
    ASSUME IInv, SeqInv, NEW w \in Worker, SendCheckExisting(w) \/ SendCheckLimit(w)
    PROVE  SeqInv' /\ DecisionKept
<1>1. txn[w] \in SendTxn /\ Current(txn[w])
  BY TxnShape DEF SendCheckExisting, SendCheckLimit, IInv, SeqInv, SessionsCurrent
<1>2. CASE txn' = [txn EXCEPT ![w] = Idle]
  <2>1. Current(Idle)
    BY DEF Current, Idle
  <2> QED BY <1>2, <2>1, SeqReadStep DEF SendCheckExisting, SendCheckLimit
<1>3. ASSUME NEW op \in {"send_limit", "send_insert"},
             txn' = [txn EXCEPT ![w] = [txn[w] EXCEPT !.op = op]],
             \A c \in Rows : Joins(c, txn[w].user, txn[w].other)
                               => contacts[c].status = "rejected"
      PROVE  SeqInv' /\ DecisionKept
  <2> DEFINE t == [txn[w] EXCEPT !.op = op]
  <2>1. t.op = op /\ t.user = txn[w].user /\ t.other = txn[w].other
    BY <1>1 DEF SendTxn
  <2>2. txn' = [txn EXCEPT ![w] = t]
    BY <1>3
  <2> HIDE DEF t
  <2>3. Current(t)
    BY <1>3, <2>1 DEF Current
  <2> QED BY <2>2, <2>3, SeqReadStep DEF SendCheckExisting, SendCheckLimit
<1>4. SendCheckLimit(w) =>
        \A c \in Rows : Joins(c, txn[w].user, txn[w].other) => contacts[c].status = "rejected"
  BY <1>1 DEF SendCheckLimit, Current
<1>5. ASSUME txn[w].op = "send_existing", LiveBetween(txn[w].user, txn[w].other) = {},
             NEW c \in Rows, Joins(c, txn[w].user, txn[w].other)
      PROVE  contacts[c].status = "rejected"
  <2>1. contacts[c].status # "blocked"
    BY <1>1, <1>5 DEF Current
  <2>2. contacts[c].status \notin {"pending", "accepted"}
    BY <1>5 DEF LiveBetween, Between, Joins
  <2>3. contacts[c].status \in Status
    BY DEF IInv, TypeOK, Rows, Row
  <2> QED BY <2>1, <2>2, <2>3 DEF Status
<1> QED BY <1>2, <1>3, <1>4, <1>5 DEF SendCheckExisting, SendCheckLimit, Continue, End

(* The first selects. *)
LEMMA SeqReads ==
    ASSUME IInv, SeqInv, NEW w \in Worker,
           \/ \E u, v \in User : SendStart(w, u, v) \/ BlockRead(w, u, v)
           \/ \E u \in User, c \in ContactId : RespondRead(w, u, c)
           \/ \E p \in Guardian, cs \in SUBSET ContactId, d \in Decision :
                DecideStart(w, p, cs, d)
           \/ Rollback(w)
    PROVE  SeqInv' /\ DecisionKept
<1> SUFFICES \E t : /\ Current(t)
                    /\ txn' = [txn EXCEPT ![w] = t]
                    /\ UNCHANGED <<contacts, approvals>>
  BY SeqReadStep
<1>1. ASSUME NEW u, NEW v, BlockedBetween(u, v) = {}
      PROVE  Current([op |-> "send_existing", user |-> u, other |-> v])
  BY <1>1 DEF Current, BlockedBetween, Between, Joins
<1>2. ASSUME NEW u, NEW v, Between(u, v) = {}
      PROVE  Current([op |-> "block_insert", user |-> u, other |-> v])
  BY <1>2 DEF Current, Between, Joins
<1>3. ASSUME NEW u, NEW v, NEW c, Between(u, v) = {c}
      PROVE  Current([op |-> "block_update", contact |-> c])
  <2>1. \A x \in Rows : SamePair(x, c) => x \in Between(u, v)
    BY <1>3 DEF SamePair, Joins, Between
  <2> QED BY <1>3, <2>1 DEF Current
<1>4. ASSUME NEW c, contacts[c].status = "pending", NEW new
      PROVE  Current([op |-> "respond", contact |-> c, new |-> new])
  BY <1>4 DEF Current
<1>5. ASSUME NEW p, NEW d, NEW cs
      PROVE  Current([op |-> "decide", parent |-> p, decision |-> d, todo |-> cs, read |-> {}])
  BY DEF Current
<1>6. Current(Idle)
  BY DEF Current, Idle
<1> QED BY <1>1, <1>2, <1>3, <1>4, <1>5, <1>6
        DEF Begin, End, SendStart, BlockRead, RespondRead, MayAccept, MayRespond, DecideStart,
            Rollback

LEMMA NextSeqInv == ASSUME OneSession, IInv, SeqInv, Next  PROVE SeqInv' /\ DecisionKept
<1> SUFFICES ASSUME NEW w \in Worker, WorkerStep(w)  PROVE SeqInv' /\ DecisionKept
  BY DEF Next
<1> QED BY SeqSendReads, SeqSendInsertStep, SeqRespondWriteStep, SeqDecideReadStep,
           SeqDecideCommitStep, SeqBlockUpdateStep, SeqBlockInsertStep, SeqReads
        DEF WorkerStep

LEMMA AlwaysSeqInv == ASSUME OneSession  PROVE Spec => []SeqInv
<1>1. IInv /\ SeqInv /\ [Next]_vars => SeqInv'
  <2>1. SeqInv /\ UNCHANGED vars => SeqInv'
    BY DEF vars, SeqInv, SessionsCurrent, Current, OneStory, Rows, SamePair, Joins, Live
  <2> QED BY <2>1, NextSeqInv
<1> QED BY <1>1, InitSeqInv, AlwaysIInv, PTL DEF Spec

LEMMA AtMostOne ==
    ASSUME NEW S, \A x, y \in S : x = y
    PROVE  Cardinality(S) <= 1
<1>1. CASE S = {}
  BY <1>1, FS_EmptySet
<1>2. CASE S # {}
  <2>1. PICK x \in S : S = {x}
    BY <1>2
  <2> QED BY <2>1, FS_Singleton
<1> QED BY <1>1, <1>2

(* The rows of a pair tell one story: with one session at a time, whatever two
   people and their parents do in whatever order, they have one request or contact
   at most, in either direction, and none beside a block. *)
THEOREM OneStoryPerPair == ASSUME OneSession  PROVE Spec => []PairsAreConsistent
<1>1. ASSUME SeqInv, NEW u, NEW v, NEW c \in LiveBetween(u, v), NEW d \in Between(u, v)
      PROVE  c = d \/ contacts[d].status = "rejected"
  <2>1. c \in Rows /\ d \in Rows /\ SamePair(c, d) /\ Live(c)
    BY DEF LiveBetween, Between, SamePair, Joins, Live
  <2> QED BY <1>1, <2>1 DEF SeqInv, OneStory
<1>2. SeqInv => OneLivePerPair
  <2>1. SeqInv => \A u, v \in User : \A c, d \in LiveBetween(u, v) : c = d
    BY <1>1 DEF LiveBetween
  <2> QED BY <2>1, AtMostOne DEF OneLivePerPair
<1>3. SeqInv => BlockExcludesLive
  BY <1>1 DEF BlockExcludesLive, BlockedBetween, LiveBetween
<1> QED BY <1>2, <1>3, AlwaysSeqInv, PTL DEF PairsAreConsistent

(* A parent's decision is final: with one session at a time no second decision, and
   no response or block, changes it. *)
THEOREM DecisionIsFinal == ASSUME OneSession  PROVE Spec => DecisionFinal
<1>1. IInv /\ SeqInv /\ [Next]_vars =>
        [\A c \in Rows :
          contacts[c].approval \in {"approved", "denied"}
              => contacts'[c].approval = contacts[c].approval]_vars
  BY NextSeqInv DEF DecisionKept
<1> QED BY <1>1, AlwaysIInv, AlwaysSeqInv, PTL DEF Spec, DecisionFinal
=============================================================================

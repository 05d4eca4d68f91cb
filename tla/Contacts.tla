------------------------------ MODULE Contacts ------------------------------
(***************************************************************************)
(* Contact requests, parental approval and blocking: the handlers of       *)
(* src/src/contacts/service.py behind src/src/contacts/router.py.          *)
(*                                                                         *)
(* Every request runs in a session of its own (database.py get_db) under   *)
(* READ COMMITTED, without row locks or version columns.  A handler is     *)
(* therefore a sequence of reads, each of the committed tables at that     *)
(* moment, followed by one commit that writes only the columns it changed. *)
(* A worker is one such session; what it has read and not yet written is   *)
(* its entry in txn.                                                       *)
(***************************************************************************)
EXTENDS FiniteSets, Integers

CONSTANTS
    User,          \* accounts that take part in contacts
    Guardian,      \* accounts with role "parent" (they may be in User too)
    ContactId,     \* primary keys of the table contacts (bounds the rows)
    Worker,        \* concurrent sessions
    Tier,          \* Tier[u]: age tier of u's social profile, "none" for adults
    MaxContacts,   \* MaxContacts[t]: the tier's permission max_contacts
    ParentOf,      \* ParentOf[u]: the user with role "parent" in u's group
    NoUser, NoRow  \* no such parent; no such row

Tiers == {"young", "preteen", "teen"}
Under13 == {"young", "preteen"}
Decision == {"approve", "deny"}

ASSUME TierAssumption == Tier \in [User -> Tiers \cup {"none"}]
ASSUME LimitAssumption == MaxContacts \in [Tiers -> Nat]
ASSUME ParentAssumption == /\ NoUser \notin Guardian
                           /\ ParentOf \in [User -> Guardian \cup {NoUser}]

VARIABLES
    contacts,   \* table contacts: row or NoRow
    approvals,  \* table contact_approvals, identical decisions collapsed
    txn         \* what each worker's open session has read

vars == <<contacts, approvals, txn>>

Status == {"pending", "accepted", "rejected", "blocked"}
ApprovalStatus == {"pending", "approved", "denied", "not_required"}
Row == [requester: User, target: User, status: Status, approval: ApprovalStatus]
Approval == [contact: ContactId, parent: Guardian, decision: Decision]

ASSUME RowAssumption == NoRow \notin Row

Idle == [op |-> "idle"]
SendTxn == [op: {"send_existing", "send_limit", "send_insert"}, user: User, other: User]
RespondTxn == [op: {"respond"}, contact: ContactId, new: {"accepted", "rejected"}]
DecideTxn == [op: {"decide"}, parent: Guardian, decision: Decision,
              todo: SUBSET ContactId, read: SUBSET (ContactId \X Status)]
BlockTxn == [op: {"block_update"}, contact: ContactId]
              \cup [op: {"block_insert"}, user: User, other: User]
Txn == {Idle} \cup SendTxn \cup RespondTxn \cup DecideTxn \cup BlockTxn

TypeOK ==
    /\ contacts \in [ContactId -> Row \cup {NoRow}]
    /\ approvals \subseteq Approval
    /\ txn \in [Worker -> Txn]

Init ==
    /\ contacts = [c \in ContactId |-> NoRow]
    /\ approvals = {}
    /\ txn = [w \in Worker |-> Idle]

-----------------------------------------------------------------------------
(* Queries. *)

Rows == {c \in ContactId : contacts[c] # NoRow}

Between(u, v) ==
    {c \in Rows : \/ contacts[c].requester = u /\ contacts[c].target = v
                  \/ contacts[c].requester = v /\ contacts[c].target = u}

BlockedBetween(u, v) == {c \in Between(u, v) : contacts[c].status = "blocked"}

LiveOneWay(u, v) ==
    {c \in Rows : /\ contacts[c].requester = u
                  /\ contacts[c].target = v
                  /\ contacts[c].status \in {"pending", "accepted"}}

LiveBetween(u, v) ==
    {c \in Between(u, v) : contacts[c].status \in {"pending", "accepted"}}

ActiveContacts(u) ==
    {c \in Rows : /\ u \in {contacts[c].requester, contacts[c].target}
                  /\ contacts[c].status = "accepted"}

UnderLimit(u) ==
    Tier[u] = "none" \/ Cardinality(ActiveContacts(u)) < MaxContacts[Tier[u]]

(* enforce_age_tier: the permission can_add_contacts guards every contacts
   route except the batch decision; a user without a profile passes. *)
CanAddContacts(u) == Tier[u] # "young"

(* Seeded fault: the test for an earlier decision is forgotten. *)
MayDecideAnyApproval(p, c) ==
    /\ contacts[c] # NoRow
    /\ contacts[c].approval \in {"pending", "approved", "denied"}
    /\ ParentOf[contacts[c].requester] = p

(* approve_as_parent refuses a request that needs no approval, one already
   decided, and any caller but the parent of the requester. *)
MayDecide(p, c) ==
    /\ contacts[c] # NoRow
    /\ contacts[c].approval = "pending"
    /\ ParentOf[contacts[c].requester] = p

MayRespond(u, c) ==
    /\ contacts[c] # NoRow
    /\ contacts[c].target = u
    /\ contacts[c].status = "pending"

(* Seeded fault: a target may accept while the parent is still undecided. *)
MayAcceptUnlessDenied(u, c) ==
    /\ MayRespond(u, c)
    /\ contacts[c].approval # "denied"

MayAccept(u, c) ==
    /\ MayRespond(u, c)
    /\ contacts[c].approval \in {"approved", "not_required"}

-----------------------------------------------------------------------------
(* Sessions. *)

Begin(w, t) == txn[w] = Idle /\ txn' = [txn EXCEPT ![w] = t]
Continue(w, t) == txn' = [txn EXCEPT ![w] = t]
End(w) == txn' = [txn EXCEPT ![w] = Idle]

(* A session that fails or is cancelled before its commit is rolled back. *)
Rollback(w) == txn[w] # Idle /\ End(w) /\ UNCHANGED <<contacts, approvals>>

(* The unique constraint on (requester, target) refuses the insert. *)
Insertable(u, v) ==
    \A c \in Rows : ~(contacts[c].requester = u /\ contacts[c].target = v)

InsertRow(u, v, status, approval) ==
    \E c \in ContactId \ Rows :
        contacts' = [contacts EXCEPT ![c] =
            [requester |-> u, target |-> v, status |-> status, approval |-> approval]]

-----------------------------------------------------------------------------
(* send_request: three reads of the table, then the insert. *)

SendStart(w, u, v) ==
    /\ u # v
    /\ CanAddContacts(u)
    /\ BlockedBetween(u, v) = {}
    /\ Begin(w, [op |-> "send_existing", user |-> u, other |-> v])
    /\ UNCHANGED <<contacts, approvals>>

(* Seeded fault: only requests in the same direction are looked for. *)
SendCheckOneDirection(w) ==
    /\ txn[w].op = "send_existing"
    /\ IF LiveOneWay(txn[w].user, txn[w].other) = {}
         THEN Continue(w, [txn[w] EXCEPT !.op = "send_limit"])
         ELSE End(w)
    /\ UNCHANGED <<contacts, approvals>>

SendCheckExisting(w) ==
    /\ txn[w].op = "send_existing"
    /\ IF LiveBetween(txn[w].user, txn[w].other) = {}
         THEN Continue(w, [txn[w] EXCEPT !.op = "send_limit"])
         ELSE End(w)
    /\ UNCHANGED <<contacts, approvals>>

SendCheckLimit(w) ==
    /\ txn[w].op = "send_limit"
    /\ IF UnderLimit(txn[w].user)
         THEN Continue(w, [txn[w] EXCEPT !.op = "send_insert"])
         ELSE End(w)
    /\ UNCHANGED <<contacts, approvals>>

(* Seeded fault: a status the model of the table does not have. *)
RequiredApprovalMisnamed(u) ==
    IF Tier[u] \in Under13 THEN "awaiting_parent" ELSE "not_required"

(* Seeded fault: a preteen is taken for a teen. *)
RequiredApprovalYoungOnly(u) ==
    IF Tier[u] = "young" THEN "pending" ELSE "not_required"

RequiredApproval(u) ==
    IF Tier[u] \in Under13 THEN "pending" ELSE "not_required"

(* Seeded fault: a second request reuses the row of the first. *)
SendUpsert(w) ==
    /\ txn[w].op = "send_insert"
    /\ IF Insertable(txn[w].user, txn[w].other)
         THEN InsertRow(txn[w].user, txn[w].other, "pending", RequiredApproval(txn[w].user))
         ELSE contacts' = [c \in ContactId |->
                IF c \in Rows /\ contacts[c].requester = txn[w].user
                              /\ contacts[c].target = txn[w].other
                  THEN [contacts[c] EXCEPT !.status = "pending",
                                           !.approval = RequiredApproval(txn[w].user)]
                  ELSE contacts[c]]
    /\ End(w)
    /\ UNCHANGED approvals

SendInsert(w) ==
    /\ txn[w].op = "send_insert"
    /\ Insertable(txn[w].user, txn[w].other)
    /\ InsertRow(txn[w].user, txn[w].other, "pending", RequiredApproval(txn[w].user))
    /\ End(w)
    /\ UNCHANGED approvals

-----------------------------------------------------------------------------
(* respond_to_request: read and check the row, then write its status. *)

RespondRead(w, u, c) ==
    /\ CanAddContacts(u)
    /\ \/ /\ MayAccept(u, c)
          /\ Begin(w, [op |-> "respond", contact |-> c, new |-> "accepted"])
       \/ /\ MayRespond(u, c)
          /\ Begin(w, [op |-> "respond", contact |-> c, new |-> "rejected"])
    /\ UNCHANGED <<contacts, approvals>>

RespondWrite(w) ==
    /\ txn[w].op = "respond"
    /\ contacts' = [contacts EXCEPT ![txn[w].contact].status = txn[w].new]
    /\ End(w)
    /\ UNCHANGED approvals

-----------------------------------------------------------------------------
(* batch_approve_as_parent, and approve_as_parent as the batch of one: each
   request is read and checked on its own, a refused one is skipped, and the
   whole batch commits together.  Only guardians are enumerated as callers: of
   anybody else every request of the batch is refused.  Writing a status equal
   to the one that was read changes no column. *)

DecideStart(w, p, cs, d) ==
    /\ cs # {}
    /\ Begin(w, [op |-> "decide", parent |-> p, decision |-> d, todo |-> cs, read |-> {}])
    /\ UNCHANGED <<contacts, approvals>>

DecideRead(w) ==
    /\ txn[w].op = "decide"
    /\ \E c \in txn[w].todo :
         Continue(w, [txn[w] EXCEPT
            !.todo = @ \ {c},
            !.read = IF MayDecide(txn[w].parent, c)
                       THEN @ \cup {<<c, contacts[c].status>>} ELSE @])
    /\ UNCHANGED <<contacts, approvals>>

Decided(w) == {c \in ContactId : \E s \in Status : <<c, s>> \in txn[w].read}

DecidedRow(w, c) ==
    IF txn[w].decision = "approve"
      THEN [contacts[c] EXCEPT !.approval = "approved"]
      ELSE [contacts[c] EXCEPT
              !.approval = "denied",
              !.status = IF <<c, "rejected">> \in txn[w].read THEN @ ELSE "rejected"]

(* Seeded fault: the decision is not recorded. *)
DecideCommitUnrecorded(w) ==
    /\ txn[w].op = "decide"
    /\ txn[w].todo = {}
    /\ contacts' = [c \in ContactId |->
                      IF c \in Decided(w) THEN DecidedRow(w, c) ELSE contacts[c]]
    /\ End(w)
    /\ UNCHANGED approvals

DecideCommit(w) ==
    /\ txn[w].op = "decide"
    /\ txn[w].todo = {}
    /\ contacts' = [c \in ContactId |->
                      IF c \in Decided(w) THEN DecidedRow(w, c) ELSE contacts[c]]
    /\ approvals' = approvals \cup
         [contact: Decided(w), parent: {txn[w].parent}, decision: {txn[w].decision}]
    /\ End(w)

-----------------------------------------------------------------------------
(* block_contact: find the row in either direction, then overwrite its status
   or insert one.  Two rows raise MultipleResultsFound, a blocked row raises
   ConflictError: neither changes anything. *)

(* Seeded fault: any row of the pair is taken as the row to overwrite. *)
BlockAmongSeveral(w, u, v) ==
    /\ u # v
    /\ CanAddContacts(u)
    /\ \/ /\ Between(u, v) = {}
          /\ Begin(w, [op |-> "block_insert", user |-> u, other |-> v])
       \/ \E c \in Between(u, v) :
            /\ contacts[c].status # "blocked"
            /\ Begin(w, [op |-> "block_update", contact |-> c])
    /\ UNCHANGED <<contacts, approvals>>

BlockRead(w, u, v) ==
    /\ u # v
    /\ CanAddContacts(u)
    /\ \/ /\ Between(u, v) = {}
          /\ Begin(w, [op |-> "block_insert", user |-> u, other |-> v])
       \/ \E c \in Between(u, v) :
            /\ Between(u, v) = {c}
            /\ contacts[c].status # "blocked"
            /\ Begin(w, [op |-> "block_update", contact |-> c])
    /\ UNCHANGED <<contacts, approvals>>

BlockUpdate(w) ==
    /\ txn[w].op = "block_update"
    /\ contacts' = [contacts EXCEPT ![txn[w].contact].status = "blocked"]
    /\ End(w)
    /\ UNCHANGED approvals

BlockInsert(w) ==
    /\ txn[w].op = "block_insert"
    /\ Insertable(txn[w].user, txn[w].other)
    /\ InsertRow(txn[w].user, txn[w].other, "blocked", "not_required")
    /\ End(w)
    /\ UNCHANGED approvals

-----------------------------------------------------------------------------
WorkerStep(w) ==
    \/ \E u, v \in User : SendStart(w, u, v)
    \/ SendCheckExisting(w) \/ SendCheckLimit(w) \/ SendInsert(w)
    \/ \E u \in User, c \in ContactId : RespondRead(w, u, c)
    \/ RespondWrite(w)
    \/ \E p \in Guardian, cs \in SUBSET ContactId, d \in Decision : DecideStart(w, p, cs, d)
    \/ DecideRead(w) \/ DecideCommit(w)
    \/ \E u, v \in User : BlockRead(w, u, v)
    \/ BlockUpdate(w) \/ BlockInsert(w)
    \/ Rollback(w)

Next == \E w \in Worker : WorkerStep(w)

Spec == Init /\ [][Next]_vars

-----------------------------------------------------------------------------
(* Parental consent (ADR-009, contacts/service.py send_request and
   respond_to_request): however the sessions of the child, the target and the
   parent interleave, a contact requested by a child under 13 is accepted only
   if that child's parent has a recorded approval of that very request. *)
ApprovedBy(c, p) == [contact |-> c, parent |-> p, decision |-> "approve"] \in approvals

ConsentBeforeContact ==
    \A c \in Rows :
        contacts[c].status = "accepted" /\ Tier[contacts[c].requester] \in Under13
            => ApprovedBy(c, ParentOf[contacts[c].requester])

(* The tables as the parent sees them: who filed a request, which consents are
   on record, and which requests connect two people. *)
Filed == [c \in ContactId |->
            IF contacts[c] = NoRow THEN "none"
            ELSE IF Tier[contacts[c].requester] \in Under13 THEN "child" ELSE "free"]

Consented == {c \in Rows : ApprovedBy(c, ParentOf[contacts[c].requester])}

Connected == {c \in Rows : contacts[c].status = "accepted"}

PC == INSTANCE ParentalConsent WITH
        Request <- ContactId, filed <- Filed, consent <- Consented, connected <- Connected

(* Contacts implements the promise to the parent: every commit of a session
   files one request, records consents to children's requests, connects one
   request that is free or consented to, or disconnects some. *)
KeepsPromise == PC!Spec

(* The record of decisions explains the row (approve_as_parent): a row reads
   "approved" or "denied" only if the requester's parent recorded that decision,
   also when two decisions race and the last commit wins. *)
DecisionOnRecord ==
    \A c \in Rows : \A d \in Decision :
        contacts[c].approval = (IF d = "approve" THEN "approved" ELSE "denied")
            => [contact |-> c, parent |-> ParentOf[contacts[c].requester],
                decision |-> d] \in approvals

(* A request settled by the parent is not asked again, and nobody's identity in
   it changes: no handler ever returns a decided row to "pending" or re-targets
   it (approve_as_parent has no path back). *)
DecisionNeverReopened ==
    [][\A c \in Rows :
          /\ contacts'[c] # NoRow
          /\ contacts[c].approval # "pending" => contacts'[c].approval # "pending"
          /\ contacts'[c].requester = contacts[c].requester
          /\ contacts'[c].target = contacts[c].target]_vars

(* One session at a time: a pair has one live request or contact at most, in
   whichever direction it was sent (send_request's check of both directions). *)
OneLivePerPair ==
    \A u, v \in User : u # v => Cardinality(LiveBetween(u, v)) <= 1

(* One session at a time: nobody is connected to, or has an open request with,
   somebody while a block stands between them (_is_blocked in send_request,
   block_contact's overwrite of the row). *)
BlockExcludesLive ==
    \A u, v \in User : BlockedBetween(u, v) # {} => LiveBetween(u, v) = {}

(* The rows of a pair, in both directions, tell one story: "A contact request
   already exists" and "This user has blocked you", one session at a time. *)
PairsAreConsistent == OneLivePerPair /\ BlockExcludesLive

(* One session at a time: a parent's decision on a request is final
   (approve_as_parent: "Parent has already ... this request"). *)
DecisionFinal ==
    [][\A c \in Rows :
          contacts[c].approval \in {"approved", "denied"}
              => contacts'[c].approval = contacts[c].approval]_vars

(* A block stands: no operation unblocks, so a pair once blocked stays blocked
   (service.py "Prevents duplicate requests and blocked users"). *)
BlockStands ==
    [][\A u, v \in User : BlockedBetween(u, v) # {} => BlockedBetween(u, v)' # {}]_vars
=============================================================================

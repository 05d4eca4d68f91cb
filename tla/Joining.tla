------------------------------ MODULE Joining ------------------------------
(***************************************************************************)
(* The ways into one group: members added by the owner, invitations, codes *)
(* for children, the parent's approval of a child, single sign-on and the  *)
(* school's directory and roster (src/src/groups/service.py,               *)
(* src/src/auth/service.py, src/src/integrations).                         *)
(*                                                                         *)
(* Here only the owner is an administrator: change_member_role is left     *)
(* out.  Names are left out: a person of the roster may or may not be      *)
(* recognised in a row made in another way.                                *)
(***************************************************************************)
EXTENDS FiniteSets, Naturals, Sessions

CONSTANTS
    Owner,         \* the user who registers and owns the group
    MembershipId,  \* primary keys of group_members (bounds the rows)
    PassId,        \* primary keys of invitations, child_invite_codes and
                   \* parent_approval_requests (bounds them)
    Cap            \* MAX_FAMILY_MEMBERS

ASSUME CapAssumption == Cap \in Nat \ {0}

VARIABLES
    group,   \* the row of table groups: none yet, live or soft-deleted
    joined,  \* table group_members
    passes,  \* tables invitations, child_invite_codes, parent_approval_requests
    spent    \* Redis: the approval tokens marked as used

joiningTables == <<group, joined, passes, spent>>
joiningVars == <<group, joined, passes, spent, txn, overlap>>

PassKind == {"invitation", "code", "approval"}
Capped == {"added", "invitation", "provisioned"}   \* ways that look at the cap
Way == {"owner", "roster"} \cup PassKind \cup Capped

Membership == [person: Member \cup {Owner}, linked: BOOLEAN, way: Way]   \* user_id set or not
(* The child of an approval is known when it is asked for; redeemed counts the
   committed redemptions. *)
Pass == [kind: PassKind, child: Member \cup {NoRow}, used: BOOLEAN, fresh: BOOLEAN,
         redeemed: 0..2]

ASSUME PassAssumption == NoRow \notin Pass

JoiningTxn ==
    {Idle}
    \cup [op: {"approve"}, pass: PassId]
    \cup [op: {"join"}, rows: {{}} \cup {{m} : m \in Membership}, pass: PassId \cup {NoRow}]

JoiningTypeOK ==
    /\ group \in {"none", "live", "deleted"}
    /\ joined \in [MembershipId -> Membership \cup {NoRow}]
    /\ passes \in [PassId -> Pass \cup {NoRow}]
    /\ spent \subseteq PassId
    /\ txn \in [Worker -> JoiningTxn]
    /\ overlap \in BOOLEAN

JoiningTablesInit ==
    /\ group = "none"
    /\ joined = [k \in MembershipId |-> NoRow]
    /\ passes = [q \in PassId |-> NoRow]
    /\ spent = {}

JoiningInit == JoiningTablesInit /\ SessionsInit

Joined == {k \in MembershipId : joined[k] # NoRow}
RowsFor(p) == {k \in Joined : joined[k].person = p}
HasAdmin == RowsFor(Owner) # {}

(* Seeded fault: the member who joins is counted as one of the cap. *)
SeatFreeTwice == Cardinality(Joined) <= Cap

SeatFree == Cardinality(Joined) < Cap

-----------------------------------------------------------------------------
(* register with its create_group; delete_group, which is soft: the row is there
   and no query finds it. *)

GroupRegistered(w) ==
    /\ Free(w) /\ group = "none"
    /\ group' = "live"
    /\ joined' = Inserted(joined, [person |-> Owner, linked |-> TRUE, way |-> "owner"])
    /\ UNCHANGED <<passes, spent, sessions>>

GroupDeleted(w) ==
    /\ Free(w) /\ group = "live" /\ HasAdmin
    /\ group' = "deleted"
    /\ UNCHANGED <<joined, passes, spent, sessions>>

MembershipEnded(w, k) ==
    /\ Free(w) /\ HasAdmin /\ k \in Joined
    /\ joined' = [joined EXCEPT ![k] = NoRow]
    /\ UNCHANGED <<group, passes, spent, sessions>>

(* create_invitation, generate_invite_code, send_parent_approval *)
PassMade(w, kind, child) ==
    /\ Free(w)
    /\ kind = "invitation" => HasAdmin
    /\ kind = "code" => group # "none"
    /\ (child = NoRow) <=> (kind # "approval")
    /\ Room(passes)
    /\ passes' = Inserted(passes, [kind |-> kind, child |-> child, used |-> FALSE,
                                   fresh |-> TRUE, redeemed |-> 0])
    /\ UNCHANGED <<group, joined, spent, sessions>>

PassExpires(q) ==
    /\ passes[q] # NoRow /\ passes[q].fresh
    /\ passes' = [passes EXCEPT ![q].fresh = FALSE]
    /\ UNCHANGED <<group, joined, spent, sessions>>

-----------------------------------------------------------------------------
(* What each way in reads before it inserts. *)

(* Seeded fault: the status of a pass is not looked at. *)
UsableAgain(q, kind) == passes[q] # NoRow /\ passes[q].kind = kind /\ passes[q].fresh

Usable(q, kind) ==
    passes[q] # NoRow /\ passes[q].kind = kind /\ ~passes[q].used /\ passes[q].fresh

Joining(p, linked, way, q) ==
    [op |-> "join", rows |-> {[person |-> p, linked |-> linked, way |-> way]}, pass |-> q]

AddRead(w, p, linked) ==
    /\ HasAdmin /\ group = "live" /\ SeatFree
    /\ Begin(w, Joining(p, linked, "added", NoRow))
    /\ UNCHANGED joiningTables

(* accept_invitation looks at the cap if it finds the group; whoever has the
   token may accept it, a member too. *)
AcceptRead(w, q, p) ==
    /\ Usable(q, "invitation")
    /\ group = "live" => SeatFree
    /\ Begin(w, Joining(p, TRUE, "invitation", q))
    /\ UNCHANGED joiningTables

RedeemRead(w, q, p) ==
    /\ Usable(q, "code")
    /\ Begin(w, Joining(p, TRUE, "code", q))
    /\ UNCHANGED joiningTables

(* auto_provision_member recognises a member who has an account. *)
ProvisionRead(w, p, linked) ==
    /\ group = "live" /\ SeatFree
    /\ linked => \A k \in RowsFor(p) : ~joined[k].linked
    /\ Begin(w, Joining(p, linked, "provisioned", NoRow))
    /\ UNCHANGED joiningTables

RosterRead(w, p) ==
    /\ group # "none"
    /\ \A k \in RowsFor(p) : joined[k].way # "roster"
    /\ Begin(w, Joining(p, FALSE, "roster", NoRow))
    /\ UNCHANGED joiningTables

(* approve_child_account: the check in Redis and the row, then the mark in Redis,
   which no rollback takes back, then the parent's group.  A child who is a member
   is not inserted again. *)
ApproveRead(w, q) ==
    /\ q \notin spent /\ Usable(q, "approval")
    /\ Begin(w, [op |-> "approve", pass |-> q])
    /\ UNCHANGED joiningTables

ApproveMark(w) ==
    /\ Open(w, "approve")
    /\ LET q == txn[w].pass  child == passes[q].child IN
         /\ spent' = spent \cup {q}
         /\ IF ~HasAdmin THEN End(w)
            ELSE Continue(w, [op |-> "join", pass |-> q,
                   rows |-> IF \E k \in RowsFor(child) : joined[k].linked THEN {}
                            ELSE {[person |-> child, linked |-> TRUE, way |-> "approval"]}])
    /\ UNCHANGED <<group, joined, passes>>

JoinWrite(w) ==
    /\ Open(w, "join")
    /\ IF txn[w].rows = {} THEN UNCHANGED joined
       ELSE Room(joined) /\ \E row \in txn[w].rows : joined' = Inserted(joined, row)
    /\ passes' = IF txn[w].pass = NoRow THEN passes
                 ELSE [passes EXCEPT ![txn[w].pass].used = TRUE,
                                     ![txn[w].pass].redeemed = IF @ < 2 THEN @ + 1 ELSE @]
    /\ End(w)
    /\ UNCHANGED <<group, spent>>

JoiningStep(w) ==
    \/ GroupRegistered(w) \/ GroupDeleted(w)
    \/ \E k \in MembershipId : MembershipEnded(w, k)
    \/ \E kind \in PassKind, child \in Member \cup {NoRow} : PassMade(w, kind, child)
    \/ \E p \in Member :
         \/ \E linked \in BOOLEAN : AddRead(w, p, linked) \/ ProvisionRead(w, p, linked)
         \/ \E q \in PassId : AcceptRead(w, q, p) \/ RedeemRead(w, q, p)
         \/ RosterRead(w, p)
    \/ \E q \in PassId : ApproveRead(w, q)
    \/ ApproveMark(w) \/ JoinWrite(w)
    \/ Abandon(w) /\ UNCHANGED joiningTables

JoiningNext ==
    \/ \E w \in Worker : JoiningStep(w)
    \/ \E q \in PassId : PassExpires(q)

JoiningSpec == JoiningInit /\ [][JoiningNext]_joiningVars

-----------------------------------------------------------------------------
(* "Maximum {cap} members per {group.type} group": as long as the group is live,
   those who were added, invited or provisioned never exceed the cap, although
   codes, approvals and the roster fill seats without a look at it.  Two
   sessions that read the last free seat exceed it. *)
WithinCap == ~overlap /\ group = "live" =>
    Cardinality({k \in Joined : joined[k].way \in Capped}) <= Cap

(* "Invitation is no longer valid", "Invite code has already been used", "Approval
   token has already been used": a pass is used up exactly by its redemption,
   whatever is abandoned and overlaps, and no pass is redeemed twice unless two
   sessions find it unused. *)
PassCountsOnce == \A q \in PassId : passes[q] # NoRow =>
    /\ passes[q].used <=> passes[q].redeemed > 0
    /\ ~overlap => passes[q].redeemed <= 1

(* Whoever joins has a seat or a pass of their own. *)
JoinedAsAllowed == WithinCap /\ PassCountsOnce
=============================================================================

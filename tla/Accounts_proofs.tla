--------------------------- MODULE Accounts_proofs ---------------------------
(***************************************************************************)
(* Proofs about the services that keep who a user is, belongs to and pays  *)
(* for: Joining, Credentials, Subscriptions, IdentityProtection and Spend, *)
(* for every set of passes, tokens, rows and accounts and any number of    *)
(* sessions.                                                               *)
(***************************************************************************)
EXTENDS Joining, Credentials, Subscriptions, IdentityProtection, Spend,
        Sessions_proofs, WellFoundedInduction

(***************************************************************************)
(* Joining. The cap on members is kept by who will still write: a session  *)
(* that is about to add a member has read that there is a seat, and that   *)
(* its pass is unused (JoiningCurrent). Nobody joins, and no pass but an   *)
(* approval is made, before the group is there (NoneBeforeGroup).          *)
(***************************************************************************)
JoiningBacked(t) ==
    /\ t.op = "approve" => passes[t.pass] # NoRow /\ passes[t.pass].child \in Member
    /\ t.op = "join" /\ t.pass # NoRow => passes[t.pass] # NoRow

JoiningCurrent(t) ==
    /\ t.op \in {"approve", "join"} /\ t.pass # NoRow => ~passes[t.pass].used
    /\ t.op = "join" => \A row \in t.rows : row.way \in Capped /\ group = "live" => SeatFree

NoneBeforeGroup == group = "none" =>
    /\ Joined = {}
    /\ \A q \in PassId : passes[q] # NoRow => passes[q].kind = "approval"
    /\ \A w \in Worker : ~Open(w, "join")

ApprovalsNameChild == \A q \in PassId :
    passes[q] # NoRow /\ passes[q].kind = "approval" => passes[q].child \in Member

JoiningInv ==
    /\ JoiningTypeOK
    /\ OneOpen
    /\ IsFiniteSet(Joined)
    /\ NoneBeforeGroup
    /\ ApprovalsNameChild
    /\ WithinCap
    /\ PassCountsOnce
    /\ \A w \in Worker : JoiningBacked(txn[w])
    /\ ~overlap => \A w \in Worker : JoiningCurrent(txn[w])

CappedRows == {k \in Joined : joined[k].way \in Capped}

LEMMA JoiningIdle == JoiningBacked(Idle) /\ JoiningCurrent(Idle) /\ Idle.op # "join"
BY IdleOp DEF JoiningBacked, JoiningCurrent

(* A pass that a session holds is one of the table. *)
LEMMA JoiningPass ==
    ASSUME JoiningTypeOK, NEW v \in Worker
    PROVE  /\ txn[v].op = "approve" => txn[v].pass \in PassId
           /\ txn[v].op = "join" /\ txn[v].pass # NoRow => txn[v].pass \in PassId
<1>1. txn[v] \in JoiningTxn
    BY DEF JoiningTypeOK
<1> QED
    BY <1>1, IdleOp DEF JoiningTxn

LEMMA JoiningInitially == JoiningInit => JoiningInv
<1> SUFFICES ASSUME JoiningInit PROVE JoiningInv
    OBVIOUS
<1> USE DEF JoiningInit, JoiningTablesInit, SessionsInit
<1>1. JoiningTypeOK
    BY DEF JoiningTypeOK, JoiningTxn
<1>2. OneOpen
    BY NoneOpen
<1>3. Joined = {} /\ \A q \in PassId : passes[q] = NoRow
    BY DEF Joined
<1>4. IsFiniteSet(Joined)
    BY <1>3, FS_EmptySet
<1>5. NoneBeforeGroup /\ ApprovalsNameChild
    BY <1>3, JoiningIdle DEF NoneBeforeGroup, ApprovalsNameChild, Open
<1>6. WithinCap /\ PassCountsOnce
    BY <1>3 DEF WithinCap, PassCountsOnce
<1>7. \A w \in Worker : JoiningBacked(txn[w]) /\ JoiningCurrent(txn[w])
    BY JoiningIdle
<1> QED
    BY <1>1, <1>2, <1>4, <1>5, <1>6, <1>7 DEF JoiningInv

(* A session that has read, and not written. *)
LEMMA JoiningReads ==
    ASSUME JoiningInv, NEW w \in Worker, NEW t \in JoiningTxn,
           txn' = [txn EXCEPT ![w] = t], OneOpen', overlap' = overlap,
           UNCHANGED <<group, joined, passes>>, spent' \subseteq PassId,
           JoiningBacked(t), ~overlap => JoiningCurrent(t),
           group = "none" => t.op # "join"
    PROVE  JoiningInv'
<1>t. JoiningTypeOK /\ txn \in [Worker -> JoiningTxn]
    BY DEF JoiningInv, JoiningTypeOK
<1>0. \A v \in Worker : txn'[v] = txn[v] \/ txn'[v] = t
    BY <1>t
<1>1. JoiningTypeOK'
    BY <1>t DEF JoiningTypeOK
<1>2. Joined' = Joined /\ (SeatFree <=> SeatFree')
    BY DEF Joined, SeatFree
<1>3. IsFiniteSet(Joined)'
    BY <1>2 DEF JoiningInv
<1>4. NoneBeforeGroup'
    BY <1>0, <1>2 DEF JoiningInv, NoneBeforeGroup, Open
<1>5. WithinCap' /\ PassCountsOnce' /\ ApprovalsNameChild'
    BY <1>2 DEF JoiningInv, WithinCap, PassCountsOnce, ApprovalsNameChild
<1>6. \A v \in Worker : JoiningBacked(txn[v])'
    BY <1>0 DEF JoiningInv, JoiningBacked
<1>7. overlap' \/ \A v \in Worker : JoiningCurrent(txn[v])'
    BY <1>0, <1>2 DEF JoiningInv, JoiningCurrent
<1> QED
    BY <1>1, <1>3, <1>4, <1>5, <1>6, <1>7 DEF JoiningInv

(* A step after which no session is open, where they do not overlap. *)
LEMMA JoiningWrites ==
    ASSUME JoiningInv, JoiningTypeOK', overlap' = overlap,
           \A v \in Worker : txn'[v] = Idle \/ (txn'[v] = txn[v] /\ overlap),
           \A q \in PassId : passes[q] # NoRow =>
             passes'[q] # NoRow /\ passes'[q].child = passes[q].child,
           IsFiniteSet(Joined)', ApprovalsNameChild', WithinCap', PassCountsOnce',
           group' = "none" => /\ group = "none" /\ Joined' = {}
                              /\ \A q \in PassId :
                                   passes'[q] # NoRow => passes'[q].kind = "approval"
    PROVE  JoiningInv'
<1>1. OneOpen'
    BY DEF JoiningInv, OneOpen
<1>2. NoneBeforeGroup'
    BY JoiningIdle DEF JoiningInv, NoneBeforeGroup, Open
<1>3. \A v \in Worker : JoiningBacked(txn[v])'
  <2> SUFFICES ASSUME NEW v \in Worker PROVE JoiningBacked(txn[v])'
    OBVIOUS
  <2>1. CASE txn'[v] = Idle
    BY <2>1, IdleOp DEF JoiningBacked
  <2>2. CASE txn'[v] = txn[v]
    <3>1. txn[v] \in JoiningTxn
        BY DEF JoiningInv, JoiningTypeOK
    <3>2. /\ txn[v].op = "approve" => txn[v].pass \in PassId
          /\ txn[v].op = "join" /\ txn[v].pass # NoRow => txn[v].pass \in PassId
        BY <3>1, IdleOp DEF JoiningTxn
    <3> QED
        BY <2>2, <3>2 DEF JoiningInv, JoiningBacked
  <2> QED
    BY <2>1, <2>2
<1>4. overlap' \/ \A v \in Worker : JoiningCurrent(txn[v])'
    BY IdleOp DEF JoiningCurrent
<1> QED
    BY <1>1, <1>2, <1>3, <1>4 DEF JoiningInv

(* Rows that go, and a new one. *)
LEMMA JoinedFewer ==
    ASSUME JoiningInv, overlap' = overlap, group' = "live" => group = "live",
           \A k \in MembershipId : joined'[k] = NoRow \/ joined'[k] = joined[k]
    PROVE  IsFiniteSet(Joined)' /\ WithinCap'
<1> USE DEF JoiningInv
<1>1. Joined' \subseteq Joined /\ CappedRows' \subseteq CappedRows /\ CappedRows \subseteq Joined
    BY DEF Joined, CappedRows
<1>2. IsFiniteSet(Joined)' /\ IsFiniteSet(CappedRows)
    BY <1>1, PartCount
<1>3. /\ Cardinality(CappedRows') <= Cardinality(CappedRows)
      /\ Cardinality(CappedRows') \in Nat /\ Cardinality(CappedRows) \in Nat
    BY <1>1, <1>2, PartCount
<1> QED
    BY <1>2, <1>3, CapAssumption DEF WithinCap, CappedRows

LEMMA JoinedOneMore ==
    ASSUME JoiningInv, NEW row \in Membership, joined' = Inserted(joined, row), Room(joined),
           overlap' = overlap, group' = "live" => group = "live",
           ~overlap /\ group = "live" => row.way \notin Capped \/ SeatFree
    PROVE  /\ joined' \in [MembershipId -> Membership \cup {NoRow}]
           /\ IsFiniteSet(Joined)' /\ WithinCap'
<1> USE DEF JoiningInv
<1>t. joined \in [MembershipId -> Membership \cup {NoRow}]
    BY DEF JoiningTypeOK
<1>1. PICK k \in MembershipId :
        /\ joined' \in [MembershipId -> Membership \cup {NoRow}]
        /\ joined'[k] = row
        /\ \A j \in MembershipId : j # k => joined'[j] = joined[j]
    BY <1>t, InsertedTable
<1>2. Joined' \subseteq Joined \cup {k} /\ CappedRows \subseteq Joined
    BY <1>1 DEF Joined, CappedRows
<1>3. /\ IsFiniteSet(Joined)' /\ IsFiniteSet(CappedRows)
      /\ Cardinality(CappedRows) \in Nat /\ Cardinality(Joined) \in Nat
      /\ Cardinality(CappedRows) <= Cardinality(Joined)
    BY <1>2, PartCount, OneMoreCount
<1>4. ASSUME ~overlap, group = "live" PROVE Cardinality(CappedRows') <= Cap
  <2>1. CASE row.way \notin Capped
    <3>1. CappedRows' \subseteq CappedRows
        BY <1>1, <2>1 DEF Joined, CappedRows
    <3>2. Cardinality(CappedRows') <= Cardinality(CappedRows) /\ Cardinality(CappedRows') \in Nat
        BY <1>3, <3>1, PartCount
    <3> QED
        BY <1>3, <1>4, <3>2, CapAssumption DEF WithinCap, CappedRows
  <2>2. CASE SeatFree
    <3>1. CappedRows' \subseteq CappedRows \cup {k}
        BY <1>1 DEF Joined, CappedRows
    <3>2. /\ Cardinality(CappedRows') <= Cardinality(CappedRows) + 1
          /\ Cardinality(CappedRows') \in Nat
        BY <1>3, <3>1, OneMoreCount
    <3> QED
        BY <1>3, <2>2, <3>2, CapAssumption DEF SeatFree
  <2> QED
    BY <1>4, <2>1, <2>2
<1> QED
    BY <1>1, <1>3, <1>4 DEF WithinCap, CappedRows

(* Each step. *)
LEMMA GroupRegisteredStep ==
    ASSUME JoiningInv, NEW w \in Worker, GroupRegistered(w) PROVE JoiningInv'
<1> DEFINE row == [person |-> Owner, linked |-> TRUE, way |-> "owner"]
<1>t. JoiningTypeOK /\ txn \in [Worker -> JoiningTxn]
    BY DEF JoiningInv, JoiningTypeOK
<1>1. Joined = {} /\ row \in Membership /\ row.way \notin Capped
    BY DEF JoiningInv, NoneBeforeGroup, GroupRegistered, Membership, Way, Capped
<1>2. joined' = Inserted(joined, row)
    BY DEF GroupRegistered
<1> HIDE DEF row
<1>3. joined' \in [MembershipId -> Membership \cup {NoRow}] /\ \E k : Joined' \subseteq {k}
  <2>1. CASE Room(joined)
    <3>1. joined \in [MembershipId -> Membership \cup {NoRow}]
        BY <1>t DEF JoiningTypeOK
    <3>2. PICK k \in MembershipId :
            /\ joined' \in [MembershipId -> Membership \cup {NoRow}]
            /\ \A j \in MembershipId : j # k => joined'[j] = joined[j]
        BY <1>1, <1>2, <2>1, <3>1, InsertedTable
    <3> QED
        BY <1>1, <3>2 DEF Joined
  <2>2. CASE ~Room(joined)
    BY <1>t, <1>1, <1>2, <2>2 DEF JoiningTypeOK, Joined, Inserted, Room
  <2> QED
    BY <2>1, <2>2
<1>4. CappedRows' = {}
    BY <1>t, <1>1, <1>2 DEF CappedRows, Joined, Inserted, JoiningTypeOK
<1>5. IsFiniteSet(Joined)'
    BY <1>3, FS_Singleton, FS_Subset
<1>6. WithinCap'
    BY <1>4, FS_EmptySet, CapAssumption DEF WithinCap, CappedRows
<1>7. JoiningTypeOK' /\ PassCountsOnce' /\ ApprovalsNameChild' /\ group' # "none"
    BY <1>t, <1>3 DEF GroupRegistered, sessions, JoiningTypeOK, PassCountsOnce,
       ApprovalsNameChild, JoiningInv
<1>8. overlap' = overlap /\ \A v \in Worker : txn'[v] = Idle \/ (txn'[v] = txn[v] /\ overlap)
    BY <1>t, FreeLeaves DEF GroupRegistered
<1>9. passes' = passes
    BY DEF GroupRegistered
<1> QED
    BY <1>5, <1>6, <1>7, <1>8, <1>9, JoiningWrites

LEMMA GroupDeletedStep ==
    ASSUME JoiningInv, NEW w \in Worker, GroupDeleted(w) PROVE JoiningInv'
<1>t. JoiningTypeOK /\ txn \in [Worker -> JoiningTxn]
    BY DEF JoiningInv, JoiningTypeOK
<1>1. /\ group' = "deleted" /\ joined' = joined /\ passes' = passes
      /\ overlap' = overlap /\ txn' = txn
    BY DEF GroupDeleted, sessions
<1>2. JoiningTypeOK'
    BY <1>t, <1>1 DEF GroupDeleted, JoiningTypeOK
<1>3. IsFiniteSet(Joined)' /\ WithinCap' /\ PassCountsOnce' /\ ApprovalsNameChild'
    BY <1>1 DEF JoiningInv, Joined, WithinCap, PassCountsOnce, ApprovalsNameChild
<1>4. \A v \in Worker : txn'[v] = Idle \/ (txn'[v] = txn[v] /\ overlap)
    BY <1>t, FreeLeaves DEF GroupDeleted
<1> QED
    BY <1>1, <1>2, <1>3, <1>4, JoiningWrites

LEMMA MembershipEndedStep ==
    ASSUME JoiningInv, NEW w \in Worker, NEW k \in MembershipId, MembershipEnded(w, k)
    PROVE  JoiningInv'
<1>t. JoiningTypeOK /\ txn \in [Worker -> JoiningTxn]
    BY DEF JoiningInv, JoiningTypeOK
<1>1. /\ joined' = [joined EXCEPT ![k] = NoRow] /\ group' = group /\ passes' = passes
      /\ overlap' = overlap /\ txn' = txn /\ Joined # {}
    BY DEF MembershipEnded, sessions
<1>2. JoiningTypeOK' /\ \A j \in MembershipId : joined'[j] = NoRow \/ joined'[j] = joined[j]
    BY <1>t, <1>1 DEF MembershipEnded, JoiningTypeOK
<1>3. IsFiniteSet(Joined)' /\ WithinCap'
    BY <1>1, <1>2, JoinedFewer
<1>4. PassCountsOnce' /\ ApprovalsNameChild' /\ group # "none"
    BY <1>1 DEF JoiningInv, PassCountsOnce, ApprovalsNameChild, NoneBeforeGroup
<1>5. \A v \in Worker : txn'[v] = Idle \/ (txn'[v] = txn[v] /\ overlap)
    BY <1>t, FreeLeaves DEF MembershipEnded
<1> QED
    BY <1>1, <1>2, <1>3, <1>4, <1>5, JoiningWrites

LEMMA PassMadeStep ==
    ASSUME JoiningInv, NEW w \in Worker, NEW kind \in PassKind, NEW child \in Member \cup {NoRow},
           PassMade(w, kind, child)
    PROVE  JoiningInv'
<1> DEFINE row == [kind |-> kind, child |-> child, used |-> FALSE, fresh |-> TRUE,
                   redeemed |-> 0]
<1>t. JoiningTypeOK /\ txn \in [Worker -> JoiningTxn]
    BY DEF JoiningInv, JoiningTypeOK
<1>1. /\ row \in Pass /\ row.kind = kind /\ ~row.used /\ row.redeemed = 0
      /\ kind = "approval" => row.child \in Member
      /\ passes' = Inserted(passes, row) /\ Room(passes)
    BY DEF PassMade, Pass
<1>2. /\ joined' = joined /\ group' = group /\ overlap' = overlap /\ txn' = txn
    BY DEF PassMade, sessions
<1>3. group = "none" => kind = "approval"
    BY DEF PassMade, HasAdmin, RowsFor, JoiningInv, NoneBeforeGroup, PassKind
<1> HIDE DEF row
<1>4. PICK n \in PassId :
        /\ passes' \in [PassId -> Pass \cup {NoRow}]
        /\ passes'[n] = row /\ passes[n] = NoRow
        /\ \A q \in PassId : q # n => passes'[q] = passes[q]
  <2>1. passes \in [PassId -> Pass \cup {NoRow}]
    BY <1>t DEF JoiningTypeOK
  <2>0. row \in Pass /\ passes' = Inserted(passes, row) /\ Room(passes)
    BY <1>1
  <2>2. passes' \in [PassId -> Pass \cup {NoRow}]
    BY <2>0, <2>1, InsertedTable
  <2>3. \E n \in PassId : /\ passes[n] = NoRow
                         /\ passes'[n] = row
                         /\ \A q \in PassId : q # n => passes'[q] = passes[q]
    BY <2>0, <2>1, AfterInsert
  <2> QED
    BY <2>2, <2>3
<1>5. JoiningTypeOK'
    BY <1>t, <1>2, <1>4 DEF PassMade, JoiningTypeOK
<1>6. PassCountsOnce' /\ ApprovalsNameChild'
    BY <1>1, <1>2, <1>4 DEF JoiningInv, PassCountsOnce, ApprovalsNameChild
<1>7. IsFiniteSet(Joined)' /\ WithinCap' /\ Joined' = Joined
    BY <1>2 DEF JoiningInv, WithinCap, Joined
<1>8. \A v \in Worker : txn'[v] = Idle \/ (txn'[v] = txn[v] /\ overlap)
    BY <1>t, FreeLeaves DEF PassMade
<1>9. group' = "none" => /\ group = "none" /\ Joined' = {}
                         /\ \A q \in PassId : passes'[q] # NoRow => passes'[q].kind = "approval"
    BY <1>1, <1>2, <1>3, <1>4, <1>7 DEF JoiningInv, NoneBeforeGroup
<1>10. \A q \in PassId : passes[q] # NoRow =>
         passes'[q] # NoRow /\ passes'[q].child = passes[q].child
    BY <1>4
<1> QED
    BY <1>2, <1>5, <1>6, <1>7, <1>8, <1>9, <1>10, JoiningWrites

LEMMA PassExpiresStep ==
    ASSUME JoiningInv, NEW q \in PassId, PassExpires(q) PROVE JoiningInv'
<1>t. JoiningTypeOK /\ passes \in [PassId -> Pass \cup {NoRow}]
    BY DEF JoiningInv, JoiningTypeOK
<1>0. passes[q] \in Pass
    BY <1>t DEF PassExpires
<1>1. /\ joined' = joined /\ group' = group /\ overlap' = overlap /\ txn' = txn
      /\ spent' = spent /\ passes' = [passes EXCEPT ![q].fresh = FALSE]
    BY DEF PassExpires, sessions
<1>2. /\ passes' \in [PassId -> Pass \cup {NoRow}]
      /\ \A n \in PassId : n # q => passes'[n] = passes[n]
      /\ passes'[q] \in Pass
      /\ passes'[q].used = passes[q].used
      /\ passes'[q].redeemed = passes[q].redeemed
      /\ passes'[q].kind = passes[q].kind /\ passes'[q].child = passes[q].child
    BY <1>t, <1>0, <1>1 DEF Pass
<1>3. JoiningTypeOK'
    BY <1>t, <1>1, <1>2 DEF JoiningTypeOK
<1>4. \A n \in PassId : /\ (passes'[n] = NoRow <=> passes[n] = NoRow)
                        /\ passes[n] # NoRow =>
                             /\ passes'[n].used = passes[n].used
                             /\ passes'[n].redeemed = passes[n].redeemed
                             /\ passes'[n].kind = passes[n].kind
                             /\ passes'[n].child = passes[n].child
    BY <1>0, <1>2, PassAssumption
<1>5. Joined' = Joined /\ (SeatFree' <=> SeatFree)
    BY <1>1 DEF Joined, SeatFree
<1>6. OneOpen' /\ IsFiniteSet(Joined)' /\ WithinCap'
    BY <1>1, <1>5 DEF JoiningInv, OneOpen, WithinCap
<1>7. NoneBeforeGroup' /\ PassCountsOnce' /\ ApprovalsNameChild'
    BY <1>1, <1>4, <1>5
    DEF JoiningInv, NoneBeforeGroup, Open, PassCountsOnce, ApprovalsNameChild
<1>8. ASSUME NEW v \in Worker
      PROVE  /\ JoiningBacked(txn[v])'
             /\ ~overlap => JoiningCurrent(txn[v])'
  <2>1. /\ txn[v].op = "approve" => txn[v].pass \in PassId
        /\ txn[v].op = "join" /\ txn[v].pass # NoRow => txn[v].pass \in PassId
    BY <1>t, JoiningPass
  <2> QED
    BY <1>1, <1>4, <1>5, <2>1 DEF JoiningInv, JoiningBacked, JoiningCurrent
<1> QED
    BY <1>1, <1>3, <1>6, <1>7, <1>8 DEF JoiningInv

(* The steps that read. *)
LEMMA JoiningReadSteps ==
    ASSUME JoiningInv, NEW w \in Worker, NEW t, Begin(w, t), UNCHANGED joiningTables,
           t \in JoiningTxn, JoiningBacked(t), JoiningCurrent(t),
           group = "none" => t.op # "join"
    PROVE  JoiningInv'
<1>t. JoiningTypeOK /\ txn \in [Worker -> JoiningTxn] /\ OneOpen /\ spent \subseteq PassId
    BY DEF JoiningInv, JoiningTypeOK
<1>1. OneOpen'
    BY <1>t, BeginKeepsOne
<1>2. /\ txn' = [txn EXCEPT ![w] = t] /\ overlap' = overlap
      /\ UNCHANGED <<group, joined, passes>> /\ spent' \subseteq PassId
    BY <1>t DEF Begin, joiningTables
<1> QED
    BY <1>1, <1>2, JoiningReads

LEMMA JoinRead ==
    ASSUME JoiningInv, NEW w \in Worker, NEW p \in Member, NEW linked \in BOOLEAN,
           NEW way \in Way, NEW q \in PassId \cup {NoRow},
           q # NoRow => passes[q] # NoRow /\ ~passes[q].used,
           way \in Capped /\ group = "live" => SeatFree,
           group # "none",
           Begin(w, Joining(p, linked, way, q)), UNCHANGED joiningTables
    PROVE  JoiningInv'
<1> DEFINE t == Joining(p, linked, way, q)
<1>1. [person |-> p, linked |-> linked, way |-> way] \in Membership
    BY DEF Membership
<1>2. t \in JoiningTxn /\ JoiningBacked(t) /\ JoiningCurrent(t)
    BY <1>1 DEF Joining, JoiningTxn, JoiningBacked, JoiningCurrent
<1> HIDE DEF t
<1> QED
    BY <1>2, JoiningReadSteps DEF t

LEMMA PassNeedsGroup ==
    ASSUME JoiningInv, NEW q \in PassId, Usable(q, "invitation") \/ Usable(q, "code")
    PROVE  group # "none" /\ passes[q] # NoRow /\ ~passes[q].used
BY DEF Usable, JoiningInv, NoneBeforeGroup

LEMMA MemberReads ==
    ASSUME JoiningInv, NEW w \in Worker, NEW p \in Member,
           \/ \E linked \in BOOLEAN : AddRead(w, p, linked) \/ ProvisionRead(w, p, linked)
           \/ RosterRead(w, p)
    PROVE  JoiningInv'
<1>1. "added" \in Way /\ "provisioned" \in Way /\ "roster" \in Way /\ "roster" \notin Capped
    BY DEF Way, Capped
<1>2. ASSUME NEW linked \in BOOLEAN, AddRead(w, p, linked) PROVE JoiningInv'
    BY <1>1, <1>2, JoinRead DEF AddRead
<1>3. ASSUME NEW linked \in BOOLEAN, ProvisionRead(w, p, linked) PROVE JoiningInv'
    BY <1>1, <1>3, JoinRead DEF ProvisionRead
<1>4. CASE RosterRead(w, p)
    BY <1>1, <1>4, JoinRead DEF RosterRead
<1> QED
    BY <1>2, <1>3, <1>4

LEMMA PassReads ==
    ASSUME JoiningInv, NEW w \in Worker, NEW p \in Member, NEW q \in PassId,
           AcceptRead(w, q, p) \/ RedeemRead(w, q, p)
    PROVE  JoiningInv'
<1>1. "invitation" \in Way /\ "code" \in Way /\ "code" \notin Capped
    BY DEF Way, PassKind, Capped
<1>2. CASE AcceptRead(w, q, p)
    BY <1>1, <1>2, JoinRead, PassNeedsGroup DEF AcceptRead
<1>3. CASE RedeemRead(w, q, p)
    BY <1>1, <1>3, JoinRead, PassNeedsGroup DEF RedeemRead
<1> QED
    BY <1>2, <1>3

LEMMA ApproveReadStep ==
    ASSUME JoiningInv, NEW w \in Worker, NEW q \in PassId, ApproveRead(w, q) PROVE JoiningInv'
<1> DEFINE t == [op |-> "approve", pass |-> q]
<1>1. t \in JoiningTxn /\ t.op # "join"
    BY DEF JoiningTxn
<1>2. JoiningBacked(t) /\ JoiningCurrent(t)
    BY DEF JoiningBacked, JoiningCurrent, ApproveRead, Usable, JoiningInv, ApprovalsNameChild
<1>3. Begin(w, t) /\ UNCHANGED joiningTables
    BY DEF ApproveRead
<1> HIDE DEF t
<1> QED
    BY <1>1, <1>2, <1>3, JoiningReadSteps

LEMMA ApproveMarkStep ==
    ASSUME JoiningInv, NEW w \in Worker, ApproveMark(w) PROVE JoiningInv'
<1>t. JoiningTypeOK /\ txn \in [Worker -> JoiningTxn] /\ OneOpen
    BY DEF JoiningInv, JoiningTypeOK
<1>0. txn[w] \in [op: {"approve"}, pass: PassId] /\ txn[w] # Idle
  <2>1. txn[w] \in JoiningTxn /\ txn[w].op = "approve"
    BY <1>t DEF ApproveMark, Open
  <2> QED
    BY <2>1, IdleOp DEF JoiningTxn
<1> DEFINE q == txn[w].pass
           rows == IF \E k \in RowsFor(passes[q].child) : joined[k].linked THEN {}
                   ELSE {[person |-> passes[q].child, linked |-> TRUE, way |-> "approval"]}
           t == [op |-> "join", pass |-> q, rows |-> rows]
<1>1. /\ q \in PassId /\ passes[q] # NoRow /\ passes[q].child \in Member
      /\ ~overlap /\ q # NoRow => ~passes[q].used
    BY <1>0 DEF JoiningInv, JoiningBacked, JoiningCurrent
<1>2. /\ UNCHANGED <<group, joined, passes>> /\ spent' \subseteq PassId
      /\ IF HasAdmin THEN Continue(w, t) ELSE End(w)
    BY <1>t, <1>1 DEF ApproveMark, JoiningTypeOK
<1>3. CASE ~HasAdmin
  <2>1. End(w)
    BY <1>2, <1>3
  <2>2. OneOpen'
    BY <1>t, <2>1, EndKeepsOne
  <2>3. Idle \in JoiningTxn /\ JoiningBacked(Idle) /\ JoiningCurrent(Idle) /\ Idle.op # "join"
    BY JoiningIdle DEF JoiningTxn
  <2> QED
    BY <1>2, <2>1, <2>2, <2>3, JoiningReads DEF End
<1>4. CASE HasAdmin
  <2>1. Continue(w, t)
    BY <1>2, <1>4
  <2>2. OneOpen'
    BY <1>t, <1>0, <2>1, ContinueKeepsOne
  <2>3. rows \in {{}} \cup {{m} : m \in Membership} /\ \A row \in rows : row.way \notin Capped
    <3> DEFINE new == [person |-> passes[q].child, linked |-> TRUE, way |-> "approval"]
    <3>1. new \in Membership /\ new.way \notin Capped
        BY <1>1 DEF Membership, Way, PassKind, Capped
    <3>2. rows = {} \/ rows = {new}
        OBVIOUS
    <3> HIDE DEF new, rows
    <3> QED
        BY <3>1, <3>2
  <2>4. group # "none"
    BY <1>4 DEF HasAdmin, RowsFor, JoiningInv, NoneBeforeGroup
  <2> HIDE DEF rows
  <2>5. t \in JoiningTxn
    BY <1>1, <2>3 DEF JoiningTxn
  <2>6. JoiningBacked(t) /\ (~overlap => JoiningCurrent(t))
    BY <1>1, <2>3 DEF JoiningBacked, JoiningCurrent
  <2>7. txn' = [txn EXCEPT ![w] = t] /\ overlap' = overlap
    BY <2>1 DEF Continue
  <2> HIDE DEF t
  <2> QED
    BY <1>2, <2>2, <2>4, <2>5, <2>6, <2>7, JoiningReads
<1> QED
    BY <1>3, <1>4

LEMMA JoinWriteStep ==
    ASSUME JoiningInv, NEW w \in Worker, JoinWrite(w) PROVE JoiningInv'
<1>t. /\ JoiningTypeOK /\ txn \in [Worker -> JoiningTxn] /\ OneOpen
      /\ passes \in [PassId -> Pass \cup {NoRow}]
    BY DEF JoiningInv, JoiningTypeOK
<1>0. /\ txn[w] \in [op: {"join"}, rows: {{}} \cup {{m} : m \in Membership},
                    pass: PassId \cup {NoRow}]
      /\ txn[w] # Idle /\ txn[w].op = "join"
  <2>1. txn[w] \in JoiningTxn /\ txn[w].op = "join"
    BY <1>t DEF JoinWrite, Open
  <2> QED
    BY <2>1, IdleOp DEF JoiningTxn
<1>1. PICK q \in PassId \cup {NoRow}, rows \in {{}} \cup {{m} : m \in Membership} :
        q = txn[w].pass /\ rows = txn[w].rows
    BY <1>0
<1>2. /\ q # NoRow => passes[q] # NoRow
      /\ ~overlap /\ q # NoRow => ~passes[q].used
      /\ ~overlap /\ group = "live" => \A row \in rows : row.way \in Capped => SeatFree
      /\ group # "none"
    BY <1>0, <1>1
    DEF JoiningInv, JoiningBacked, JoiningCurrent, NoneBeforeGroup, JoinWrite
<1>3. /\ group' = group /\ spent' = spent /\ End(w)
      /\ passes' = IF q = NoRow THEN passes
                   ELSE [passes EXCEPT ![q].used = TRUE,
                                       ![q].redeemed = IF @ < 2 THEN @ + 1 ELSE @]
      /\ \/ joined' = joined
         \/ Room(joined) /\ \E row \in rows : joined' = Inserted(joined, row)
    BY <1>1 DEF JoinWrite
<1>4. /\ overlap' = overlap /\ txn' \in [Worker -> JoiningTxn]
      /\ \A v \in Worker : txn'[v] = Idle \/ (txn'[v] = txn[v] /\ overlap)
  <2>1. Idle \in JoiningTxn
    BY DEF JoiningTxn
  <2> QED
    BY <1>t, <1>0, <1>3, <2>1, EndLeaves
<1>5. /\ joined' \in [MembershipId -> Membership \cup {NoRow}]
      /\ IsFiniteSet(Joined)' /\ WithinCap'
  <2>1. CASE joined' = joined
    BY <1>t, <1>3, <1>4, <2>1 DEF JoiningTypeOK, JoiningInv, Joined, WithinCap
  <2>2. ASSUME Room(joined), NEW row \in rows, joined' = Inserted(joined, row)
        PROVE  <1>5!:
    <3>1. row \in Membership
        BY <1>1
    <3> QED
        BY <1>2, <1>3, <1>4, <2>2, <3>1, JoinedOneMore
  <2> QED
    BY <1>3, <2>1, <2>2
<1>6. /\ passes' \in [PassId -> Pass \cup {NoRow}]
      /\ \A n \in PassId :
           \/ passes'[n] = passes[n]
           \/ /\ passes[n] # NoRow /\ passes'[n] # NoRow
              /\ passes'[n].used /\ passes'[n].redeemed > 0
              /\ ~overlap => passes'[n].redeemed <= 1
              /\ passes'[n].kind = passes[n].kind /\ passes'[n].child = passes[n].child
  <2>1. CASE q = NoRow
    BY <1>t, <1>3, <2>1
  <2>2. CASE q # NoRow
    <3>1. q \in PassId /\ passes[q] \in Pass
        BY <1>t, <1>2, <2>2
    <3>2. /\ passes[q].redeemed \in 0..2
          /\ ~overlap => passes[q].redeemed = 0
        BY <1>2, <2>2, <3>1 DEF Pass, JoiningInv, PassCountsOnce
    <3>3. /\ passes' \in [PassId -> Pass \cup {NoRow}] /\ passes'[q] \in Pass
          /\ \A n \in PassId : n # q => passes'[n] = passes[n]
          /\ passes'[q].used
          /\ passes'[q].redeemed =
               IF passes[q].redeemed < 2 THEN passes[q].redeemed + 1 ELSE passes[q].redeemed
          /\ passes'[q].kind = passes[q].kind /\ passes'[q].child = passes[q].child
      <4>1. PICK n \in 0..2 :
              n = IF passes[q].redeemed < 2 THEN passes[q].redeemed + 1 ELSE passes[q].redeemed
        BY <3>2
      <4>2. passes'[q] = [passes[q] EXCEPT !.used = TRUE, !.redeemed = n]
        BY <1>t, <1>3, <2>2, <3>1, <4>1 DEF Pass
      <4>3. \A m \in PassId : m # q => passes'[m] = passes[m]
        BY <1>t, <1>3, <2>2
      <4>4. /\ passes'[q] \in Pass /\ passes'[q].used /\ passes'[q].redeemed = n
            /\ passes'[q].kind = passes[q].kind /\ passes'[q].child = passes[q].child
        BY <3>1, <4>2 DEF Pass
      <4>5. passes' = [m \in PassId |-> passes'[m]]
        BY <1>t, <1>3, <2>2
      <4> QED
        BY <1>t, <4>1, <4>3, <4>4, <4>5
    <3>4. passes'[q].redeemed > 0 /\ (~overlap => passes'[q].redeemed <= 1)
        BY <3>2, <3>3
    <3> QED
        BY <1>2, <2>2, <3>3, <3>4, PassAssumption
  <2> QED
    BY <2>1, <2>2
<1>7. JoiningTypeOK'
    BY <1>t, <1>3, <1>4, <1>5, <1>6 DEF JoiningTypeOK
<1>8. PassCountsOnce' /\ ApprovalsNameChild'
  <2>1. PassCountsOnce'
    BY <1>4, <1>6 DEF JoiningInv, PassCountsOnce
  <2>2. ApprovalsNameChild'
    BY <1>6 DEF JoiningInv, ApprovalsNameChild
  <2> QED
    BY <2>1, <2>2
<1>9. \A n \in PassId : passes[n] # NoRow =>
         passes'[n] # NoRow /\ passes'[n].child = passes[n].child
    BY <1>6
<1> QED
    BY <1>2, <1>3, <1>4, <1>5, <1>7, <1>8, <1>9, JoiningWrites

LEMMA JoiningAbandonStep ==
    ASSUME JoiningInv, NEW w \in Worker, Abandon(w), UNCHANGED joiningTables PROVE JoiningInv'
<1>t. JoiningTypeOK /\ txn \in [Worker -> JoiningTxn] /\ OneOpen /\ spent \subseteq PassId
    BY DEF JoiningInv, JoiningTypeOK
<1>1. OneOpen'
    BY <1>t, EndKeepsOne DEF Abandon
<1>2. /\ txn' = [txn EXCEPT ![w] = Idle] /\ overlap' = overlap
      /\ UNCHANGED <<group, joined, passes>> /\ spent' \subseteq PassId
    BY <1>t DEF Abandon, End, joiningTables
<1>3. Idle \in JoiningTxn
    BY DEF JoiningTxn
<1> QED
    BY <1>1, <1>2, <1>3, JoiningIdle, JoiningReads

LEMMA JoiningInvStep == JoiningInv /\ JoiningNext => JoiningInv'
<1>1. ASSUME JoiningInv, NEW w \in Worker, JoiningStep(w) PROVE JoiningInv'
  <2>1. CASE GroupRegistered(w) \/ GroupDeleted(w)
    BY <1>1, <2>1, GroupRegisteredStep, GroupDeletedStep
  <2>2. CASE \E k \in MembershipId : MembershipEnded(w, k)
    BY <1>1, <2>2, MembershipEndedStep
  <2>3. CASE \E kind \in PassKind, child \in Member \cup {NoRow} : PassMade(w, kind, child)
    BY <1>1, <2>3, PassMadeStep
  <2>4. CASE \E p \in Member :
               \/ \E linked \in BOOLEAN : AddRead(w, p, linked) \/ ProvisionRead(w, p, linked)
               \/ RosterRead(w, p)
    BY <1>1, <2>4, MemberReads
  <2>5. CASE \E p \in Member, q \in PassId : AcceptRead(w, q, p) \/ RedeemRead(w, q, p)
    BY <1>1, <2>5, PassReads
  <2>6. CASE \E q \in PassId : ApproveRead(w, q)
    BY <1>1, <2>6, ApproveReadStep
  <2>7. CASE ApproveMark(w) \/ JoinWrite(w)
    BY <1>1, <2>7, ApproveMarkStep, JoinWriteStep
  <2>8. CASE Abandon(w) /\ UNCHANGED joiningTables
    BY <1>1, <2>8, JoiningAbandonStep
  <2> QED
    BY <1>1, <2>1, <2>2, <2>3, <2>4, <2>5, <2>6, <2>7, <2>8 DEF JoiningStep
<1> QED
    BY <1>1, PassExpiresStep DEF JoiningNext

LEMMA JoiningInvStutter == JoiningInv /\ UNCHANGED joiningVars => JoiningInv'
<1> SUFFICES ASSUME JoiningInv, UNCHANGED joiningVars PROVE JoiningInv'
    OBVIOUS
<1>1. /\ group' = group /\ joined' = joined /\ passes' = passes /\ spent' = spent
      /\ txn' = txn /\ overlap' = overlap
    BY DEF joiningVars
<1>2. JoiningTypeOK' /\ OneOpen' /\ IsFiniteSet(Joined)' /\ NoneBeforeGroup'
    BY <1>1 DEF JoiningInv, JoiningTypeOK, OneOpen, Joined, NoneBeforeGroup, Open
<1>3. ApprovalsNameChild' /\ WithinCap' /\ PassCountsOnce'
    BY <1>1 DEF JoiningInv, ApprovalsNameChild, Joined, WithinCap, PassCountsOnce
<1>4. \A w \in Worker : JoiningBacked(txn[w])' /\ (overlap \/ JoiningCurrent(txn[w])')
    BY <1>1 DEF JoiningInv, JoiningBacked, JoiningCurrent, SeatFree, Joined
<1> QED
    BY <1>1, <1>2, <1>3, <1>4 DEF JoiningInv

THEOREM JoinedWithLeave == JoiningSpec => []JoinedAsAllowed
<1>1. JoiningInv /\ [JoiningNext]_joiningVars => JoiningInv'
    BY JoiningInvStep, JoiningInvStutter
<1>2. JoiningInv => JoinedAsAllowed
    BY DEF JoiningInv, JoinedAsAllowed
<1> QED
    BY <1>1, <1>2, JoiningInitially, PTL DEF JoiningSpec

-----------------------------------------------------------------------------
(***************************************************************************)
(* Credentials. OneGrantEach needs to know of an open session that the     *)
(* rows it will change are there (CredentialsBacked) and, where it runs    *)
(* alone, that the password, the code and the token it has read are still  *)
(* what they were (CredentialsCurrent); and of a code that was never       *)
(* exchanged that no token stems from it.                                  *)
(***************************************************************************)
CredentialsBacked(t) ==
    /\ t.op = "pair" => setups[t.setup] # NoRow
    /\ t.op = "refresh" => tokens[t.token] # NoRow
    /\ t.op = "exchange" => codes[t.code] = "gone"

CredentialsCurrent(t) ==
    /\ t.op = "login" => t.password = password
    /\ t.op = "exchange" => \A k \in TokenId : tokens[k] # NoRow => tokens[k].code # t.code
    /\ t.op = "refresh" => ~tokens[t.token].revoked

PairedOnce == \A s \in SetupId :
    devices[s] = 1 \/ (devices[s] = 0 /\ (setups[s] # NoRow => ~setups[s].used))

NoneBeforeExchange == \A k \in TokenId : tokens[k] # NoRow => codes[tokens[k].code] = "gone"

OneLive == ~overlap => \A c \in CodeId : \A j, k \in LivePairs(c) : j = k

LoginsCurrent == ~overlap => \A l \in LoginId : logins[l] # NoRow => logins[l].password = password

CredentialsInv ==
    /\ CredentialsTypeOK
    /\ OneOpen
    /\ PairedOnce
    /\ NoneBeforeExchange
    /\ OneLive
    /\ LoginsCurrent
    /\ \A w \in Worker : CredentialsBacked(txn[w])
    /\ ~overlap => \A w \in Worker : CredentialsCurrent(txn[w])

LEMMA CredentialsInitially == CredentialsInit => CredentialsInv
<1> SUFFICES ASSUME CredentialsInit PROVE CredentialsInv
    OBVIOUS
<1> USE DEF CredentialsInit, CredentialsTablesInit, SessionsInit
<1>1. CredentialsTypeOK
    BY DEF CredentialsTypeOK, CredentialsTxn, Password, Reset
<1>2. OneOpen
    BY NoneOpen
<1>3. PairedOnce /\ NoneBeforeExchange /\ OneLive /\ LoginsCurrent
    BY DEF PairedOnce, NoneBeforeExchange, OneLive, LoginsCurrent, LivePairs
<1>4. \A w \in Worker : CredentialsBacked(txn[w]) /\ CredentialsCurrent(txn[w])
    BY IdleOp DEF CredentialsBacked, CredentialsCurrent
<1> QED
    BY <1>1, <1>2, <1>3, <1>4 DEF CredentialsInv

(* What an open session has read. *)
LEMMA CredentialsReads ==
    ASSUME CredentialsTypeOK, NEW w \in Worker
    PROVE  /\ txn[w].op \in {"reset", "marked"} => txn[w].reset \in ResetId
           /\ txn[w].op = "login" => txn[w].password \in Password
           /\ txn[w].op = "pair" => txn[w].setup \in SetupId
           /\ txn[w].op = "exchange" => txn[w].code \in CodeId
           /\ txn[w].op = "refresh" => txn[w].token \in TokenId
BY IdleOp DEF CredentialsTypeOK, CredentialsTxn

-----------------------------------------------------------------------------
(* A session that begins or goes on, and at most takes a code or marks a reset. *)
LEMMA ProceedStep ==
    ASSUME CredentialsInv, CredentialsTypeOK', OneOpen', overlap' = overlap,
           UNCHANGED <<password, logins, setups, devices, tokens>>,
           \A c \in CodeId : codes[c] = "gone" => codes'[c] = "gone",
           NEW w \in Worker, NEW t \in CredentialsTxn, txn' = [txn EXCEPT ![w] = t],
           CredentialsBacked(t)', CredentialsCurrent(t)
    PROVE  CredentialsInv'
<1>0. CredentialsTypeOK
    BY DEF CredentialsInv
<1>1. \A v \in Worker : txn'[v] = txn[v] \/ txn'[v] = t
    BY <1>0 DEF CredentialsTypeOK
<1>2. PairedOnce' /\ OneLive' /\ LoginsCurrent'
    BY DEF CredentialsInv, PairedOnce, OneLive, LoginsCurrent, LivePairs
<1>3. NoneBeforeExchange'
    BY <1>0 DEF CredentialsInv, NoneBeforeExchange, CredentialsTypeOK, Token
<1>4. ASSUME NEW v \in Worker PROVE CredentialsBacked(txn[v])'
    BY <1>0, <1>1, CredentialsReads DEF CredentialsInv, CredentialsBacked
<1>5. ASSUME NEW v \in Worker, ~overlap PROVE CredentialsCurrent(txn[v])'
    BY <1>1, <1>5 DEF CredentialsInv, CredentialsCurrent
<1> QED
    BY <1>2, <1>3, <1>4, <1>5 DEF CredentialsInv

LEMMA CredentialsBeginStep ==
    ASSUME CredentialsInv, UNCHANGED credentialsTables, NEW w \in Worker,
           NEW t \in CredentialsTxn, Begin(w, t), CredentialsBacked(t), CredentialsCurrent(t)
    PROVE  CredentialsInv'
<1>0. CredentialsTypeOK /\ OneOpen
    BY DEF CredentialsInv
<1>1. CredentialsTypeOK'
    BY <1>0 DEF CredentialsTypeOK, credentialsTables, Begin
<1>2. OneOpen'
    BY <1>0, BeginKeepsOne DEF CredentialsTypeOK
<1>3. CredentialsBacked(t)'
    BY DEF CredentialsBacked, credentialsTables
<1> QED
    BY <1>1, <1>2, <1>3, ProceedStep DEF Begin, credentialsTables

(* A step that ends a session or is one by itself. *)
LEMMA CredentialsCommitStep ==
    ASSUME CredentialsInv, CredentialsTypeOK', overlap' = overlap,
           \A v \in Worker : txn'[v] = Idle \/ (txn'[v] = txn[v] /\ overlap),
           \A s \in SetupId : setups[s] # NoRow => setups'[s] # NoRow,
           \A k \in TokenId : tokens[k] # NoRow => tokens'[k] # NoRow,
           \A c \in CodeId : codes[c] = "gone" => codes'[c] = "gone",
           PairedOnce', NoneBeforeExchange', OneLive', LoginsCurrent'
    PROVE  CredentialsInv'
<1>1. OneOpen'
    BY DEF OneOpen
<1>2. ASSUME NEW v \in Worker PROVE CredentialsBacked(txn[v])'
  <2>1. CASE txn'[v] = Idle
    BY <2>1, IdleOp DEF CredentialsBacked
  <2>2. CASE txn'[v] = txn[v]
    BY <2>2, CredentialsReads DEF CredentialsInv, CredentialsBacked
  <2> QED
    BY <2>1, <2>2
<1>3. ~overlap => \A v \in Worker : CredentialsCurrent(txn[v])'
    BY IdleOp DEF CredentialsCurrent
<1> QED
    BY <1>1, <1>2, <1>3 DEF CredentialsInv

(* Time and the world: the sessions go on. *)
LEMMA WorldStep ==
    ASSUME CredentialsInv, CredentialsTypeOK', UNCHANGED <<sessions, password, logins, devices>>,
           \A s \in SetupId : setups[s] # NoRow => setups'[s] # NoRow /\ setups'[s].used = setups[s].used,
           \A s \in SetupId : setups[s] = NoRow => setups'[s] = NoRow,
           \A k \in TokenId : tokens[k] = NoRow => tokens'[k] = NoRow,
           \A k \in TokenId : tokens[k] # NoRow =>
             /\ tokens'[k] # NoRow /\ tokens'[k].code = tokens[k].code
             /\ tokens'[k].revoked = tokens[k].revoked,
           \A c \in CodeId : codes[c] = "gone" => codes'[c] = "gone"
    PROVE  CredentialsInv'
<1>0. CredentialsTypeOK
    BY DEF CredentialsInv
<1>1. OneOpen' /\ LoginsCurrent'
    BY DEF CredentialsInv, OneOpen, LoginsCurrent, sessions
<1>2. PairedOnce'
    BY DEF CredentialsInv, PairedOnce
<1>3. \A k \in TokenId : tokens[k] # NoRow => tokens[k].code \in CodeId
    BY <1>0 DEF CredentialsTypeOK, Token
<1>4. NoneBeforeExchange'
    BY <1>3 DEF CredentialsInv, NoneBeforeExchange
<1>5. \A c \in CodeId : LivePairs(c)' = LivePairs(c)
    BY DEF LivePairs
<1>6. OneLive'
    BY <1>5 DEF CredentialsInv, OneLive, sessions
<1>7. ASSUME NEW v \in Worker PROVE CredentialsBacked(txn[v])'
    BY <1>0, CredentialsReads DEF CredentialsInv, CredentialsBacked, sessions
<1>8. ASSUME NEW v \in Worker, ~overlap PROVE CredentialsCurrent(txn[v])'
    BY <1>0, <1>8, CredentialsReads DEF CredentialsInv, CredentialsCurrent, CredentialsBacked, sessions
<1> QED
    BY <1>1, <1>2, <1>4, <1>6, <1>7, <1>8 DEF CredentialsInv, sessions

LEMMA CredentialsEndLeaves ==
    ASSUME CredentialsInv, NEW w \in Worker, End(w), txn[w] # Idle
    PROVE  /\ overlap' = overlap
           /\ txn' \in [Worker -> CredentialsTxn]
           /\ \A v \in Worker : txn'[v] = Idle \/ (txn'[v] = txn[v] /\ overlap)
<1>1. txn \in [Worker -> CredentialsTxn] /\ Idle \in CredentialsTxn /\ OneOpen
    BY DEF CredentialsInv, CredentialsTypeOK, CredentialsTxn
<1> QED
    BY <1>1, EndLeaves

LEMMA CredentialsFreeLeaves ==
    ASSUME CredentialsInv, NEW w \in Worker, Free(w), UNCHANGED sessions
    PROVE  /\ overlap' = overlap
           /\ txn' \in [Worker -> CredentialsTxn]
           /\ \A v \in Worker : txn'[v] = Idle \/ (txn'[v] = txn[v] /\ overlap)
<1>1. txn \in [Worker -> CredentialsTxn]
    BY DEF CredentialsInv, CredentialsTypeOK
<1> QED
    BY <1>1, FreeLeaves

-----------------------------------------------------------------------------
(* Passwords and logins. *)
LEMMA PasswordStep ==
    ASSUME CredentialsInv, UNCHANGED <<setups, devices, codes, tokens>>,
           CredentialsTypeOK', LoginsCurrent', overlap' = overlap,
           \A v \in Worker : txn'[v] = Idle \/ (txn'[v] = txn[v] /\ overlap)
    PROVE  CredentialsInv'
<1>1. PairedOnce' /\ NoneBeforeExchange' /\ OneLive'
    BY DEF CredentialsInv, PairedOnce, NoneBeforeExchange, OneLive, LivePairs
<1> QED
    BY <1>1, CredentialsCommitStep

LEMMA LoginStep ==
    ASSUME CredentialsInv, NEW w \in Worker, LoginWrite(w)
    PROVE  CredentialsInv'
<1> DEFINE row == [password |-> txn[w].password]
<1> DEFINE Login == [password: Password]
<1>0. CredentialsTypeOK
    BY DEF CredentialsInv
<1>1. txn[w].op = "login" /\ txn[w] # Idle /\ txn[w].password \in Password
    BY <1>0, CredentialsReads, IdleOp DEF LoginWrite, Open
<1>2. row \in Login
    BY <1>1
<1>3. /\ logins \in [LoginId -> Login \cup {NoRow}] /\ Room(logins)
      /\ logins' = Inserted(logins, row)
    BY <1>0 DEF LoginWrite, CredentialsTypeOK
<1>4. row.password = txn[w].password
    OBVIOUS
<1> HIDE DEF row, Login
<1>5. logins' \in [LoginId -> Login \cup {NoRow}]
    BY <1>2, <1>3, InsertedTable
<1>6. PICK k \in LoginId : /\ logins[k] = NoRow
                           /\ logins'[k] = row
                           /\ \A l \in LoginId : l # k => logins'[l] = logins[l]
    BY <1>2, <1>3, InsertedTable
<1>7. /\ overlap' = overlap
      /\ txn' \in [Worker -> CredentialsTxn]
      /\ \A v \in Worker : txn'[v] = Idle \/ (txn'[v] = txn[v] /\ overlap)
    BY <1>1, CredentialsEndLeaves DEF LoginWrite
<1>8. CredentialsTypeOK'
    BY <1>0, <1>5, <1>7 DEF Login, LoginWrite, CredentialsTypeOK, setupTables, oauthTables
<1>9. LoginsCurrent'
  <2>1. ~overlap => txn[w].password = password
    BY <1>1 DEF CredentialsInv, CredentialsCurrent
  <2> QED
    BY <1>4, <1>6, <1>7, <2>1 DEF LoginWrite, CredentialsInv, LoginsCurrent
<1> QED
    BY <1>7, <1>8, <1>9, PasswordStep DEF LoginWrite, setupTables, oauthTables

LEMMA ResetStep ==
    ASSUME CredentialsInv, NEW w \in Worker, ResetWrite(w)
    PROVE  CredentialsInv'
<1>0. CredentialsTypeOK
    BY DEF CredentialsInv
<1>1. txn[w] # Idle /\ txn[w].reset \in ResetId
    BY <1>0, CredentialsReads, IdleOp DEF ResetWrite, Open
<1>2. /\ overlap' = overlap
      /\ txn' \in [Worker -> CredentialsTxn]
      /\ \A v \in Worker : txn'[v] = Idle \/ (txn'[v] = txn[v] /\ overlap)
    BY <1>1, CredentialsEndLeaves DEF ResetWrite
<1>3. logins' = [l \in LoginId |-> NoRow]
    BY DEF ResetWrite, LoginsEnded
<1>4. CredentialsTypeOK'
    BY <1>0, <1>1, <1>2, <1>3
    DEF ResetWrite, CredentialsTypeOK, Password, setupTables, oauthTables
<1>5. LoginsCurrent'
    BY <1>3 DEF LoginsCurrent
<1> QED
    BY <1>2, <1>4, <1>5, PasswordStep DEF ResetWrite, setupTables, oauthTables

LEMMA LogoutStep ==
    ASSUME CredentialsInv, NEW w \in Worker, NEW l \in LoginId, Logout(w, l)
    PROVE  CredentialsInv'
<1>1. /\ overlap' = overlap
      /\ txn' \in [Worker -> CredentialsTxn]
      /\ \A v \in Worker : txn'[v] = Idle \/ (txn'[v] = txn[v] /\ overlap)
    BY CredentialsFreeLeaves DEF Logout
<1>2. CredentialsTypeOK' /\ LoginsCurrent'
    BY <1>1 DEF Logout, CredentialsInv, CredentialsTypeOK, LoginsCurrent, setupTables, oauthTables
<1> QED
    BY <1>1, <1>2, PasswordStep DEF Logout, setupTables, oauthTables

-----------------------------------------------------------------------------
(* Setup codes: the unique index lets one device in. *)
LEMMA PairStep ==
    ASSUME CredentialsInv, NEW w \in Worker, PairWrite(w)
    PROVE  CredentialsInv'
<1>0. CredentialsTypeOK
    BY DEF CredentialsInv
<1>1. PICK s \in SetupId : s = txn[w].setup /\ txn[w].op = "pair" /\ txn[w] # Idle
    BY <1>0, CredentialsReads, IdleOp DEF PairWrite, Open
<1>2. setups[s] # NoRow /\ setups[s] \in Setup
    BY <1>0, <1>1 DEF CredentialsInv, CredentialsBacked, CredentialsTypeOK
<1>3. /\ setups'[s] \in Setup /\ setups'[s].used
      /\ \A r \in SetupId : r # s => setups'[r] = setups[r]
      /\ setups' = [r \in SetupId |-> setups'[r]]
    BY <1>0, <1>1, <1>2 DEF PairWrite, CredentialsTypeOK, Setup
<1>4. /\ devices'[s] = 1 /\ \A r \in SetupId : r # s => devices'[r] = devices[r]
      /\ devices' \in [SetupId -> Nat]
    BY <1>0, <1>1 DEF PairWrite, UniqueIndex, CredentialsTypeOK
<1>5. /\ overlap' = overlap
      /\ txn' \in [Worker -> CredentialsTxn]
      /\ \A v \in Worker : txn'[v] = Idle \/ (txn'[v] = txn[v] /\ overlap)
    BY <1>1, CredentialsEndLeaves DEF PairWrite
<1>6. setups' \in [SetupId -> Setup \cup {NoRow}]
    BY <1>0, <1>3 DEF CredentialsTypeOK
<1>7. CredentialsTypeOK'
    BY <1>0, <1>4, <1>5, <1>6 DEF PairWrite, CredentialsTypeOK, loginTables, oauthTables
<1>8. PairedOnce' /\ \A r \in SetupId : setups[r] # NoRow => setups'[r] # NoRow
    BY <1>3, <1>4, CredentialsAssumption DEF CredentialsInv, PairedOnce
<1>9. NoneBeforeExchange' /\ OneLive' /\ LoginsCurrent' /\ UNCHANGED <<codes, tokens>>
    BY <1>5 DEF PairWrite, CredentialsInv, NoneBeforeExchange, OneLive, LoginsCurrent, LivePairs,
                loginTables, oauthTables
<1> QED
    BY <1>5, <1>7, <1>8, <1>9, CredentialsCommitStep

LEMMA SetupStep ==
    ASSUME CredentialsInv, NEW w \in Worker, SetupMade(w)
    PROVE  CredentialsInv'
<1> DEFINE row == [used |-> FALSE, fresh |-> TRUE]
<1>0. CredentialsTypeOK
    BY DEF CredentialsInv
<1>1. row \in Setup
    BY DEF Setup
<1>2. /\ setups \in [SetupId -> Setup \cup {NoRow}] /\ Room(setups)
      /\ setups' = Inserted(setups, row)
    BY <1>0 DEF SetupMade, CredentialsTypeOK
<1>9. ~row.used
    OBVIOUS
<1> HIDE DEF row
<1>3. setups' \in [SetupId -> Setup \cup {NoRow}]
    BY <1>1, <1>2, InsertedTable
<1>4. PICK k \in SetupId : /\ setups[k] = NoRow
                           /\ setups'[k] = row
                           /\ \A s \in SetupId : s # k => setups'[s] = setups[s]
    BY <1>1, <1>2, InsertedTable
<1>5. /\ overlap' = overlap
      /\ txn' \in [Worker -> CredentialsTxn]
      /\ \A v \in Worker : txn'[v] = Idle \/ (txn'[v] = txn[v] /\ overlap)
    BY CredentialsFreeLeaves DEF SetupMade
<1>6. CredentialsTypeOK'
    BY <1>0, <1>3, <1>5 DEF SetupMade, CredentialsTypeOK, loginTables, oauthTables
<1>7. PairedOnce' /\ \A s \in SetupId : setups[s] # NoRow => setups'[s] # NoRow
    BY <1>4, <1>9 DEF SetupMade, CredentialsInv, PairedOnce
<1>8. NoneBeforeExchange' /\ OneLive' /\ LoginsCurrent' /\ UNCHANGED <<codes, tokens>>
    BY <1>5 DEF SetupMade, CredentialsInv, NoneBeforeExchange, OneLive, LoginsCurrent, LivePairs,
                loginTables, oauthTables
<1> QED
    BY <1>5, <1>6, <1>7, <1>8, CredentialsCommitStep

LEMMA RegisterStep ==
    ASSUME CredentialsInv, NEW w \in Worker, NEW s \in SetupId, DeviceRegistered(w, s)
    PROVE  CredentialsInv'
<1>0. CredentialsTypeOK
    BY DEF CredentialsInv
<1>1. /\ devices'[s] = 1 /\ \A r \in SetupId : r # s => devices'[r] = devices[r]
      /\ devices' \in [SetupId -> Nat]
    BY <1>0 DEF DeviceRegistered, UniqueIndex, CredentialsTypeOK
<1>2. /\ overlap' = overlap
      /\ txn' \in [Worker -> CredentialsTxn]
      /\ \A v \in Worker : txn'[v] = Idle \/ (txn'[v] = txn[v] /\ overlap)
    BY CredentialsFreeLeaves DEF DeviceRegistered
<1>3. UNCHANGED <<resets, resetSpent, password, logins, setups, codes, tokens>>
    BY DEF DeviceRegistered, loginTables, oauthTables
<1>4. CredentialsTypeOK'
    BY <1>0, <1>1, <1>2, <1>3 DEF CredentialsTypeOK
<1>5. PairedOnce'
    BY <1>1, <1>3 DEF CredentialsInv, PairedOnce
<1>6. NoneBeforeExchange' /\ OneLive' /\ LoginsCurrent'
    BY <1>2, <1>3 DEF CredentialsInv, NoneBeforeExchange, OneLive, LoginsCurrent, LivePairs
<1> QED
    BY <1>2, <1>3, <1>4, <1>5, <1>6, CredentialsCommitStep

-----------------------------------------------------------------------------
(* Authorization codes and the tokens that stem from them. *)
LEMMA GrantStep ==
    ASSUME CredentialsInv, UNCHANGED <<codes, resets, resetSpent, password, logins, setups, devices>>,
           tokens' \in [TokenId -> Token \cup {NoRow}],
           NoneBeforeExchange', OneLive', overlap' = overlap,
           txn' \in [Worker -> CredentialsTxn],
           \A v \in Worker : txn'[v] = Idle \/ (txn'[v] = txn[v] /\ overlap),
           \A k \in TokenId : tokens[k] # NoRow => tokens'[k] # NoRow
    PROVE  CredentialsInv'
<1>1. CredentialsTypeOK'
    BY DEF CredentialsInv, CredentialsTypeOK
<1>2. PairedOnce' /\ LoginsCurrent'
    BY DEF CredentialsInv, PairedOnce, LoginsCurrent
<1> QED
    BY <1>1, <1>2, CredentialsCommitStep

(* A token that no other live one of its code stands beside. *)
LEMMA NewTokenStep ==
    ASSUME CredentialsInv, NEW c \in CodeId, codes[c] = "gone",
           NEW before, NEW k \in TokenId, NEW row \in Token, row.code = c,
           tokens' \in [TokenId -> Token \cup {NoRow}],
           tokens'[k] = row, before[k] = NoRow,
           \A j \in TokenId : j # k => tokens'[j] = before[j],
           \A j \in TokenId : before[j] # NoRow =>
             /\ tokens[j] # NoRow /\ before[j].code = tokens[j].code
             /\ tokens[j].revoked => before[j].revoked,
           \A j \in TokenId : tokens[j] # NoRow => before[j] # NoRow,
           ~overlap => \A j \in TokenId :
             before[j] # NoRow /\ before[j].code = c => before[j].revoked,
           UNCHANGED <<codes, resets, resetSpent, password, logins, setups, devices>>,
           overlap' = overlap, txn' \in [Worker -> CredentialsTxn],
           \A v \in Worker : txn'[v] = Idle \/ (txn'[v] = txn[v] /\ overlap)
    PROVE  CredentialsInv'
<1>1. row # NoRow
    BY CredentialsAssumption
<1>2. \A j \in TokenId : tokens[j] # NoRow => tokens'[j] # NoRow
    BY <1>1
<1>3. NoneBeforeExchange'
    BY DEF CredentialsInv, NoneBeforeExchange
<1>4. OneLive'
  <2> SUFFICES ASSUME ~overlap, NEW d \in CodeId,
                      NEW i \in LivePairs(d)', NEW j \in LivePairs(d)'
               PROVE  i = j
    BY DEF OneLive
  <2>1. \A h \in TokenId : h # k /\ h \in LivePairs(d)' => h \in LivePairs(d) /\ d # c
    BY DEF LivePairs
  <2>2. i \in TokenId /\ j \in TokenId
    BY DEF LivePairs
  <2>3. k \in LivePairs(d)' => d = c
    BY DEF LivePairs
  <2>4. \A g, h \in LivePairs(d) : g = h
    BY DEF CredentialsInv, OneLive
  <2> QED
    BY <2>1, <2>2, <2>3, <2>4
<1> QED
    BY <1>2, <1>3, <1>4, GrantStep

LEMMA ExchangeStep ==
    ASSUME CredentialsInv, NEW w \in Worker, ExchangeWrite(w)
    PROVE  CredentialsInv'
<1> DEFINE row == [code |-> txn[w].code, revoked |-> FALSE, fresh |-> TRUE]
<1>0. CredentialsTypeOK
    BY DEF CredentialsInv
<1>1. PICK c \in CodeId : c = txn[w].code /\ txn[w].op = "exchange" /\ txn[w] # Idle
    BY <1>0, CredentialsReads, IdleOp DEF ExchangeWrite, Open
<1>2. row \in Token /\ row.code = c
    BY <1>1 DEF Token
<1>3. /\ tokens \in [TokenId -> Token \cup {NoRow}] /\ Room(tokens)
      /\ tokens' = Inserted(tokens, row)
    BY <1>0 DEF ExchangeWrite, CredentialsTypeOK
<1> HIDE DEF row
<1>4. tokens' \in [TokenId -> Token \cup {NoRow}]
    BY <1>2, <1>3, InsertedTable
<1>5. PICK k \in TokenId : /\ tokens[k] = NoRow
                           /\ tokens'[k] = row
                           /\ \A j \in TokenId : j # k => tokens'[j] = tokens[j]
    BY <1>2, <1>3, AfterInsert
<1>6. /\ overlap' = overlap
      /\ txn' \in [Worker -> CredentialsTxn]
      /\ \A v \in Worker : txn'[v] = Idle \/ (txn'[v] = txn[v] /\ overlap)
    BY <1>1, CredentialsEndLeaves DEF ExchangeWrite
<1>7. /\ codes[c] = "gone"
      /\ ~overlap => \A j \in TokenId : tokens[j] # NoRow => tokens[j].code # c
    BY <1>1 DEF CredentialsInv, CredentialsBacked, CredentialsCurrent
<1>8. UNCHANGED <<codes, resets, resetSpent, password, logins, setups, devices>>
    BY DEF ExchangeWrite, loginTables, setupTables
<1> QED
    BY <1>2, <1>4, <1>5, <1>6, <1>7, <1>8, NewTokenStep

LEMMA RefreshStep ==
    ASSUME CredentialsInv, NEW w \in Worker, RefreshWrite(w)
    PROVE  CredentialsInv'
<1> DEFINE row == [code |-> tokens[txn[w].token].code, revoked |-> FALSE, fresh |-> TRUE]
<1>0. CredentialsTypeOK
    BY DEF CredentialsInv
<1>1. PICK t \in TokenId : t = txn[w].token /\ txn[w].op = "refresh" /\ txn[w] # Idle
    BY <1>0, CredentialsReads, IdleOp DEF RefreshWrite, Open
<1>2. tokens[t] # NoRow /\ tokens[t] \in Token
    BY <1>0, <1>1 DEF CredentialsInv, CredentialsBacked, CredentialsTypeOK
<1>3. PICK c \in CodeId : c = tokens[t].code /\ codes[c] = "gone"
    BY <1>2 DEF CredentialsInv, NoneBeforeExchange, Token
<1>4. row \in Token /\ row.code = c
    BY <1>1, <1>3 DEF Token
<1> DEFINE before == Rotated(t)
<1>5. /\ before \in [TokenId -> Token \cup {NoRow}]
      /\ before[t] \in Token /\ before[t].code = c /\ before[t].revoked
      /\ \A j \in TokenId : j # t => before[j] = tokens[j]
    BY <1>0, <1>2, <1>3 DEF Rotated, CredentialsTypeOK, Token
<1>6. before[t] # NoRow
    BY <1>5, CredentialsAssumption
<1>7. tokens' = Inserted(before, row)
    BY <1>1 DEF RefreshWrite
<1>8. Room(before)
  <2>1. PICK k \in TokenId : tokens[k] = NoRow
    BY <1>0 DEF RefreshWrite, Room, CredentialsTypeOK
  <2>2. k \in DOMAIN before /\ before[k] = NoRow
    BY <1>2, <1>5, <2>1
  <2> QED
    BY <2>2 DEF Room
<1> HIDE DEF row, before
<1>9. tokens' \in [TokenId -> Token \cup {NoRow}]
    BY <1>4, <1>5, <1>7, <1>8, InsertedTable
<1>10. PICK k \in TokenId : /\ before[k] = NoRow
                            /\ tokens'[k] = row
                            /\ \A j \in TokenId : j # k => tokens'[j] = before[j]
    BY <1>4, <1>5, <1>7, <1>8, InsertedTable
<1>11. /\ overlap' = overlap
       /\ txn' \in [Worker -> CredentialsTxn]
       /\ \A v \in Worker : txn'[v] = Idle \/ (txn'[v] = txn[v] /\ overlap)
    BY <1>1, CredentialsEndLeaves DEF RefreshWrite
<1>12. ASSUME ~overlap, NEW j \in TokenId, before[j] # NoRow, before[j].code = c
       PROVE  before[j].revoked
  <2>1. ~tokens[t].revoked
    BY <1>1, <1>12 DEF CredentialsInv, CredentialsCurrent
  <2>2. t \in LivePairs(c)
    BY <1>2, <1>3, <2>1 DEF LivePairs
  <2>3. j # t => before[j] = tokens[j] /\ (~tokens[j].revoked => j \in LivePairs(c))
    BY <1>5, <1>12 DEF LivePairs
  <2>4. \A h \in LivePairs(c) : h = t
    BY <1>12, <2>2 DEF CredentialsInv, OneLive
  <2> QED
    BY <1>5, <2>3, <2>4
<1>13. \A j \in TokenId : before[j] # NoRow =>
         /\ tokens[j] # NoRow /\ before[j].code = tokens[j].code
         /\ tokens[j].revoked => before[j].revoked
    BY <1>2, <1>3, <1>5
<1>14. \A j \in TokenId : tokens[j] # NoRow => before[j] # NoRow
    BY <1>5, <1>6
<1>15. UNCHANGED <<codes, resets, resetSpent, password, logins, setups, devices>>
    BY DEF RefreshWrite, loginTables, setupTables
<1> QED
    BY <1>3, <1>4, <1>9, <1>10, <1>11, <1>12, <1>13, <1>14, <1>15, NewTokenStep

LEMMA RevokeStep ==
    ASSUME CredentialsInv, NEW w \in Worker, NEW t \in TokenId, TokenRevoked(w, t)
    PROVE  CredentialsInv'
<1>0. CredentialsTypeOK
    BY DEF CredentialsInv
<1>1. tokens[t] \in Token /\ UNCHANGED sessions /\ Free(w)
    BY <1>0 DEF TokenRevoked, CredentialsTypeOK
<1>2. /\ tokens' \in [TokenId -> Token \cup {NoRow}]
      /\ tokens'[t] \in Token /\ tokens'[t].code = tokens[t].code /\ tokens'[t].revoked
      /\ \A j \in TokenId : j # t => tokens'[j] = tokens[j]
    BY <1>0, <1>1 DEF TokenRevoked, CredentialsTypeOK, Token
<1>3. \A j \in TokenId : tokens[j] # NoRow => tokens'[j] # NoRow
    BY <1>2, CredentialsAssumption
<1>4. /\ overlap' = overlap
      /\ txn' \in [Worker -> CredentialsTxn]
      /\ \A v \in Worker : txn'[v] = Idle \/ (txn'[v] = txn[v] /\ overlap)
    BY <1>1, CredentialsFreeLeaves
<1>5. UNCHANGED <<codes, resets, resetSpent, password, logins, setups, devices>>
    BY DEF TokenRevoked, loginTables, setupTables
<1>6. NoneBeforeExchange'
    BY <1>2, <1>5 DEF TokenRevoked, CredentialsInv, NoneBeforeExchange
<1>7. \A c \in CodeId : LivePairs(c)' \subseteq LivePairs(c)
    BY <1>2 DEF LivePairs
<1>8. OneLive'
    BY <1>4, <1>7 DEF CredentialsInv, OneLive
<1> QED
    BY <1>2, <1>3, <1>4, <1>5, <1>6, <1>8, GrantStep

LEMMA PopStep ==
    ASSUME CredentialsInv, NEW w \in Worker, NEW c \in CodeId, ExchangePop(w, c)
    PROVE  CredentialsInv'
<1>0. CredentialsTypeOK /\ OneOpen
    BY DEF CredentialsInv
<1>1. /\ codes' \in [CodeId -> {"new", "live", "stale", "gone"}]
      /\ codes'[c] = "gone" /\ \A d \in CodeId : codes[d] = "gone" => codes'[d] = "gone"
      /\ UNCHANGED <<tokens, loginTables, setupTables>>
    BY <1>0 DEF ExchangePop, CredentialsTypeOK
<1>2. CASE codes[c] = "live"
  <2> DEFINE t == [op |-> "exchange", code |-> c]
  <2>1. Begin(w, t)
    BY <1>2 DEF ExchangePop
  <2>2. t \in CredentialsTxn /\ t.op = "exchange" /\ t.code = c
    BY DEF CredentialsTxn
  <2>3. \A k \in TokenId : tokens[k] # NoRow => tokens[k].code # c
    BY <1>2 DEF CredentialsInv, NoneBeforeExchange
  <2> HIDE DEF t
  <2>4. CredentialsBacked(t)' /\ CredentialsCurrent(t)
    BY <1>1, <2>2, <2>3 DEF CredentialsBacked, CredentialsCurrent
  <2>5. txn' = [txn EXCEPT ![w] = t] /\ overlap' = overlap
    BY <2>1 DEF Begin
  <2>6. CredentialsTypeOK'
    BY <1>0, <1>1, <2>2, <2>5 DEF CredentialsTypeOK, loginTables, setupTables
  <2>7. OneOpen'
    BY <1>0, <2>1, BeginKeepsOne DEF CredentialsTypeOK
  <2> QED
    BY <1>1, <2>2, <2>4, <2>5, <2>6, <2>7, ProceedStep DEF loginTables, setupTables
<1>3. CASE codes[c] # "live"
  <2>1. UNCHANGED sessions
    BY <1>3 DEF ExchangePop
  <2>2. CredentialsTypeOK'
    BY <1>0, <1>1, <2>1 DEF CredentialsTypeOK, loginTables, setupTables, sessions
  <2> QED
    BY <1>1, <2>1, <2>2, WorldStep DEF loginTables, setupTables
<1> QED
    BY <1>2, <1>3

LEMMA RestartStep ==
    ASSUME CredentialsInv, ProcessRestarts
    PROVE  CredentialsInv'
<1>0. CredentialsTypeOK
    BY DEF CredentialsInv
<1>1. /\ UNCHANGED <<tokens, resets, resetSpent, password, logins, setups, devices, overlap>>
      /\ codes' \in [CodeId -> {"new", "live", "stale", "gone"}]
      /\ \A c \in CodeId : codes[c] = "gone" => codes'[c] = "gone"
    BY <1>0 DEF ProcessRestarts, loginTables, setupTables, CredentialsTypeOK
<1>2. txn' \in [Worker -> CredentialsTxn] /\ \A v \in Worker : txn'[v] = Idle
    BY DEF ProcessRestarts, CredentialsTxn
<1>3. CredentialsTypeOK'
    BY <1>0, <1>1, <1>2 DEF CredentialsTypeOK
<1>4. NoneBeforeExchange'
    BY <1>0, <1>1 DEF CredentialsInv, NoneBeforeExchange, CredentialsTypeOK, Token
<1>5. PairedOnce' /\ OneLive' /\ LoginsCurrent'
    BY <1>1 DEF CredentialsInv, PairedOnce, OneLive, LoginsCurrent, LivePairs
<1> QED
    BY <1>1, <1>2, <1>3, <1>4, <1>5, CredentialsCommitStep

LEMMA MarkStep ==
    ASSUME CredentialsInv, NEW w \in Worker, ResetMark(w)
    PROVE  CredentialsInv'
<1>0. CredentialsTypeOK /\ OneOpen
    BY DEF CredentialsInv
<1>1. PICK r \in ResetId : r = txn[w].reset /\ txn[w] # Idle
    BY <1>0, CredentialsReads, IdleOp DEF ResetMark, Open
<1> DEFINE t == [op |-> "marked", reset |-> r]
<1>2. t \in CredentialsTxn /\ t.op = "marked"
    BY <1>1 DEF CredentialsTxn
<1>3. Continue(w, t) /\ resetSpent' \subseteq ResetId
    BY <1>0, <1>1 DEF ResetMark, CredentialsTypeOK
<1> HIDE DEF t
<1>4. CredentialsBacked(t)' /\ CredentialsCurrent(t)
    BY <1>2 DEF CredentialsBacked, CredentialsCurrent
<1>5. txn' = [txn EXCEPT ![w] = t] /\ overlap' = overlap
    BY <1>3 DEF Continue
<1>6. CredentialsTypeOK'
    BY <1>0, <1>2, <1>3, <1>5 DEF ResetMark, CredentialsTypeOK, setupTables, oauthTables
<1>7. OneOpen'
    BY <1>0, <1>1, <1>3, ContinueKeepsOne DEF CredentialsTypeOK
<1> QED
    BY <1>2, <1>4, <1>5, <1>6, <1>7, ProceedStep DEF ResetMark, setupTables, oauthTables

-----------------------------------------------------------------------------
(* The sessions that begin, with what they read. *)
LEMMA ReadStep ==
    ASSUME CredentialsInv, NEW w \in Worker,
           \/ LoginRead(w)
           \/ \E r \in ResetId : ResetRead(w, r)
           \/ \E s \in SetupId : PairRead(w, s)
           \/ \E t \in TokenId : RefreshRead(w, t)
    PROVE  CredentialsInv'
<1>0. CredentialsTypeOK
    BY DEF CredentialsInv
<1>1. CASE LoginRead(w)
  <2> DEFINE t == [op |-> "login", password |-> password]
  <2>1. t \in CredentialsTxn /\ t.op = "login" /\ t.password = password
    BY <1>0 DEF CredentialsTypeOK, CredentialsTxn
  <2>2. Begin(w, t) /\ UNCHANGED credentialsTables
    BY <1>1 DEF LoginRead
  <2> HIDE DEF t
  <2>3. CredentialsBacked(t) /\ CredentialsCurrent(t)
    BY <2>1 DEF CredentialsBacked, CredentialsCurrent
  <2> QED
    BY <2>1, <2>2, <2>3, CredentialsBeginStep
<1>2. ASSUME NEW r \in ResetId, ResetRead(w, r) PROVE CredentialsInv'
  <2> DEFINE t == [op |-> "reset", reset |-> r]
  <2>1. t \in CredentialsTxn /\ t.op = "reset"
    BY DEF CredentialsTxn
  <2>2. Begin(w, t) /\ UNCHANGED credentialsTables
    BY <1>2 DEF ResetRead
  <2> HIDE DEF t
  <2>3. CredentialsBacked(t) /\ CredentialsCurrent(t)
    BY <2>1 DEF CredentialsBacked, CredentialsCurrent
  <2> QED
    BY <2>1, <2>2, <2>3, CredentialsBeginStep
<1>3. ASSUME NEW s \in SetupId, PairRead(w, s) PROVE CredentialsInv'
  <2> DEFINE t == [op |-> "pair", setup |-> s]
  <2>1. t \in CredentialsTxn /\ t.op = "pair" /\ t.setup = s
    BY DEF CredentialsTxn
  <2>2. Begin(w, t) /\ UNCHANGED credentialsTables
    BY <1>3 DEF PairRead
  <2>3. setups[s] \in Setup
    BY <1>3 DEF PairRead, Setup
  <2> HIDE DEF t
  <2>4. CredentialsBacked(t) /\ CredentialsCurrent(t)
    BY <2>1, <2>3, CredentialsAssumption DEF CredentialsBacked, CredentialsCurrent
  <2> QED
    BY <2>1, <2>2, <2>4, CredentialsBeginStep
<1>4. ASSUME NEW k \in TokenId, RefreshRead(w, k) PROVE CredentialsInv'
  <2> DEFINE t == [op |-> "refresh", token |-> k]
  <2>1. t \in CredentialsTxn /\ t.op = "refresh" /\ t.token = k
    BY DEF CredentialsTxn
  <2>2. Begin(w, t) /\ UNCHANGED credentialsTables
    BY <1>4 DEF RefreshRead
  <2> HIDE DEF t
  <2>3. CredentialsBacked(t) /\ CredentialsCurrent(t)
    BY <1>4, <2>1 DEF RefreshRead, Refreshable, CredentialsBacked, CredentialsCurrent
  <2> QED
    BY <2>1, <2>2, <2>3, CredentialsBeginStep
<1> QED
    BY <1>1, <1>2, <1>3, <1>4

LEMMA AbandonStep ==
    ASSUME CredentialsInv, NEW w \in Worker, Abandon(w), UNCHANGED credentialsTables
    PROVE  CredentialsInv'
<1>1. /\ overlap' = overlap
      /\ txn' \in [Worker -> CredentialsTxn]
      /\ \A v \in Worker : txn'[v] = Idle \/ (txn'[v] = txn[v] /\ overlap)
    BY CredentialsEndLeaves DEF Abandon
<1>2. CredentialsTypeOK'
    BY <1>1 DEF CredentialsInv, CredentialsTypeOK, credentialsTables
<1>3. PairedOnce' /\ NoneBeforeExchange' /\ OneLive' /\ LoginsCurrent'
    BY <1>1 DEF CredentialsInv, PairedOnce, NoneBeforeExchange, OneLive, LoginsCurrent, LivePairs,
                credentialsTables
<1> QED
    BY <1>1, <1>2, <1>3, CredentialsCommitStep DEF credentialsTables

(* What happens outside of any session. *)
LEMMA OutsideStep ==
    ASSUME CredentialsInv,
           \/ \E r \in ResetId : ResetSent(r) \/ ResetExpires(r)
           \/ \E s \in SetupId : SetupExpires(s)
           \/ \E c \in CodeId : CodeMade(c) \/ CodeExpires(c)
           \/ \E t \in TokenId : TokenExpires(t)
    PROVE  CredentialsInv'
<1>0. CredentialsTypeOK
    BY DEF CredentialsInv
<1>1. ASSUME NEW r \in ResetId, ResetSent(r) \/ ResetExpires(r) PROVE CredentialsInv'
  <2>1. /\ resets' \in [ResetId -> Reset]
        /\ UNCHANGED <<resetSpent, password, logins, setups, devices, codes, tokens, sessions>>
    BY <1>0, <1>1 DEF ResetSent, ResetExpires, Reset, setupTables, oauthTables, CredentialsTypeOK
  <2>2. CredentialsTypeOK'
    BY <1>0, <2>1 DEF CredentialsTypeOK, sessions
  <2> QED
    BY <2>1, <2>2, WorldStep
<1>2. ASSUME NEW s \in SetupId, SetupExpires(s) PROVE CredentialsInv'
  <2>1. setups[s] \in Setup
    BY <1>0, <1>2 DEF SetupExpires, CredentialsTypeOK
  <2>2. /\ setups' \in [SetupId -> Setup \cup {NoRow}]
        /\ setups'[s] \in Setup /\ setups'[s].used = setups[s].used
        /\ \A r \in SetupId : r # s => setups'[r] = setups[r]
    BY <1>0, <1>2, <2>1 DEF SetupExpires, CredentialsTypeOK, Setup
  <2>3. UNCHANGED <<resets, resetSpent, password, logins, devices, codes, tokens, sessions>>
    BY <1>2 DEF SetupExpires, loginTables, oauthTables
  <2>4. \A r \in SetupId :
          /\ setups[r] # NoRow => setups'[r] # NoRow /\ setups'[r].used = setups[r].used
          /\ setups[r] = NoRow => setups'[r] = NoRow
    BY <2>1, <2>2, CredentialsAssumption
  <2>5. CredentialsTypeOK'
    BY <1>0, <2>2, <2>3 DEF CredentialsTypeOK, sessions
  <2> QED
    BY <2>3, <2>4, <2>5, WorldStep
<1>3. ASSUME NEW c \in CodeId, CodeMade(c) \/ CodeExpires(c) PROVE CredentialsInv'
  <2>1. /\ codes' \in [CodeId -> {"new", "live", "stale", "gone"}]
        /\ \A d \in CodeId : codes[d] = "gone" => codes'[d] = "gone"
    BY <1>0, <1>3 DEF CodeMade, CodeExpires, CredentialsTypeOK
  <2>2. UNCHANGED <<resets, resetSpent, password, logins, setups, devices, tokens, sessions>>
    BY <1>3 DEF CodeMade, CodeExpires, loginTables, setupTables
  <2>3. CredentialsTypeOK'
    BY <1>0, <2>1, <2>2 DEF CredentialsTypeOK, sessions
  <2> QED
    BY <2>1, <2>2, <2>3, WorldStep
<1>4. ASSUME NEW t \in TokenId, TokenExpires(t) PROVE CredentialsInv'
  <2>1. tokens[t] \in Token
    BY <1>0, <1>4 DEF TokenExpires, CredentialsTypeOK
  <2>2. /\ tokens' \in [TokenId -> Token \cup {NoRow}]
        /\ tokens'[t] \in Token /\ tokens'[t].code = tokens[t].code
        /\ tokens'[t].revoked = tokens[t].revoked
        /\ \A k \in TokenId : k # t => tokens'[k] = tokens[k]
    BY <1>0, <1>4, <2>1 DEF TokenExpires, CredentialsTypeOK, Token
  <2>3. UNCHANGED <<resets, resetSpent, password, logins, setups, devices, codes, sessions>>
    BY <1>4 DEF TokenExpires, loginTables, setupTables
  <2>4. tokens[t] # NoRow /\ tokens'[t] # NoRow
    BY <2>1, <2>2, CredentialsAssumption
  <2>5. CredentialsTypeOK'
    BY <1>0, <2>2, <2>3 DEF CredentialsTypeOK, sessions
  <2> QED
    BY <2>2, <2>3, <2>4, <2>5, WorldStep
<1> QED
    BY <1>1, <1>2, <1>3, <1>4

LEMMA CredentialsInvStep == CredentialsInv /\ [CredentialsNext]_credentialsVars => CredentialsInv'
<1> SUFFICES ASSUME CredentialsInv, [CredentialsNext]_credentialsVars PROVE CredentialsInv'
    OBVIOUS
<1>1. ASSUME NEW w \in Worker, CredentialsStep(w) PROVE CredentialsInv'
    BY <1>1, ReadStep, AbandonStep, LoginStep, LogoutStep, MarkStep, ResetStep, SetupStep,
       PairStep, RegisterStep, PopStep, ExchangeStep, RevokeStep, RefreshStep DEF CredentialsStep
<1>2. CASE UNCHANGED credentialsVars
  <2>1. CredentialsTypeOK'
    BY <1>2 DEF CredentialsInv, CredentialsTypeOK, credentialsVars
  <2>2. UNCHANGED <<sessions, password, logins, devices, setups, tokens, codes>>
    BY <1>2 DEF credentialsVars, sessions
  <2> QED
    BY <2>1, <2>2, WorldStep
<1> QED
    BY <1>1, <1>2, OutsideStep, RestartStep DEF CredentialsNext

LEMMA CredentialsAlways == CredentialsSpec => []CredentialsInv
BY CredentialsInitially, CredentialsInvStep, PTL DEF CredentialsSpec

(* The tables of logins, setup codes and tokens hold what their columns allow. *)
THEOREM CredentialsTypeCorrect == CredentialsSpec => []CredentialsTypeOK
<1>1. CredentialsInv => CredentialsTypeOK
    BY DEF CredentialsInv
<1> QED
    BY <1>1, CredentialsAlways, PTL

LEMMA OneGrantFollows == CredentialsInv => OneGrantEach
<1> SUFFICES ASSUME CredentialsInv PROVE OneGrantEach
    OBVIOUS
<1>1. \A s \in SetupId :
        devices[s] <= 1 /\ (setups[s] # NoRow /\ setups[s].used => devices[s] = 1)
    BY DEF CredentialsInv, PairedOnce
<1>2. ASSUME ~overlap, NEW c \in CodeId PROVE Cardinality(LivePairs(c)) <= 1
  <2>1. CASE LivePairs(c) = {}
    BY <2>1, FS_EmptySet
  <2>2. ASSUME NEW k \in LivePairs(c) PROVE Cardinality(LivePairs(c)) <= 1
    <3>1. LivePairs(c) = {k}
      BY <1>2, <2>2 DEF CredentialsInv, OneLive
    <3> QED
      BY <3>1, FS_Singleton
  <2> QED
    BY <2>1, <2>2
<1> QED
    BY <1>1, <1>2 DEF OneGrantEach, CredentialsInv, LoginsCurrent

(* A setup code stands for one device however exchange_setup_code and register_device
   interleave, and one that was exchanged has its device; and where no two sessions
   overlap, one token at most of those that stem from an authorization code can be
   used, whatever refresh_access_token and revoke_token have done, and every login
   session is one of the present password. *)
THEOREM OneGrant == CredentialsSpec => []OneGrantEach
BY OneGrantFollows, CredentialsAlways, PTL

-----------------------------------------------------------------------------
(***************************************************************************)
(* Subscriptions.  A session that has found the row of a webhook finds it  *)
(* again.  As long as sessions do not overlap nothing has changed since it *)
(* read (SubscriptionsCurrent): the group has still no row, or the row is  *)
(* still what it was and no other one has the subscription's id.           *)
(***************************************************************************)
SubscriptionsCurrent(t) ==
    /\ t.op \in {"first", "webhook"} =>
         /\ t.becomes.stripe \in StripeId
         /\ t.becomes.status \in reported[t.becomes.stripe]
    /\ t.op = "first" => OfGroup = {}
    /\ t.op = "webhook" => /\ subscriptions[t.row] = t.was
                           /\ OfStripe(t.becomes.stripe) \subseteq {t.row}

OneRowEach == \A s \in StripeId, j, k \in SubscriptionId :
    /\ subscriptions[j] # NoRow /\ subscriptions[j].stripe = s
    /\ subscriptions[k] # NoRow /\ subscriptions[k].stripe = s
    => j = k

StatusReported == \A k \in SubscriptionId :
    subscriptions[k] # NoRow /\ subscriptions[k].stripe \in StripeId =>
      subscriptions[k].status \in reported[subscriptions[k].stripe]

SubscriptionsInv ==
    /\ SubscriptionsTypeOK
    /\ OneOpen
    /\ \A w \in Worker : Open(w, "webhook") => subscriptions[txn[w].row] # NoRow
    /\ ~overlap => /\ OneRowEach /\ StatusReported
                   /\ \A w \in Worker : SubscriptionsCurrent(txn[w])

LEMMA SubscriptionsTypes ==
    ASSUME SubscriptionsTypeOK
    PROVE  /\ subscriptions \in [SubscriptionId -> SubscriptionRow \cup {NoRow}]
           /\ checkouts \subseteq StripeId
           /\ reported \in [StripeId -> SUBSET Status]
           /\ txn \in [Worker -> SubscriptionsTxn]
           /\ overlap \in BOOLEAN
BY DEF SubscriptionsTypeOK

(* What a session for a webhook holds. *)
LEMMA WebhookHolds ==
    ASSUME NEW t \in SubscriptionsTxn
    PROVE  /\ t.op = "webhook" => /\ t.row \in SubscriptionId /\ t.was \in SubscriptionRow
                                  /\ t.becomes \in SubscriptionRow
           /\ t.op = "first" => t.becomes \in SubscriptionRow
BY IdleOp DEF SubscriptionsTxn

LEMMA SubscriptionsIdle == SubscriptionsCurrent(Idle) /\ Idle.op # "webhook"
                           /\ Idle \in SubscriptionsTxn
BY IdleOp DEF SubscriptionsCurrent, SubscriptionsTxn

LEMMA SubscriptionsInitially == SubscriptionsTablesInit /\ SessionsInit => SubscriptionsInv
<1> SUFFICES ASSUME SubscriptionsTablesInit, SessionsInit PROVE SubscriptionsInv
    OBVIOUS
<1> USE DEF SubscriptionsTablesInit, SessionsInit
<1>1. SubscriptionsTypeOK
    BY SubscriptionsIdle DEF SubscriptionsTypeOK
<1>2. OneRowEach /\ StatusReported
    BY DEF OneRowEach, StatusReported
<1>3. \A w \in Worker : SubscriptionsCurrent(txn[w]) /\ ~Open(w, "webhook")
    BY SubscriptionsIdle DEF Open
<1> QED
    BY <1>1, <1>2, <1>3, NoneOpen DEF SubscriptionsInv

(* A session that has read, and not written. *)
LEMMA SubscriptionsReads ==
    ASSUME SubscriptionsInv, NEW w \in Worker, NEW t \in SubscriptionsTxn, Begin(w, t),
           UNCHANGED subscriptionsTables,
           t.op = "webhook" => subscriptions[t.row] # NoRow,
           ~overlap => SubscriptionsCurrent(t)
    PROVE  SubscriptionsInv'
<1>t. SubscriptionsTypeOK /\ txn \in [Worker -> SubscriptionsTxn] /\ OneOpen
    BY DEF SubscriptionsInv, SubscriptionsTypeOK
<1>1. OneOpen'
    BY <1>t, BeginKeepsOne
<1>2. /\ subscriptions' = subscriptions /\ checkouts' = checkouts /\ reported' = reported
      /\ overlap' = overlap /\ txn' \in [Worker -> SubscriptionsTxn]
      /\ \A v \in Worker : txn'[v] = txn[v] \/ txn'[v] = t
    BY <1>t DEF Begin, subscriptionsTables
<1>3. SubscriptionsTypeOK'
    BY <1>t, <1>2 DEF SubscriptionsTypeOK
<1>4. \A v \in Worker : Open(v, "webhook")' => subscriptions'[txn'[v].row] # NoRow
    BY <1>2 DEF Open, SubscriptionsInv
<1>5. ASSUME ~overlap
      PROVE  OneRowEach' /\ StatusReported' /\ \A v \in Worker : SubscriptionsCurrent(txn[v])'
    BY <1>2, <1>5
    DEF SubscriptionsInv, OneRowEach, StatusReported, SubscriptionsCurrent, OfGroup, OfStripe
<1> QED
    BY <1>1, <1>2, <1>3, <1>4, <1>5 DEF SubscriptionsInv

(* A step after which no session is open, where they do not overlap. *)
LEMMA SubscriptionsWrites ==
    ASSUME SubscriptionsInv, SubscriptionsTypeOK', overlap' = overlap,
           \A v \in Worker : txn'[v] = Idle \/ (txn'[v] = txn[v] /\ overlap),
           \A k \in SubscriptionId : subscriptions[k] # NoRow => subscriptions'[k] # NoRow,
           ~overlap => OneRowEach' /\ StatusReported'
    PROVE  SubscriptionsInv'
<1>1. OneOpen'
    BY DEF SubscriptionsInv, OneOpen
<1>2. \A v \in Worker : Open(v, "webhook")' => subscriptions'[txn'[v].row] # NoRow
  <2> SUFFICES ASSUME NEW v \in Worker, Open(v, "webhook")'
               PROVE  subscriptions'[txn'[v].row] # NoRow
    OBVIOUS
  <2>1. txn'[v] = txn[v] /\ Open(v, "webhook")
    BY SubscriptionsIdle DEF Open
  <2>2. txn[v] \in SubscriptionsTxn /\ txn[v].op = "webhook"
    BY <2>1 DEF SubscriptionsInv, SubscriptionsTypeOK, Open
  <2>3. txn[v].row \in SubscriptionId
    BY <2>2, WebhookHolds
  <2> QED
    BY <2>1, <2>3 DEF SubscriptionsInv
<1>3. ~overlap => \A v \in Worker : SubscriptionsCurrent(txn[v])'
    BY IdleOp DEF SubscriptionsCurrent
<1> QED
    BY <1>1, <1>2, <1>3 DEF SubscriptionsInv

(* A row is inserted. *)
LEMMA SubscriptionInserted ==
    ASSUME SubscriptionsInv, NEW w \in Worker, txn[w] # Idle, End(w),
           NEW row \in SubscriptionRow, Room(subscriptions),
           subscriptions' = Inserted(subscriptions, row),
           UNCHANGED <<checkouts, reported>>,
           ~overlap /\ row.stripe \in StripeId =>
             OfGroup = {} /\ row.status \in reported[row.stripe]
    PROVE  SubscriptionsInv'
<1>t. /\ SubscriptionsTypeOK /\ txn \in [Worker -> SubscriptionsTxn] /\ OneOpen
      /\ subscriptions \in [SubscriptionId -> SubscriptionRow \cup {NoRow}]
    BY DEF SubscriptionsInv, SubscriptionsTypeOK
<1>1. /\ overlap' = overlap /\ txn' \in [Worker -> SubscriptionsTxn]
      /\ \A v \in Worker : txn'[v] = Idle \/ (txn'[v] = txn[v] /\ overlap)
    BY <1>t, SubscriptionsIdle, EndLeaves
<1>2. subscriptions' \in [SubscriptionId -> SubscriptionRow \cup {NoRow}]
    BY <1>t, InsertedTable
<1>3. PICK k \in SubscriptionId :
        /\ subscriptions[k] = NoRow /\ subscriptions'[k] = row
        /\ \A j \in SubscriptionId : j # k => subscriptions'[j] = subscriptions[j]
    BY <1>t, AfterInsert
<1>4. SubscriptionsTypeOK'
    BY <1>t, <1>1, <1>2 DEF SubscriptionsTypeOK
<1>5. ASSUME ~overlap PROVE OneRowEach' /\ StatusReported'
  <2>1. OneRowEach /\ StatusReported
    BY <1>5 DEF SubscriptionsInv
  <2>2. row.stripe \in StripeId => \A j \in SubscriptionId : j # k => subscriptions'[j] = NoRow
    BY <1>3, <1>5 DEF OfGroup
  <2> QED
    BY <1>3, <1>5, <2>1, <2>2 DEF OneRowEach, StatusReported
<1>6. \A j \in SubscriptionId : subscriptions[j] # NoRow => subscriptions'[j] # NoRow
    BY <1>3
<1> QED
    BY <1>1, <1>4, <1>5, <1>6, SubscriptionsWrites

LEMMA SubscribeReadStep ==
    ASSUME SubscriptionsInv, NEW w \in Worker, SubscribeRead(w) PROVE SubscriptionsInv'
<1> DEFINE t == [op |-> "subscribe"]
<1>1. t \in SubscriptionsTxn /\ t.op = "subscribe"
    BY DEF SubscriptionsTxn
<1>2. Begin(w, t) /\ UNCHANGED subscriptionsTables
    BY DEF SubscribeRead
<1> HIDE DEF t
<1>3. SubscriptionsCurrent(t)
    BY <1>1 DEF SubscriptionsCurrent
<1> QED
    BY <1>1, <1>2, <1>3, SubscriptionsReads

LEMMA SubscribeWriteStep ==
    ASSUME SubscriptionsInv, NEW w \in Worker, SubscribeWrite(w) PROVE SubscriptionsInv'
<1> DEFINE row == [stripe |-> NoRow, status |-> "active"]
<1>1. row \in SubscriptionRow /\ row.stripe \notin StripeId
    BY StripeAssumption DEF SubscriptionRow, Status
<1>2. /\ End(w) /\ Room(subscriptions) /\ subscriptions' = Inserted(subscriptions, row)
      /\ UNCHANGED <<checkouts, reported>> /\ Open(w, "subscribe")
    BY DEF SubscribeWrite
<1> HIDE DEF row
<1> QED
    BY <1>1, <1>2, OpenIsNotIdle, SubscriptionInserted

LEMMA CreatedFirstStep ==
    ASSUME SubscriptionsInv, NEW w \in Worker, CreatedFirst(w) PROVE SubscriptionsInv'
<1>1. /\ End(w) /\ Room(subscriptions)
      /\ subscriptions' = Inserted(subscriptions, txn[w].becomes)
      /\ UNCHANGED <<checkouts, reported>> /\ Open(w, "first") /\ txn[w].op = "first"
    BY DEF CreatedFirst, Open
<1>2. txn[w] # Idle
    BY <1>1, OpenIsNotIdle
<1>3. txn[w].becomes \in SubscriptionRow
    BY <1>1, WebhookHolds DEF SubscriptionsInv, SubscriptionsTypeOK
<1>4. ~overlap => OfGroup = {} /\ txn[w].becomes.status \in reported[txn[w].becomes.stripe]
    BY <1>1 DEF SubscriptionsInv, SubscriptionsCurrent
<1> QED
    BY <1>1, <1>2, <1>3, <1>4, SubscriptionInserted

LEMMA CheckoutStep ==
    ASSUME SubscriptionsInv, NEW w \in Worker, NEW s \in StripeId, Checkout(w, s)
    PROVE  SubscriptionsInv'
<1>t. SubscriptionsTypeOK /\ txn \in [Worker -> SubscriptionsTxn]
    BY DEF SubscriptionsInv, SubscriptionsTypeOK
<1>1. /\ checkouts' = checkouts \cup {s} /\ subscriptions' = subscriptions
      /\ reported' = reported /\ UNCHANGED sessions /\ Free(w)
    BY DEF Checkout
<1>2. /\ overlap' = overlap /\ txn' \in [Worker -> SubscriptionsTxn]
      /\ \A v \in Worker : txn'[v] = Idle \/ (txn'[v] = txn[v] /\ overlap)
    BY <1>t, <1>1, FreeLeaves
<1>3. SubscriptionsTypeOK'
    BY <1>t, <1>1, <1>2 DEF SubscriptionsTypeOK
<1>4. ~overlap => OneRowEach' /\ StatusReported'
    BY <1>1 DEF SubscriptionsInv, OneRowEach, StatusReported
<1> QED
    BY <1>1, <1>2, <1>3, <1>4, SubscriptionsWrites

(* Stripe only adds to what it has reported. *)
LEMMA StripeReportsStep ==
    ASSUME SubscriptionsInv, NEW s \in StripeId, NEW status \in Status, StripeReports(s, status)
    PROVE  SubscriptionsInv'
<1>t. /\ SubscriptionsTypeOK /\ txn \in [Worker -> SubscriptionsTxn]
      /\ reported \in [StripeId -> SUBSET Status]
    BY DEF SubscriptionsInv, SubscriptionsTypeOK
<1>1. /\ reported' = [reported EXCEPT ![s] = @ \cup {status}]
      /\ checkouts' = checkouts \ {s} /\ subscriptions' = subscriptions
      /\ txn' = txn /\ overlap' = overlap
    BY DEF StripeReports, sessions
<1>2. /\ reported' \in [StripeId -> SUBSET Status]
      /\ \A r \in StripeId : reported[r] \subseteq reported'[r]
    BY <1>t, <1>1
<1>3. SubscriptionsTypeOK'
    BY <1>t, <1>1, <1>2 DEF SubscriptionsTypeOK
<1>4. OneOpen' /\ \A v \in Worker : Open(v, "webhook")' => subscriptions'[txn'[v].row] # NoRow
    BY <1>1 DEF SubscriptionsInv, OneOpen, Open
<1>5. ASSUME ~overlap
      PROVE  OneRowEach' /\ StatusReported' /\ \A v \in Worker : SubscriptionsCurrent(txn[v])'
  <2>1. OneRowEach' /\ StatusReported'
    BY <1>1, <1>2, <1>5 DEF SubscriptionsInv, OneRowEach, StatusReported
  <2>2. OfGroup' = OfGroup /\ \A r : OfStripe(r)' = OfStripe(r)
    BY <1>1 DEF OfGroup, OfStripe
  <2>3. \A v \in Worker : SubscriptionsCurrent(txn[v])'
    BY <1>1, <1>2, <1>5, <2>2 DEF SubscriptionsInv, SubscriptionsCurrent
  <2> QED
    BY <2>1, <2>3
<1> QED
    BY <1>1, <1>3, <1>4, <1>5 DEF SubscriptionsInv

LEMMA CreatedReadStep ==
    ASSUME SubscriptionsInv, NEW w \in Worker, NEW s \in StripeId, CreatedRead(w, s)
    PROVE  SubscriptionsInv'
<1>t. SubscriptionsTypeOK /\ subscriptions \in [SubscriptionId -> SubscriptionRow \cup {NoRow}]
    BY DEF SubscriptionsInv, SubscriptionsTypeOK
<1> DEFINE becomes == [stripe |-> s, status |-> "active"]
           found == IF OfStripe(s) # {} THEN OfStripe(s) ELSE OfGroup
<1>1. /\ becomes \in SubscriptionRow /\ becomes.stripe = s
      /\ becomes.status \in reported[s] /\ UNCHANGED subscriptionsTables
    BY DEF CreatedRead, SubscriptionRow, Status
<1>2. OfStripe(s) \subseteq OfGroup /\ OfStripe(s) \subseteq found
    BY DEF OfStripe
<1>3. \/ found = {} /\ Begin(w, [op |-> "first", becomes |-> becomes])
      \/ \E k \in SubscriptionId :
           /\ found = {k}
           /\ Begin(w, [op |-> "webhook", row |-> k, was |-> subscriptions[k],
                        becomes |-> becomes])
    BY DEF CreatedRead
<1>4. found # {} => found \subseteq OfGroup
    BY <1>2
<1>5. found = {} => OfGroup = {}
    OBVIOUS
<1> HIDE DEF becomes, found
<1>6. CASE found = {} /\ Begin(w, [op |-> "first", becomes |-> becomes])
  <2> DEFINE t == [op |-> "first", becomes |-> becomes]
  <2>1. t \in SubscriptionsTxn /\ t.op = "first" /\ t.becomes = becomes
    BY <1>1 DEF SubscriptionsTxn
  <2>2. Begin(w, t)
    BY <1>6
  <2> HIDE DEF t
  <2>3. SubscriptionsCurrent(t)
    BY <1>1, <1>5, <1>6, <2>1 DEF SubscriptionsCurrent
  <2> QED
    BY <1>1, <2>1, <2>2, <2>3, SubscriptionsReads
<1>7. ASSUME NEW k \in SubscriptionId, found = {k},
             Begin(w, [op |-> "webhook", row |-> k, was |-> subscriptions[k],
                       becomes |-> becomes])
      PROVE  SubscriptionsInv'
  <2> DEFINE t == [op |-> "webhook", row |-> k, was |-> subscriptions[k], becomes |-> becomes]
  <2>1. subscriptions[k] # NoRow /\ subscriptions[k] \in SubscriptionRow
    BY <1>t, <1>4, <1>7 DEF OfGroup
  <2>2. /\ t \in SubscriptionsTxn /\ t.op = "webhook" /\ t.becomes = becomes
        /\ t.row = k /\ t.was = subscriptions[k]
    BY <1>1, <2>1 DEF SubscriptionsTxn
  <2>3. Begin(w, t)
    BY <1>7
  <2> HIDE DEF t
  <2>4. SubscriptionsCurrent(t)
    BY <1>1, <1>2, <1>7, <2>2 DEF SubscriptionsCurrent
  <2> QED
    BY <1>1, <2>1, <2>2, <2>3, <2>4, SubscriptionsReads
<1> QED
    BY <1>3, <1>6, <1>7

LEMMA StatusReadStep ==
    ASSUME SubscriptionsInv, NEW w \in Worker, NEW s \in StripeId, NEW status \in Status,
           StatusRead(w, s, status)
    PROVE  SubscriptionsInv'
<1>t. SubscriptionsTypeOK /\ subscriptions \in [SubscriptionId -> SubscriptionRow \cup {NoRow}]
    BY DEF SubscriptionsInv, SubscriptionsTypeOK
<1>1. PICK k \in SubscriptionId :
        /\ OfStripe(s) = {k}
        /\ Begin(w, [op |-> "webhook", row |-> k, was |-> subscriptions[k],
                     becomes |-> [subscriptions[k] EXCEPT !.status = status]])
    BY DEF StatusRead, Changed
<1>2. status \in reported[s] /\ UNCHANGED subscriptionsTables
    BY DEF StatusRead
<1>3. /\ subscriptions[k] # NoRow /\ subscriptions[k].stripe = s
      /\ subscriptions[k] \in SubscriptionRow
    BY <1>t, <1>1 DEF OfStripe, OfGroup
<1> DEFINE becomes == [subscriptions[k] EXCEPT !.status = status]
           t == [op |-> "webhook", row |-> k, was |-> subscriptions[k], becomes |-> becomes]
<1>4. becomes \in SubscriptionRow /\ becomes.stripe = s /\ becomes.status = status
    BY <1>3 DEF SubscriptionRow
<1>5. /\ t \in SubscriptionsTxn /\ t.op = "webhook" /\ t.becomes = becomes
      /\ t.row = k /\ t.was = subscriptions[k]
    BY <1>3, <1>4 DEF SubscriptionsTxn
<1>6. Begin(w, t)
    BY <1>1
<1> HIDE DEF t, becomes
<1>7. SubscriptionsCurrent(t)
    BY <1>1, <1>2, <1>4, <1>5 DEF SubscriptionsCurrent
<1> QED
    BY <1>2, <1>3, <1>5, <1>6, <1>7, SubscriptionsReads

(* A column that did not change stays, one that did is written. *)
LEMMA ColumnsWritten ==
    ASSUME NEW old \in SubscriptionRow, NEW was \in SubscriptionRow, NEW becomes \in SubscriptionRow
    PROVE  LET new == [stripe |-> Column(old.stripe, was.stripe, becomes.stripe),
                       status |-> Column(old.status, was.status, becomes.status)]
           IN  new \in SubscriptionRow /\ (old = was => new = becomes)
BY DEF SubscriptionRow, Column

LEMMA WebhookWriteStep ==
    ASSUME SubscriptionsInv, NEW w \in Worker, WebhookWrite(w) PROVE SubscriptionsInv'
<1>t. /\ SubscriptionsTypeOK /\ txn \in [Worker -> SubscriptionsTxn] /\ OneOpen
      /\ subscriptions \in [SubscriptionId -> SubscriptionRow \cup {NoRow}]
    BY DEF SubscriptionsInv, SubscriptionsTypeOK
<1>1. /\ txn[w].op = "webhook" /\ End(w) /\ checkouts' = checkouts /\ reported' = reported
      /\ subscriptions' = [subscriptions EXCEPT ![txn[w].row] =
           [stripe |-> Column(@.stripe, txn[w].was.stripe, txn[w].becomes.stripe),
            status |-> Column(@.status, txn[w].was.status, txn[w].becomes.status)]]
    BY DEF WebhookWrite, Open
<1>2. PICK k \in SubscriptionId, was \in SubscriptionRow, becomes \in SubscriptionRow :
        k = txn[w].row /\ was = txn[w].was /\ becomes = txn[w].becomes
    BY <1>t, <1>1, WebhookHolds
<1>3. PICK old \in SubscriptionRow : subscriptions[k] = old
    BY <1>t, <1>1, <1>2 DEF SubscriptionsInv, Open
<1> DEFINE new == [stripe |-> Column(old.stripe, was.stripe, becomes.stripe),
                   status |-> Column(old.status, was.status, becomes.status)]
<1>4. new \in SubscriptionRow /\ (old = was => new = becomes)
    BY ColumnsWritten
<1>5. subscriptions' = [subscriptions EXCEPT ![k] = new]
    BY <1>t, <1>1, <1>2, <1>3
<1> HIDE DEF new
<1>6. /\ subscriptions' \in [SubscriptionId -> SubscriptionRow \cup {NoRow}]
      /\ subscriptions'[k] = new
      /\ \A j \in SubscriptionId : j # k => subscriptions'[j] = subscriptions[j]
    BY <1>t, <1>4, <1>5
<1>7. txn[w] # Idle
    BY <1>1, IdleOp
<1>8. /\ overlap' = overlap /\ txn' \in [Worker -> SubscriptionsTxn]
      /\ \A v \in Worker : txn'[v] = Idle \/ (txn'[v] = txn[v] /\ overlap)
    BY <1>t, <1>1, <1>7, SubscriptionsIdle, EndLeaves
<1>9. SubscriptionsTypeOK'
    BY <1>t, <1>1, <1>6, <1>8 DEF SubscriptionsTypeOK
<1>10. ASSUME ~overlap PROVE OneRowEach' /\ StatusReported'
  <2>1. OneRowEach /\ StatusReported /\ SubscriptionsCurrent(txn[w])
    BY <1>10 DEF SubscriptionsInv
  <2>2. /\ new = becomes /\ becomes.stripe \in StripeId
        /\ becomes.status \in reported[becomes.stripe]
        /\ OfStripe(becomes.stripe) \subseteq {k}
    BY <1>1, <1>2, <1>3, <1>4, <2>1 DEF SubscriptionsCurrent
  <2>3. \A j \in SubscriptionId :
          subscriptions[j] # NoRow /\ subscriptions[j].stripe = becomes.stripe => j = k
    BY <2>2 DEF OfStripe, OfGroup
  <2>4. OneRowEach'
    BY <1>6, <2>1, <2>2, <2>3 DEF OneRowEach
  <2>5. StatusReported'
    BY <1>1, <1>6, <2>1, <2>2 DEF StatusReported
  <2> QED
    BY <2>4, <2>5
<1>11. \A j \in SubscriptionId : subscriptions[j] # NoRow => subscriptions'[j] # NoRow
  <2>1. new # NoRow
    BY <1>4, StripeAssumption
  <2> QED
    BY <1>6, <2>1
<1> QED
    BY <1>8, <1>9, <1>10, <1>11, SubscriptionsWrites

LEMMA SubscriptionsAbandonStep ==
    ASSUME SubscriptionsInv, NEW w \in Worker, Abandon(w), UNCHANGED subscriptionsTables
    PROVE  SubscriptionsInv'
<1>t. SubscriptionsTypeOK /\ txn \in [Worker -> SubscriptionsTxn] /\ OneOpen
    BY DEF SubscriptionsInv, SubscriptionsTypeOK
<1>1. /\ overlap' = overlap /\ txn' \in [Worker -> SubscriptionsTxn]
      /\ \A v \in Worker : txn'[v] = Idle \/ (txn'[v] = txn[v] /\ overlap)
    BY <1>t, SubscriptionsIdle, EndLeaves DEF Abandon
<1>2. subscriptions' = subscriptions /\ checkouts' = checkouts /\ reported' = reported
    BY DEF subscriptionsTables
<1>3. SubscriptionsTypeOK'
    BY <1>t, <1>1, <1>2 DEF SubscriptionsTypeOK
<1>4. ~overlap => OneRowEach' /\ StatusReported'
    BY <1>2 DEF SubscriptionsInv, OneRowEach, StatusReported
<1> QED
    BY <1>1, <1>2, <1>3, <1>4, SubscriptionsWrites

LEMMA SubscriptionsInvStep == SubscriptionsInv /\ SubscriptionsNext => SubscriptionsInv'
<1>1. ASSUME SubscriptionsInv, NEW w \in Worker, SubscriptionsStep(w) PROVE SubscriptionsInv'
  <2>1. CASE SubscribeRead(w) \/ SubscribeWrite(w)
    BY <1>1, <2>1, SubscribeReadStep, SubscribeWriteStep
  <2>2. CASE CreatedFirst(w) \/ WebhookWrite(w)
    BY <1>1, <2>2, CreatedFirstStep, WebhookWriteStep
  <2>3. CASE \E s \in StripeId : Checkout(w, s) \/ CreatedRead(w, s)
    BY <1>1, <2>3, CheckoutStep, CreatedReadStep
  <2>4. CASE \E s \in StripeId, status \in Status : StatusRead(w, s, status)
    BY <1>1, <2>4, StatusReadStep
  <2>5. CASE Abandon(w) /\ UNCHANGED subscriptionsTables
    BY <1>1, <2>5, SubscriptionsAbandonStep
  <2> QED
    BY <1>1, <2>1, <2>2, <2>3, <2>4, <2>5 DEF SubscriptionsStep
<1> QED
    BY <1>1, StripeReportsStep DEF SubscriptionsNext

LEMMA SubscriptionsInvStutter ==
    SubscriptionsInv /\ UNCHANGED subscriptionsVars => SubscriptionsInv'
<1> SUFFICES ASSUME SubscriptionsInv, UNCHANGED subscriptionsVars PROVE SubscriptionsInv'
    OBVIOUS
<1>1. /\ subscriptions' = subscriptions /\ checkouts' = checkouts /\ reported' = reported
      /\ txn' = txn /\ overlap' = overlap
    BY DEF subscriptionsVars
<1>2. SubscriptionsTypeOK' /\ OneOpen' /\ \A w \in Worker : Open(w, "webhook")' =>
        subscriptions'[txn'[w].row] # NoRow
    BY <1>1 DEF SubscriptionsInv, SubscriptionsTypeOK, OneOpen, Open
<1>3. ~overlap => OneRowEach' /\ StatusReported' /\ \A w \in Worker : SubscriptionsCurrent(txn[w])'
    BY <1>1
    DEF SubscriptionsInv, OneRowEach, StatusReported, SubscriptionsCurrent, OfGroup, OfStripe
<1> QED
    BY <1>1, <1>2, <1>3 DEF SubscriptionsInv

(* What the invariant says of the rows. *)
LEMMA RowsFollow == SubscriptionsInv => RowsFollowStripe
<1> SUFFICES ASSUME SubscriptionsInv, ~overlap, NEW s \in StripeId
             PROVE  /\ Cardinality(OfStripe(s)) <= 1
                    /\ \A k \in OfStripe(s) : subscriptions[k].status \in reported[s]
    BY DEF RowsFollowStripe
<1>0. OneRowEach /\ StatusReported
    BY DEF SubscriptionsInv
<1>1. \A k \in OfStripe(s) : subscriptions[k].status \in reported[s]
    BY <1>0 DEF StatusReported, OfStripe, OfGroup
<1>2. \A j, k \in OfStripe(s) : j = k
    BY <1>0 DEF OneRowEach, OfStripe, OfGroup
<1>3. Cardinality(OfStripe(s)) <= 1
    BY <1>2, AtMostOne
<1> QED
    BY <1>1, <1>3

THEOREM StripeIsFollowed == SubscriptionsSpec => []RowsFollowStripe
<1>1. SubscriptionsInit => SubscriptionsInv
    BY SubscriptionsInitially DEF SubscriptionsInit
<1>2. SubscriptionsInv /\ [SubscriptionsNext]_subscriptionsVars => SubscriptionsInv'
    BY SubscriptionsInvStep, SubscriptionsInvStutter
<1> QED
    BY <1>1, <1>2, RowsFollow, PTL DEF SubscriptionsSpec

-----------------------------------------------------------------------------
(***************************************************************************)
(* IdentityProtection.  Whatever interleaves, what a link or a session     *)
(* names is an account of its own user, and an account is closed before    *)
(* its link is cancelled (IdentityBacked).  As long as sessions do not     *)
(* overlap, a session between the partner and the database knows the one   *)
(* account that its user has open, or that there is none                   *)
(* (IdentityCurrent), and a user whom no session is about has the account  *)
(* of the link (LinkedAsRecorded).                                         *)
(***************************************************************************)
OpenOf(u, a) == partnerAccounts[a] # NoRow /\ partnerAccounts[a].user = u /\ partnerAccounts[a].open

LinksBacked == \A u \in Member : links[u] # NoRow =>
    /\ partnerAccounts[links[u].account] # NoRow
    /\ partnerAccounts[links[u].account].user = u
    /\ links[u].status = "cancelled" => ~partnerAccounts[links[u].account].open

IdentityBacked(t) ==
    /\ t.op \in {"link", "close", "cancel"} =>
         /\ partnerAccounts[t.account] # NoRow
         /\ partnerAccounts[t.account].user = t.user
    /\ t.op \in {"close", "cancel"} =>
         links[t.user] # NoRow /\ links[t.user].account = t.account
    /\ t.op = "cancel" => ~partnerAccounts[t.account].open

IdentityCurrent(t) ==
    /\ t.op \in {"open", "link"} => ~HasActive(t.user)
    /\ t.op \in {"close", "cancel"} => HasActive(t.user)
    /\ t.op = "link" /\ t.user \notin unsettled =>
         \A a \in AccountId : OpenOf(t.user, a) <=> a = t.account
    /\ t.op = "cancel" /\ t.user \notin unsettled =>
         \A a \in AccountId : ~OpenOf(t.user, a)

LinkedAsRecorded(u) == \A a \in AccountId :
    OpenOf(u, a) <=> HasActive(u) /\ links[u].account = a

About(t, u) == t.op \in {"link", "cancel"} /\ t.user = u

IdentityProtectionInv ==
    /\ IdentityProtectionTypeOK
    /\ OneOpen
    /\ LinksBacked
    /\ \A w \in Worker : IdentityBacked(txn[w])
    /\ ~overlap => /\ \A w \in Worker : IdentityCurrent(txn[w])
                   /\ \A u \in Member : /\ u \notin unsettled
                                        /\ \A w \in Worker : ~About(txn[w], u)
                                        => LinkedAsRecorded(u)

LEMMA IdentityTypes ==
    ASSUME IdentityProtectionTypeOK
    PROVE  /\ links \in [Member -> Link \cup {NoRow}]
           /\ partnerAccounts \in [AccountId -> Account \cup {NoRow}]
           /\ unsettled \subseteq Member
           /\ txn \in [Worker -> IdentityProtectionTxn]
BY DEF IdentityProtectionTypeOK

LEMMA IdentityIdle ==
    /\ Idle \in IdentityProtectionTxn /\ IdentityBacked(Idle) /\ IdentityCurrent(Idle)
    /\ \A u : ~About(Idle, u)
BY IdleOp DEF IdentityBacked, IdentityCurrent, About, IdentityProtectionTxn

(* What a session holds. *)
LEMMA IdentityHolds ==
    ASSUME NEW t \in IdentityProtectionTxn
    PROVE  /\ t.op = "open" => t.user \in Member
           /\ t.op \in {"link", "close", "cancel"} => t.user \in Member /\ t.account \in AccountId
           /\ t.op \in {"idle", "open", "link", "close", "cancel"}
BY IdleOp DEF IdentityProtectionTxn

LEMMA IdentityInitially ==
    IdentityProtectionTablesInit /\ SessionsInit => IdentityProtectionInv
<1> SUFFICES ASSUME IdentityProtectionTablesInit, SessionsInit PROVE IdentityProtectionInv
    OBVIOUS
<1> USE DEF IdentityProtectionTablesInit, SessionsInit
<1>1. IdentityProtectionTypeOK
    BY IdentityIdle DEF IdentityProtectionTypeOK
<1>2. LinksBacked /\ \A u \in Member : LinkedAsRecorded(u)
    BY DEF LinksBacked, LinkedAsRecorded, OpenOf, HasActive
<1>3. \A w \in Worker : IdentityBacked(txn[w]) /\ IdentityCurrent(txn[w])
    BY IdentityIdle
<1> QED
    BY <1>1, <1>2, <1>3, NoneOpen DEF IdentityProtectionInv

(* Accounts and links only get on: whose they are stays, and none opens again. *)
AccountsGoOn ==
    /\ \A a \in AccountId : partnerAccounts[a] # NoRow =>
         /\ partnerAccounts'[a] # NoRow /\ partnerAccounts'[a].user = partnerAccounts[a].user
         /\ partnerAccounts'[a].open => partnerAccounts[a].open
    /\ \A u \in Member : links[u] # NoRow =>
         links'[u] # NoRow /\ links'[u].account = links[u].account

LEMMA BackedGoesOn ==
    ASSUME IdentityProtectionTypeOK, AccountsGoOn, NEW t \in IdentityProtectionTxn,
           IdentityBacked(t)
    PROVE  \A now : now = t => /\ now.op \in {"link", "close", "cancel"} =>
                                    /\ partnerAccounts'[now.account] # NoRow
                                    /\ partnerAccounts'[now.account].user = now.user
                               /\ now.op \in {"close", "cancel"} =>
                                    links'[now.user] # NoRow /\ links'[now.user].account = now.account
                               /\ now.op = "cancel" => ~partnerAccounts'[now.account].open
BY IdentityHolds DEF AccountsGoOn, IdentityBacked

(* Each step gives one session something else to hold. *)
LEMMA IdentityMoves ==
    ASSUME IdentityProtectionInv, IdentityProtectionTypeOK', overlap' = overlap, OneOpen',
           NEW w \in Worker, NEW t, txn' = [txn EXCEPT ![w] = t],
           ~overlap => \A v \in Worker : v = w \/ txn[v] = Idle,
           AccountsGoOn, LinksBacked',
           \A now : now = t => IdentityBacked(now)',
           ~overlap => \A now : now = t => IdentityCurrent(now)',
           ~overlap => \A u \in Member : u \notin unsettled' /\ ~About(t, u) => LinkedAsRecorded(u)'
    PROVE  IdentityProtectionInv'
<1>t. IdentityProtectionTypeOK /\ txn \in [Worker -> IdentityProtectionTxn]
    BY DEF IdentityProtectionInv, IdentityProtectionTypeOK
<1>1. \A v \in Worker : txn'[v] = t \/ (txn'[v] = txn[v] /\ v # w)
    BY <1>t
<1>2. \A v \in Worker : IdentityBacked(txn[v])'
  <2> SUFFICES ASSUME NEW v \in Worker PROVE IdentityBacked(txn[v])'
    OBVIOUS
  <2>1. CASE txn'[v] = t
    BY <2>1
  <2>2. CASE txn'[v] = txn[v]
    <3>1. txn[v] \in IdentityProtectionTxn /\ IdentityBacked(txn[v])
        BY <1>t DEF IdentityProtectionInv
    <3> QED
        BY <1>t, <2>2, <3>1, BackedGoesOn DEF IdentityBacked
  <2> QED
    BY <1>1, <2>1, <2>2
<1>3. ~overlap => \A v \in Worker : IdentityCurrent(txn[v])'
  <2> SUFFICES ASSUME ~overlap, NEW v \in Worker PROVE IdentityCurrent(txn[v])'
    OBVIOUS
  <2>1. CASE txn'[v] = t
    BY <2>1
  <2>2. CASE txn'[v] = Idle
    BY <2>2, IdleOp DEF IdentityCurrent
  <2> QED
    BY <1>1, <2>1, <2>2
<1>4. txn'[w] = t
    BY <1>t
<1>5. ~overlap => \A u \in Member :
        u \notin unsettled' /\ (\A v \in Worker : ~About(txn[v], u)') => LinkedAsRecorded(u)'
    BY <1>4 DEF About
<1> QED
    BY <1>2, <1>3, <1>5 DEF IdentityProtectionInv

LEMMA OnlySession ==
    ASSUME IdentityProtectionInv, NEW w \in Worker, txn[w] # Idle \/ Free(w)
    PROVE  ~overlap => \A v \in Worker : v = w \/ txn[v] = Idle
BY DEF IdentityProtectionInv, OneOpen, Free

(* A session that has only read. *)
LEMMA IdentityReads ==
    ASSUME IdentityProtectionInv, NEW w \in Worker, NEW t \in IdentityProtectionTxn, Begin(w, t),
           UNCHANGED identityProtectionTables, t.op \in {"open", "close"},
           IdentityBacked(t), IdentityCurrent(t)
    PROVE  IdentityProtectionInv'
<1>t. IdentityProtectionTypeOK /\ txn \in [Worker -> IdentityProtectionTxn] /\ OneOpen
    BY DEF IdentityProtectionInv, IdentityProtectionTypeOK
<1>1. /\ links' = links /\ partnerAccounts' = partnerAccounts /\ unsettled' = unsettled
      /\ txn' = [txn EXCEPT ![w] = t] /\ overlap' = overlap /\ Free(w)
    BY DEF Begin, identityProtectionTables
<1>2. IdentityProtectionTypeOK' /\ OneOpen'
    BY <1>t, <1>1, BeginKeepsOne DEF IdentityProtectionTypeOK
<1>3. AccountsGoOn /\ LinksBacked'
    BY <1>1 DEF AccountsGoOn, LinksBacked, IdentityProtectionInv
<1>4. \A now : now = t => IdentityBacked(now)' /\ IdentityCurrent(now)'
    BY <1>1 DEF IdentityBacked, IdentityCurrent, HasActive, OpenOf
<1>5. ~overlap => \A v \in Worker : txn[v] = Idle
    BY <1>1 DEF Free
<1>6. ~overlap => \A u \in Member : u \notin unsettled' => LinkedAsRecorded(u)'
    BY <1>1, <1>5, IdentityIdle DEF LinkedAsRecorded, OpenOf, HasActive, IdentityProtectionInv
<1> QED
    BY <1>1, <1>2, <1>3, <1>4, <1>5, <1>6, IdentityMoves

LEMMA ActivateReadStep ==
    ASSUME IdentityProtectionInv, NEW w \in Worker, NEW u \in Member, ActivateRead(w, u)
    PROVE  IdentityProtectionInv'
<1> DEFINE t == [op |-> "open", user |-> u]
<1>1. t \in IdentityProtectionTxn /\ t.op = "open" /\ t.user = u
    BY DEF IdentityProtectionTxn
<1>2. ~HasActive(u) /\ Begin(w, t) /\ UNCHANGED identityProtectionTables
    BY DEF ActivateRead
<1> HIDE DEF t
<1>3. IdentityBacked(t) /\ IdentityCurrent(t)
    BY <1>1, <1>2 DEF IdentityBacked, IdentityCurrent
<1> QED
    BY <1>1, <1>2, <1>3, IdentityReads

LEMMA RevocationReadStep ==
    ASSUME IdentityProtectionInv, NEW w \in Worker, NEW u \in Member, RevocationRead(w, u)
    PROVE  IdentityProtectionInv'
<1> DEFINE t == [op |-> "close", user |-> u, account |-> links[u].account]
<1>1. HasActive(u) /\ Begin(w, t) /\ UNCHANGED identityProtectionTables
    BY DEF RevocationRead
<1>2. links[u] # NoRow /\ links[u].account \in AccountId
    BY <1>1 DEF HasActive, IdentityProtectionInv, IdentityProtectionTypeOK, Link
<1>3. /\ t \in IdentityProtectionTxn /\ t.op = "close" /\ t.user = u
      /\ t.account = links[u].account
    BY <1>2 DEF IdentityProtectionTxn
<1> HIDE DEF t
<1>4. IdentityBacked(t) /\ IdentityCurrent(t)
    BY <1>1, <1>2, <1>3
    DEF IdentityBacked, IdentityCurrent, LinksBacked, IdentityProtectionInv
<1> QED
    BY <1>1, <1>3, <1>4, IdentityReads

LEMMA AccountOpenedStep ==
    ASSUME IdentityProtectionInv, NEW w \in Worker, NEW heard \in BOOLEAN, AccountOpened(w, heard)
    PROVE  IdentityProtectionInv'
<1>t. /\ IdentityProtectionTypeOK /\ txn \in [Worker -> IdentityProtectionTxn] /\ OneOpen
      /\ partnerAccounts \in [AccountId -> Account \cup {NoRow}]
      /\ links \in [Member -> Link \cup {NoRow}] /\ unsettled \subseteq Member
    BY DEF IdentityProtectionInv, IdentityProtectionTypeOK
<1>0. txn[w].op = "open" /\ txn[w] # Idle /\ txn[w].user \in Member
    BY <1>t, IdleOp, IdentityHolds DEF AccountOpened, Open
<1>1. PICK u \in Member : txn[w].user = u
    BY <1>0
<1>2. PICK a \in AccountId :
        /\ partnerAccounts[a] = NoRow
        /\ partnerAccounts' = [partnerAccounts EXCEPT ![a] = [user |-> u, open |-> TRUE]]
        /\ IF heard
           THEN /\ Continue(w, [op |-> "link", user |-> u, account |-> a])
                /\ UNCHANGED unsettled
           ELSE End(w) /\ unsettled' = unsettled \cup {u}
        /\ links' = links
  <2>1. \E b \in AccountId : partnerAccounts[b] = NoRow
    BY <1>t DEF AccountOpened, Room
  <2> QED
    BY <1>1, <2>1 DEF AccountOpened
<1>3. /\ partnerAccounts' \in [AccountId -> Account \cup {NoRow}]
      /\ partnerAccounts'[a] # NoRow /\ partnerAccounts'[a].user = u /\ partnerAccounts'[a].open
      /\ \A b \in AccountId : b # a => partnerAccounts'[b] = partnerAccounts[b]
  <2> DEFINE row == [user |-> u, open |-> TRUE]
  <2>0. row.open
    OBVIOUS
  <2>a. row \in Account
    BY DEF Account
  <2>1. row # NoRow /\ row.user = u
    BY <2>a, AccountAssumption
  <2>2. partnerAccounts' = [partnerAccounts EXCEPT ![a] = row]
    BY <1>2
  <2> HIDE DEF row
  <2> QED
    BY <1>t, <2>0, <2>a, <2>1, <2>2
<1>4. AccountsGoOn
    BY <1>2, <1>3 DEF AccountsGoOn
<1>5. LinksBacked'
  <2>1. \A m \in Member : links[m] # NoRow => links[m].account \in AccountId /\ links[m].account # a
    BY <1>t, <1>2 DEF Link, LinksBacked, IdentityProtectionInv
  <2> QED
    BY <1>2, <1>3, <2>1 DEF LinksBacked, IdentityProtectionInv
<1>6. ASSUME ~overlap PROVE ~HasActive(u) /\ \A v \in Worker : v = w \/ txn[v] = Idle
    BY <1>0, <1>1, <1>6, OnlySession DEF IdentityProtectionInv, IdentityCurrent
<1>7. ASSUME ~overlap, NEW m \in Member, m \notin unsettled PROVE LinkedAsRecorded(m)
  <2>1. \A v \in Worker : ~About(txn[v], m)
    BY <1>0, <1>6, <1>7, IdentityIdle DEF About
  <2> QED
    BY <1>7, <2>1 DEF IdentityProtectionInv
<1>8. ASSUME ~overlap, NEW m \in Member, m \notin unsettled, m # u PROVE LinkedAsRecorded(m)'
    BY <1>2, <1>3, <1>7, <1>8 DEF LinkedAsRecorded, OpenOf, HasActive
<1>9. CASE heard
  <2> DEFINE t == [op |-> "link", user |-> u, account |-> a]
  <2>1. t \in IdentityProtectionTxn /\ t.op = "link" /\ t.user = u /\ t.account = a
    BY DEF IdentityProtectionTxn
  <2>2. txn' = [txn EXCEPT ![w] = t] /\ overlap' = overlap /\ unsettled' = unsettled
        /\ Continue(w, t)
    BY <1>2, <1>9 DEF Continue
  <2> HIDE DEF t
  <2>3. IdentityProtectionTypeOK' /\ OneOpen'
    BY <1>t, <1>0, <1>2, <1>3, <2>1, <2>2, ContinueKeepsOne DEF IdentityProtectionTypeOK
  <2>4. \A now : now = t => IdentityBacked(now)'
    BY <1>3, <2>1 DEF IdentityBacked
  <2>5. ASSUME ~overlap PROVE \A now : now = t => IdentityCurrent(now)'
    <3>1. u \notin unsettled => \A b \in AccountId : ~OpenOf(u, b)
        BY <1>6, <1>7, <2>5 DEF LinkedAsRecorded
    <3>2. u \notin unsettled => \A b \in AccountId : OpenOf(u, b)' <=> b = a
        BY <1>3, <3>1 DEF OpenOf
    <3> QED
        BY <1>2, <1>6, <2>1, <2>2, <2>5, <3>2 DEF IdentityCurrent, HasActive
  <2>6. ~overlap => \A m \in Member : m \notin unsettled' /\ ~About(t, m) => LinkedAsRecorded(m)'
    BY <1>8, <2>1, <2>2 DEF About
  <2> QED
    BY <1>4, <1>5, <1>6, <2>2, <2>3, <2>4, <2>5, <2>6, IdentityMoves
<1>10. CASE ~heard
  <2>1. txn' = [txn EXCEPT ![w] = Idle] /\ overlap' = overlap /\ unsettled' = unsettled \cup {u}
        /\ End(w)
    BY <1>2, <1>10 DEF End
  <2>2. IdentityProtectionTypeOK' /\ OneOpen'
    BY <1>t, <1>0, <1>2, <1>3, <2>1, IdentityIdle, EndKeepsOne DEF IdentityProtectionTypeOK
  <2>3. \A now : now = Idle => IdentityBacked(now)' /\ IdentityCurrent(now)'
    BY IdleOp DEF IdentityBacked, IdentityCurrent
  <2>4. ~overlap => \A m \in Member : m \notin unsettled' => LinkedAsRecorded(m)'
    BY <1>8, <2>1
  <2> QED
    BY <1>4, <1>5, <1>6, <2>1, <2>2, <2>3, <2>4, IdentityMoves
<1> QED
    BY <1>9, <1>10

LEMMA LinkInsertedStep ==
    ASSUME IdentityProtectionInv, NEW w \in Worker, LinkInserted(w)
    PROVE  IdentityProtectionInv'
<1>t. /\ IdentityProtectionTypeOK /\ txn \in [Worker -> IdentityProtectionTxn] /\ OneOpen
      /\ links \in [Member -> Link \cup {NoRow}] /\ unsettled \subseteq Member
    BY DEF IdentityProtectionInv, IdentityProtectionTypeOK
<1>0. /\ txn[w].op = "link" /\ txn[w] # Idle /\ txn[w].user \in Member
      /\ txn[w].account \in AccountId
    BY <1>t, IdleOp, IdentityHolds DEF LinkInserted, Open
<1>1. PICK u \in Member, a \in AccountId : txn[w].user = u /\ txn[w].account = a
    BY <1>0
<1>2. /\ IF links[u] = NoRow
         THEN /\ links' = [links EXCEPT ![u] = [account |-> a, status |-> "active"]]
              /\ unsettled' = unsettled
         ELSE unsettled' = unsettled \cup {u} /\ links' = links
      /\ End(w) /\ txn' = [txn EXCEPT ![w] = Idle] /\ overlap' = overlap
      /\ partnerAccounts' = partnerAccounts
    BY <1>1 DEF LinkInserted, End
<1>3. /\ partnerAccounts[a] # NoRow /\ partnerAccounts[a].user = u
    BY <1>0, <1>1 DEF IdentityProtectionInv, IdentityBacked
<1>4. \/ /\ links[u] = NoRow /\ unsettled' = unsettled
         /\ links' \in [Member -> Link \cup {NoRow}] /\ links'[u] # NoRow
         /\ links'[u].account = a /\ links'[u].status = "active"
         /\ \A m \in Member : m # u => links'[m] = links[m]
      \/ unsettled' = unsettled \cup {u} /\ links' = links
  <2> DEFINE row == [account |-> a, status |-> "active"]
  <2>1. row \in Link /\ row # NoRow /\ row.account = a /\ row.status = "active"
    BY AccountAssumption DEF Link
  <2>2. links[u] = NoRow => links' = [links EXCEPT ![u] = row] /\ unsettled' = unsettled
    BY <1>2
  <2> HIDE DEF row
  <2> QED
    BY <1>t, <1>2, <2>1, <2>2
<1>5. IdentityProtectionTypeOK' /\ OneOpen'
    BY <1>t, <1>2, <1>4, IdentityIdle, EndKeepsOne DEF IdentityProtectionTypeOK
<1>6. AccountsGoOn
    BY <1>2, <1>4 DEF AccountsGoOn
<1>7. LinksBacked'
    BY <1>2, <1>3, <1>4 DEF LinksBacked, IdentityProtectionInv
<1>8. \A now : now = Idle => IdentityBacked(now)' /\ IdentityCurrent(now)'
    BY IdleOp DEF IdentityBacked, IdentityCurrent
<1>9. ~overlap => \A v \in Worker : v = w \/ txn[v] = Idle
    BY <1>0, OnlySession
<1>10. ASSUME ~overlap, NEW m \in Member, m \notin unsettled' PROVE LinkedAsRecorded(m)'
  <2>1. m \notin unsettled
    BY <1>4, <1>10
  <2>2. CASE m # u
    <3>1. \A v \in Worker : ~About(txn[v], m)
        BY <1>1, <1>9, <1>10, <2>2, IdentityIdle DEF About
    <3>2. LinkedAsRecorded(m)
        BY <1>10, <2>1, <3>1 DEF IdentityProtectionInv
    <3> QED
        BY <1>2, <1>4, <2>2, <3>2 DEF LinkedAsRecorded, OpenOf, HasActive
  <2>3. CASE m = u
    <3>1. \A b \in AccountId : OpenOf(u, b) <=> b = a
        BY <1>0, <1>1, <1>10, <2>1, <2>3 DEF IdentityProtectionInv, IdentityCurrent
    <3>2. links'[u] # NoRow /\ links'[u].account = a /\ links'[u].status = "active"
        BY <1>4, <1>10, <2>3
    <3> QED
        BY <1>2, <2>3, <3>1, <3>2 DEF LinkedAsRecorded, OpenOf, HasActive
  <2> QED
    BY <2>2, <2>3
<1> QED
    BY <1>2, <1>5, <1>6, <1>7, <1>8, <1>9, <1>10, IdentityMoves

LEMMA AccountClosedStep ==
    ASSUME IdentityProtectionInv, NEW w \in Worker, NEW heard \in BOOLEAN, AccountClosed(w, heard)
    PROVE  IdentityProtectionInv'
<1>t. /\ IdentityProtectionTypeOK /\ txn \in [Worker -> IdentityProtectionTxn] /\ OneOpen
      /\ partnerAccounts \in [AccountId -> Account \cup {NoRow}] /\ unsettled \subseteq Member
    BY DEF IdentityProtectionInv, IdentityProtectionTypeOK
<1>0. /\ txn[w].op = "close" /\ txn[w] # Idle /\ txn[w].user \in Member
      /\ txn[w].account \in AccountId /\ txn[w] \in [op: {"link", "close", "cancel"}, user: Member,
                                                     account: AccountId]
  <2>1. txn[w] \in IdentityProtectionTxn /\ txn[w].op = "close"
    BY <1>t DEF AccountClosed, Open
  <2> QED
    BY <2>1, IdleOp, IdentityHolds DEF IdentityProtectionTxn
<1>1. PICK u \in Member, a \in AccountId : txn[w].user = u /\ txn[w].account = a
    BY <1>0
<1>2. /\ partnerAccounts' = [partnerAccounts EXCEPT ![a].open = FALSE]
      /\ IF heard
         THEN Continue(w, [txn[w] EXCEPT !.op = "cancel"]) /\ unsettled' = unsettled
         ELSE End(w) /\ unsettled' = unsettled \cup {u}
      /\ links' = links
    BY <1>1 DEF AccountClosed
<1>3. /\ partnerAccounts[a] # NoRow /\ partnerAccounts[a].user = u
      /\ links[u] # NoRow /\ links[u].account = a
    BY <1>0, <1>1 DEF IdentityProtectionInv, IdentityBacked
<1>4. /\ partnerAccounts' \in [AccountId -> Account \cup {NoRow}]
      /\ partnerAccounts'[a] # NoRow /\ partnerAccounts'[a].user = u /\ ~partnerAccounts'[a].open
      /\ \A b \in AccountId : b # a => partnerAccounts'[b] = partnerAccounts[b]
  <2> DEFINE row == [partnerAccounts[a] EXCEPT !.open = FALSE]
  <2>1. partnerAccounts[a] \in Account
    BY <1>t, <1>3
  <2>2. row \in Account /\ row.user = u /\ ~row.open
    BY <1>3, <2>1 DEF Account
  <2>3. partnerAccounts' = [partnerAccounts EXCEPT ![a] = row]
    BY <1>t, <1>2
  <2> HIDE DEF row
  <2> QED
    BY <1>t, <2>2, <2>3, AccountAssumption
<1>5. AccountsGoOn
    BY <1>2, <1>3, <1>4 DEF AccountsGoOn
<1>6. LinksBacked'
  <2> SUFFICES ASSUME NEW m \in Member, links[m] # NoRow
               PROVE  /\ partnerAccounts'[links[m].account] # NoRow
                      /\ partnerAccounts'[links[m].account].user = m
                      /\ links[m].status = "cancelled" => ~partnerAccounts'[links[m].account].open
    BY <1>2 DEF LinksBacked
  <2>1. links[m].account \in AccountId
    BY <1>t DEF IdentityProtectionTypeOK, Link
  <2> QED
    BY <1>3, <1>4, <2>1 DEF LinksBacked, IdentityProtectionInv
<1>7. ASSUME ~overlap PROVE HasActive(u) /\ \A v \in Worker : v = w \/ txn[v] = Idle
    BY <1>0, <1>1, <1>7, OnlySession DEF IdentityProtectionInv, IdentityCurrent
<1>8. ASSUME ~overlap, NEW m \in Member, m \notin unsettled PROVE LinkedAsRecorded(m)
  <2>1. \A v \in Worker : ~About(txn[v], m)
    BY <1>0, <1>7, <1>8, IdentityIdle DEF About
  <2> QED
    BY <1>8, <2>1 DEF IdentityProtectionInv
<1>9. ASSUME ~overlap, NEW m \in Member, m \notin unsettled, m # u PROVE LinkedAsRecorded(m)'
    BY <1>2, <1>3, <1>4, <1>8, <1>9 DEF LinkedAsRecorded, OpenOf, HasActive
<1>10. CASE heard
  <2> DEFINE t == [txn[w] EXCEPT !.op = "cancel"]
  <2>1. t \in IdentityProtectionTxn /\ t.op = "cancel" /\ t.user = u /\ t.account = a
    BY <1>0, <1>1 DEF IdentityProtectionTxn
  <2>2. txn' = [txn EXCEPT ![w] = t] /\ overlap' = overlap /\ unsettled' = unsettled
        /\ Continue(w, t)
    BY <1>2, <1>10 DEF Continue
  <2>p. PICK s : s = t
    OBVIOUS
  <2> HIDE DEF t
  <2>3. IdentityProtectionTypeOK' /\ OneOpen'
    <3>1. Continue(w, s) /\ s \in IdentityProtectionTxn /\ txn' = [txn EXCEPT ![w] = s]
        BY <2>1, <2>2, <2>p
    <3> QED
        BY <1>t, <1>0, <1>2, <1>4, <2>2, <3>1, ContinueKeepsOne DEF IdentityProtectionTypeOK
  <2>s. /\ s \in IdentityProtectionTxn /\ s.op = "cancel" /\ s.user = u /\ s.account = a
        /\ txn' = [txn EXCEPT ![w] = s]
    BY <2>1, <2>2, <2>p
  <2>4. \A now : now = s => IdentityBacked(now)'
    BY <1>2, <1>3, <1>4, <2>s DEF IdentityBacked
  <2>5. ASSUME ~overlap PROVE \A now : now = s => IdentityCurrent(now)'
    <3>1. u \notin unsettled => \A b \in AccountId : OpenOf(u, b) <=> b = a
        BY <1>3, <1>7, <1>8, <2>5 DEF LinkedAsRecorded
    <3>2. u \notin unsettled => \A b \in AccountId : ~OpenOf(u, b)'
        BY <1>4, <3>1 DEF OpenOf
    <3> QED
        BY <1>2, <1>7, <2>s, <2>2, <2>5, <3>2 DEF IdentityCurrent, HasActive
  <2>6. ~overlap => \A m \in Member : m \notin unsettled' /\ ~About(s, m) => LinkedAsRecorded(m)'
    BY <1>9, <2>s, <2>2 DEF About
  <2> QED
    BY <1>5, <1>6, <1>7, <2>2, <2>3, <2>4, <2>5, <2>6, <2>s, IdentityMoves
<1>11. CASE ~heard
  <2>1. txn' = [txn EXCEPT ![w] = Idle] /\ overlap' = overlap /\ unsettled' = unsettled \cup {u}
        /\ End(w)
    BY <1>2, <1>11 DEF End
  <2>2. IdentityProtectionTypeOK' /\ OneOpen'
    BY <1>t, <1>2, <1>4, <2>1, IdentityIdle, EndKeepsOne DEF IdentityProtectionTypeOK
  <2>3. \A now : now = Idle => IdentityBacked(now)' /\ IdentityCurrent(now)'
    BY IdleOp DEF IdentityBacked, IdentityCurrent
  <2>4. ~overlap => \A m \in Member : m \notin unsettled' => LinkedAsRecorded(m)'
    BY <1>9, <2>1
  <2> QED
    BY <1>5, <1>6, <1>7, <2>1, <2>2, <2>3, <2>4, IdentityMoves
<1> QED
    BY <1>10, <1>11

LEMMA LinkCancelledStep ==
    ASSUME IdentityProtectionInv, NEW w \in Worker, LinkCancelled(w)
    PROVE  IdentityProtectionInv'
<1>t. /\ IdentityProtectionTypeOK /\ txn \in [Worker -> IdentityProtectionTxn] /\ OneOpen
      /\ links \in [Member -> Link \cup {NoRow}]
    BY DEF IdentityProtectionInv, IdentityProtectionTypeOK
<1>0. /\ txn[w].op = "cancel" /\ txn[w] # Idle /\ txn[w].user \in Member
      /\ txn[w].account \in AccountId
    BY <1>t, IdleOp, IdentityHolds DEF LinkCancelled, Open
<1>1. PICK u \in Member, a \in AccountId : txn[w].user = u /\ txn[w].account = a
    BY <1>0
<1>2. /\ links' = [links EXCEPT ![u].status = "cancelled"]
      /\ End(w) /\ txn' = [txn EXCEPT ![w] = Idle] /\ overlap' = overlap
      /\ partnerAccounts' = partnerAccounts /\ unsettled' = unsettled
    BY <1>1 DEF LinkCancelled, End
<1>3. /\ partnerAccounts[a] # NoRow /\ partnerAccounts[a].user = u /\ ~partnerAccounts[a].open
      /\ links[u] # NoRow /\ links[u].account = a
    BY <1>0, <1>1 DEF IdentityProtectionInv, IdentityBacked
<1>4. /\ links' \in [Member -> Link \cup {NoRow}] /\ links'[u] # NoRow
      /\ links'[u].account = a /\ links'[u].status = "cancelled"
      /\ \A m \in Member : m # u => links'[m] = links[m]
  <2> DEFINE row == [links[u] EXCEPT !.status = "cancelled"]
  <2>1. links[u] \in Link
    BY <1>t, <1>3
  <2>2. row \in Link /\ row.account = a /\ row.status = "cancelled"
    BY <1>3, <2>1 DEF Link
  <2>3. links' = [links EXCEPT ![u] = row]
    BY <1>t, <1>2
  <2> HIDE DEF row
  <2> QED
    BY <1>t, <2>2, <2>3, AccountAssumption
<1>5. IdentityProtectionTypeOK' /\ OneOpen'
    BY <1>t, <1>2, <1>4, IdentityIdle, EndKeepsOne DEF IdentityProtectionTypeOK
<1>6. AccountsGoOn
    BY <1>2, <1>3, <1>4 DEF AccountsGoOn
<1>7. LinksBacked'
    BY <1>2, <1>3, <1>4 DEF LinksBacked, IdentityProtectionInv
<1>8. \A now : now = Idle => IdentityBacked(now)' /\ IdentityCurrent(now)'
    BY IdleOp DEF IdentityBacked, IdentityCurrent
<1>9. ~overlap => \A v \in Worker : v = w \/ txn[v] = Idle
    BY <1>0, OnlySession
<1>10. ASSUME ~overlap, NEW m \in Member, m \notin unsettled' PROVE LinkedAsRecorded(m)'
  <2>1. CASE m # u
    <3>1. \A v \in Worker : ~About(txn[v], m)
        BY <1>1, <1>9, <1>10, <2>1, IdentityIdle DEF About
    <3>2. LinkedAsRecorded(m)
        BY <1>2, <1>10, <3>1 DEF IdentityProtectionInv
    <3> QED
        BY <1>2, <1>4, <2>1, <3>2 DEF LinkedAsRecorded, OpenOf, HasActive
  <2>2. CASE m = u
    <3>1. \A b \in AccountId : ~OpenOf(u, b)
        BY <1>0, <1>1, <1>2, <1>10, <2>2 DEF IdentityProtectionInv, IdentityCurrent
    <3> QED
        BY <1>2, <1>4, <2>2, <3>1 DEF LinkedAsRecorded, OpenOf, HasActive
  <2> QED
    BY <2>1, <2>2
<1> QED
    BY <1>2, <1>5, <1>6, <1>7, <1>8, <1>9, <1>10, IdentityMoves

LEMMA SessionLostStep ==
    ASSUME IdentityProtectionInv, NEW w \in Worker, SessionLost(w)
    PROVE  IdentityProtectionInv'
<1>t. /\ IdentityProtectionTypeOK /\ txn \in [Worker -> IdentityProtectionTxn] /\ OneOpen
      /\ unsettled \subseteq Member
    BY DEF IdentityProtectionInv, IdentityProtectionTypeOK
<1>1. /\ links' = links /\ partnerAccounts' = partnerAccounts
      /\ txn[w] # Idle /\ End(w) /\ txn' = [txn EXCEPT ![w] = Idle] /\ overlap' = overlap
      /\ unsettled' = IF txn[w].op \in {"link", "cancel"} THEN unsettled \cup {txn[w].user}
                      ELSE unsettled
    BY DEF SessionLost, Abandon, End, Open
<1>2. txn[w].op \in {"link", "cancel"} => txn[w].user \in Member
    BY <1>t, IdentityHolds
<1>3. IdentityProtectionTypeOK' /\ OneOpen'
    BY <1>t, <1>1, <1>2, IdentityIdle, EndKeepsOne DEF IdentityProtectionTypeOK
<1>4. AccountsGoOn /\ LinksBacked'
    BY <1>1 DEF AccountsGoOn, LinksBacked, IdentityProtectionInv
<1>5. \A now : now = Idle => IdentityBacked(now)' /\ IdentityCurrent(now)'
    BY IdleOp DEF IdentityBacked, IdentityCurrent
<1>6. ~overlap => \A v \in Worker : v = w \/ txn[v] = Idle
    BY <1>1, OnlySession
<1>7. ASSUME ~overlap, NEW m \in Member, m \notin unsettled' PROVE LinkedAsRecorded(m)'
  <2>1. m \notin unsettled /\ \A v \in Worker : ~About(txn[v], m)
    BY <1>1, <1>6, <1>7, IdentityIdle DEF About
  <2>2. LinkedAsRecorded(m)
    BY <1>7, <2>1 DEF IdentityProtectionInv
  <2> QED
    BY <1>1, <2>2 DEF LinkedAsRecorded, OpenOf, HasActive
<1> QED
    BY <1>1, <1>3, <1>4, <1>5, <1>6, <1>7, IdentityMoves

LEMMA IdentityInvStep ==
    IdentityProtectionInv /\ IdentityProtectionNext => IdentityProtectionInv'
BY ActivateReadStep, RevocationReadStep, AccountOpenedStep, AccountClosedStep,
   LinkInsertedStep, LinkCancelledStep, SessionLostStep DEF IdentityProtectionNext

LEMMA IdentityInvStutter ==
    IdentityProtectionInv /\ UNCHANGED identityProtectionVars => IdentityProtectionInv'
<1> SUFFICES ASSUME IdentityProtectionInv, UNCHANGED identityProtectionVars
             PROVE  IdentityProtectionInv'
    OBVIOUS
<1>1. /\ links' = links /\ partnerAccounts' = partnerAccounts /\ unsettled' = unsettled
      /\ txn' = txn /\ overlap' = overlap
    BY DEF identityProtectionVars
<1>2. IdentityProtectionTypeOK' /\ OneOpen' /\ LinksBacked'
    BY <1>1 DEF IdentityProtectionInv, IdentityProtectionTypeOK, OneOpen, LinksBacked
<1>3. \A w \in Worker : IdentityBacked(txn[w])' /\ (IdentityCurrent(txn[w]) => IdentityCurrent(txn[w])')
    BY <1>1 DEF IdentityProtectionInv, IdentityBacked, IdentityCurrent, HasActive, OpenOf
<1>4. \A u \in Member : (LinkedAsRecorded(u) => LinkedAsRecorded(u)')
                        /\ \A w \in Worker : About(txn[w], u) <=> About(txn[w], u)'
    BY <1>1 DEF LinkedAsRecorded, OpenOf, HasActive, About
<1> QED
    BY <1>1, <1>2, <1>3, <1>4 DEF IdentityProtectionInv

(* What the invariant says of the accounts. *)
LEMMA LinkedFollows == IdentityProtectionInv => AccountsAreLinked
<1> SUFFICES ASSUME IdentityProtectionInv, NEW u \in Member
             PROVE  /\ links[u] # NoRow /\ links[u].status = "cancelled" =>
                         ~partnerAccounts[links[u].account].open
                    /\ ~overlap /\ u \notin unsettled /\ ~Between(u) =>
                         {a \in AccountId : partnerAccounts[a] = [user |-> u, open |-> TRUE]}
                             = IF HasActive(u) THEN {links[u].account} ELSE {}
    BY DEF AccountsAreLinked
<1>1. links[u] # NoRow /\ links[u].status = "cancelled" =>
        ~partnerAccounts[links[u].account].open
    BY DEF IdentityProtectionInv, LinksBacked
<1>2. ASSUME ~overlap, u \notin unsettled, ~Between(u)
      PROVE  {a \in AccountId : partnerAccounts[a] = [user |-> u, open |-> TRUE]}
               = IF HasActive(u) THEN {links[u].account} ELSE {}
  <2>1. LinkedAsRecorded(u)
    BY <1>2 DEF Between, About, IdentityProtectionInv
  <2>2. \A a \in AccountId : partnerAccounts[a] = [user |-> u, open |-> TRUE] <=> OpenOf(u, a)
    <3> SUFFICES ASSUME NEW a \in AccountId
                 PROVE  partnerAccounts[a] = [user |-> u, open |-> TRUE] <=> OpenOf(u, a)
        OBVIOUS
    <3>1. partnerAccounts[a] \in Account \cup {NoRow}
        BY DEF IdentityProtectionInv, IdentityProtectionTypeOK
    <3>2. [user |-> u, open |-> TRUE] \in Account
        BY DEF Account
    <3>3. partnerAccounts[a] = [user |-> u, open |-> TRUE] => OpenOf(u, a)
      <4> DEFINE row == [user |-> u, open |-> TRUE]
      <4>1. row.open
        OBVIOUS
      <4>2. row.user = u /\ row # NoRow
        BY <3>2, AccountAssumption
      <4> HIDE DEF row
      <4>3. partnerAccounts[a] = row => OpenOf(u, a)
        BY <4>1, <4>2 DEF OpenOf
      <4> QED
        BY <4>3 DEF row
    <3>4. OpenOf(u, a) => partnerAccounts[a] = [user |-> u, open |-> TRUE]
        BY <3>1 DEF OpenOf, Account
    <3> QED
        BY <3>3, <3>4
  <2>3. HasActive(u) => links[u].account \in AccountId
    BY DEF HasActive, IdentityProtectionInv, IdentityProtectionTypeOK, Link
  <2> QED
    BY <2>1, <2>2, <2>3 DEF LinkedAsRecorded
<1> QED
    BY <1>1, <1>2

THEOREM LinkedAccounts == IdentityProtectionSpec => []AccountsAreLinked
<1>1. IdentityProtectionInit => IdentityProtectionInv
    BY IdentityInitially DEF IdentityProtectionInit
<1>2. IdentityProtectionInv /\ [IdentityProtectionNext]_identityProtectionVars => IdentityProtectionInv'
    BY IdentityInvStep, IdentityInvStutter
<1> QED
    BY <1>1, <1>2, LinkedFollows, PTL DEF IdentityProtectionSpec

-----------------------------------------------------------------------------
(***************************************************************************)
(* Spend.  An hour is dealt with when it is in the records or among those  *)
(* whose error was taken for no use, and of OpenAI without more (Dealt).   *)
(* Of an account that a session has read, every hour from the first window *)
(* on is dealt with up to where its own window begins (SpendBacked); where *)
(* it runs alone, the accounts are as it read them, and no level that it   *)
(* found due has fired (SpendCurrent).                                     *)
(***************************************************************************)
Dealt(a, h) == llmProvider = "openai" \/ spendRecords[a][h] > 0 \/ <<a, h>> \in missed

(* Where an account's first window began it has been synced since, by now at
   the latest, and what is recorded of it is older than the sync. *)
SyncedInOrder == \A a \in LlmId :
    /\ covered[a] # Never => /\ llmAccounts[a] # NoRow /\ llmAccounts[a].synced # Never
                             /\ \A h \in covered[a]..(llmAccounts[a].synced - 1) : Dealt(a, h)
    /\ llmAccounts[a] # NoRow => llmAccounts[a].synced <= hour
    /\ \A h \in Hour : spendRecords[a][h] > 0 =>
         llmAccounts[a] # NoRow /\ h < llmAccounts[a].synced

CountedOnce == ~overlap =>
    /\ llmProvider \in {"google", "xai"} =>
         \A a \in LlmId, h \in Hour : spendRecords[a][h] <= 1
    /\ \A m \in MonthStart, l \in Level : fired[m][l] <= 1
    /\ \A a, b \in ActiveAccounts : a = b

SpendBacked(t) ==
    t.op = "sync" =>
        /\ t.now = hour
        /\ \A a \in DOMAIN t.read :
             /\ llmAccounts[a] # NoRow /\ t.read[a].synced <= hour
             /\ covered[a] # Never =>
                  \A h \in covered[a]..(WindowStart(t.read[a], hour) - 1) : Dealt(a, h)

SpendCurrent(t) ==
    /\ t.op = "connect" => ActiveAccounts = {}
    /\ t.op = "sync" => \A a \in DOMAIN t.read : t.read[a] = llmAccounts[a]
    /\ t.op = "check" => \A l \in t.due : fired[t.month][l] = 0

SpendInv ==
    /\ SpendTypeOK
    /\ OneOpen
    /\ SyncedInOrder
    /\ CountedOnce
    /\ \A w \in Worker : SpendBacked(txn[w])
    /\ ~overlap => \A w \in Worker : SpendCurrent(txn[w])

LEMMA SpendIdle == SpendBacked(Idle) /\ SpendCurrent(Idle)
BY IdleOp DEF SpendBacked, SpendCurrent

LEMMA SpendTypes ==
    ASSUME SpendTypeOK
    PROVE  /\ hour \in Nat /\ hour \in 0..LastHour /\ LastHour \in Nat /\ Hour \subseteq Nat
           /\ llmAccounts \in [LlmId -> LlmAccount \cup {NoRow}]
           /\ spendRecords \in [LlmId -> [Hour -> Nat]]
           /\ amounts \in [LlmId -> [MonthStart -> Nat]]
           /\ fired \in [MonthStart -> [Level -> Nat]]
           /\ covered \in [LlmId -> 0..LastHour \cup {Never}]
           /\ txn \in [Worker -> SpendTxn] /\ Idle \in SpendTxn
BY SpendAssumption DEF SpendTypeOK, SpendTxn, Hour

LEMMA AccountHolds ==
    ASSUME NEW row \in LlmAccount
    PROVE  /\ row.synced \in 0..LastHour \cup {Never} /\ row.synced \in Int
           /\ row.synced # Never => row.synced \in 0..LastHour
           /\ row.status \in {"active", "inactive", "error"}
           /\ row.key \in {"encrypted", "legacy", "cleared"}
BY SpendAssumption DEF LlmAccount, Never

LEMMA SpendHolds ==
    ASSUME NEW t \in SpendTxn
    PROVE  /\ t.op = "sync" => /\ t # Idle /\ t.now \in 0..LastHour
                               /\ DOMAIN t.read \subseteq LlmId
                               /\ t.read \in [DOMAIN t.read -> LlmAccount]
           /\ t.op = "check" => /\ t # Idle /\ t.month \in MonthStart
                                /\ t.due \subseteq Level
           /\ t.op \in {"idle", "connect", "sync", "check"}
<1>1. CASE t = Idle
    BY <1>1, IdleOp
<1>2. CASE t = [op |-> "connect"]
    BY <1>2
<1>3. CASE t \in [op: {"sync"}, now: 0..LastHour,
                  read: UNION {[s -> LlmAccount] : s \in SUBSET LlmId}]
  <2>1. /\ t.op = "sync" /\ t.now \in 0..LastHour
        /\ t.read \in UNION {[s -> LlmAccount] : s \in SUBSET LlmId}
    BY <1>3
  <2>2. PICK s \in SUBSET LlmId : t.read \in [s -> LlmAccount]
    BY <2>1
  <2> QED
    BY <2>1, <2>2, IdleOp
<1>4. CASE t \in [op: {"check"}, month: MonthStart, due: SUBSET Level]
    BY <1>4, IdleOp
<1> QED
    BY <1>1, <1>2, <1>3, <1>4 DEF SpendTxn

(* Of the hours at which something begins, one is the last by an hour. *)
LEMMA LastToBegin ==
    ASSUME NEW S, S \subseteq Nat, 0 \in S, NEW h \in Nat
    PROVE  \E d \in S : d <= h /\ \A e \in S : e <= h => e <= d
<1> DEFINE since == {n \in Nat : h - n \in S}
           R == OpToRel(<, Nat)
<1>1. h \in since
    OBVIOUS
<1>2. PICK n \in since : \A k \in since : <<k, n>> \notin R
  <2> HIDE DEF R
  <2>1. since \subseteq Nat /\ since # {}
    BY <1>1
  <2>2. IsWellFoundedOn(R, Nat)
    BY NatLessThanWellFounded DEF R
  <2> QED
    BY <2>1, <2>2, WFMin
<1>3. \A k \in since : ~(k < n)
    BY <1>2 DEF OpToRel
<1>4. h - n \in S /\ h - n <= h
    OBVIOUS
<1>5. ASSUME NEW m \in S, m <= h
      PROVE  m <= h - n
  <2>1. h - m \in Nat /\ h - (h - m) = m
    BY <1>5
  <2>2. h - m \in since
    BY <1>5, <2>1
  <2> QED
    BY <1>3, <2>1, <2>2
<1> QED
    BY <1>4, <1>5

LEMMA HourHasMonth ==
    ASSUME NEW h \in 0..LastHour
    PROVE  MonthOf(h) \in MonthStart
<1>1. 0 \in MonthStart /\ MonthStart \subseteq Nat /\ h \in Nat
    BY SpendAssumption
<1>2. \E m \in MonthStart : m <= h /\ \A n \in MonthStart : n <= h => n <= m
    BY <1>1, LastToBegin
<1> QED
    BY <1>2 DEF MonthOf

LEMMA DayBegins ==
    ASSUME NEW h \in 0..LastHour
    PROVE  DayOf(h) \in Nat /\ DayOf(h) <= h
<1>1. 0 \in DayStart /\ DayStart \subseteq Nat /\ h \in Nat
    BY SpendAssumption
<1>2. \E d \in DayStart : d <= h /\ \A e \in DayStart : e <= h => e <= d
    BY <1>1, LastToBegin
<1> QED
    BY <1>1, <1>2 DEF DayOf

(* What is asked for lies before the sync; but of OpenAI, it has the whole of the
   time since the last one, and where a range of times is asked for, no more. *)
LEMMA AskedWindow ==
    ASSUME NEW start \in 0..LastHour, NEW now \in 0..LastHour,
           NEW asked \in Windows(start, now), llmProvider \in LlmProvider
    PROVE  /\ asked \subseteq Hour /\ \A h \in asked : h < now
           /\ llmProvider # "openai" => Since(start, now) \subseteq asked
           /\ llmProvider \in {"google", "xai"} => asked = Since(start, now)
<1>1. DayOf(start) \in Nat /\ DayOf(start) <= start
    BY DayBegins
<1>2. Since(start, now) \subseteq Since(DayOf(start), now)
  <2>1. Hour \subseteq Nat /\ start \in Nat
    BY SpendAssumption DEF Hour
  <2>2. PICK d \in Nat : d = DayOf(start) /\ d <= start
    BY <1>1
  <2>3. \A h \in Hour : h >= start => h >= d
    BY <2>1, <2>2
  <2> QED
    BY <2>2, <2>3 DEF Since
<1>3. /\ asked \subseteq Hour
      /\ \/ llmProvider \in {"google", "openai", "xai"} /\ asked = Since(start, now)
         \/ llmProvider \in {"anthropic", "microsoft"} /\ asked = Since(DayOf(start), now)
         \/ llmProvider = "openai" /\ asked \subseteq Since(0, now)
    BY DEF Windows
<1>4. \A h \in asked : h < now
    BY <1>3 DEF Since
<1> QED
    BY <1>2, <1>3, <1>4

LEMMA OutcomeHolds ==
    ASSUME NEW row, NEW now, NEW o \in SyncOutcomes(row, now)
    PROVE  /\ o.result \in {"later", "refused", "answered"}
           /\ o.result = "answered" => /\ o.asked \in Windows(WindowStart(row, now), now)
                                       /\ o.got \subseteq o.asked
<1>1. CASE o \in [result: {"later", "refused"}, asked: {{}}, got: {{}}]
    BY <1>1
<1>2. CASE o \in UNION {[result: {"answered"}, asked: {asked}, got: Answers(row, asked)] :
                        asked \in Windows(WindowStart(row, now), now)}
  <2>1. PICK asked \in Windows(WindowStart(row, now), now) :
          o \in [result: {"answered"}, asked: {asked}, got: Answers(row, asked)]
    BY <1>2
  <2>2. o.result = "answered" /\ o.asked = asked /\ o.got \in Answers(row, asked)
    BY <2>1
  <2> QED
    BY <2>2 DEF Answers
<1> QED
    BY <1>1, <1>2 DEF SyncOutcomes

LEMMA HoursCount ==
    ASSUME NEW S \in SUBSET Hour
    PROVE  Cardinality(S) \in Nat
<1>1. IsFiniteSet(Hour)
    BY FS_Interval, SpendAssumption DEF Hour
<1> QED
    BY <1>1, FS_Subset, FS_CardinalityType

LEMMA SpendInitially == SpendTablesInit /\ SessionsInit => SpendInv
<1> SUFFICES ASSUME SpendTablesInit, SessionsInit PROVE SpendInv
    OBVIOUS
<1> USE DEF SpendTablesInit, SessionsInit
<1>1. PICK row \in {NoRow, NewAccount("legacy")} :
        llmAccounts = [i \in LlmId |-> IF i = FirstKey THEN row ELSE NoRow]
    OBVIOUS
<1>2. NewAccount("legacy") \in LlmAccount /\ NewAccount("legacy").synced = Never
    BY DEF NewAccount, LlmAccount
<1>3. llmAccounts \in [LlmId -> LlmAccount \cup {NoRow}]
    BY <1>1, <1>2
<1>4. SpendTypeOK
    BY <1>3, SpendAssumption DEF SpendTypeOK, SpendTxn
<1>5. \A i \in LlmId : llmAccounts[i] # NoRow =>
        i = FirstKey /\ llmAccounts[i].synced <= hour
    BY <1>1, <1>2 DEF Never
<1>6. SyncedInOrder
    BY <1>5 DEF SyncedInOrder
<1>7. CountedOnce
    BY <1>5 DEF CountedOnce, ActiveAccounts
<1> QED
    BY <1>4, <1>6, <1>7, NoneOpen, SpendIdle DEF SpendInv

(* Nothing that is said of the tables changes while they do not. *)
LEMMA SpendSame ==
    ASSUME UNCHANGED spendTables
    PROVE  /\ \A t : SpendBacked(t) => SpendBacked(t)'
           /\ \A t : SpendCurrent(t) => SpendCurrent(t)'
           /\ SyncedInOrder => SyncedInOrder'
           /\ CountedOnce /\ overlap' = overlap => CountedOnce'
<1>1. /\ llmProvider' = llmProvider /\ hour' = hour /\ llmAccounts' = llmAccounts
      /\ spendRecords' = spendRecords /\ fired' = fired /\ covered' = covered
      /\ missed' = missed
    BY DEF spendTables, recorded
<1>2. ActiveAccounts' = ActiveAccounts
    BY <1>1 DEF ActiveAccounts
<1>3. \A a, h : Dealt(a, h) <=> Dealt(a, h)'
    BY <1>1 DEF Dealt
<1>4. \A t : SpendBacked(t) => SpendBacked(t)'
    BY <1>1, <1>3 DEF SpendBacked
<1>5. \A t : SpendCurrent(t) => SpendCurrent(t)'
    BY <1>1, <1>2 DEF SpendCurrent
<1>6. SyncedInOrder => SyncedInOrder'
    BY <1>1, <1>3 DEF SyncedInOrder
<1>7. CountedOnce /\ overlap' = overlap => CountedOnce'
    BY <1>1, <1>2 DEF CountedOnce
<1> QED
    BY <1>4, <1>5, <1>6, <1>7

LEMMA SpendReads ==
    ASSUME SpendInv, NEW w \in Worker, NEW t \in SpendTxn,
           SpendBacked(t), SpendCurrent(t), Begin(w, t), UNCHANGED spendTables
    PROVE  SpendInv'
<1>1. SpendTypeOK /\ OneOpen /\ txn \in [Worker -> SpendTxn]
    BY DEF SpendInv, SpendTypeOK
<1>2. /\ llmProvider' = llmProvider /\ hour' = hour /\ llmAccounts' = llmAccounts
      /\ UNCHANGED recorded /\ spendRecords' = spendRecords /\ amounts' = amounts
      /\ budgeted' = budgeted /\ fired' = fired /\ covered' = covered /\ missed' = missed
      /\ overlap' = overlap
    BY DEF spendTables, recorded, Begin
<1>3. /\ txn' \in [Worker -> SpendTxn]
      /\ \A v \in Worker : txn'[v] = IF v = w THEN t ELSE txn[v]
    BY <1>1 DEF Begin
<1>4. OneOpen'
    BY <1>1, BeginKeepsOne
<1>5. SpendTypeOK'
    BY <1>1, <1>2, <1>3 DEF SpendTypeOK
<1>6. SyncedInOrder' /\ CountedOnce'
    BY <1>2, SpendSame DEF SpendInv
<1>7. \A v \in Worker : \A now : now = txn'[v] => SpendBacked(now)'
    BY <1>3, SpendSame DEF SpendInv
<1>8. ~overlap' => \A v \in Worker : \A now : now = txn'[v] => SpendCurrent(now)'
    BY <1>2, <1>3, SpendSame DEF SpendInv
<1> QED
    BY <1>4, <1>5, <1>6, <1>7, <1>8 DEF SpendInv

(* A session that ends and writes nothing, or a step that no session takes. *)
LEMMA SpendStays ==
    ASSUME SpendInv, txn' \in [Worker -> SpendTxn], overlap' = overlap,
           \A v \in Worker : txn'[v] = Idle \/ txn'[v] = txn[v],
           UNCHANGED spendTables
    PROVE  SpendInv'
<1>1. SpendTypeOK /\ OneOpen /\ txn \in [Worker -> SpendTxn]
    BY DEF SpendInv, SpendTypeOK
<1>2. /\ llmProvider' = llmProvider /\ hour' = hour /\ llmAccounts' = llmAccounts
      /\ UNCHANGED recorded /\ spendRecords' = spendRecords /\ amounts' = amounts
      /\ budgeted' = budgeted /\ fired' = fired /\ covered' = covered /\ missed' = missed
    BY DEF spendTables, recorded
<1>3. SpendTypeOK' /\ OneOpen'
    BY <1>1, <1>2 DEF SpendTypeOK, OneOpen
<1>4. SyncedInOrder' /\ CountedOnce'
    BY SpendSame DEF SpendInv
<1>5. \A v \in Worker : \A now : now = txn'[v] => SpendBacked(now)'
    BY SpendSame, SpendIdle DEF SpendInv
<1>6. ~overlap' => \A v \in Worker : \A now : now = txn'[v] => SpendCurrent(now)'
    BY SpendSame, SpendIdle DEF SpendInv
<1> QED
    BY <1>3, <1>4, <1>5, <1>6 DEF SpendInv

-----------------------------------------------------------------------------
LEMMA ConnectReadStep ==
    ASSUME SpendInv, NEW w \in Worker, ConnectRead(w)
    PROVE  SpendInv'
<1>1. PICK t \in SpendTxn : t = [op |-> "connect"] /\ t.op = "connect"
  <2> DEFINE new == [op |-> "connect"]
  <2>1. new \in SpendTxn /\ new.op = "connect"
    BY DEF SpendTxn
  <2> QED
    BY <2>1
<1>2. Begin(w, t) /\ UNCHANGED spendTables /\ ActiveAccounts = {}
    BY <1>1 DEF ConnectRead
<1>3. SpendBacked(t) /\ SpendCurrent(t)
    BY <1>1, <1>2 DEF SpendBacked, SpendCurrent
<1> QED
    BY <1>2, <1>3, SpendReads

LEMMA ConnectWriteStep ==
    ASSUME SpendInv, NEW w \in Worker, ConnectWrite(w)
    PROVE  SpendInv'
<1>1. /\ SpendTypeOK /\ OneOpen /\ txn \in [Worker -> SpendTxn] /\ Idle \in SpendTxn
      /\ SyncedInOrder /\ CountedOnce
    BY SpendTypes DEF SpendInv
<1>2. txn[w].op = "connect" /\ txn[w] # Idle /\ End(w)
    BY OpenIsNotIdle DEF ConnectWrite, Open
<1>3. /\ llmProvider' = llmProvider /\ amounts' = amounts
      /\ hour' = hour /\ spendRecords' = spendRecords /\ budgeted' = budgeted
      /\ fired' = fired /\ covered' = covered /\ missed' = missed
    BY DEF ConnectWrite, recorded
<1>4. /\ overlap' = overlap
      /\ txn' \in [Worker -> SpendTxn]
      /\ \A v \in Worker : txn'[v] = Idle \/ (txn'[v] = txn[v] /\ overlap)
    BY <1>1, <1>2, EndLeaves
<1>5. ~overlap => ActiveAccounts = {}
    BY <1>2 DEF SpendInv, SpendCurrent
<1>6. PICK row \in LlmAccount : row = NewAccount("encrypted") /\ row.synced = Never
  <2>1. NewAccount("encrypted") \in LlmAccount /\ NewAccount("encrypted").synced = Never
    BY DEF NewAccount, LlmAccount
  <2> QED
    BY <2>1
<1>7. llmAccounts \in [LlmId -> LlmAccount \cup {NoRow}]
    BY <1>1, SpendTypes
<1>8. Room(llmAccounts) /\ llmAccounts' = Inserted(llmAccounts, row)
    BY <1>6 DEF ConnectWrite
<1>9. llmAccounts' \in [LlmId -> LlmAccount \cup {NoRow}]
    BY <1>7, <1>8, InsertedTable
<1>10. PICK k \in LlmId :
         /\ llmAccounts[k] = NoRow
         /\ llmAccounts'[k] = row
         /\ \A j \in LlmId : j # k => llmAccounts'[j] = llmAccounts[j]
    BY <1>7, <1>8, AfterInsert
<1>11. \A a, h : Dealt(a, h) <=> Dealt(a, h)'
    BY <1>3 DEF Dealt
<1>12. SpendTypeOK' /\ OneOpen'
    BY <1>1, <1>2, <1>3, <1>4, <1>9 DEF SpendTypeOK, OneOpen
<1>13. SyncedInOrder'
  <2>1. hour \in Nat
    BY <1>1, SpendTypes
  <2>2. Never <= hour
    BY <2>1 DEF Never
  <2>3. covered[k] = Never /\ \A h \in Hour : ~(spendRecords[k][h] > 0)
    BY <1>1, <1>10 DEF SyncedInOrder
  <2> QED
    BY <1>1, <1>3, <1>6, <1>10, <1>11, <2>2, <2>3 DEF SyncedInOrder
<1>14. CountedOnce'
  <2>1. ActiveAccounts' \subseteq ActiveAccounts \cup {k}
    BY <1>10 DEF ActiveAccounts
  <2>2. ~overlap' => \A a, b \in ActiveAccounts' : a = b
    BY <1>4, <1>5, <2>1
  <2> QED
    BY <1>1, <1>3, <1>4, <2>2 DEF CountedOnce
<1>15. \A t \in SpendTxn : SpendBacked(t) => SpendBacked(t)'
  <2>1. \A t \in SpendTxn : t.op = "sync" => DOMAIN t.read \subseteq LlmId
    BY SpendHolds
  <2> QED
    BY <1>3, <1>10, <1>11, <2>1 DEF SpendBacked
<1>16. \A v \in Worker : \A now : now = txn'[v] => SpendBacked(now)'
  <2>1. SpendBacked(Idle)'
    BY IdleOp DEF SpendBacked
  <2> QED
    BY <1>1, <1>4, <1>15, <2>1 DEF SpendInv
<1>17. ~overlap' => \A v \in Worker : \A now : now = txn'[v] => SpendCurrent(now)'
    BY <1>4, IdleOp DEF SpendCurrent
<1> QED
    BY <1>12, <1>13, <1>14, <1>16, <1>17 DEF SpendInv

LEMMA DisconnectedStep ==
    ASSUME SpendInv, NEW w \in Worker, NEW a \in LlmId, Disconnected(w, a)
    PROVE  SpendInv'
<1>1. /\ SpendTypeOK /\ OneOpen /\ txn \in [Worker -> SpendTxn] /\ SyncedInOrder /\ CountedOnce
    BY SpendTypes DEF SpendInv
<1>2. /\ llmProvider' = llmProvider /\ amounts' = amounts
      /\ hour' = hour /\ spendRecords' = spendRecords /\ budgeted' = budgeted
      /\ fired' = fired /\ covered' = covered /\ missed' = missed
      /\ llmAccounts[a] # NoRow /\ Free(w) /\ UNCHANGED sessions
    BY DEF Disconnected, recorded
<1>3. /\ overlap' = overlap
      /\ txn' \in [Worker -> SpendTxn]
      /\ \A v \in Worker : txn'[v] = Idle \/ (txn'[v] = txn[v] /\ overlap)
    BY <1>1, <1>2, FreeLeaves
<1>4. llmAccounts \in [LlmId -> LlmAccount \cup {NoRow}]
    BY <1>1, SpendTypes
<1>5. PICK row \in LlmAccount :
        /\ row.status = "inactive" /\ row.synced = llmAccounts[a].synced
        /\ llmAccounts' = [llmAccounts EXCEPT ![a] = row]
  <2> DEFINE new == [llmAccounts[a] EXCEPT !.status = "inactive", !.key = "cleared"]
  <2>1. llmAccounts[a] \in LlmAccount
    BY <1>2, <1>4
  <2>2. new \in LlmAccount /\ new.status = "inactive" /\ new.synced = llmAccounts[a].synced
    BY <2>1 DEF LlmAccount
  <2>3. llmAccounts' = [llmAccounts EXCEPT ![a] = new]
    BY <1>4 DEF Disconnected
  <2> HIDE DEF new
  <2> QED
    BY <2>2, <2>3
<1>6. row # NoRow
    BY LlmAccountAssumption
<1>7. /\ llmAccounts' \in [LlmId -> LlmAccount \cup {NoRow}]
      /\ llmAccounts'[a] = row
      /\ \A j \in LlmId : j # a => llmAccounts'[j] = llmAccounts[j]
    BY <1>4, <1>5
<1>8. /\ \A j \in LlmId : llmAccounts'[j] # NoRow <=> llmAccounts[j] # NoRow
      /\ \A j \in LlmId : llmAccounts'[j].synced = llmAccounts[j].synced
    BY <1>2, <1>5, <1>6, <1>7
<1>9. \A b, h : Dealt(b, h) <=> Dealt(b, h)'
    BY <1>2 DEF Dealt
<1>10. SpendTypeOK' /\ OneOpen'
    BY <1>1, <1>2, <1>3, <1>7 DEF SpendTypeOK, OneOpen
<1>11. SyncedInOrder'
    BY <1>1, <1>2, <1>8, <1>9 DEF SyncedInOrder
<1>12. CountedOnce'
  <2>1. ActiveAccounts' \subseteq ActiveAccounts
    BY <1>5, <1>6, <1>7 DEF ActiveAccounts
  <2> QED
    BY <1>1, <1>2, <1>3, <2>1 DEF CountedOnce
<1>13. \A t \in SpendTxn : SpendBacked(t) => SpendBacked(t)'
  <2>1. \A t \in SpendTxn : t.op = "sync" => DOMAIN t.read \subseteq LlmId
    BY SpendHolds
  <2> QED
    BY <1>2, <1>8, <1>9, <2>1 DEF SpendBacked
<1>14. \A v \in Worker : \A now : now = txn'[v] => SpendBacked(now)'
  <2>1. SpendBacked(Idle)'
    BY IdleOp DEF SpendBacked
  <2> QED
    BY <1>1, <1>3, <1>13, <2>1 DEF SpendInv
<1>15. ~overlap' => \A v \in Worker : \A now : now = txn'[v] => SpendCurrent(now)'
    BY <1>3, IdleOp DEF SpendCurrent
<1> QED
    BY <1>10, <1>11, <1>12, <1>14, <1>15 DEF SpendInv

-----------------------------------------------------------------------------
LEMMA SyncAccountsReadStep ==
    ASSUME SpendInv, NEW w \in Worker, SyncAccountsRead(w)
    PROVE  SpendInv'
<1>1. SpendTypeOK /\ SyncedInOrder
    BY DEF SpendInv
<1>2. llmAccounts \in [LlmId -> LlmAccount \cup {NoRow}] /\ hour \in 0..LastHour
    BY <1>1, SpendTypes
<1>3. PICK r : r = [a \in ActiveAccounts |-> llmAccounts[a]]
    OBVIOUS
<1>4. /\ DOMAIN r = ActiveAccounts /\ ActiveAccounts \subseteq LlmId
      /\ \A a \in ActiveAccounts : r[a] = llmAccounts[a] /\ llmAccounts[a] # NoRow
    BY <1>3 DEF ActiveAccounts
<1>5. r \in [ActiveAccounts -> LlmAccount]
    BY <1>2, <1>3, <1>4
<1> DEFINE t == [op |-> "sync", now |-> hour, read |-> r]
<1>6. r \in UNION {[s -> LlmAccount] : s \in SUBSET LlmId}
    BY <1>4, <1>5
<1>7. t \in SpendTxn
    BY <1>2, <1>6 DEF SpendTxn
<1>8. Begin(w, t) /\ UNCHANGED spendTables
    BY <1>3 DEF SyncAccountsRead
<1>9. t.op = "sync" /\ t.now = hour /\ t.read = r
    OBVIOUS
<1> HIDE DEF t
<1>10. ASSUME NEW a \in ActiveAccounts, covered[a] # Never
       PROVE  \A h \in covered[a]..(WindowStart(r[a], hour) - 1) : Dealt(a, h)
  <2>1. llmAccounts[a].synced # Never
    BY <1>1, <1>4, <1>10 DEF SyncedInOrder
  <2>2. WindowStart(r[a], hour) = llmAccounts[a].synced
    BY <1>4, <2>1 DEF WindowStart
  <2> QED
    BY <1>1, <1>4, <1>10, <2>2 DEF SyncedInOrder
<1>11. SpendBacked(t)
    BY <1>1, <1>4, <1>9, <1>10 DEF SpendBacked, SyncedInOrder
<1>12. SpendCurrent(t)
    BY <1>4, <1>9 DEF SpendCurrent
<1> QED
    BY <1>7, <1>8, <1>11, <1>12, SpendReads

(* Where a window begins: not before the clock started, and not after it ends. *)
LEMMA WindowBegins ==
    ASSUME NEW row \in LlmAccount, NEW now \in 0..LastHour, row.synced <= now
    PROVE  /\ WindowStart(row, now) \in 0..LastHour
           /\ WindowStart(row, now) <= now
           /\ row.synced # Never => WindowStart(row, now) = row.synced
BY AccountHolds, SpendAssumption DEF WindowStart

LEMMA SyncAccountsWriteStep ==
    ASSUME SpendInv, NEW w \in Worker, SyncAccountsWrite(w)
    PROVE  SpendInv'
<1>1. /\ SpendTypeOK /\ OneOpen /\ txn \in [Worker -> SpendTxn] /\ Idle \in SpendTxn
      /\ SyncedInOrder /\ CountedOnce
    BY SpendTypes DEF SpendInv
<1>2. PICK s \in SpendTxn : s = txn[w]
    BY <1>1
<1>3. /\ s.op = "sync" /\ End(w) /\ s # Idle
      /\ llmProvider' = llmProvider /\ hour' = hour
      /\ budgeted' = budgeted /\ fired' = fired
    BY <1>2, OpenIsNotIdle DEF SyncAccountsWrite, Open
<1>4. /\ overlap' = overlap
      /\ txn' \in [Worker -> SpendTxn]
      /\ \A v \in Worker : txn'[v] = Idle \/ (txn'[v] = txn[v] /\ overlap)
    BY <1>1, <1>2, <1>3, EndLeaves
<1>5. PICK read, synced : read = s.read /\ synced = DOMAIN read
    OBVIOUS
<1>6. synced \subseteq LlmId /\ read \in [synced -> LlmAccount] /\ s.now \in 0..LastHour
    BY <1>3, <1>5, SpendHolds
<1>7. /\ s.now = hour
      /\ \A a \in synced : /\ llmAccounts[a] # NoRow /\ read[a].synced <= hour
                           /\ covered[a] # Never =>
                                \A h \in covered[a]..(WindowStart(read[a], hour) - 1) : Dealt(a, h)
    BY <1>2, <1>3, <1>5 DEF SpendInv, SpendBacked
<1>8. ~overlap => \A a \in synced : read[a] = llmAccounts[a]
    BY <1>2, <1>3, <1>5 DEF SpendInv, SpendCurrent
<1> DEFINE start(a) == WindowStart(read[a], hour)
           Written(outcome, answered) ==
             /\ \A a \in synced : outcome[a] \in SyncOutcomes(read[a], hour)
             /\ llmAccounts' = [a \in LlmId |->
                  IF a \in synced THEN Synced(llmAccounts[a], hour, outcome[a].result)
                  ELSE llmAccounts[a]]
             /\ spendRecords' = [a \in LlmId |-> [h \in Hour |-> spendRecords[a][h] +
                  IF a \in answered /\ h \in outcome[a].got THEN 1 ELSE 0]]
             /\ amounts' = [a \in LlmId |-> [m \in MonthStart |-> amounts[a][m] +
                  IF a \in answered /\ m = MonthOf(start(a)) THEN Cardinality(outcome[a].got)
                  ELSE 0]]
             /\ missed' = missed \cup {p \in answered \X Hour :
                                         p[2] \in outcome[p[1]].asked \ outcome[p[1]].got}
             /\ covered' = [a \in LlmId |->
                  IF a \in answered /\ covered[a] = Never THEN start(a) ELSE covered[a]]
<1>w. PICK outcome : Written(outcome, {a \in synced : outcome[a].result = "answered"})
  <2>1. txn[w].read = read /\ txn[w].now = hour /\ DOMAIN txn[w].read = synced
    BY <1>2, <1>5, <1>7
  <2> QED
    BY <2>1 DEF SyncAccountsWrite
<1>9. PICK answered : /\ answered = {a \in synced : outcome[a].result = "answered"}
                      /\ Written(outcome, answered)
    BY <1>w
<1>10. /\ llmAccounts \in [LlmId -> LlmAccount \cup {NoRow}]
       /\ spendRecords \in [LlmId -> [Hour -> Nat]]
       /\ amounts \in [LlmId -> [MonthStart -> Nat]]
       /\ covered \in [LlmId -> 0..LastHour \cup {Never}]
       /\ hour \in 0..LastHour /\ LastHour \in Nat /\ Hour \subseteq Nat
    BY <1>1, SpendTypes
<1>11. \A a \in synced : /\ WindowStart(read[a], hour) \in 0..LastHour
                         /\ WindowStart(read[a], hour) <= hour
                         /\ read[a].synced # Never => WindowStart(read[a], hour) = read[a].synced
    BY <1>6, <1>7, <1>10, WindowBegins
<1>12. ASSUME NEW a \in synced
       PROVE  /\ llmAccounts'[a] \in LlmAccount /\ llmAccounts'[a] # NoRow
              /\ llmAccounts'[a].synced = IF a \in answered THEN hour ELSE llmAccounts[a].synced
              /\ llmAccounts'[a].status = "active" => llmAccounts[a].status = "active"
  <2> DEFINE new == Synced(llmAccounts[a], hour, outcome[a].result)
  <2>1. llmAccounts[a] \in LlmAccount
    BY <1>6, <1>7, <1>10
  <2>2. llmAccounts'[a] = new
    BY <1>6, <1>9
  <2>3. new \in LlmAccount
    BY <1>10, <2>1 DEF Synced, LlmAccount
  <2>4. /\ new.synced = IF outcome[a].result = "answered" THEN hour ELSE llmAccounts[a].synced
        /\ new.status = IF outcome[a].result = "refused" THEN "error" ELSE llmAccounts[a].status
    BY <2>1 DEF Synced, LlmAccount
  <2>5. a \in answered <=> outcome[a].result = "answered"
    BY <1>9
  <2> HIDE DEF new
  <2> QED
    BY <2>2, <2>3, <2>4, <2>5, LlmAccountAssumption
<1>13. \A a \in LlmId : a \notin synced => llmAccounts'[a] = llmAccounts[a]
    BY <1>9
<1>14. answered \subseteq synced /\ answered \subseteq LlmId
    BY <1>6, <1>9
<1>g. ASSUME NEW a \in answered
      PROVE  /\ outcome[a].got \subseteq outcome[a].asked /\ outcome[a].asked \subseteq Hour
             /\ \A h \in outcome[a].asked : h < hour
             /\ llmProvider # "openai" => Since(start(a), hour) \subseteq outcome[a].asked
             /\ llmProvider \in {"google", "xai"} => outcome[a].asked = Since(start(a), hour)
  <2>1. PICK o \in SyncOutcomes(read[a], hour) : o = outcome[a] /\ o.result = "answered"
    BY <1>9, <1>14
  <2>2. o.asked \in Windows(start(a), hour) /\ o.got \subseteq o.asked
    BY <2>1, OutcomeHolds
  <2>3. start(a) \in 0..LastHour /\ llmProvider \in LlmProvider
    BY <1>1, <1>11, <1>14 DEF SpendTypeOK
  <2> HIDE DEF start
  <2>4. /\ o.asked \subseteq Hour /\ \A h \in o.asked : h < hour
        /\ llmProvider # "openai" => Since(start(a), hour) \subseteq o.asked
        /\ llmProvider \in {"google", "xai"} => o.asked = Since(start(a), hour)
    BY <1>10, <2>2, <2>3, AskedWindow
  <2> QED
    BY <2>1, <2>2, <2>4
<1>15. \A a \in LlmId : \A h \in Hour :
         spendRecords'[a][h] =
           IF a \in answered /\ h \in outcome[a].got THEN spendRecords[a][h] + 1
           ELSE spendRecords[a][h]
    BY <1>9, <1>10
<1>16. \A a \in LlmId : covered'[a] = IF a \in answered /\ covered[a] = Never
                                      THEN WindowStart(read[a], hour) ELSE covered[a]
    BY <1>9
<1>17. \A a \in LlmId : covered'[a] \in 0..LastHour \cup {Never}
    BY <1>10, <1>11, <1>14, <1>16
<1>18. SpendTypeOK'
  <2>1. llmAccounts' \in [LlmId -> LlmAccount \cup {NoRow}]
    BY <1>9, <1>10, <1>12, <1>13
  <2>2. spendRecords' \in [LlmId -> [Hour -> Nat]]
    <3>1. \A a \in LlmId : \A h \in Hour : spendRecords[a][h] \in Nat
      BY <1>10
    <3> QED
      BY <1>9, <3>1
  <2>3. covered' \in [LlmId -> 0..LastHour \cup {Never}]
    BY <1>9, <1>17
  <2>4. missed' \subseteq LlmId \X Hour
    BY <1>1, <1>6, <1>9, <1>14 DEF SpendTypeOK
  <2>5. amounts' \in [LlmId -> [MonthStart -> Nat]]
    <3> DEFINE more(a, m) == IF a \in answered /\ m = MonthOf(start(a))
                             THEN Cardinality(outcome[a].got) ELSE 0
    <3>1. \A a \in LlmId : \A m \in MonthStart : amounts[a][m] \in Nat
      BY <1>10
    <3>2. \A a \in answered : outcome[a].got \in SUBSET Hour
      BY <1>g
    <3>3. \A a \in answered : Cardinality(outcome[a].got) \in Nat
      BY <3>2, HoursCount
    <3>4. \A a \in LlmId : \A m \in MonthStart : more(a, m) \in Nat
      BY <3>3
    <3>5. amounts' = [a \in LlmId |-> [m \in MonthStart |-> amounts[a][m] + more(a, m)]]
      BY <1>9
    <3> HIDE DEF more
    <3>6. \A a \in LlmId : \A m \in MonthStart : amounts[a][m] + more(a, m) \in Nat
      BY <3>1, <3>4
    <3> QED
      BY <3>5, <3>6
  <2> QED
    BY <1>1, <1>3, <1>4, <2>1, <2>2, <2>3, <2>4, <2>5 DEF SpendTypeOK
<1>19. OneOpen'
    BY <1>4 DEF OneOpen
(* What was dealt with stays so, and the window of an account that was synced is. *)
<1>20. \A a \in LlmId : \A h \in Hour : Dealt(a, h) => Dealt(a, h)'
  <2>1. ASSUME NEW a \in LlmId, NEW h \in Hour, spendRecords[a][h] > 0
        PROVE  spendRecords'[a][h] > 0
    <3>1. spendRecords[a][h] \in Nat
      BY <1>10
    <3>2. spendRecords'[a][h] \in {spendRecords[a][h], spendRecords[a][h] + 1}
      BY <1>15
    <3> QED
      BY <2>1, <3>1, <3>2
  <2>2. missed \subseteq missed'
    BY <1>9
  <2> QED
    BY <1>3, <2>1, <2>2 DEF Dealt
<1>21. ASSUME NEW a \in answered, NEW h \in Since(WindowStart(read[a], hour), hour)
       PROVE  Dealt(a, h)'
  <2>1. a \in LlmId /\ h \in Hour
    BY <1>14 DEF Since
  <2>2. CASE llmProvider = "openai"
    BY <1>3, <2>2 DEF Dealt
  <2>3. CASE llmProvider # "openai" /\ h \in outcome[a].got
    <3>1. spendRecords'[a][h] = spendRecords[a][h] + 1 /\ spendRecords[a][h] \in Nat
      BY <1>10, <1>15, <2>1, <2>3
    <3>2. spendRecords'[a][h] > 0
      BY <3>1
    <3> QED
      BY <3>2 DEF Dealt
  <2>4. CASE llmProvider # "openai" /\ h \notin outcome[a].got
    <3>1. h \in outcome[a].asked \ outcome[a].got
      BY <1>g, <1>21, <2>4
    <3>2. <<a, h>> \in missed'
      BY <1>9, <1>21, <2>1, <3>1
    <3> QED
      BY <3>2 DEF Dealt
  <2> QED
    BY <2>2, <2>3, <2>4
<1>22. ASSUME NEW a \in LlmId, covered'[a] # Never
       PROVE  /\ llmAccounts'[a] # NoRow /\ llmAccounts'[a].synced # Never
              /\ \A h \in covered'[a]..(llmAccounts'[a].synced - 1) : Dealt(a, h)'
  <2>1. CASE a \in answered
    <3>1. a \in synced /\ llmAccounts'[a] # NoRow /\ llmAccounts'[a].synced = hour /\ hour # Never
      BY <1>10, <1>12, <1>14, <2>1 DEF Never
    <3>2. ASSUME NEW h \in covered'[a]..(hour - 1)
          PROVE  Dealt(a, h)'
      <4>1. covered'[a] \in 0..LastHour
        BY <1>17, <1>22
      <4>2. h \in Hour /\ h < hour
        BY <1>10, <3>2, <4>1 DEF Hour
      <4>3. CASE h >= WindowStart(read[a], hour)
        BY <1>21, <2>1, <4>2, <4>3 DEF Since
      <4>4. CASE ~(h >= WindowStart(read[a], hour))
        <5>1. WindowStart(read[a], hour) \in 0..LastHour
          BY <1>11, <3>1
        <5>2. covered[a] # Never /\ covered[a] = covered'[a]
          <6>1. CASE covered[a] = Never
            <7>1. covered'[a] = WindowStart(read[a], hour)
              BY <1>16, <2>1, <6>1
            <7> QED
              BY <3>2, <4>4, <7>1
          <6>2. CASE covered[a] # Never
            BY <1>16, <6>2
          <6> QED
            BY <6>1, <6>2
        <5>3. h \in covered[a]..(WindowStart(read[a], hour) - 1)
          BY <1>10, <3>2, <4>1, <4>2, <4>4, <5>1, <5>2
        <5>4. Dealt(a, h)
          BY <1>7, <3>1, <5>2, <5>3
        <5> QED
          BY <1>20, <4>2, <5>4
      <4> QED
        BY <4>3, <4>4
    <3> QED
      BY <3>1, <3>2
  <2>2. CASE a \notin answered
    <3>1. covered'[a] = covered[a]
      BY <1>16, <2>2
    <3>2. /\ llmAccounts[a] # NoRow /\ llmAccounts[a].synced # Never
          /\ \A h \in covered[a]..(llmAccounts[a].synced - 1) : Dealt(a, h)
      BY <1>1, <1>22, <3>1 DEF SyncedInOrder
    <3>3. llmAccounts'[a] # NoRow /\ llmAccounts'[a].synced = llmAccounts[a].synced
      BY <1>12, <1>13, <2>2, <3>2
    <3>4. \A h \in covered[a]..(llmAccounts[a].synced - 1) : h \in Hour
      <4>1. covered[a] \in 0..LastHour
        BY <1>10, <1>22, <3>1
      <4>2. llmAccounts[a] \in LlmAccount
        BY <1>10, <3>2
      <4>3. llmAccounts[a].synced \in 0..LastHour
        BY <3>2, <4>2, AccountHolds
      <4> QED
        BY <1>10, <4>1, <4>3 DEF Hour
    <3> QED
      BY <1>20, <3>1, <3>2, <3>3, <3>4
  <2> QED
    BY <2>1, <2>2
<1>23. ASSUME NEW a \in LlmId, llmAccounts'[a] # NoRow
       PROVE  llmAccounts'[a].synced <= hour
  <2>1. CASE a \in answered
    BY <1>10, <1>12, <1>14, <2>1
  <2>2. CASE a \notin answered
    <3>1. llmAccounts[a] # NoRow /\ llmAccounts'[a].synced = llmAccounts[a].synced
      BY <1>7, <1>12, <1>13, <1>23, <2>2
    <3> QED
      BY <1>1, <3>1 DEF SyncedInOrder
  <2> QED
    BY <2>1, <2>2
<1>24. ASSUME NEW a \in LlmId, NEW h \in Hour, spendRecords'[a][h] > 0
       PROVE  llmAccounts'[a] # NoRow /\ h < llmAccounts'[a].synced
  <2>1. CASE a \in answered /\ h \in outcome[a].got
    <3>1. h < hour
      BY <1>g, <2>1
    <3> QED
      BY <1>12, <1>14, <2>1, <3>1
  <2>2. CASE ~(a \in answered /\ h \in outcome[a].got)
    <3>1. spendRecords[a][h] > 0
      BY <1>15, <1>24, <2>2
    <3>2. llmAccounts[a] # NoRow /\ h < llmAccounts[a].synced /\ llmAccounts[a].synced <= hour
      BY <1>1, <3>1 DEF SyncedInOrder
    <3>3. llmAccounts[a].synced \in Int /\ h \in Int
      BY <1>10, <3>2, AccountHolds
    <3>4. llmAccounts'[a] # NoRow
      BY <1>12, <1>13, <3>2
    <3>5. llmAccounts'[a].synced = hour \/ llmAccounts'[a].synced = llmAccounts[a].synced
      BY <1>12, <1>13
    <3> QED
      BY <1>10, <3>2, <3>3, <3>4, <3>5
  <2> QED
    BY <2>1, <2>2
<1>25. SyncedInOrder'
    BY <1>3, <1>22, <1>23, <1>24 DEF SyncedInOrder
<1>26. CountedOnce'
  <2>1. ActiveAccounts' \subseteq ActiveAccounts
    BY <1>7, <1>12, <1>13 DEF ActiveAccounts
  <2>2. ASSUME ~overlap, llmProvider \in {"google", "xai"}, NEW a \in LlmId, NEW h \in Hour
        PROVE  spendRecords'[a][h] <= 1
    <3>1. CASE a \in answered /\ h \in outcome[a].got
      <4>1. a \in synced /\ read[a] = llmAccounts[a] /\ read[a] \in LlmAccount
        BY <1>6, <1>8, <1>14, <2>2, <3>1
      <4>2. h >= WindowStart(read[a], hour) /\ h \in Nat
        BY <1>10, <1>g, <2>2, <3>1 DEF Since
      <4>3. read[a].synced <= h
        BY <1>11, <4>1, <4>2, AccountHolds DEF Never
      <4>4. read[a].synced \in Int
        BY <4>1, AccountHolds
      <4>5. ~(h < llmAccounts[a].synced)
        BY <4>1, <4>2, <4>3, <4>4
      <4>6. ~(spendRecords[a][h] > 0)
        BY <1>1, <4>5 DEF SyncedInOrder
      <4>7. spendRecords[a][h] \in Nat
        BY <1>10
      <4> QED
        BY <1>15, <3>1, <4>6, <4>7
    <3>2. CASE ~(a \in answered /\ h \in outcome[a].got)
      BY <1>1, <1>15, <2>2, <3>2 DEF CountedOnce
    <3> QED
      BY <3>1, <3>2
  <2>3. ~overlap' /\ llmProvider' \in {"google", "xai"} =>
          \A a \in LlmId, h \in Hour : spendRecords'[a][h] <= 1
    BY <1>3, <1>4, <2>2
  <2>4. ~overlap' => \A a, b \in ActiveAccounts' : a = b
    BY <1>1, <1>4, <2>1 DEF CountedOnce
  <2> QED
    BY <1>1, <1>3, <1>4, <2>3, <2>4 DEF CountedOnce
<1>27. ASSUME NEW t \in SpendTxn, SpendBacked(t), t.op = "sync"
       PROVE  /\ t.now = hour'
              /\ \A a \in DOMAIN t.read :
                   /\ llmAccounts'[a] # NoRow /\ t.read[a].synced <= hour'
                   /\ covered'[a] # Never =>
                        \A h \in covered'[a]..(WindowStart(t.read[a], hour') - 1) : Dealt(a, h)'
  <2>1. DOMAIN t.read \subseteq LlmId /\ t.read \in [DOMAIN t.read -> LlmAccount]
    BY <1>27, SpendHolds
  <2>2. /\ t.now = hour
        /\ \A a \in DOMAIN t.read :
             /\ llmAccounts[a] # NoRow /\ t.read[a].synced <= hour
             /\ covered[a] # Never =>
                  \A h \in covered[a]..(WindowStart(t.read[a], hour) - 1) : Dealt(a, h)
    BY <1>27 DEF SpendBacked
  <2>3. \A a \in DOMAIN t.read : llmAccounts'[a] # NoRow
    BY <1>12, <1>13, <2>1, <2>2
  <2>4. ASSUME NEW a \in DOMAIN t.read, covered'[a] # Never,
               NEW h \in covered'[a]..(WindowStart(t.read[a], hour) - 1)
        PROVE  Dealt(a, h)'
    <3>1. a \in LlmId /\ t.read[a] \in LlmAccount
      BY <2>1
    <3>2. WindowStart(t.read[a], hour) \in 0..LastHour /\ WindowStart(t.read[a], hour) <= hour
      BY <1>10, <2>2, <3>1, WindowBegins
    <3>3. covered'[a] \in 0..LastHour
      BY <1>17, <2>4, <3>1
    <3>4. h \in Hour /\ h < hour
      BY <1>10, <2>4, <3>2, <3>3 DEF Hour
    <3>5. CASE a \in answered /\ covered[a] = Never
      <4>1. covered'[a] = WindowStart(read[a], hour)
        BY <1>16, <3>1, <3>5
      <4>2. h >= WindowStart(read[a], hour)
        BY <1>10, <2>4, <3>2, <3>3, <4>1
      <4> QED
        BY <1>21, <3>4, <3>5, <4>2 DEF Since
    <3>6. CASE ~(a \in answered /\ covered[a] = Never)
      <4>1. covered'[a] = covered[a]
        BY <1>16, <3>1, <3>6
      <4>2. Dealt(a, h)
        BY <2>2, <2>4, <4>1
      <4> QED
        BY <1>20, <3>1, <3>4, <4>2
    <3> QED
      BY <3>5, <3>6
  <2> QED
    BY <1>3, <2>2, <2>3, <2>4
<1>28. \A t \in SpendTxn : SpendBacked(t) => SpendBacked(t)'
    BY <1>27 DEF SpendBacked
<1>29. \A v \in Worker : \A now : now = txn'[v] => SpendBacked(now)'
  <2>1. SpendBacked(Idle)'
    BY IdleOp DEF SpendBacked
  <2> QED
    BY <1>1, <1>4, <1>28, <2>1 DEF SpendInv
<1>30. ~overlap' => \A v \in Worker : \A now : now = txn'[v] => SpendCurrent(now)'
    BY <1>4, IdleOp DEF SpendCurrent
<1> QED
    BY <1>18, <1>19, <1>25, <1>26, <1>29, <1>30 DEF SpendInv

-----------------------------------------------------------------------------
LEMMA ThresholdCreatedStep ==
    ASSUME SpendInv, NEW w \in Worker, ThresholdCreated(w)
    PROVE  SpendInv'
<1>1. /\ llmProvider' = llmProvider /\ amounts' = amounts
      /\ hour' = hour /\ llmAccounts' = llmAccounts /\ spendRecords' = spendRecords
      /\ budgeted' = TRUE /\ fired' = fired /\ covered' = covered /\ missed' = missed
      /\ txn' = txn /\ overlap' = overlap
    BY DEF ThresholdCreated, sessions, recorded
<1>2. SpendTypeOK' /\ OneOpen'
    BY <1>1 DEF SpendInv, SpendTypeOK, OneOpen
<1>3. ActiveAccounts' = ActiveAccounts
    BY <1>1 DEF ActiveAccounts
<1>4. \A a, h : Dealt(a, h) <=> Dealt(a, h)'
    BY <1>1 DEF Dealt
<1>5. SyncedInOrder' /\ CountedOnce'
    BY <1>1, <1>3, <1>4 DEF SpendInv, SyncedInOrder, CountedOnce
<1>6. \A v \in Worker : \A now : now = txn'[v] => SpendBacked(now)'
    BY <1>1, <1>4 DEF SpendInv, SpendBacked
<1>7. ~overlap' => \A v \in Worker : \A now : now = txn'[v] => SpendCurrent(now)'
    BY <1>1, <1>3 DEF SpendInv, SpendCurrent
<1> QED
    BY <1>2, <1>5, <1>6, <1>7 DEF SpendInv

LEMMA CheckReadStep ==
    ASSUME SpendInv, NEW w \in Worker, CheckRead(w)
    PROVE  SpendInv'
<1>1. PICK m, d : m = MonthOf(hour) /\ d = DueLevels(MonthOf(hour))
    OBVIOUS
<1>2. m \in MonthStart
    BY <1>1, HourHasMonth, SpendTypes DEF SpendInv
<1>3. d \subseteq Level /\ \A l \in d : fired[m][l] = 0
    BY <1>1 DEF DueLevels
<1> DEFINE t == [op |-> "check", month |-> m, due |-> d]
<1>4. t \in SpendTxn
    BY <1>2, <1>3 DEF SpendTxn
<1>5. Begin(w, t) /\ UNCHANGED spendTables
    BY <1>1 DEF CheckRead
<1>6. t.op = "check" /\ t.month = m /\ t.due = d
    OBVIOUS
<1> HIDE DEF t
<1>7. SpendBacked(t) /\ SpendCurrent(t)
    BY <1>3, <1>6 DEF SpendBacked, SpendCurrent
<1> QED
    BY <1>4, <1>5, <1>7, SpendReads

LEMMA CheckWriteStep ==
    ASSUME SpendInv, NEW w \in Worker, CheckWrite(w)
    PROVE  SpendInv'
<1>1. /\ SpendTypeOK /\ OneOpen /\ txn \in [Worker -> SpendTxn] /\ Idle \in SpendTxn
      /\ CountedOnce
    BY SpendTypes DEF SpendInv
<1>2. PICK s \in SpendTxn : s = txn[w]
    BY <1>1
<1>3. /\ s.op = "check" /\ End(w) /\ s # Idle
      /\ llmProvider' = llmProvider /\ amounts' = amounts
      /\ hour' = hour /\ llmAccounts' = llmAccounts /\ spendRecords' = spendRecords
      /\ budgeted' = budgeted /\ covered' = covered /\ missed' = missed
    BY <1>2, OpenIsNotIdle DEF CheckWrite, Open, recorded
<1>4. /\ overlap' = overlap
      /\ txn' \in [Worker -> SpendTxn]
      /\ \A v \in Worker : txn'[v] = Idle \/ (txn'[v] = txn[v] /\ overlap)
    BY <1>1, <1>2, <1>3, EndLeaves
<1>5. s.month \in MonthStart /\ s.due \subseteq Level
    BY <1>3, SpendHolds
<1>6. ~overlap => \A l \in s.due : fired[s.month][l] = 0
    BY <1>2, <1>3 DEF SpendInv, SpendCurrent
<1>7. fired \in [MonthStart -> [Level -> Nat]]
    BY <1>1, SpendTypes
<1>8. \A m \in MonthStart : \A l \in Level : fired[m][l] \in Nat
    BY <1>7
<1>9. PICK new : /\ new = [l \in Level |-> fired[s.month][l] + IF l \in s.due THEN 1 ELSE 0]
                 /\ fired' = [fired EXCEPT ![s.month] = new]
    BY <1>2, <1>5, <1>7 DEF CheckWrite
<1>10. new \in [Level -> Nat]
    BY <1>5, <1>8, <1>9
<1>11. /\ fired' \in [MonthStart -> [Level -> Nat]]
       /\ fired'[s.month] = new
       /\ \A m \in MonthStart : m # s.month => fired'[m] = fired[m]
    BY <1>5, <1>7, <1>9, <1>10
<1>12. SpendTypeOK' /\ OneOpen'
    BY <1>1, <1>3, <1>4, <1>11 DEF SpendTypeOK, OneOpen
<1>13. ActiveAccounts' = ActiveAccounts
    BY <1>3 DEF ActiveAccounts
<1>14. \A a, h : Dealt(a, h) <=> Dealt(a, h)'
    BY <1>3 DEF Dealt
<1>15. SyncedInOrder'
    BY <1>3, <1>14 DEF SpendInv, SyncedInOrder
<1>16. ~overlap => \A m \in MonthStart, l \in Level : fired'[m][l] <= 1
  <2>1. ASSUME ~overlap, NEW l \in Level
        PROVE  new[l] <= 1
    <3>1. fired[s.month][l] <= 1
      BY <1>1, <1>5, <2>1 DEF CountedOnce
    <3>2. new[l] = fired[s.month][l] + IF l \in s.due THEN 1 ELSE 0
      BY <1>9
    <3> QED
      BY <1>5, <1>6, <1>8, <2>1, <3>1, <3>2
  <2> QED
    BY <1>1, <1>11, <2>1 DEF CountedOnce
<1>17. CountedOnce'
    BY <1>1, <1>3, <1>4, <1>13, <1>16 DEF CountedOnce
<1>18. \A t : SpendBacked(t) => SpendBacked(t)'
    BY <1>3, <1>14 DEF SpendBacked
<1>19. \A v \in Worker : \A now : now = txn'[v] => SpendBacked(now)'
    BY <1>4, <1>18, SpendIdle DEF SpendInv
<1>20. ~overlap' => \A v \in Worker : \A now : now = txn'[v] => SpendCurrent(now)'
    BY <1>4, IdleOp DEF SpendCurrent
<1> QED
    BY <1>12, <1>15, <1>17, <1>19, <1>20 DEF SpendInv

LEMMA HourPassesStep ==
    ASSUME SpendInv, HourPasses
    PROVE  SpendInv'
<1>1. /\ llmProvider' = llmProvider /\ amounts' = amounts
      /\ hour' = hour + 1 /\ hour < LastHour /\ \A w \in Worker : txn[w] = Idle
      /\ llmAccounts' = llmAccounts /\ spendRecords' = spendRecords
      /\ budgeted' = budgeted /\ fired' = fired /\ covered' = covered /\ missed' = missed
      /\ txn' = txn /\ overlap' = overlap
    BY DEF HourPasses, sessions, recorded
<1>2. SpendTypeOK /\ hour \in Nat /\ hour' \in 0..LastHour
      /\ llmAccounts \in [LlmId -> LlmAccount \cup {NoRow}]
    BY <1>1, SpendTypes, SpendAssumption DEF SpendInv
<1>3. SpendTypeOK' /\ OneOpen'
    BY <1>1, <1>2 DEF SpendInv, SpendTypeOK, OneOpen
<1>4. ActiveAccounts' = ActiveAccounts
    BY <1>1 DEF ActiveAccounts
<1>5. \A a, h : Dealt(a, h) <=> Dealt(a, h)'
    BY <1>1 DEF Dealt
<1>6. SyncedInOrder'
  <2>1. \A a \in LlmId : llmAccounts[a] # NoRow =>
          llmAccounts[a].synced \in Int /\ llmAccounts[a].synced <= hour
    BY <1>2, AccountHolds DEF SpendInv, SyncedInOrder
  <2>2. \A a \in LlmId : llmAccounts[a] # NoRow => llmAccounts[a].synced <= hour'
    BY <1>1, <1>2, <2>1
  <2> QED
    BY <1>1, <1>5, <2>2 DEF SpendInv, SyncedInOrder
<1>7. CountedOnce'
    BY <1>1, <1>4 DEF SpendInv, CountedOnce
<1>8. \A v \in Worker : \A now : now = txn'[v] => SpendBacked(now)' /\ SpendCurrent(now)'
    BY <1>1, IdleOp DEF SpendBacked, SpendCurrent
<1> QED
    BY <1>3, <1>6, <1>7, <1>8 DEF SpendInv

LEMMA SpendInvStep == SpendInv /\ SpendNext => SpendInv'
<1> SUFFICES ASSUME SpendInv, SpendNext PROVE SpendInv'
    OBVIOUS
<1>1. ASSUME NEW w \in Worker, Abandon(w), UNCHANGED spendTables
      PROVE  SpendInv'
  <2>1. /\ overlap' = overlap /\ txn' \in [Worker -> SpendTxn]
        /\ \A v \in Worker : txn'[v] = Idle \/ txn'[v] = txn[v]
    BY <1>1, SpendTypes, EndLeaves DEF SpendInv, Abandon
  <2> QED
    BY <1>1, <2>1, SpendStays
<1> QED
    BY <1>1, HourPassesStep, ConnectReadStep, ConnectWriteStep, DisconnectedStep,
       SyncAccountsReadStep, SyncAccountsWriteStep, ThresholdCreatedStep, CheckReadStep,
       CheckWriteStep
    DEF SpendNext

LEMMA SpendInvStutter == SpendInv /\ UNCHANGED spendVars => SpendInv'
<1> SUFFICES ASSUME SpendInv, UNCHANGED spendVars PROVE SpendInv'
    OBVIOUS
<1>1. UNCHANGED spendTables /\ txn' = txn /\ overlap' = overlap
    BY DEF spendVars, spendTables
<1>2. txn \in [Worker -> SpendTxn]
    BY SpendTypes DEF SpendInv
<1> QED
    BY <1>1, <1>2, SpendStays

LEMMA SpendFollows == SpendInv => SpendAddsUp
<1> SUFFICES ASSUME SpendInv PROVE SpendAddsUp
    OBVIOUS
<1>1. llmProvider # "openai" => UsageIsFetched
    BY DEF SpendInv, SyncedInOrder, Dealt, UsageIsFetched
<1>2. llmProvider \in {"google", "xai"} => UsageIsCountedOnce
    BY DEF SpendInv, CountedOnce, UsageIsCountedOnce
<1>3. ~overlap => Cardinality(ActiveAccounts) <= 1
    BY AtMostOne DEF SpendInv, CountedOnce
<1> QED
    BY <1>1, <1>2, <1>3 DEF SpendInv, CountedOnce, SpendAddsUp

(* Of every provider but OpenAI, no hour of an account is passed over from its first
   window on, whatever sessions overlap and whatever pages of an answer are lost, but
   those whose error was taken for no use.  Where no sessions overlap, no hour is
   recorded twice of a provider that is asked for a range of times, a level fires
   once a month, and one account at most is active. *)
THEOREM EveryHourOnce == SpendSpec => []SpendAddsUp
<1>1. SpendInit => SpendInv
    BY SpendInitially DEF SpendInit
<1> QED
    BY <1>1, SpendFollows, SpendInvStep, SpendInvStutter, PTL DEF SpendSpec
=============================================================================

--------------------------- MODULE Services_proofs ---------------------------
(***************************************************************************)
(* Proofs about the services side by side: first about those that no other *)
(* module proves about, ScreenTime, DataRights, Realtime, SocketClient,    *)
(* RateLimit, Uplink and, of Retention and AutoBlocks, their types; then   *)
(* about all of them, as Services composes them.                           *)
(***************************************************************************)
EXTENDS Services, Household_proofs, Accounts_proofs, Sessions_proofs,
        SequenceTheorems

(***************************************************************************)
(* ScreenTime.  WithinExtensionLimit is not inductive: a session that has  *)
(* counted the requests and is about to insert one more must still be      *)
(* below the limit (RoomHeld).  No other session can take its place        *)
(* (OneOpen), and time only takes requests away.                           *)
(***************************************************************************)
RoomHeld == ~overlap => \A w \in Worker, m \in Member :
    Open(w, "request extension") /\ txn[w].member = m =>
        Cardinality(RequestsToday(m)) < ExtensionLimit[m]

ScreenTimeInv ==
    /\ ScreenTimeTypeOK
    /\ OneOpen
    /\ IsFiniteSet(Requests)
    /\ WithinExtensionLimit
    /\ RoomHeld

LEMMA ScreenTimeInitially == ScreenTimeInit => ScreenTimeInv
<1> SUFFICES ASSUME ScreenTimeInit PROVE ScreenTimeInv
    OBVIOUS
<1> USE DEF ScreenTimeInit, ScreenTimeTablesInit, SessionsInit
<1>1. ScreenTimeTypeOK
    BY DEF ScreenTimeTypeOK, ScreenTimeTxn
<1>2. OneOpen
    BY NoneOpen
<1>3. Requests = {} /\ \A m \in Member : RequestsToday(m) = {}
    BY DEF Requests, RequestsToday
<1>4. IsFiniteSet(Requests)
    BY <1>3, FS_EmptySet
<1>5. WithinExtensionLimit
    BY <1>3, FS_EmptySet, ExtensionLimitAssumption DEF WithinExtensionLimit
<1>6. RoomHeld
    BY DEF RoomHeld, Open, Idle
<1> QED
    BY <1>1, <1>2, <1>4, <1>5, <1>6 DEF ScreenTimeInv

LEMMA CountsAreFinite ==
    ASSUME IsFiniteSet(Requests), NEW m
    PROVE  IsFiniteSet(RequestsToday(m)) /\ Cardinality(RequestsToday(m)) \in Nat
<1>1. RequestsToday(m) \subseteq Requests
    BY DEF RequestsToday
<1> QED
    BY <1>1, FS_Subset, FS_CardinalityType

-----------------------------------------------------------------------------
(* What a session is open for tells what it has read. *)
LEMMA ExtensionReads ==
    ASSUME ScreenTimeTypeOK, NEW w \in Worker
    PROVE  /\ Open(w, "request extension") => txn[w] \in ExtensionTxn
           /\ Open(w, "respond extension") => txn[w] \in RespondTxn
<1>1. txn[w] \in ScreenTimeTxn
    BY DEF ScreenTimeTypeOK
<1>2. CASE txn[w] = Idle
    BY <1>2 DEF Open, Idle
<1>3. CASE txn[w] \in ExtensionTxn
    BY <1>3 DEF Open, ExtensionTxn
<1>4. CASE txn[w] \in RespondTxn
    BY <1>4 DEF Open, RespondTxn
<1> QED
    BY <1>1, <1>2, <1>3, <1>4 DEF ScreenTimeTxn

(* Every step keeps the types. *)
LEMMA ScreenTimeTypeStep == ScreenTimeTypeOK /\ [ScreenTimeNext]_screenTimeVars => ScreenTimeTypeOK'
<1> SUFFICES ASSUME ScreenTimeTypeOK, [ScreenTimeNext]_screenTimeVars
             PROVE  ScreenTimeTypeOK'
    OBVIOUS
<1> USE DEF ScreenTimeTypeOK
<1>1. CASE UNCHANGED screenTimeVars
    BY <1>1 DEF screenTimeVars
<1>2. ASSUME NEW w \in Worker, NEW m \in Member, CreateRule(w, m)
      PROVE  ScreenTimeTypeOK'
    BY <1>2, InsertedTable DEF CreateRule, sessions
<1>3. ASSUME NEW w \in Worker, NEW m \in Member, NEW r \in RuleId, RequestCount(w, m, r)
      PROVE  ScreenTimeTypeOK'
    BY <1>3 DEF RequestCount, Begin, ScreenTimeTxn, ExtensionTxn, screenTimeTables
<1>4. ASSUME NEW w \in Worker, NEW r \in RuleId, DeleteRule(w, r)
      PROVE  ScreenTimeTypeOK'
    BY <1>4 DEF DeleteRule, Requests, sessions
<1>5. ASSUME NEW w \in Worker, RequestInsert(w)
      PROVE  ScreenTimeTypeOK'
  <2>1. txn[w] \in ExtensionTxn
    BY <1>5, ExtensionReads DEF RequestInsert
  <2>2. requests' \in [RequestId -> Request \cup {NoRow}]
    BY <1>5, <2>1, InsertedTable DEF RequestInsert, Request, ExtensionTxn
  <2> QED
    BY <1>5, <2>2 DEF RequestInsert, End, ScreenTimeTxn
<1>6. ASSUME NEW w \in Worker, NEW q \in RequestId, NEW approved \in BOOLEAN,
             RespondExtension(w, q, approved)
      PROVE  ScreenTimeTypeOK'
    BY <1>6 DEF RespondExtension, Begin, ScreenTimeTxn, RespondTxn, Answer, screenTimeTables
<1>7. ASSUME NEW w \in Worker, RespondExtensionWrite(w)
      PROVE  ScreenTimeTypeOK'
  <2>1. txn[w] \in RespondTxn
    BY <1>7, ExtensionReads DEF RespondExtensionWrite
  <2>2. requests' \in [RequestId -> Request \cup {NoRow}]
    BY <1>7, <2>1 DEF RespondExtensionWrite, Request, RespondTxn
  <2> QED
    BY <1>7, <2>2 DEF RespondExtensionWrite, End, ScreenTimeTxn
<1>8. ASSUME NEW w \in Worker, Abandon(w), UNCHANGED screenTimeTables
      PROVE  ScreenTimeTypeOK'
    BY <1>8 DEF Abandon, End, ScreenTimeTxn, screenTimeTables
<1>9. ASSUME NEW q \in RequestId, RequestAges(q)
      PROVE  ScreenTimeTypeOK'
    BY <1>9 DEF RequestAges, Requests, Request, sessions
<1>10. CASE RequestDayEnds
    BY <1>10 DEF RequestDayEnds, Requests, Request, sessions
<1> QED
    BY <1>1, <1>2, <1>3, <1>4, <1>5, <1>6, <1>7, <1>8, <1>9, <1>10
    DEF ScreenTimeNext, ScreenTimeStep

(* Type correctness: every request has a status the table knows. *)
THEOREM ScreenTimeTypeCorrect == ScreenTimeSpec => []ScreenTimeTypeOK
<1>1. ScreenTimeInit => ScreenTimeTypeOK
    BY ScreenTimeInitially DEF ScreenTimeInv
<1> QED
    BY <1>1, ScreenTimeTypeStep, PTL DEF ScreenTimeSpec

-----------------------------------------------------------------------------
(* A step that makes no request of today keeps what is counted. *)
LEMMA FewerRequests ==
    ASSUME ScreenTimeInv, Requests' \subseteq Requests, overlap' = overlap,
           \A m \in Member : RequestsToday(m)' \subseteq RequestsToday(m)
    PROVE  /\ IsFiniteSet(Requests)'
           /\ WithinExtensionLimit'
           /\ \A m \in Member :
                Cardinality(RequestsToday(m)') <= Cardinality(RequestsToday(m))
           /\ \A m \in Member : Cardinality(RequestsToday(m)') \in Nat
<1> USE DEF ScreenTimeInv
<1>1. IsFiniteSet(Requests)'
    BY FS_Subset
<1>2. ASSUME NEW m \in Member
      PROVE  /\ Cardinality(RequestsToday(m)') <= Cardinality(RequestsToday(m))
             /\ Cardinality(RequestsToday(m)') \in Nat
             /\ Cardinality(RequestsToday(m)) \in Nat
    BY CountsAreFinite, FS_Subset, FS_CardinalityType
<1>3. WithinExtensionLimit'
    BY <1>2, ExtensionLimitAssumption DEF WithinExtensionLimit
<1> QED
    BY <1>1, <1>2, <1>3

(* Room that a session holds stays its own while no request is made. *)
LEMMA RoomStaysHeld ==
    ASSUME ScreenTimeInv, Requests' \subseteq Requests, overlap' = overlap,
           \A m \in Member : RequestsToday(m)' \subseteq RequestsToday(m),
           \A v \in Worker, m \in Member :
             Open(v, "request extension")' /\ txn'[v].member = m =>
               \/ Open(v, "request extension") /\ txn[v].member = m
               \/ BelowLimit(m)
    PROVE  RoomHeld'
<1> SUFFICES ASSUME ~overlap, NEW v \in Worker, NEW m \in Member,
                    Open(v, "request extension")', txn'[v].member = m
             PROVE  Cardinality(RequestsToday(m)') < ExtensionLimit[m]
    BY DEF RoomHeld
<1>1. Cardinality(RequestsToday(m)) < ExtensionLimit[m]
    BY DEF ScreenTimeInv, RoomHeld, BelowLimit
<1>2. Cardinality(RequestsToday(m)') <= Cardinality(RequestsToday(m))
    BY FewerRequests
<1>3. /\ Cardinality(RequestsToday(m)') \in Nat /\ Cardinality(RequestsToday(m)) \in Nat
      /\ ExtensionLimit[m] \in Nat
    BY FewerRequests, CountsAreFinite, ExtensionLimitAssumption DEF ScreenTimeInv
<1> QED
    BY <1>1, <1>2, <1>3, LessThrough

(* The one step that makes a request: of the room its session held. *)
LEMMA RequestInsertStep ==
    ASSUME ScreenTimeInv, NEW w \in Worker, RequestInsert(w)
    PROVE  IsFiniteSet(Requests)' /\ WithinExtensionLimit' /\ RoomHeld'
<1> USE DEF ScreenTimeInv
<1> DEFINE row == [member |-> txn[w].member, rule |-> txn[w].rule, status |-> "pending",
                   today |-> TRUE, fresh |-> TRUE]
<1>1. txn[w] \in ExtensionTxn
    BY ExtensionReads DEF RequestInsert
<1>2. row \in Request
    BY <1>1 DEF Request, ExtensionTxn, ScreenTimeTypeOK, RequestInsert
<1>3. PICK k \in RequestId :
        /\ requests[k] = NoRow
        /\ requests'[k] = row
        /\ \A q \in RequestId : q # k => requests'[q] = requests[q]
  <2>1. requests \in [RequestId -> Request \cup {NoRow}] /\ Room(requests)
    BY DEF ScreenTimeTypeOK, RequestInsert
  <2>2. requests' = Inserted(requests, row)
    BY DEF RequestInsert
  <2> HIDE DEF row
  <2> QED
    BY <1>2, <2>1, <2>2, InsertedTable
<1>4. Requests' \subseteq Requests \cup {k}
    BY <1>3 DEF Requests
<1>5. IsFiniteSet(Requests)'
    BY <1>4, FS_AddElement, FS_Subset
<1>6. ASSUME NEW m \in Member, ~overlap
      PROVE  Cardinality(RequestsToday(m)') <= ExtensionLimit[m]
  <2>1. ExtensionLimit[m] \in Nat
    BY ExtensionLimitAssumption
  <2>2. CASE m = txn[w].member
    <3>1. Cardinality(RequestsToday(m)) < ExtensionLimit[m]
        BY <1>6, <2>2 DEF RoomHeld, RequestInsert
    <3>2. RequestsToday(m)' \subseteq RequestsToday(m) \cup {k}
        BY <1>3 DEF RequestsToday, Requests
    <3>3. /\ Cardinality(RequestsToday(m)') <= Cardinality(RequestsToday(m)) + 1
          /\ Cardinality(RequestsToday(m)') \in Nat /\ Cardinality(RequestsToday(m)) \in Nat
        BY <3>2, CountsAreFinite, OneMoreCount
    <3> QED
        BY <2>1, <3>1, <3>3
  <2>3. CASE m # txn[w].member
    <3>1. RequestsToday(m)' \subseteq RequestsToday(m)
        BY <1>3, <2>3 DEF RequestsToday, Requests
    <3>2. /\ Cardinality(RequestsToday(m)') <= Cardinality(RequestsToday(m))
          /\ Cardinality(RequestsToday(m)') \in Nat
          /\ Cardinality(RequestsToday(m)) \in Nat
        BY <3>1, CountsAreFinite, FS_Subset, FS_CardinalityType
    <3> QED
        BY <1>6, <2>1, <3>2 DEF WithinExtensionLimit
  <2> QED
    BY <2>2, <2>3
<1>7. overlap' = overlap
    BY DEF RequestInsert, End
<1>8. WithinExtensionLimit'
    BY <1>6, <1>7 DEF WithinExtensionLimit
<1>9. ASSUME ~overlap, NEW v \in Worker, Open(v, "request extension")' PROVE FALSE
  <2>1. txn'[v] # Idle
    BY <1>9, IdleOp DEF Open
  <2>2. txn[w] # Idle
    BY OpenIsNotIdle DEF RequestInsert
  <2>3. v # w /\ txn'[v] = txn[v]
    BY <2>1 DEF RequestInsert, End, ScreenTimeTypeOK
  <2> QED
    BY <1>9, <2>1, <2>2, <2>3 DEF OneOpen
<1>10. RoomHeld'
    BY <1>7, <1>9 DEF RoomHeld
<1> QED
    BY <1>5, <1>8, <1>10

-----------------------------------------------------------------------------
LEMMA ScreenTimeInvStep == ScreenTimeInv /\ [ScreenTimeNext]_screenTimeVars => ScreenTimeInv'
<1> SUFFICES ASSUME ScreenTimeInv, [ScreenTimeNext]_screenTimeVars
             PROVE  ScreenTimeInv'
    OBVIOUS
<1>1. ScreenTimeTypeOK'
    BY ScreenTimeTypeStep DEF ScreenTimeInv
<1>2. ScreenTimeTypeOK /\ OneOpen
    BY DEF ScreenTimeInv
<1>t. txn \in [Worker -> ScreenTimeTxn]
    BY <1>2 DEF ScreenTimeTypeOK
(* All but the insert: no new request, and room only for who has counted. *)
<1> DEFINE
      Quiet ==
        /\ OneOpen'
        /\ overlap' = overlap
        /\ Requests' \subseteq Requests
        /\ \A m \in Member : RequestsToday(m)' \subseteq RequestsToday(m)
        /\ \A v \in Worker, m \in Member :
             Open(v, "request extension")' /\ txn'[v].member = m =>
               \/ Open(v, "request extension") /\ txn[v].member = m
               \/ BelowLimit(m)
<1>3. Quiet => ScreenTimeInv'
    BY <1>1, FewerRequests, RoomStaysHeld DEF ScreenTimeInv
<1>4. CASE UNCHANGED screenTimeVars
    BY <1>2, <1>3, <1>4 DEF screenTimeVars, OneOpen, Requests, RequestsToday, Open
<1>5. ASSUME NEW w \in Worker, NEW m \in Member, CreateRule(w, m) PROVE ScreenTimeInv'
    BY <1>2, <1>3, <1>5 DEF CreateRule, sessions, OneOpen, Requests, RequestsToday, Open
<1>6. ASSUME NEW w \in Worker, NEW m \in Member, NEW r \in RuleId, RequestCount(w, m, r)
      PROVE  ScreenTimeInv'
  <2>1. OneOpen'
    BY <1>2, <1>t, <1>6, BeginKeepsOne DEF RequestCount
  <2>2. \A v \in Worker, n \in Member :
          Open(v, "request extension")' /\ txn'[v].member = n =>
            (Open(v, "request extension") /\ txn[v].member = n) \/ BelowLimit(n)
    BY <1>t, <1>6 DEF RequestCount, Begin, Open
  <2> QED
    BY <1>3, <1>6, <2>1, <2>2
    DEF RequestCount, Begin, screenTimeTables, Requests, RequestsToday
<1>7. ASSUME NEW w \in Worker, NEW r \in RuleId, DeleteRule(w, r) PROVE ScreenTimeInv'
  <2>1. Requests' \subseteq Requests
    BY <1>7 DEF DeleteRule, Requests
  <2>2. \A m \in Member : RequestsToday(m)' \subseteq RequestsToday(m)
    BY <1>7 DEF DeleteRule, RequestsToday, Requests
  <2> QED
    BY <1>2, <1>3, <1>7, <2>1, <2>2 DEF DeleteRule, sessions, OneOpen, Open
<1>8. ASSUME NEW w \in Worker, RequestInsert(w) PROVE ScreenTimeInv'
  <2>1. OneOpen'
    BY <1>2, <1>t, <1>8, EndKeepsOne DEF RequestInsert
  <2> QED
    BY <1>1, <1>8, <2>1, RequestInsertStep DEF ScreenTimeInv
<1>9. ASSUME NEW w \in Worker, NEW q \in RequestId, NEW approved \in BOOLEAN,
             RespondExtension(w, q, approved)
      PROVE  ScreenTimeInv'
  <2>1. OneOpen'
    BY <1>2, <1>t, <1>9, BeginKeepsOne DEF RespondExtension
  <2> QED
    BY <1>t, <1>3, <1>9, <2>1
    DEF RespondExtension, Begin, Open, screenTimeTables, Requests, RequestsToday
<1>10. ASSUME NEW w \in Worker, RespondExtensionWrite(w) PROVE ScreenTimeInv'
  <2>1. OneOpen'
    BY <1>2, <1>t, <1>10, EndKeepsOne DEF RespondExtensionWrite
  <2>2. PICK q \in RequestId :
          /\ requests[q] \in Request /\ requests[q] # NoRow
          /\ requests' = [requests EXCEPT ![q].status = txn[w].answer]
    BY <1>2, <1>10, ExtensionReads DEF RespondExtensionWrite, RespondTxn, ScreenTimeTypeOK
  <2>3. \A p \in RequestId :
          \/ requests'[p] = requests[p]
          \/ /\ requests[p] # NoRow
             /\ requests'[p].member = requests[p].member
             /\ requests'[p].today = requests[p].today
    BY <1>2, <2>2 DEF ScreenTimeTypeOK, Request
  <2>4. Requests' \subseteq Requests
    BY <2>3 DEF Requests
  <2>5. \A m \in Member : RequestsToday(m)' \subseteq RequestsToday(m)
    BY <2>3 DEF Requests, RequestsToday
  <2> QED
    BY <1>t, <1>3, <1>10, <2>1, <2>4, <2>5 DEF RespondExtensionWrite, End, Open, Idle
<1>11. ASSUME NEW w \in Worker, Abandon(w), UNCHANGED screenTimeTables PROVE ScreenTimeInv'
  <2>1. OneOpen'
    BY <1>2, <1>t, <1>11, EndKeepsOne DEF Abandon
  <2> QED
    BY <1>t, <1>3, <1>11, <2>1
    DEF Abandon, End, Open, Idle, screenTimeTables, Requests, RequestsToday
<1>12. ASSUME NEW q \in RequestId, RequestAges(q) PROVE ScreenTimeInv'
  <2>0. requests[q] # NoRow /\ requests[q] \in Request
    BY <1>2, <1>12 DEF ScreenTimeTypeOK, RequestAges, Requests
  <2>1. \A p \in RequestId :
          \/ requests'[p] = requests[p]
          \/ /\ requests[p] # NoRow
             /\ requests'[p].member = requests[p].member
             /\ requests'[p].today = requests[p].today
    BY <1>2, <1>12, <2>0 DEF ScreenTimeTypeOK, Request, RequestAges
  <2>2. Requests' \subseteq Requests /\ \A m \in Member : RequestsToday(m)' \subseteq RequestsToday(m)
    BY <2>1 DEF Requests, RequestsToday
  <2> QED
    BY <1>2, <1>3, <1>12, <2>2 DEF RequestAges, sessions, OneOpen, Open
<1>13. CASE RequestDayEnds
  <2>1. \A p \in RequestId :
          requests'[p] = NoRow \/ (requests[p] # NoRow /\ requests'[p].today = FALSE)
    BY <1>2, <1>13 DEF ScreenTimeTypeOK, Request, RequestDayEnds, Requests
  <2>2. Requests' \subseteq Requests /\ \A m \in Member : RequestsToday(m)' \subseteq RequestsToday(m)
    BY <2>1 DEF Requests, RequestsToday
  <2> QED
    BY <1>2, <1>3, <1>13, <2>2 DEF RequestDayEnds, sessions, OneOpen, Open
<1> QED
    BY <1>4, <1>5, <1>6, <1>7, <1>8, <1>9, <1>10, <1>11, <1>12, <1>13
    DEF ScreenTimeNext, ScreenTimeStep

(* "Enforces age-tier daily rate limit": with one session at a time, no member
   ever has more requests of one day than its tier allows. *)
THEOREM ExtensionLimitKept == ScreenTimeSpec => []WithinExtensionLimit
<1>1. ScreenTimeInv => WithinExtensionLimit
    BY DEF ScreenTimeInv
<1> QED
    BY <1>1, ScreenTimeInitially, ScreenTimeInvStep, PTL DEF ScreenTimeSpec
-----------------------------------------------------------------------------
(***************************************************************************)
(* DataRights.  ErasedIsGone is kept by the foreign keys: a row needs its  *)
(* member, so once a membership is gone nothing can refer to it            *)
(* (RowsNeedMember).  What the worker read may be old when it writes, but  *)
(* only in one way: a membership it did not find cannot have come back     *)
(* (AskedLeaves).                                                          *)
(***************************************************************************)
RowsNeedMember == \A m \in Member \ memberships : RowsOf({m}) = {}

ErasedLeft == \A m \in Member \ accounts : m \notin memberships

(* A request is never taken back; whoever asked for a deletion leaves or has left. *)
AskedLeaves == \A w \in Worker : Open(w, "cron") => \A q \in txn[w].asked :
    /\ dataRequests[q] # NoRow
    /\ dataRequests[q].type = "full_deletion" =>
         dataRequests[q].member \in txn[w].leave \cup (Member \ memberships)

DataRightsInv ==
    /\ DataRightsTypeOK
    /\ RowsNeedMember
    /\ ErasedLeft
    /\ AskedLeaves

CronTxn == [op: {"cron"}, jobs: SUBSET Job, asked: SUBSET DataRequestId,
            leave: SUBSET Member, rows: SUBSET RowId]

LEMMA DataRightsInitially == DataRightsInit => DataRightsInv
<1> SUFFICES ASSUME DataRightsInit PROVE DataRightsInv
    OBVIOUS
<1> USE DEF DataRightsInit, DataRightsTablesInit, SessionsInit
<1>1. DataRightsTypeOK
    BY DEF DataRightsTypeOK, DataRightsTxn
<1>2. RowsNeedMember /\ ErasedLeft
    BY DEF RowsNeedMember, ErasedLeft
<1>3. AskedLeaves
    BY IdleOp DEF AskedLeaves, Open
<1> QED
    BY <1>1, <1>2, <1>3 DEF DataRightsInv

LEMMA CronHasRead ==
    ASSUME DataRightsTypeOK, NEW w \in Worker, Open(w, "cron")
    PROVE  txn[w] \in CronTxn
BY IdleOp DEF DataRightsTypeOK, DataRightsTxn, CronTxn, Open

-----------------------------------------------------------------------------
(* The write of the worker, piece by piece. *)
LEMMA CronWriteStep ==
    ASSUME DataRightsInv, NEW w \in Worker, CronWrite(w)
    PROVE  DataRightsInv'
<1> USE DEF DataRightsInv
<1>1. txn[w] \in CronTxn
    BY CronHasRead DEF CronWrite
<1>2. txn' = [txn EXCEPT ![w] = Idle] /\ overlap' = overlap
    BY DEF CronWrite, End
<1>3. memberships' = memberships \ txn[w].leave
    BY DEF CronWrite, MembershipsLeft
<1>4. \A q \in DataRequestId :
        \/ dataRequests'[q] = dataRequests[q]
        \/ /\ q \in txn[w].asked
           /\ \E s \in {"processing", "completed"} :
                dataRequests'[q] = [dataRequests[q] EXCEPT !.status = s]
    BY DEF CronWrite, Completed
<1>5. \A q \in txn[w].asked : q \in DataRequestId /\ dataRequests[q] \in DataRequest
    BY <1>1 DEF AskedLeaves, CronWrite, CronTxn, DataRightsTypeOK
<1>6. \A q \in DataRequestId :
        \/ dataRequests'[q] = dataRequests[q]
        \/ /\ q \in txn[w].asked /\ dataRequests'[q] \in DataRequest
           /\ dataRequests'[q].member = dataRequests[q].member
           /\ dataRequests'[q].type = dataRequests[q].type
    BY <1>4, <1>5 DEF DataRequest
<1>7. DataRightsTypeOK'
  <2>1. dataRequests' \in [DataRequestId -> DataRequest \cup {NoRow}]
    BY <1>6 DEF CronWrite, DataRightsTypeOK
  <2>2. referring' \in [RowId -> Referring \cup {NoRow}]
    BY DEF CronWrite, DataRightsTypeOK
  <2> QED
    BY <1>2, <1>3, <2>1, <2>2 DEF CronWrite, DataRightsTypeOK, DataRightsTxn
<1>8. RowsNeedMember'
  <2> SUFFICES ASSUME NEW m \in Member, m \notin memberships', NEW k \in RowId,
                      referring'[k] # NoRow, referring'[k].member = m
               PROVE  FALSE
    BY DEF RowsNeedMember, RowsOf
  <2>1. /\ referring'[k] = referring[k]
        /\ k \notin txn[w].rows \cap RowsOf(txn[w].leave)
    BY DEF CronWrite
  <2>2. CASE m \in txn[w].leave
    BY <2>1, <2>2 DEF CronWrite, RowsOf
  <2>3. CASE m \notin memberships
    BY <2>1, <2>3 DEF RowsNeedMember, RowsOf
  <2> QED
    BY <1>3, <2>2, <2>3
<1>9. ErasedLeft'
  <2> SUFFICES ASSUME NEW m \in Member, m \notin accounts', m \in memberships'
               PROVE  FALSE
    BY DEF ErasedLeft
  <2>1. m \in memberships /\ m \notin txn[w].leave
    BY <1>3
  <2>2. PICK q \in txn[w].asked : dataRequests[q].type = "full_deletion" /\ dataRequests[q].member = m
    BY <2>1 DEF ErasedLeft, CronWrite
  <2> QED
    BY <2>1, <2>2 DEF AskedLeaves, CronWrite
<1>10. AskedLeaves'
  <2> SUFFICES ASSUME NEW v \in Worker, Open(v, "cron")', NEW q \in txn'[v].asked
               PROVE  /\ dataRequests'[q] # NoRow
                      /\ dataRequests'[q].type = "full_deletion" =>
                           dataRequests'[q].member \in txn'[v].leave \cup (Member \ memberships')
    BY DEF AskedLeaves
  <2>1. txn'[v] = txn[v] /\ Open(v, "cron")
    BY <1>2, IdleOp DEF Open, DataRightsTypeOK
  <2>2. q \in DataRequestId
    BY <2>1, CronHasRead DEF CronTxn
  <2>3. dataRequests'[q] # NoRow
    BY <1>6, <2>1, <2>2, DataRequestAssumption DEF AskedLeaves
  <2> QED
    BY <1>3, <1>6, <2>1, <2>2, <2>3 DEF AskedLeaves
<1> QED
    BY <1>7, <1>8, <1>9, <1>10

-----------------------------------------------------------------------------
LEMMA DataRightsInvStep == DataRightsInv /\ [DataRightsNext]_dataRightsVars => DataRightsInv'
<1> SUFFICES ASSUME DataRightsInv, [DataRightsNext]_dataRightsVars
             PROVE  DataRightsInv'
    OBVIOUS
<1>0. DataRightsTypeOK /\ RowsNeedMember /\ ErasedLeft /\ AskedLeaves
    BY DEF DataRightsInv
<1>1. CASE UNCHANGED dataRightsVars
    BY <1>0, <1>1 DEF dataRightsVars, DataRightsInv, DataRightsTypeOK, RowsNeedMember,
                      ErasedLeft, AskedLeaves, RowsOf, Open
<1>2. ASSUME NEW w \in Worker, NEW m \in Member, NEW erasable \in BOOLEAN,
             RowStored(w, m, erasable)
      PROVE  DataRightsInv'
  <2> DEFINE row == [member |-> m, erasable |-> erasable]
  <2>r. row \in Referring /\ row.member \in memberships
    BY <1>2 DEF RowStored, Referring
  <2>i. /\ referring \in [RowId -> Referring \cup {NoRow}] /\ Room(referring)
        /\ referring' = Inserted(referring, row)
    BY <1>0, <1>2 DEF RowStored, DataRightsTypeOK
  <2> HIDE DEF row
  <2>1. PICK k \in RowId :
          /\ referring[k] = NoRow
          /\ referring'[k] = row
          /\ \A j \in RowId : j # k => referring'[j] = referring[j]
    BY <2>r, <2>i, InsertedTable
  <2>2. DataRightsTypeOK'
    <3>1. referring' \in [RowId -> Referring \cup {NoRow}]
        BY <2>r, <2>i, InsertedTable
    <3> QED
        BY <1>0, <1>2, <3>1 DEF RowStored, DataRightsTypeOK, sessions
  <2>3. RowsNeedMember'
    BY <1>0, <1>2, <2>r, <2>1 DEF RowStored, RowsNeedMember, RowsOf
  <2>4. ErasedLeft' /\ AskedLeaves'
    BY <1>0, <1>2 DEF RowStored, ErasedLeft, AskedLeaves, Open, sessions
  <2> QED
    BY <2>2, <2>3, <2>4 DEF DataRightsInv
<1>3. ASSUME NEW w \in Worker, NEW m \in Member, MemberRemoved(w, m)
      PROVE  DataRightsInv'
  <2>1. DataRightsTypeOK'
    BY <1>0, <1>3 DEF MemberRemoved, DataRightsTypeOK, sessions
  <2>2. RowsNeedMember' /\ ErasedLeft'
    BY <1>0, <1>3 DEF MemberRemoved, RowsNeedMember, ErasedLeft, RowsOf
  <2>3. AskedLeaves'
    BY <1>0, <1>3 DEF MemberRemoved, AskedLeaves, Open, sessions
  <2> QED
    BY <2>1, <2>2, <2>3 DEF DataRightsInv
<1>4. ASSUME NEW w \in Worker, NEW m \in Member, NEW type \in {"full_deletion", "data_export"},
             RequestFiled(w, m, type)
      PROVE  DataRightsInv'
  <2> DEFINE row == [member |-> m, type |-> type, status |-> "pending"]
  <2>r. row \in DataRequest
    BY DEF DataRequest
  <2>i. /\ dataRequests \in [DataRequestId -> DataRequest \cup {NoRow}] /\ Room(dataRequests)
        /\ dataRequests' = Inserted(dataRequests, row)
    BY <1>0, <1>4 DEF RequestFiled, DataRightsTypeOK
  <2> HIDE DEF row
  <2>k. PICK k \in DataRequestId :
          /\ dataRequests[k] = NoRow
          /\ dataRequests'[k] = row
          /\ \A j \in DataRequestId : j # k => dataRequests'[j] = dataRequests[j]
    BY <2>r, <2>i, InsertedTable
  <2>t. dataRequests' \in [DataRequestId -> DataRequest \cup {NoRow}]
    BY <2>r, <2>i, InsertedTable
  <2>2. /\ dataRequests' \in [DataRequestId -> DataRequest \cup {NoRow}]
        /\ \A q \in DataRequestId :
             dataRequests[q] # NoRow => dataRequests'[q] = dataRequests[q]
    BY <2>k, <2>t
  <2>3. DataRightsTypeOK' /\ RowsNeedMember' /\ ErasedLeft'
    BY <1>0, <1>4, <2>2 DEF RequestFiled, DataRightsTypeOK, RowsNeedMember, ErasedLeft, RowsOf,
                            sessions
  <2>4. \A v \in Worker : Open(v, "cron") => txn[v].asked \subseteq DataRequestId
    BY <1>0, CronHasRead DEF CronTxn
  <2>5. AskedLeaves'
    BY <1>0, <1>4, <2>2, <2>4 DEF RequestFiled, AskedLeaves, Open, sessions
  <2> QED
    BY <2>3, <2>5 DEF DataRightsInv
<1>5. ASSUME NEW w \in Worker, NEW jobs \in SUBSET Job, CronRead(w, jobs)
      PROVE  DataRightsInv'
  <2> DEFINE deletions == IF "deletion" \in jobs THEN Asking("full_deletion") ELSE {}
             exports == IF "export" \in jobs THEN Asking("data_export") ELSE {}
             leave == {dataRequests[q].member : q \in deletions} \cap memberships
             read == [op |-> "cron", jobs |-> jobs, asked |-> deletions \cup exports,
                      leave |-> leave, rows |-> {k \in RowsOf(leave) : referring[k].erasable}]
  <2>1. txn' = [txn EXCEPT ![w] = read] /\ overlap' = overlap /\ UNCHANGED dataRightsTables
    BY <1>5 DEF CronRead, Begin
  <2>2. deletions \cup exports \subseteq DataRequestId
    BY DEF Asking
  <2>3. \A q \in deletions \cup exports :
          /\ dataRequests[q] # NoRow
          /\ dataRequests[q].type = "full_deletion" => q \in deletions
    BY DEF Asking
  <2>4. \A q \in deletions \cup exports : dataRequests[q].member \in Member
    BY <1>0, <2>2, <2>3 DEF DataRightsTypeOK, DataRequest
  <2>5. read \in CronTxn
    BY <1>0, <2>2, <2>4 DEF CronTxn, RowsOf, DataRightsTypeOK
  <2>6. \A q \in read.asked :
          /\ dataRequests[q] # NoRow
          /\ dataRequests[q].type = "full_deletion" =>
               dataRequests[q].member \in read.leave \cup (Member \ memberships)
    BY <2>3, <2>4
  <2> HIDE DEF read
  <2>7. DataRightsTypeOK'
    BY <1>0, <2>1, <2>5 DEF DataRightsTypeOK, DataRightsTxn, CronTxn, dataRightsTables
  <2>8. RowsNeedMember' /\ ErasedLeft'
    BY <1>0, <2>1 DEF RowsNeedMember, ErasedLeft, RowsOf, dataRightsTables
  <2>9. AskedLeaves'
    <3> SUFFICES ASSUME NEW v \in Worker, Open(v, "cron")', NEW q \in txn'[v].asked
                 PROVE  /\ dataRequests[q] # NoRow
                        /\ dataRequests[q].type = "full_deletion" =>
                             dataRequests[q].member \in txn'[v].leave \cup (Member \ memberships)
        BY <2>1 DEF AskedLeaves, dataRightsTables
    <3>1. CASE v = w
        BY <1>0, <2>1, <2>6, <3>1 DEF DataRightsTypeOK
    <3>2. CASE v # w
        BY <1>0, <2>1, <3>2 DEF AskedLeaves, Open, DataRightsTypeOK
    <3> QED
        BY <3>1, <3>2
  <2> QED
    BY <2>7, <2>8, <2>9 DEF DataRightsInv
<1>6. ASSUME NEW w \in Worker, CronWrite(w)
      PROVE  DataRightsInv'
    BY <1>6, CronWriteStep
<1>7. ASSUME NEW w \in Worker, Abandon(w), UNCHANGED dataRightsTables
      PROVE  DataRightsInv'
  <2>1. DataRightsTypeOK' /\ RowsNeedMember' /\ ErasedLeft'
    BY <1>0, <1>7 DEF Abandon, End, dataRightsTables, DataRightsTypeOK, DataRightsTxn,
                      RowsNeedMember, ErasedLeft, RowsOf
  <2>2. \A v \in Worker : Open(v, "cron")' => txn'[v] = txn[v] /\ Open(v, "cron")
    BY <1>0, <1>7, IdleOp DEF Abandon, End, Open, DataRightsTypeOK
  <2>3. AskedLeaves'
    BY <1>0, <1>7, <2>2 DEF AskedLeaves, dataRightsTables
  <2> QED
    BY <2>1, <2>3 DEF DataRightsInv
<1> QED
    BY <1>1, <1>2, <1>3, <1>4, <1>5, <1>6, <1>7
    DEF DataRightsNext, DataRightsStep, CronEnds

(* Type correctness: every request has a status the table knows. *)
THEOREM DataRightsTypeCorrect == DataRightsSpec => []DataRightsTypeOK
<1>1. DataRightsInv => DataRightsTypeOK
    BY DEF DataRightsInv
<1> QED
    BY <1>1, DataRightsInitially, DataRightsInvStep, PTL DEF DataRightsSpec

(* "Cascade soft-deletes across all user-related tables": nothing that refers to
   a user's membership outlives the user, whatever else happens meanwhile. *)
THEOREM Erased == DataRightsSpec => []ErasedIsGone
<1>1. DataRightsInv => ErasedIsGone
    BY DEF DataRightsInv, RowsNeedMember, ErasedLeft, ErasedIsGone
<1> QED
    BY <1>1, DataRightsInitially, DataRightsInvStep, PTL DEF DataRightsSpec

-----------------------------------------------------------------------------
(***************************************************************************)
(* Realtime.  NothingLeaks is inductive as it stands.  For                 *)
(* OneSocketPerUser, a socket that has closed the one it replaces must     *)
(* still find no other up when its turn comes (Cleared), which holds as    *)
(* long as it is the only one of its user to connect (ConnectsAlone).      *)
(***************************************************************************)
ConnectsAlone == \A s, t \in Socket :
    Connecting(s) /\ Connecting(t) /\ handler[s].user = handler[t].user =>
        s = t \/ handler[s].user \in muddled

Cleared == \A s \in Socket :
    At(s, "replacing") /\ handler[s].user \notin muddled => Serving(handler[s].user) \cap up = {}

RealtimeInv ==
    RealtimeTypeOK /\ NothingLeaks /\ OneSocketPerUser /\ ConnectsAlone /\ Cleared

LEMMA RealtimeInitially == RealtimeTablesInit => RealtimeInv
<1> SUFFICES ASSUME RealtimeTablesInit PROVE RealtimeInv
    OBVIOUS
<1>1. \A s \in Socket : handler[s] = None
    BY DEF RealtimeTablesInit
<1>2. \A s \in Socket : ~At(s, "accepted") /\ ~At(s, "replacing") /\ ~At(s, "serving")
    BY <1>1 DEF At, None
<1>3. \A u \in Member : Serving(u) = {}
    BY <1>2 DEF Serving
<1>4. RealtimeTypeOK
    BY DEF RealtimeTypeOK, RealtimeTablesInit, Handler
<1> QED
    BY <1>2, <1>3, <1>4
    DEF RealtimeInv, NothingLeaks, OneSocketPerUser, ConnectsAlone, Cleared, Connecting,
        RealtimeTablesInit, ChatRoom

(* A handler that has begun knows its user. *)
LEMMA HandlersUser ==
    ASSUME RealtimeTypeOK, NEW s \in Socket, handler[s].at # "none"
    PROVE  /\ handler[s] \in [at: {"accepted", "replacing", "serving", "ended"}, user: Member]
           /\ handler[s].user \in Member
BY DEF RealtimeTypeOK, Handler, None

LEMMA HandlerGoes ==
    ASSUME RealtimeTypeOK, NEW s \in Socket, handler[s].at # "none",
           NEW place \in {"replacing", "serving", "ended"}, Goes(s, place)
    PROVE  /\ handler' \in [Socket -> Handler]
           /\ handler'[s].at = place /\ handler'[s].user = handler[s].user
           /\ \A t \in Socket : t # s => handler'[t] = handler[t]
<1>1. handler[s] \in [at: {"accepted", "replacing", "serving", "ended"}, user: Member]
    BY HandlersUser
<1> QED
    BY <1>1 DEF Goes, Handler, RealtimeTypeOK

(* A handler that moves on to another place than serving, or stays. *)
LEMMA RealtimeInvStep == RealtimeInv /\ RealtimeNext => RealtimeInv'
<1> SUFFICES ASSUME RealtimeInv, RealtimeNext PROVE RealtimeInv'
    OBVIOUS
<1> USE DEF RealtimeInv
<1>t. /\ connections \in [Member -> Socket \cup {NoRow}]
      /\ rooms \in [ChatRoom -> SUBSET Member]
      /\ handler \in [Socket -> Handler]
      /\ up \subseteq Socket /\ muddled \subseteq Member
    BY DEF RealtimeTypeOK
<1>1. ASSUME NEW s \in Socket, NEW u \in Member, Accepted(s, u) PROVE RealtimeInv'
  <2>1. /\ handler'[s].at = "accepted" /\ handler'[s].user = u
        /\ \A t \in Socket : t # s => handler'[t] = handler[t]
        /\ handler[s].at = "none"
    BY <1>1, <1>t DEF Accepted, At
  <2>2. \A v \in Member : Serving(v)' = Serving(v)
    BY <2>1 DEF Serving, At
  <2>3. /\ up' = up \cup {s} /\ connections' = connections /\ rooms' = rooms
        /\ muddled \subseteq muddled'
    BY <1>1 DEF Accepted
  <2>4. \A v \in Member : Serving(v)' \cap up' = Serving(v) \cap up
    BY <2>1, <2>2, <2>3 DEF Serving, At
  <2>5. RealtimeTypeOK'
    BY <1>1, <1>t DEF Accepted, RealtimeTypeOK, Handler
  <2>6. NothingLeaks'
    BY <2>2, <2>3 DEF NothingLeaks
  <2>7. OneSocketPerUser'
    BY <2>3, <2>4 DEF OneSocketPerUser
  <2>8. ConnectsAlone'
    BY <1>1, <2>1, <2>3 DEF ConnectsAlone, Accepted, Connecting, At
  <2>9. Cleared'
    BY <2>1, <2>3, <2>4, HandlersUser DEF Cleared, At
  <2> QED
    BY <2>5, <2>6, <2>7, <2>8, <2>9
<1>2. ASSUME NEW s \in Socket, Replaces(s) PROVE RealtimeInv'
  <2> DEFINE u == handler[s].user
  <2>1. u \in Member /\ handler[s].at = "accepted"
    BY <1>2, HandlersUser DEF Replaces, At
  <2>2. /\ handler' \in [Socket -> Handler]
        /\ handler'[s].at = "replacing" /\ handler'[s].user = u
        /\ \A t \in Socket : t # s => handler'[t] = handler[t]
    BY <1>2, <2>1, HandlerGoes DEF Replaces
  <2>3. /\ up' = up \ {connections[u]} /\ connections' = connections /\ rooms' = rooms
        /\ muddled' = muddled
    BY <1>2 DEF Replaces
  <2>4. \A v \in Member : Serving(v)' = Serving(v)
    BY <2>1, <2>2 DEF Serving, At
  <2>5. RealtimeTypeOK'
    BY <1>t, <2>2, <2>3 DEF RealtimeTypeOK
  <2>6. NothingLeaks' /\ OneSocketPerUser'
    BY <2>3, <2>4 DEF NothingLeaks, OneSocketPerUser
  <2>8. ConnectsAlone'
    BY <2>1, <2>2, <2>3 DEF ConnectsAlone, Connecting, At
  <2>9. Cleared'
    BY <2>1, <2>2, <2>3, <2>4, HandlersUser DEF Cleared, OneSocketPerUser, At
  <2> QED
    BY <2>5, <2>6, <2>8, <2>9
<1>3. ASSUME NEW s \in Socket, Registers(s) PROVE RealtimeInv'
  <2>1. PICK u \in Member :
          u = handler[s].user /\ handler[s].at \in {"accepted", "replacing"}
    BY <1>3, HandlersUser DEF Registers, At
  <2>2. /\ handler' \in [Socket -> Handler]
        /\ handler'[s].at = "serving" /\ handler'[s].user = u
        /\ \A t \in Socket : t # s => handler'[t] = handler[t]
    BY <1>3, <2>1, HandlerGoes DEF Registers
  <2>3. /\ connections' = [connections EXCEPT ![u] = s]
        /\ rooms' = [rooms EXCEPT ![GroupRoom] = @ \cup {u}]
        /\ up' = up /\ muddled' = muddled
    BY <1>3, <2>1 DEF Registers
  <2>4. Serving(u)' = Serving(u) \cup {s} /\ \A v \in Member : v # u => Serving(v)' = Serving(v)
    BY <2>1, <2>2 DEF Serving, At
  <2>5. RealtimeTypeOK'
    BY <1>t, <2>1, <2>2, <2>3 DEF RealtimeTypeOK, ChatRoom
  <2>6. NothingLeaks'
    BY <1>t, <2>1, <2>3, <2>4 DEF NothingLeaks, ChatRoom
  <2>7. u \notin muddled => Serving(u) \cap up = {}
    BY <1>3, <1>t, <2>1, SocketAssumption DEF Registers, Cleared, OneSocketPerUser, At
  <2>10. OneSocketPerUser'
    BY <1>t, <2>1, <2>3, <2>4, <2>7 DEF OneSocketPerUser
  <2>8. ConnectsAlone'
    BY <2>1, <2>2, <2>3 DEF ConnectsAlone, Connecting, At
  <2>9. Cleared'
    BY <2>1, <2>2, <2>3, <2>4, HandlersUser DEF Cleared, ConnectsAlone, Connecting, At
  <2> QED
    BY <2>5, <2>6, <2>8, <2>9, <2>10
<1>4. ASSUME NEW s \in Socket, Drops(s) PROVE RealtimeInv'
    BY <1>4, <1>t DEF Drops, RealtimeTypeOK, NothingLeaks, OneSocketPerUser, ConnectsAlone,
       Cleared, Serving, At, Connecting
<1>5. ASSUME NEW s \in Socket, ServingEnds(s) PROVE RealtimeInv'
  <2>1. PICK u \in Member : u = handler[s].user /\ handler[s].at = "serving"
    BY <1>5, HandlersUser DEF ServingEnds, At
  <2>2. /\ handler' \in [Socket -> Handler]
        /\ handler'[s].at = "ended" /\ handler'[s].user = u
        /\ \A t \in Socket : t # s => handler'[t] = handler[t]
    BY <1>5, <2>1, HandlerGoes DEF ServingEnds
  <2>3. /\ connections' = [connections EXCEPT ![u] = NoRow]
        /\ rooms' = [r \in ChatRoom |-> rooms[r] \ {u}]
        /\ up' \subseteq up /\ muddled \subseteq muddled' /\ muddled' \subseteq Member
        /\ u \notin muddled' => connections[u] = s
    BY <1>5, <1>t, <2>1 DEF ServingEnds, Forgets
  <2>4. Serving(u)' = Serving(u) \ {s} /\ \A v \in Member : v # u => Serving(v)' = Serving(v)
    BY <2>1, <2>2 DEF Serving, At
  <2>5. RealtimeTypeOK'
    BY <1>t, <2>2, <2>3 DEF RealtimeTypeOK
  <2>6. NothingLeaks'
    BY <1>t, <2>1, <2>3, <2>4 DEF NothingLeaks
  <2>7. OneSocketPerUser'
    BY <1>t, <2>1, <2>3, <2>4 DEF OneSocketPerUser
  <2>8. ConnectsAlone'
    BY <2>2, <2>3 DEF ConnectsAlone, Connecting, At
  <2>9. Cleared'
    BY <2>2, <2>3, <2>4, HandlersUser DEF Cleared, At
  <2> QED
    BY <2>5, <2>6, <2>7, <2>8, <2>9
<1>6. ASSUME NEW s \in Socket, AcceptFails(s) PROVE RealtimeInv'
  <2>1. handler[s].at = "accepted"
    BY <1>6 DEF AcceptFails, At
  <2>2. /\ handler' \in [Socket -> Handler]
        /\ handler'[s].at = "ended" /\ handler'[s].user = handler[s].user
        /\ \A t \in Socket : t # s => handler'[t] = handler[t]
    BY <1>6, <2>1, HandlerGoes DEF AcceptFails
  <2>3. UNCHANGED <<connections, rooms, up, muddled>>
    BY <1>6 DEF AcceptFails
  <2>4. \A v \in Member : Serving(v)' = Serving(v)
    BY <2>1, <2>2 DEF Serving, At
  <2>5. RealtimeTypeOK'
    BY <1>t, <2>2, <2>3 DEF RealtimeTypeOK
  <2>6. NothingLeaks' /\ OneSocketPerUser'
    BY <2>3, <2>4 DEF NothingLeaks, OneSocketPerUser
  <2>8. ConnectsAlone'
    BY <2>2, <2>3 DEF ConnectsAlone, Connecting, At
  <2>9. Cleared'
    BY <2>2, <2>3, <2>4, HandlersUser DEF Cleared, At
  <2> QED
    BY <2>5, <2>6, <2>8, <2>9
<1>7. ASSUME NEW s \in Socket, SendFails(s) PROVE RealtimeInv'
  <2> DEFINE u == handler[s].user
  <2>1. u \in Member /\ s \notin up
    BY <1>7, HandlersUser DEF SendFails, At
  <2>2. /\ connections' = [connections EXCEPT ![u] = NoRow]
        /\ rooms' = [r \in ChatRoom |-> rooms[r] \ {u}]
        /\ up' = up /\ handler' = handler
        /\ muddled \subseteq muddled' /\ muddled' \subseteq Member
        /\ u \notin muddled' => connections[u] = s
    BY <1>7, <1>t, <2>1 DEF SendFails, Forgets
  <2>3. \A v \in Member : Serving(v)' = Serving(v)
    BY <2>2 DEF Serving, At
  <2>4. RealtimeTypeOK'
    BY <1>t, <2>2 DEF RealtimeTypeOK
  <2>5. NothingLeaks' /\ OneSocketPerUser'
    BY <1>t, <2>1, <2>2, <2>3 DEF NothingLeaks, OneSocketPerUser
  <2>6. ConnectsAlone' /\ Cleared'
    BY <2>2, <2>3, HandlersUser DEF ConnectsAlone, Cleared, Connecting, At
  <2> QED
    BY <2>4, <2>5, <2>6
<1>8. ASSUME NEW s \in Socket, NEW r \in ChatRoom, Joins(s, r) \/ Leaves(s, r)
      PROVE  RealtimeInv'
  <2> DEFINE u == handler[s].user
  <2>1. u \in Member /\ s \in Serving(u)
    BY <1>8, HandlersUser DEF Joins, Leaves, At, Serving
  <2>2. /\ UNCHANGED <<connections, handler, up, muddled>>
        /\ rooms' \in [ChatRoom -> SUBSET Member]
        /\ \A q \in ChatRoom : rooms'[q] \subseteq rooms[q] \cup {u}
    BY <1>8, <1>t, <2>1 DEF Joins, Leaves
  <2>3. \A v \in Member : Serving(v)' = Serving(v)
    BY <2>2 DEF Serving, At
  <2>4. RealtimeTypeOK' /\ NothingLeaks'
    BY <1>t, <2>1, <2>2, <2>3 DEF RealtimeTypeOK, NothingLeaks
  <2>5. OneSocketPerUser' /\ ConnectsAlone' /\ Cleared'
    BY <2>2, <2>3, HandlersUser DEF OneSocketPerUser, ConnectsAlone, Cleared, Connecting, At
  <2> QED
    BY <2>4, <2>5
<1> QED
    BY <1>1, <1>2, <1>3, <1>4, <1>5, <1>6, <1>7, <1>8 DEF RealtimeNext

LEMMA RealtimeInvStutter == RealtimeInv /\ UNCHANGED realtimeTables => RealtimeInv'
BY DEF RealtimeInv, realtimeTables, RealtimeTypeOK, NothingLeaks, OneSocketPerUser, ConnectsAlone,
       Cleared, Serving, At, Connecting

THEOREM SocketsTracked == RealtimeSpec => []SocketsAreTracked
<1>1. RealtimeInit => RealtimeInv
    BY RealtimeInitially DEF RealtimeInit
<1>2. RealtimeInv /\ [RealtimeNext]_realtimeVars => RealtimeInv'
    BY RealtimeInvStep, RealtimeInvStutter DEF realtimeVars, realtimeTables
<1>3. RealtimeInv => SocketsAreTracked
    BY DEF RealtimeInv, SocketsAreTracked
<1> QED
    BY <1>1, <1>2, <1>3, PTL DEF RealtimeSpec

-----------------------------------------------------------------------------
(***************************************************************************)
(* SocketClient.  As long as connect was never called too early, the       *)
(* sockets and timers that are left are at most one (OneLeft), the socket  *)
(* that may still open is the one the object knows (LiveIsKnown), and one  *)
(* that is closing was closed by disconnect.                               *)
(***************************************************************************)
OneLeft ==
    /\ lostTimers = 0
    /\ \A r, s \in Left : r = s
    /\ Left # {} => ~timer

LiveIsKnown ==
    /\ \A s \in InState({"connecting", "open"}) : s = ws /\ shouldReconnect
    /\ InState({"closing"}) # {} => ~shouldReconnect
    /\ ~shouldReconnect => ~timer /\ ws = NoRow
    /\ shouldReconnect /\ ws # NoRow /\ Left = {} /\ ~timer =>
         reconnectAttempts = MaxReconnectAttempts
    /\ connected <=> ws # NoRow /\ webSockets[ws] = "open"

(* The bound on the calls of connect holds between them too. *)
WithinBound == Cardinality(Left) + Timers <= Cardinality(WebSocketId)

SocketClientInv ==
    /\ SocketClientTypeOK
    /\ WithinBound
    /\ connected => InState({"open"}) # {}
    /\ ~hasty => OneLeft /\ LiveIsKnown

LEMMA SocketTypes ==
    ASSUME SocketClientTypeOK
    PROVE  /\ webSockets \in [WebSocketId -> {"connecting", "open", "closing", "closed"}]
           /\ ws \in WebSocketId \cup {NoRow}
           /\ connected \in BOOLEAN /\ shouldReconnect \in BOOLEAN /\ timer \in BOOLEAN
           /\ hasty \in BOOLEAN /\ reconnectAttempts \in 0..MaxReconnectAttempts
           /\ lostTimers \in Nat /\ Timers \in Nat
           /\ Cardinality(WebSocketId) \in Nat
           /\ IsFiniteSet(Left) /\ Cardinality(Left) \in Nat
           /\ Left \subseteq WebSocketId
<1>1. Left \subseteq WebSocketId /\ Cardinality(WebSocketId) \in Nat
    BY SocketClientAssumption, FS_CardinalityType DEF Left, InState
<1>2. IsFiniteSet(Left) /\ Cardinality(Left) \in Nat
    BY <1>1, SocketClientAssumption, PartCount
<1>3. lostTimers \in Nat /\ timer \in BOOLEAN /\ Timers \in Nat
    BY <1>1 DEF SocketClientTypeOK, Timers
<1> QED
    BY <1>1, <1>2, <1>3 DEF SocketClientTypeOK

LEMMA SocketClientInitially == SocketClientTablesInit => SocketClientInv
<1> SUFFICES ASSUME SocketClientTablesInit PROVE SocketClientInv
    OBVIOUS
<1> USE DEF SocketClientTablesInit
<1>0. Cardinality(WebSocketId) \in Nat /\ MaxReconnectAttempts \in Nat
    BY SocketClientAssumption, FS_CardinalityType
<1>1. SocketClientTypeOK
  <2>1. reconnectAttempts \in 0..MaxReconnectAttempts /\ lostTimers \in 0..Cardinality(WebSocketId)
    BY <1>0
  <2> QED
    BY <2>1, Zenon DEF SocketClientTypeOK
<1>2. Left = {} /\ InState({"connecting", "open"}) = {} /\ InState({"closing"}) = {}
    BY DEF Left, InState
<1>3. WithinBound
    BY <1>0, <1>2, FS_EmptySet DEF WithinBound, Timers
<1>4. OneLeft /\ LiveIsKnown
    BY <1>2 DEF OneLeft, LiveIsKnown
<1> QED
    BY <1>1, <1>3, <1>4 DEF SocketClientInv

(* A socket moves to another state. *)
LEMMA SocketMoves ==
    ASSUME webSockets \in [WebSocketId -> {"connecting", "open", "closing", "closed"}],
           NEW s \in WebSocketId, NEW state \in {"connecting", "open", "closing", "closed"},
           webSockets' = [webSockets EXCEPT ![s] = state]
    PROVE  /\ webSockets' \in [WebSocketId -> {"connecting", "open", "closing", "closed"}]
           /\ Left' = IF state = "closed" THEN Left \ {s} ELSE Left \cup {s}
           /\ InState({"connecting", "open"})' =
                IF state \in {"connecting", "open"} THEN InState({"connecting", "open"}) \cup {s}
                ELSE InState({"connecting", "open"}) \ {s}
           /\ InState({"open"})' =
                IF state = "open" THEN InState({"open"}) \cup {s} ELSE InState({"open"}) \ {s}
           /\ InState({"closing"})' =
                IF state = "closing" THEN InState({"closing"}) \cup {s} ELSE InState({"closing"}) \ {s}
BY DEF Left, InState

LEMMA StateIsIn ==
    ASSUME SocketClientTypeOK, NEW s \in WebSocketId
    PROVE  /\ s \in Left <=> webSockets[s] # "closed"
           /\ s \in InState({"connecting", "open"}) <=> webSockets[s] \in {"connecting", "open"}
           /\ s \in InState({"open"}) <=> webSockets[s] = "open"
           /\ s \in InState({"closing"}) <=> webSockets[s] = "closing"
           /\ s \in InState({"closed"}) <=> webSockets[s] = "closed"
           /\ s \in InState({"connecting"}) <=> webSockets[s] = "connecting"
BY DEF SocketClientTypeOK, Left, InState

(* One more socket or timer, or one less. *)
LEMMA OneMoreLeft ==
    ASSUME SocketClientInv, NEW s \in WebSocketId, s \notin Left, Left' = Left \cup {s}
    PROVE  Cardinality(Left') = Cardinality(Left) + 1
BY SocketTypes, FS_AddElement DEF SocketClientInv

LEMMA OneLessLeft ==
    ASSUME SocketClientInv, NEW s \in Left, Left' = Left \ {s}
    PROVE  Cardinality(Left') = Cardinality(Left) - 1
BY SocketTypes, FS_RemoveElement DEF SocketClientInv

LEMMA ConnectsStep == SocketClientInv /\ Connects => SocketClientInv'
<1> SUFFICES ASSUME SocketClientInv, Connects PROVE SocketClientInv'
    OBVIOUS
<1>t. SocketClientTypeOK
    BY DEF SocketClientInv
<1>1. PICK s \in WebSocketId :
        /\ webSockets[s] = "closed" /\ ws' = s
        /\ webSockets' = [webSockets EXCEPT ![s] = "connecting"]
    BY DEF Connects, MayConnect, ConnectionCreated, InState
<1>2. /\ webSockets' \in [WebSocketId -> {"connecting", "open", "closing", "closed"}]
      /\ Left' = Left \cup {s}
      /\ InState({"connecting", "open"})' = InState({"connecting", "open"}) \cup {s}
      /\ InState({"open"})' = InState({"open"}) \ {s}
      /\ InState({"closing"})' = InState({"closing"}) \ {s}
      /\ s \notin Left /\ s \notin InState({"open"})
    BY <1>t, <1>1, SocketTypes, SocketMoves, StateIsIn
<1>3. /\ shouldReconnect' = TRUE /\ reconnectAttempts' = 0
      /\ hasty' = (hasty \/ Left # {} \/ Timers > 0)
      /\ connected' = connected /\ timer' = timer /\ lostTimers' = lostTimers
      /\ Cardinality(Left) + Timers < Cardinality(WebSocketId)
    BY DEF Connects, MayConnect
<1>4. SocketClientTypeOK'
    BY <1>t, <1>1, <1>2, <1>3, SocketClientAssumption DEF SocketClientTypeOK
<1>5. WithinBound'
  <2>1. Cardinality(Left') = Cardinality(Left) + 1
    BY <1>2, OneMoreLeft
  <2>2. Timers' = Timers
    BY <1>3 DEF Timers
  <2>3. Cardinality(Left) \in Nat /\ Timers \in Nat /\ Cardinality(WebSocketId) \in Nat
    BY <1>t, SocketTypes
  <2> QED
    BY <1>3, <2>1, <2>2, <2>3 DEF WithinBound
<1>6. connected' => InState({"open"})' # {}
    BY <1>2, <1>3 DEF SocketClientInv
<1>7. ASSUME ~hasty' PROVE OneLeft' /\ LiveIsKnown'
  <2>0. hasty \in BOOLEAN /\ Timers \in Nat
    BY <1>t, SocketTypes
  <2>a. ~hasty /\ Left = {} /\ ~(Timers > 0)
    BY <1>3, <1>7, <2>0, Zenon
  <2>1. ~hasty /\ Left = {} /\ Timers = 0
    BY <2>0, <2>a
  <2>2. ~timer /\ lostTimers = 0
    BY <1>t, <2>1, SocketTypes DEF Timers
  <2>3. InState({"connecting", "open"}) = {} /\ InState({"closing"}) = {} /\ InState({"open"}) = {}
    BY <2>1 DEF Left, InState
  <2>4. ~connected
    BY <2>3 DEF SocketClientInv
  <2>5. OneLeft'
    BY <1>2, <1>3, <2>1, <2>2 DEF OneLeft
  <2>6. LiveIsKnown'
    BY <1>1, <1>2, <1>3, <1>t, <2>2, <2>3, <2>4, SocketTypes DEF LiveIsKnown
  <2> QED
    BY <2>5, <2>6
<1> QED
    BY <1>4, <1>5, <1>6, <1>7 DEF SocketClientInv

LEMMA DisconnectsStep == SocketClientInv /\ Disconnects => SocketClientInv'
<1> SUFFICES ASSUME SocketClientInv, Disconnects PROVE SocketClientInv'
    OBVIOUS
<1>t. SocketClientTypeOK
    BY DEF SocketClientInv
<1>1. /\ ~shouldReconnect' /\ ~connected' /\ ~timer' /\ ws' = NoRow
      /\ shouldReconnect' \in BOOLEAN /\ connected' \in BOOLEAN /\ timer' \in BOOLEAN
      /\ webSockets' = [s \in WebSocketId |-> IF s = ws /\ s \in Left THEN "closing"
                                              ELSE webSockets[s]]
      /\ reconnectAttempts' = reconnectAttempts /\ lostTimers' = lostTimers /\ hasty' = hasty
    BY DEF Disconnects
<1>2. /\ webSockets' \in [WebSocketId -> {"connecting", "open", "closing", "closed"}]
      /\ \A s \in WebSocketId : webSockets'[s] = "closed" <=> webSockets[s] = "closed"
      /\ \A s \in WebSocketId : webSockets'[s] \in {"connecting", "open"} =>
           webSockets[s] \in {"connecting", "open"} /\ s # ws
    BY <1>t, <1>1, SocketTypes, StateIsIn
<1>3. Left' = Left
  <2>1. \A s \in WebSocketId : webSockets[s] \in {"connecting", "open", "closing", "closed"}
                               /\ webSockets'[s] \in {"connecting", "open", "closing", "closed"}
    BY <1>2, <1>t, SocketTypes
  <2> QED
    BY <1>2, <2>1 DEF Left, InState
<1>4. SocketClientTypeOK'
    BY <1>t, <1>1, <1>2 DEF SocketClientTypeOK
<1>5. WithinBound'
  <2>1. lostTimers \in Nat /\ timer \in BOOLEAN /\ Cardinality(Left) \in Nat
        /\ Cardinality(WebSocketId) \in Nat
    BY <1>t, SocketTypes
  <2>2. Timers' <= Timers /\ Timers \in Nat /\ Timers' \in Nat
    BY <1>1, <2>1 DEF Timers
  <2>3. Cardinality(Left) + Timers <= Cardinality(WebSocketId)
    BY DEF WithinBound, SocketClientInv
  <2>4. Cardinality(Left) + Timers' <= Cardinality(WebSocketId)
    BY <2>1, <2>2, <2>3
  <2> QED
    BY <1>3, <2>4 DEF WithinBound
<1>6. ASSUME ~hasty' PROVE OneLeft' /\ LiveIsKnown'
  <2>1. OneLeft /\ LiveIsKnown
    BY <1>1, <1>6 DEF SocketClientInv
  <2>2. OneLeft'
    BY <1>1, <1>3, <2>1 DEF OneLeft
  <2>3. InState({"connecting", "open"})' = {}
    BY <1>2, <2>1 DEF LiveIsKnown, InState
  <2>4. LiveIsKnown'
    BY <1>1, <2>3 DEF LiveIsKnown
  <2> QED
    BY <2>2, <2>4
<1> QED
    BY <1>1, <1>4, <1>5, <1>6 DEF SocketClientInv

LEMMA TimerFiresStep == SocketClientInv /\ TimerFires => SocketClientInv'
<1> SUFFICES ASSUME SocketClientInv, TimerFires PROVE SocketClientInv'
    OBVIOUS
<1>t. SocketClientTypeOK
    BY DEF SocketClientInv
<1>1. PICK s \in WebSocketId :
        /\ webSockets[s] = "closed" /\ ws' = s
        /\ webSockets' = [webSockets EXCEPT ![s] = "connecting"]
    BY DEF TimerFires, ConnectionCreated, InState
<1>2. /\ webSockets' \in [WebSocketId -> {"connecting", "open", "closing", "closed"}]
      /\ Left' = Left \cup {s}
      /\ InState({"connecting", "open"})' = InState({"connecting", "open"}) \cup {s}
      /\ InState({"open"})' = InState({"open"}) \ {s}
      /\ InState({"closing"})' = InState({"closing"}) \ {s}
      /\ s \notin Left /\ s \notin InState({"open"})
    BY <1>t, <1>1, SocketTypes, SocketMoves, StateIsIn
<1>3. /\ connected' = connected /\ shouldReconnect' = shouldReconnect
      /\ reconnectAttempts' = reconnectAttempts /\ hasty' = hasty
      /\ \/ timer /\ timer' = FALSE /\ lostTimers' = lostTimers
         \/ lostTimers > 0 /\ lostTimers' = lostTimers - 1 /\ timer' = timer
    BY DEF TimerFires
<1>4. SocketClientTypeOK'
  <2>1. lostTimers \in 0..Cardinality(WebSocketId) /\ Cardinality(WebSocketId) \in Nat
        /\ timer \in BOOLEAN
    BY <1>t, SocketTypes DEF SocketClientTypeOK
  <2>2. timer' \in BOOLEAN
    BY <1>3, <2>1, Zenon
  <2>3. lostTimers' = lostTimers \/ (lostTimers > 0 /\ lostTimers' = lostTimers - 1)
    BY <1>3, Zenon
  <2>4. lostTimers' \in 0..Cardinality(WebSocketId)
    BY <2>1, <2>3
  <2> QED
    BY <1>t, <1>1, <1>2, <1>3, <2>2, <2>4 DEF SocketClientTypeOK
<1>5. Timers' = Timers - 1
    BY <1>t, <1>3, SocketTypes DEF Timers
<1>6. WithinBound'
  <2>1. Cardinality(Left') = Cardinality(Left) + 1
    BY <1>2, OneMoreLeft
  <2>2. Cardinality(Left) \in Nat /\ Timers \in Nat /\ Cardinality(WebSocketId) \in Nat
    BY <1>t, SocketTypes
  <2>3. Cardinality(Left) + Timers <= Cardinality(WebSocketId)
    BY DEF WithinBound, SocketClientInv
  <2> QED
    BY <1>5, <2>1, <2>2, <2>3 DEF WithinBound
<1>7. connected' => InState({"open"})' # {}
    BY <1>2, <1>3 DEF SocketClientInv
<1>8. ASSUME ~hasty' PROVE OneLeft' /\ LiveIsKnown'
  <2>1. OneLeft /\ LiveIsKnown
    BY <1>3, <1>8 DEF SocketClientInv
  <2>2. timer /\ ~timer' /\ lostTimers' = 0 /\ Left = {}
    BY <1>3, <2>1 DEF OneLeft
  <2>3. InState({"connecting", "open"}) = {} /\ InState({"closing"}) = {} /\ InState({"open"}) = {}
    BY <2>2 DEF Left, InState
  <2>4. ~connected /\ shouldReconnect
    BY <1>t, <2>1, <2>2, <2>3, SocketTypes DEF SocketClientInv, LiveIsKnown
  <2>5. OneLeft'
    BY <1>2, <2>2 DEF OneLeft
  <2>6. LiveIsKnown'
    BY <1>1, <1>2, <1>3, <1>t, <2>2, <2>3, <2>4, SocketTypes DEF LiveIsKnown
  <2> QED
    BY <2>5, <2>6
<1> QED
    BY <1>4, <1>6, <1>7, <1>8 DEF SocketClientInv

LEMMA OpensStep == \A s \in WebSocketId : SocketClientInv /\ Opens(s) => SocketClientInv'
<1> SUFFICES ASSUME SocketClientInv, NEW s \in WebSocketId, Opens(s) PROVE SocketClientInv'
    OBVIOUS
<1>t. SocketClientTypeOK
    BY DEF SocketClientInv
<1>1. /\ webSockets[s] = "connecting" /\ webSockets' = [webSockets EXCEPT ![s] = "open"]
      /\ connected' = TRUE /\ reconnectAttempts' = 0 /\ ws' = ws
      /\ shouldReconnect' = shouldReconnect /\ timer' = timer /\ lostTimers' = lostTimers
      /\ hasty' = hasty
    BY DEF Opens, InState
<1>2. /\ webSockets' \in [WebSocketId -> {"connecting", "open", "closing", "closed"}]
      /\ Left' = Left
      /\ InState({"connecting", "open"})' = InState({"connecting", "open"})
      /\ InState({"open"})' = InState({"open"}) \cup {s}
      /\ InState({"closing"})' = InState({"closing"})
      /\ s \in Left /\ s \in InState({"connecting", "open"})
  <2>1. s \in Left /\ s \in InState({"connecting", "open"}) /\ s \notin InState({"closing"})
    BY <1>t, <1>1, StateIsIn
  <2>2. /\ webSockets' \in [WebSocketId -> {"connecting", "open", "closing", "closed"}]
        /\ Left' = Left \cup {s}
        /\ InState({"connecting", "open"})' = InState({"connecting", "open"}) \cup {s}
        /\ InState({"open"})' = InState({"open"}) \cup {s}
        /\ InState({"closing"})' = InState({"closing"}) \ {s}
    BY <1>t, <1>1, SocketTypes, SocketMoves
  <2> QED
    BY <2>1, <2>2
<1>3. SocketClientTypeOK'
    BY <1>t, <1>1, <1>2, SocketClientAssumption DEF SocketClientTypeOK
<1>4. WithinBound'
    BY <1>1, <1>2 DEF WithinBound, SocketClientInv, Timers
<1>5. ASSUME ~hasty' PROVE OneLeft' /\ LiveIsKnown'
  <2>1. OneLeft /\ LiveIsKnown
    BY <1>1, <1>5 DEF SocketClientInv
  <2>2. OneLeft'
    BY <1>1, <1>2, <2>1 DEF OneLeft
  <2>3. s = ws /\ shouldReconnect
    BY <1>2, <2>1 DEF LiveIsKnown
  <2>4. LiveIsKnown'
    BY <1>1, <1>2, <1>t, <2>1, <2>3, SocketTypes, SocketClientAssumption DEF LiveIsKnown
  <2> QED
    BY <2>2, <2>4
<1> QED
    BY <1>1, <1>2, <1>3, <1>4, <1>5 DEF SocketClientInv

LEMMA ClosesStep == \A s \in WebSocketId : SocketClientInv /\ Closes(s) => SocketClientInv'
<1> SUFFICES ASSUME SocketClientInv, NEW s \in WebSocketId, Closes(s) PROVE SocketClientInv'
    OBVIOUS
<1>t. SocketClientTypeOK
    BY DEF SocketClientInv
<1>1. /\ s \in Left /\ webSockets' = [webSockets EXCEPT ![s] = "closed"]
      /\ connected' = FALSE /\ ws' = ws /\ shouldReconnect' = shouldReconnect /\ hasty' = hasty
      /\ IF shouldReconnect /\ reconnectAttempts < MaxReconnectAttempts
         THEN /\ reconnectAttempts' = reconnectAttempts + 1
              /\ timer' = TRUE /\ lostTimers' = Timers
         ELSE /\ reconnectAttempts' = reconnectAttempts
              /\ timer' = timer /\ lostTimers' = lostTimers
    BY DEF Closes, Reconnects
<1>2. /\ webSockets' \in [WebSocketId -> {"connecting", "open", "closing", "closed"}]
      /\ Left' = Left \ {s}
      /\ InState({"connecting", "open"})' = InState({"connecting", "open"}) \ {s}
      /\ InState({"open"})' = InState({"open"}) \ {s}
      /\ InState({"closing"})' = InState({"closing"}) \ {s}
    BY <1>t, <1>1, SocketTypes, SocketMoves
<1>3. Cardinality(Left') = Cardinality(Left) - 1 /\ Timers' <= Timers + 1 /\ Timers' \in Nat
  <2>1. Cardinality(Left') = Cardinality(Left) - 1
    BY <1>1, <1>2, OneLessLeft
  <2>2. lostTimers \in Nat /\ timer \in BOOLEAN /\ shouldReconnect \in BOOLEAN /\ Timers \in Nat
    BY <1>t, SocketTypes
  <2>3. CASE shouldReconnect /\ reconnectAttempts < MaxReconnectAttempts
    <3>1. Timers' = Timers + 1
      BY <1>1, <2>3 DEF Timers
    <3> QED
      BY <2>1, <2>2, <3>1
  <2>4. CASE ~(shouldReconnect /\ reconnectAttempts < MaxReconnectAttempts)
    <3>1. Timers' = Timers
      BY <1>1, <2>4 DEF Timers
    <3> QED
      BY <2>1, <2>2, <3>1
  <2> QED
    BY <2>3, <2>4
<1>4. WithinBound'
  <2>1. Cardinality(Left) \in Nat /\ Timers \in Nat /\ Cardinality(WebSocketId) \in Nat
    BY <1>t, SocketTypes
  <2>2. Cardinality(Left) + Timers <= Cardinality(WebSocketId)
    BY DEF WithinBound, SocketClientInv
  <2> QED
    BY <1>3, <2>1, <2>2 DEF WithinBound
<1>5. lostTimers' \in 0..Cardinality(WebSocketId)
  <2>1. Cardinality(Left') \in Nat
    BY <1>2, <1>t, SocketTypes, PartCount
  <2>2. Timers <= Cardinality(WebSocketId)
    BY <1>t, <1>3, <2>1, SocketTypes DEF WithinBound, SocketClientInv
  <2> QED
    BY <1>1, <1>t, <2>2, SocketTypes DEF SocketClientTypeOK
<1>6. SocketClientTypeOK'
  <2>1. reconnectAttempts \in 0..MaxReconnectAttempts /\ MaxReconnectAttempts \in Nat
        /\ timer \in BOOLEAN
    BY <1>t, SocketClientAssumption DEF SocketClientTypeOK
  <2>2. timer' \in BOOLEAN
    BY <1>1, <2>1, Zenon
  <2>3. \/ shouldReconnect /\ reconnectAttempts < MaxReconnectAttempts
           /\ reconnectAttempts' = reconnectAttempts + 1
        \/ reconnectAttempts' = reconnectAttempts
    BY <1>1, Zenon
  <2>4. reconnectAttempts' \in 0..MaxReconnectAttempts
    BY <2>1, <2>3
  <2> QED
    BY <1>t, <1>1, <1>2, <1>5, <2>2, <2>4 DEF SocketClientTypeOK
<1>7. ASSUME ~hasty' PROVE OneLeft' /\ LiveIsKnown'
  <2>1. OneLeft /\ LiveIsKnown
    BY <1>1, <1>7 DEF SocketClientInv
  <2>2. lostTimers = 0 /\ ~timer /\ Left' = {} /\ Timers = 0
    BY <1>1, <1>2, <2>1 DEF OneLeft, Timers
  <2>3. OneLeft'
    BY <1>1, <2>2 DEF OneLeft
  <2>4. InState({"connecting", "open"})' = {} /\ InState({"closing"})' = {}
    BY <2>2 DEF Left, InState
  <2>5. ws # NoRow => webSockets'[ws] # "open"
    BY <1>t, <2>2, SocketTypes DEF Left, InState
  <2>6. shouldReconnect /\ ~timer' => reconnectAttempts' = MaxReconnectAttempts
    BY <1>1, <1>t, SocketTypes, SocketClientAssumption
  <2>7. ~shouldReconnect => ~timer' /\ ws = NoRow
    BY <1>1, <2>1 DEF LiveIsKnown
  <2>8. LiveIsKnown'
    BY <1>1, <2>4, <2>5, <2>6, <2>7 DEF LiveIsKnown
  <2> QED
    BY <2>3, <2>8
<1> QED
    BY <1>1, <1>4, <1>6, <1>7 DEF SocketClientInv

LEMMA ClosesAndConnectsStep ==
    \A s \in WebSocketId : SocketClientInv /\ ClosesAndConnects(s) => SocketClientInv'
<1> SUFFICES ASSUME SocketClientInv, NEW s \in WebSocketId, ClosesAndConnects(s) PROVE SocketClientInv'
    OBVIOUS
<1>t. SocketClientTypeOK /\ MaxReconnectAttempts \in Nat \ {0}
    BY SocketClientAssumption DEF SocketClientInv
<1>1. /\ webSockets' = [webSockets EXCEPT ![s] = "connecting"] /\ ws' = s
      /\ connected' = FALSE /\ shouldReconnect' = TRUE /\ reconnectAttempts' = 1
      /\ timer' = TRUE /\ lostTimers' = Timers /\ hasty' = TRUE
      /\ s \in Left /\ Cardinality(Left) + Timers < Cardinality(WebSocketId)
    BY DEF ClosesAndConnects, MayConnect
<1>2. Left' = Left
    BY <1>t, <1>1, SocketTypes DEF Left, InState
<1>3. Timers' = Timers + 1 /\ Timers \in Nat
    BY <1>t, <1>1, SocketTypes DEF Timers
<1>4. Timers \in 0..Cardinality(WebSocketId)
    BY <1>t, <1>1, SocketTypes
<1>5. WithinBound'
    BY <1>t, <1>1, <1>2, <1>3, SocketTypes DEF WithinBound
<1>6. webSockets' \in [WebSocketId -> {"connecting", "open", "closing", "closed"}]
    BY <1>t, <1>1, SocketTypes
<1>7. 1 \in 0..MaxReconnectAttempts
    BY <1>t
<1>8. SocketClientTypeOK'
    BY <1>1, <1>4, <1>6, <1>7 DEF SocketClientTypeOK, Left, InState
<1> QED
    BY <1>1, <1>5, <1>8 DEF SocketClientInv

LEMMA SocketClientInvStep == SocketClientInv /\ SocketClientNext => SocketClientInv'
BY ConnectsStep, DisconnectsStep, TimerFiresStep, OpensStep, ClosesStep, ClosesAndConnectsStep
DEF SocketClientNext

LEMMA SocketClientInvStutter ==
    SocketClientInv /\ UNCHANGED socketClientTables => SocketClientInv'
<1> SUFFICES ASSUME SocketClientInv, UNCHANGED socketClientTables PROVE SocketClientInv'
    OBVIOUS
<1>1. /\ webSockets' = webSockets /\ ws' = ws /\ connected' = connected
      /\ shouldReconnect' = shouldReconnect /\ reconnectAttempts' = reconnectAttempts
      /\ timer' = timer /\ lostTimers' = lostTimers /\ hasty' = hasty
    BY DEF socketClientTables
<1> QED
    BY <1>1 DEF SocketClientInv, SocketClientTypeOK, WithinBound, OneLeft, LiveIsKnown, Timers,
       Left, InState

(* What the invariant says of the client. *)
LEMMA DisconnectedFollows == SocketClientInv => DisconnectedStays
<1> SUFFICES ASSUME SocketClientInv PROVE DisconnectedStays
    OBVIOUS
<1> DEFINE live == InState({"connecting", "open"})
<1>t. SocketClientTypeOK
    BY DEF SocketClientInv
<1>1. ASSUME ~hasty
      PROVE  /\ Cardinality(live) + Timers <= 1
             /\ ~shouldReconnect => live = {} /\ Timers = 0
             /\ shouldReconnect /\ ws # NoRow /\ live = {} /\ Timers = 0 =>
                  reconnectAttempts = MaxReconnectAttempts
             /\ connected <=> ws # NoRow /\ webSockets[ws] = "open"
  <2>1. OneLeft /\ LiveIsKnown
    BY <1>1 DEF SocketClientInv
  <2>2. live \subseteq Left /\ Left = live \cup InState({"closing"})
    BY DEF Left, InState
  <2>3. Cardinality(live) + Timers <= 1
    <3>1. CASE live = {}
      <4>1. Cardinality(live) = 0
        BY <3>1, FS_EmptySet
      <4>2. Timers <= 1
        BY <2>1, <1>t, SocketTypes DEF OneLeft, Timers
      <4> QED
        BY <4>1, <4>2, <1>t, SocketTypes
    <3>2. ASSUME NEW s \in live PROVE Cardinality(live) + Timers <= 1
      <4>1. live = {s} /\ ~timer /\ lostTimers = 0
        BY <2>1, <2>2, <3>2 DEF OneLeft
      <4>2. Cardinality(live) = 1
        BY <4>1, FS_Singleton
      <4> QED
        BY <4>1, <4>2 DEF Timers
    <3> QED
        BY <3>1, <3>2
  <2>4. ~shouldReconnect => live = {} /\ Timers = 0
    BY <2>1 DEF OneLeft, LiveIsKnown, Timers
  <2>5. shouldReconnect /\ ws # NoRow /\ live = {} /\ Timers = 0 =>
          reconnectAttempts = MaxReconnectAttempts
    BY <1>t, <2>1, <2>2, SocketTypes DEF OneLeft, LiveIsKnown, Timers
  <2> QED
    BY <2>1, <2>3, <2>4, <2>5 DEF LiveIsKnown
<1> QED
    BY <1>1 DEF DisconnectedStays, SocketClientInv

THEOREM SocketClientTypeCorrect == SocketClientSpec => []SocketClientTypeOK
<1>1. SocketClientInit => SocketClientInv
    BY SocketClientInitially DEF SocketClientInit
<1>2. SocketClientInv /\ [SocketClientNext]_socketClientVars => SocketClientInv'
    BY SocketClientInvStep, SocketClientInvStutter DEF socketClientVars, socketClientTables
<1>3. SocketClientInv => SocketClientTypeOK
    BY DEF SocketClientInv
<1> QED
    BY <1>1, <1>2, <1>3, PTL DEF SocketClientSpec

THEOREM ClientStaysDisconnected == SocketClientSpec => []DisconnectedStays
<1>1. SocketClientInit => SocketClientInv
    BY SocketClientInitially DEF SocketClientInit
<1>2. SocketClientInv /\ [SocketClientNext]_socketClientVars => SocketClientInv'
    BY SocketClientInvStep, SocketClientInvStutter DEF socketClientVars, socketClientTables
<1> QED
    BY <1>1, <1>2, DisconnectedFollows, PTL DEF SocketClientSpec

-----------------------------------------------------------------------------
(***************************************************************************)
(* RateLimit.  As long as requests read different times, of those that     *)
(* Redis let through each is in its set, or Redis was told of a time that  *)
(* is a window later (SetIsKept): a refused request takes only itself out, *)
(* and the set outlives what it is told of by a window.  Whatever is in    *)
(* the set passed, is a stray or is about to be refused (CountedIsKnown).  *)
(***************************************************************************)
SetIsKept ==
    /\ expires <= instant + WindowLength + 1
    /\ newest <= instant
    /\ \A i \in inRedis : i + WindowLength < expires
    /\ \A i \in passed \cup inRedis : i <= newest
    /\ apart => \A i \in passed : i \in inRedis \/ newest >= i + WindowLength

CountedIsKnown == \A i \in inRedis :
    i \in passed \cup strays \/ \E w \in Worker : Open(w, "refused") /\ txn[w].at = i

CameFirst ==
    /\ \A i \in came : i <= instant
    /\ passed \subseteq came
    /\ \A w \in Worker : txn[w] # Idle => txn[w].at \in came
    /\ apart => /\ \A w \in Worker : txn[w] # Idle => txn[w].at \notin passed
                /\ \A v, w \in Worker :
                     txn[v] # Idle /\ txn[w] # Idle /\ txn[v].at = txn[w].at => v = w

(* Alone, a request reads a time that Redis was told of none after. *)
AskedLast == ~overlap =>
    \A w \in Worker : Open(w, "asking") => \A i \in inRedis : i <= txn[w].at

RefusedFairly(at) ==
    \/ Cardinality(passed \cap Recent(at)) >= MaxRequests
    \/ strays \cap Recent(at) # {}

RateLimitInv ==
    /\ RateLimitTypeOK
    /\ OneOpen
    /\ RequestsAreCounted
    /\ SetIsKept
    /\ CountedIsKnown
    /\ CameFirst
    /\ AskedLast

RateLimitTxn == {Idle} \cup [op: {"asking", "refused"}, at: Instant]

LEMMA RateLimitTypes ==
    ASSUME RateLimitTypeOK
    PROVE  /\ txn \in [Worker -> RateLimitTxn] /\ Idle \in RateLimitTxn
           /\ \A w \in Worker : txn[w].op \in {"asking", "refused"} =>
                txn[w] # Idle /\ txn[w].at \in Instant
           /\ \A w \in Worker : txn[w] # Idle => txn[w].op \in {"asking", "refused"}
           /\ instant \in Instant /\ Instant \subseteq Int /\ IsFiniteSet(Instant)
           /\ passed \subseteq Instant /\ inRedis \subseteq Instant /\ strays \subseteq Instant
           /\ late \subseteq Instant /\ came \subseteq Instant /\ newest \in Int /\ expires \in Int
           /\ inMemory \subseteq Instant \X (1..MaxRequests) /\ IsFiniteSet(inMemory)
           /\ MaxRequests \in Nat /\ WindowLength \in Int /\ WindowLength > 0 /\ LastInstant \in Int
<1>1. MaxRequests \in Nat /\ WindowLength \in Int /\ WindowLength > 0 /\ LastInstant \in Int
    BY RateLimitAssumption
<1>2. IsFiniteSet(Instant) /\ IsFiniteSet(1..MaxRequests)
    BY <1>1, FS_Interval DEF Instant
<1>3. IsFiniteSet(Instant \X (1..MaxRequests))
    BY <1>2, FS_Product
<1>4. IsFiniteSet(inMemory)
  <2>1. inMemory \subseteq Instant \X (1..MaxRequests)
    BY DEF RateLimitTypeOK
  <2> QED
    BY <1>3, <2>1, FS_Subset
<1>5. Instant \subseteq Int
    BY <1>1 DEF Instant
<1>6. newest \in Int /\ expires \in Int
    BY <1>1 DEF RateLimitTypeOK
<1> QED
    BY <1>1, <1>2, <1>4, <1>5, <1>6, IdleOp DEF RateLimitTypeOK, RateLimitTxn

LEMMA RateLimitInitially == RateLimitTablesInit /\ SessionsInit => RateLimitInv
<1> SUFFICES ASSUME RateLimitTablesInit, SessionsInit PROVE RateLimitInv
    OBVIOUS
<1> USE DEF RateLimitTablesInit, SessionsInit
<1>1. RateLimitTypeOK
  <2>1. instant \in Instant /\ newest \in 0..LastInstant
    BY RateLimitAssumption DEF Instant
  <2>2. expires \in 1..(LastInstant + WindowLength + 1)
    BY RateLimitAssumption
  <2> QED
    BY <2>1, <2>2 DEF RateLimitTypeOK
<1>2. \A w \in Worker : txn[w] = Idle /\ ~Open(w, "refused") /\ ~Open(w, "asking")
    BY IdleOp DEF Open
<1>3. WithinMemory = 0
  <2>1. FreshInMemory = {}
    BY DEF FreshInMemory
  <2> QED
    BY <2>1, FS_EmptySet DEF WithinMemory
<1>4. RequestsAreCounted
  <2>1. \A i \in Instant : (passed \ late) \cap Recent(i) = {}
    OBVIOUS
  <2>2. \A i \in Instant : Cardinality((passed \ late) \cap Recent(i)) <= MaxRequests
    BY <2>1, FS_EmptySet, RateLimitAssumption
  <2> QED
    BY <1>2, <1>3, <2>2, RateLimitAssumption DEF RequestsAreCounted
<1>5. CountedIsKnown /\ CameFirst /\ AskedLast
    BY <1>2 DEF CountedIsKnown, CameFirst, AskedLast
<1>6. SetIsKept
    BY RateLimitAssumption DEF SetIsKept
<1> QED
    BY <1>1, <1>4, <1>5, <1>6, NoneOpen DEF RateLimitInv

-----------------------------------------------------------------------------
(* What is counted in memory stays within the limit. *)
LEMMA MemoryIsBounded ==
    ASSUME RateLimitInv, instant' = instant, CheckedInMemory \/ inMemory' = inMemory
    PROVE  /\ inMemory' \subseteq Instant \X (1..MaxRequests)
           /\ WithinMemory' <= MaxRequests
<1>1. /\ RateLimitTypeOK /\ WithinMemory <= MaxRequests
      /\ IsFiniteSet(FreshInMemory) /\ Cardinality(FreshInMemory) \in Nat
      /\ FreshInMemory \subseteq inMemory
  <2>1. FreshInMemory \subseteq inMemory
    BY DEF FreshInMemory
  <2> QED
    BY <2>1, RateLimitTypes, FS_Subset, FS_CardinalityType DEF RateLimitInv, RequestsAreCounted
<1>2. PICK max, before \in Nat : max = MaxRequests /\ before = WithinMemory
    BY <1>1, RateLimitAssumption DEF WithinMemory
<1>3. inMemory \subseteq Instant \X (1..MaxRequests) /\ instant \in Instant
    BY <1>1, RateLimitTypes
<1>4. CASE FreshInMemory' \subseteq FreshInMemory /\ inMemory' \subseteq inMemory
  <2>1. WithinMemory' <= WithinMemory /\ WithinMemory' \in Nat
    BY <1>1, <1>4, PartCount DEF WithinMemory
  <2>2. PICK n \in Nat : n = WithinMemory'
    BY <2>1
  <2>3. n <= before /\ before <= max
    BY <1>1, <1>2, <2>1, <2>2
  <2>4. n <= max
    BY <2>3
  <2> QED
    BY <1>2, <1>3, <1>4, <2>2, <2>4
<1>5. CASE inMemory' = FreshInMemory \cup {<<instant, before + 1>>} /\ ~(before >= max)
  <2>1. PICK n \in 1..MaxRequests : n = before + 1
    BY <1>2, <1>5
  <2>2. <<instant, n>> \in Instant \X (1..MaxRequests)
    BY <1>3, <2>1
  <2>3. inMemory' \subseteq Instant \X (1..MaxRequests)
    BY <1>1, <1>3, <1>5, <2>1, <2>2
  <2>4. FreshInMemory' \subseteq FreshInMemory \cup {<<instant, n>>}
    BY <1>5, <2>1 DEF FreshInMemory
  <2>5. WithinMemory' <= Cardinality(FreshInMemory) + 1 /\ WithinMemory' \in Nat
    BY <1>1, <2>4, OneMoreCount DEF WithinMemory
  <2>6. PICK k \in Nat : k = WithinMemory'
    BY <2>5
  <2>7. k <= before + 1
    BY <1>2, <2>5, <2>6 DEF WithinMemory
  <2>8. k <= max
    BY <1>5, <2>7
  <2> QED
    BY <1>2, <2>3, <2>6, <2>8
<1>6. CASE inMemory' = inMemory \/ inMemory' = FreshInMemory
  <2>1. FreshInMemory' \subseteq FreshInMemory
    BY <1>6 DEF FreshInMemory
  <2> QED
    BY <1>1, <1>4, <1>6, <2>1
<1>7. CheckedInMemory => \/ inMemory' = FreshInMemory
                         \/ inMemory' = FreshInMemory \cup {<<instant, before + 1>>} /\ ~(before >= max)
    BY <1>2 DEF CheckedInMemory
<1> QED
    BY <1>5, <1>6, <1>7

(* A window that ends later holds no more of what came by now. *)
LEMMA WindowsShrink ==
    ASSUME NEW S \in SUBSET Instant, NEW at \in Instant, NEW i \in Instant, i >= at,
           \A j \in S : j <= at, WindowLength \in Int, LastInstant \in Int
    PROVE  S \cap Recent(i) \subseteq S \cap Recent(at)
BY DEF Recent, Instant

(* Sessions end or go on, and no request comes. *)
LEMMA CameStays ==
    ASSUME CameFirst, came' = came, apart' = apart, instant' = instant, passed' \subseteq came,
           \A v \in Worker : txn'[v] = Idle \/ (txn[v] # Idle /\ txn'[v].at = txn[v].at),
           apart => \A v \in Worker : txn'[v] # Idle => txn'[v].at \notin passed'
    PROVE  CameFirst'
BY DEF CameFirst

(* The invariant's claims, from their parts. *)
LEMMA RequestsCounted ==
    ASSUME WithinMemory <= MaxRequests,
           apart => \A i \in Instant : Cardinality((passed \ late) \cap Recent(i)) <= MaxRequests,
           apart /\ ~overlap => \A w \in Worker : Open(w, "refused") => RefusedFairly(txn[w].at)
    PROVE  RequestsAreCounted
BY DEF RequestsAreCounted, RefusedFairly

LEMMA FairSoFar ==
    ASSUME RateLimitInv, apart, ~overlap, NEW w \in Worker, Open(w, "refused")
    PROVE  RefusedFairly(txn[w].at)
BY DEF RateLimitInv, RequestsAreCounted, RefusedFairly

(* With no more let through, no window holds more. *)
LEMMA NoMorePass ==
    ASSUME RateLimitInv, apart, passed' \subseteq passed \cup late', late \subseteq late'
    PROVE  \A i \in Instant : Cardinality((passed' \ late') \cap Recent(i)) <= MaxRequests
<1> SUFFICES ASSUME NEW i \in Instant
             PROVE  Cardinality((passed' \ late') \cap Recent(i)) <= MaxRequests
    OBVIOUS
<1>1. Cardinality((passed \ late) \cap Recent(i)) <= MaxRequests
    BY DEF RateLimitInv, RequestsAreCounted
<1>2. (passed' \ late') \cap Recent(i) \subseteq (passed \ late) \cap Recent(i)
    OBVIOUS
<1>3. IsFiniteSet((passed \ late) \cap Recent(i))
    BY RateLimitTypes, FS_Subset DEF RateLimitInv
<1> QED
    BY <1>1, <1>2, <1>3, PartCount, RateLimitAssumption

-----------------------------------------------------------------------------
(* Redis has run a request's pipeline. *)
LEMMA PipelineKeeps ==
    ASSUME RateLimitInv, NEW w \in Worker, Open(w, "asking"), NEW at, at = txn[w].at,
           PipelineRuns(at), instant' = instant, apart' = apart, passed' \subseteq passed \cup {at}
    PROVE  /\ at \in Instant /\ at \in came /\ at <= instant /\ (apart => at \notin passed)
           /\ inRedis' \subseteq Instant /\ late' \subseteq Instant
           /\ expires' \in 1..(LastInstant + WindowLength + 1) /\ newest' \in 0..LastInstant
           /\ late \subseteq late' /\ inRedis' = Piped(at) /\ at \in inRedis'
           /\ \A i \in inRedis' : i = at \/ i \in inRedis
           /\ SetIsKept'
<1>1. /\ RateLimitTypeOK /\ SetIsKept /\ at \in Instant /\ txn[w] # Idle
      /\ instant \in Instant /\ Instant \subseteq Int /\ newest \in Int /\ expires \in Int
      /\ inRedis \subseteq Instant /\ passed \subseteq Instant
      /\ WindowLength \in Int /\ WindowLength > 0 /\ LastInstant \in Int
    BY RateLimitTypes DEF RateLimitInv, Open
<1>2. at \in came /\ at <= instant /\ (apart => at \notin passed)
    BY <1>1 DEF RateLimitInv, CameFirst
<1>3. /\ inRedis' = {i \in inRedis : i > at - WindowLength} \cup {at}
      /\ expires' = instant + WindowLength + 1
      /\ newest' = IF at > newest THEN at ELSE newest
      /\ late' = IF at < newest THEN late \cup {at} ELSE late
    BY DEF PipelineRuns, Piped
<1>4. inRedis' \subseteq Instant /\ late' \subseteq Instant /\ late \subseteq late'
    BY <1>1, <1>3 DEF RateLimitTypeOK
<1>5. expires' \in 1..(LastInstant + WindowLength + 1) /\ newest' \in 0..LastInstant
    BY <1>1, <1>3 DEF RateLimitTypeOK, Instant
<1>6. newest' >= at /\ newest' >= newest /\ newest' <= instant
    BY <1>1, <1>2, <1>3 DEF SetIsKept
<1>7. \A i \in inRedis' : i + WindowLength < expires'
    BY <1>1, <1>2, <1>3 DEF SetIsKept
<1>8. \A i \in passed' \cup inRedis' : i <= newest'
    BY <1>1, <1>3, <1>6 DEF SetIsKept
<1>9. ASSUME apart, NEW i \in passed'
      PROVE  i \in inRedis' \/ newest' >= i + WindowLength
  <2>1. CASE i = at
    BY <1>3, <2>1
  <2>2. CASE i \in passed /\ i \notin inRedis
    <3>1. newest >= i + WindowLength /\ i \in Int
      BY <1>1, <1>9, <2>2 DEF SetIsKept
    <3> QED
      BY <1>1, <1>3, <1>6, <3>1
  <2>3. CASE i \in passed /\ i \in inRedis
    BY <1>1, <1>3, <1>6, <2>3
  <2> QED
    BY <1>9, <2>1, <2>2, <2>3
<1>10. SetIsKept'
    BY <1>1, <1>3, <1>6, <1>7, <1>8, <1>9 DEF SetIsKept
<1> QED
    BY <1>1, <1>2, <1>3, <1>4, <1>5, <1>10 DEF Piped

(* A request let through: none of its window is missing from the set, unless it is
   late. *)
LEMMA LetThrough ==
    ASSUME RateLimitInv, NEW w \in Worker, Open(w, "asking"), NEW at, at = txn[w].at,
           PipelineRuns(at), instant' = instant, apart' = apart, apart,
           ~OverLimit(Piped(at)), passed' = passed \cup {at}
    PROVE  \A i \in Instant : Cardinality((passed' \ late') \cap Recent(i)) <= MaxRequests
<1>1. /\ RateLimitTypeOK /\ SetIsKept /\ at \in Instant
      /\ instant \in Instant /\ Instant \subseteq Int /\ newest \in Int
      /\ inRedis \subseteq Instant /\ passed \subseteq Instant /\ IsFiniteSet(Instant)
      /\ WindowLength \in Int /\ WindowLength > 0 /\ LastInstant \in Int
    BY RateLimitTypes DEF RateLimitInv, Open
<1>2. /\ inRedis' = Piped(at) /\ Piped(at) \subseteq Instant
      /\ late' = IF at < newest THEN late \cup {at} ELSE late
    BY <1>1 DEF PipelineRuns, Piped
<1>3. CASE at < newest
  <2>1. passed' \subseteq passed \cup late' /\ late \subseteq late'
    BY <1>2, <1>3
  <2> QED
    BY <2>1, NoMorePass
<1>4. CASE ~(at < newest)
  <2>1. late' = late /\ \A j \in passed' : j <= at
    BY <1>1, <1>2, <1>4 DEF SetIsKept
  <2>2. passed' \cap Recent(at) \subseteq Piped(at)
    <3>1. ASSUME NEW j \in passed, j \in Recent(at)
          PROVE  j \in Piped(at)
      <4>1. j > at - WindowLength /\ j \in Int /\ at \in Int
        BY <1>1, <3>1 DEF Recent
      <4>2. ~(newest >= j + WindowLength)
        BY <1>1, <1>4, <4>1
      <4>3. j \in inRedis
        BY <1>1, <3>1, <4>2 DEF SetIsKept
      <4> QED
        BY <4>1, <4>3 DEF Piped
    <3> QED
      BY <3>1 DEF Piped
  <2>3. IsFiniteSet(Piped(at)) /\ Cardinality(Piped(at)) \in Nat
    BY <1>1, <1>2, FS_Subset, FS_CardinalityType
  <2>4. Cardinality(Piped(at)) <= MaxRequests
    BY <2>3, RateLimitAssumption DEF OverLimit
  <2>5. passed' \in SUBSET Instant
    BY <1>1
  <2>6. ASSUME NEW i \in Instant
        PROVE  Cardinality((passed' \ late') \cap Recent(i)) <= MaxRequests
    <3>1. CASE i >= at
      <4>1. passed' \cap Recent(i) \subseteq passed' \cap Recent(at)
        BY <1>1, <2>1, <2>5, <3>1, WindowsShrink
      <4>2. (passed' \ late') \cap Recent(i) \subseteq Piped(at)
        BY <2>2, <4>1
      <4>3. /\ Cardinality((passed' \ late') \cap Recent(i)) \in Nat
            /\ Cardinality((passed' \ late') \cap Recent(i)) <= Cardinality(Piped(at))
        BY <2>3, <4>2, PartCount
      <4> QED
        BY <2>3, <2>4, <4>3, RateLimitAssumption
    <3>2. CASE ~(i >= at)
      <4>1. at \notin Recent(i)
        BY <1>1, <3>2 DEF Recent
      <4>2. (passed' \ late') \cap Recent(i) = (passed \ late) \cap Recent(i)
        BY <2>1, <4>1
      <4> QED
        BY <4>2 DEF RateLimitInv, RequestsAreCounted
    <3> QED
      BY <3>1, <3>2
  <2> QED
    BY <2>6
<1> QED
    BY <1>3, <1>4

(* Where no other session is open, what is in the window passed or is a stray. *)
LEMMA RefusalIsFair ==
    ASSUME RateLimitInv, NEW w \in Worker, Open(w, "asking"), NEW at, at = txn[w].at,
           OverLimit(Piped(at)), ~overlap
    PROVE  RefusedFairly(at)
<1> DEFINE window == {i \in inRedis : i > at - WindowLength}
<1>1. /\ RateLimitTypeOK /\ at \in Instant /\ txn[w] # Idle
      /\ Instant \subseteq Int /\ inRedis \subseteq Instant /\ IsFiniteSet(Instant)
      /\ WindowLength \in Int
    BY RateLimitTypes DEF RateLimitInv, Open
<1>2. \A v \in Worker : ~Open(v, "refused")
    BY <1>1, IdleOp DEF RateLimitInv, OneOpen, Open
<1>3. window \subseteq passed \cup strays
    BY <1>2 DEF RateLimitInv, CountedIsKnown
<1>4. \A i \in window : i <= at
    BY DEF RateLimitInv, AskedLast
<1>5. window \subseteq Recent(at)
    BY <1>1, <1>4 DEF Recent
<1>6. IsFiniteSet(window) /\ Cardinality(window) \in Nat
  <2>1. window \subseteq Instant
    BY <1>1
  <2> QED
    BY <1>1, <2>1, FS_Subset, FS_CardinalityType
<1>7. Piped(at) = window \cup {at}
    BY DEF Piped
<1> HIDE DEF window
<1>8. Cardinality(Piped(at)) <= Cardinality(window) + 1 /\ Cardinality(Piped(at)) \in Nat
    BY <1>6, <1>7, OneMoreCount
<1>9. Cardinality(window) >= MaxRequests
    BY <1>6, <1>8, RateLimitAssumption DEF OverLimit
<1>10. CASE strays \cap Recent(at) = {}
  <2>1. window \subseteq passed \cap Recent(at)
    BY <1>3, <1>5, <1>10
  <2>2. IsFiniteSet(passed \cap Recent(at))
    BY <1>1, RateLimitTypes, FS_Subset
  <2>3. /\ Cardinality(window) <= Cardinality(passed \cap Recent(at))
        /\ Cardinality(passed \cap Recent(at)) \in Nat
    BY <2>1, <2>2, PartCount
  <2> QED
    BY <1>6, <1>9, <2>3, RateLimitAssumption DEF RefusedFairly
<1> QED
    BY <1>10 DEF RefusedFairly

-----------------------------------------------------------------------------
LEMMA AsksStep ==
    ASSUME RateLimitInv, NEW w \in Worker, RequestAsks(w)
    PROVE  RateLimitInv'
<1>1. /\ RateLimitTypeOK /\ OneOpen /\ txn \in [Worker -> RateLimitTxn]
      /\ instant \in Instant /\ Instant \subseteq Int /\ came \subseteq Instant
    BY RateLimitTypes DEF RateLimitInv
<1>2. /\ instant' = instant /\ inRedis' = inRedis /\ expires' = expires /\ newest' = newest
      /\ late' = late /\ inMemory' = inMemory /\ passed' = passed /\ strays' = strays
      /\ came' = came \cup {instant} /\ apart' = (apart /\ instant \notin came)
    BY DEF RequestAsks, theSet
<1>3. PICK t \in RateLimitTxn :
        /\ t = [op |-> "asking", at |-> instant] /\ t.op = "asking" /\ t.at = instant
        /\ t # Idle /\ txn[w] = Idle
  <2> DEFINE new == [op |-> "asking", at |-> instant]
  <2>1. new \in RateLimitTxn /\ new.op = "asking" /\ new.at = instant
    BY <1>1 DEF RateLimitTxn
  <2> QED
    BY <2>1, IdleOp DEF RequestAsks
<1>4. Begin(w, t)
    BY <1>3 DEF RequestAsks
<1>5. /\ txn' \in [Worker -> RateLimitTxn] /\ OneOpen' /\ overlap' = overlap
      /\ \A v \in Worker : txn'[v] = IF v = w THEN t ELSE txn[v]
    BY <1>1, <1>4, BeginKeepsOne DEF Begin
<1>6. RateLimitTypeOK'
    BY <1>1, <1>2, <1>5 DEF RateLimitTypeOK, RateLimitTxn
<1>7. \A v \in Worker : (txn'[v].op = "refused" => v # w) /\ (v # w => txn'[v] = txn[v])
    BY <1>3, <1>5
<1>8. RequestsAreCounted'
  <2>1. WithinMemory' <= MaxRequests
    BY <1>2, MemoryIsBounded
  <2>2. apart' => \A i \in Instant : Cardinality((passed' \ late') \cap Recent(i)) <= MaxRequests
    BY <1>2 DEF RateLimitInv, RequestsAreCounted
  <2>3. ASSUME apart', ~overlap', NEW v \in Worker, txn'[v].op = "refused"
        PROVE  \A now : now = txn'[v].at => RefusedFairly(now)'
    <3>1. v # w /\ Open(v, "refused") /\ txn'[v].at = txn[v].at
      BY <1>7, <2>3 DEF Open
    <3>2. RefusedFairly(txn[v].at)
      BY <1>2, <1>5, <2>3, <3>1, FairSoFar
    <3> QED
      BY <1>2, <3>1, <3>2 DEF RefusedFairly, Recent
  <2>4. apart' /\ ~overlap' => \A v \in Worker : Open(v, "refused")' => RefusedFairly(txn[v].at)'
    BY <2>3 DEF Open
  <2> QED
    BY <2>1, <2>2, <2>4, RequestsCounted DEF RequestsAreCounted, RefusedFairly, Recent
<1>9. SetIsKept'
    BY <1>2 DEF RateLimitInv, SetIsKept
<1>10. CountedIsKnown'
  <2>1. ASSUME NEW i \in inRedis'
        PROVE  i \in passed' \cup strays' \/ \E v \in Worker : txn'[v].op = "refused" /\ txn'[v].at = i
    <3>1. i \in passed \cup strays \/ \E v \in Worker : txn[v].op = "refused" /\ txn[v].at = i
      BY <1>2, <2>1 DEF RateLimitInv, CountedIsKnown, Open
    <3>2. \A v \in Worker : txn[v].op = "refused" => v # w
      BY <1>3, IdleOp
    <3> QED
      BY <1>2, <1>7, <3>1, <3>2
  <2> QED
    BY <2>1 DEF CountedIsKnown, Open
<1>11. CameFirst'
  <2>1. CameFirst
    BY DEF RateLimitInv
  <2>2. \A i \in came' : i <= instant'
    BY <1>1, <1>2, <2>1 DEF CameFirst
  <2>3. \A v \in Worker : txn'[v] # Idle => txn'[v].at \in came'
    BY <1>2, <1>3, <1>5, <2>1 DEF CameFirst
  <2>4. ASSUME apart'
        PROVE  /\ \A v \in Worker : txn'[v] # Idle => txn'[v].at \notin passed'
               /\ \A u, v \in Worker :
                    txn'[u] # Idle /\ txn'[v] # Idle /\ txn'[u].at = txn'[v].at => u = v
    <3>1. apart /\ instant \notin came
      BY <1>2, <2>4
    <3> QED
      BY <1>2, <1>3, <1>5, <2>1, <3>1 DEF CameFirst
  <2> QED
    BY <1>2, <2>1, <2>2, <2>3, <2>4 DEF CameFirst
<1>12. AskedLast'
  <2>1. ASSUME ~overlap, NEW v \in Worker, txn'[v].op = "asking", NEW i \in inRedis
        PROVE  i <= txn'[v].at
    <3>1. CASE v = w
      <4>1. i <= newest /\ newest <= instant /\ newest \in Int /\ i \in Int
        BY <1>1, RateLimitTypes DEF RateLimitInv, SetIsKept
      <4>2. i <= instant
        BY <1>1, <4>1
      <4> QED
        BY <1>3, <1>5, <3>1, <4>2
    <3>2. CASE v # w
      BY <1>7, <2>1, <3>2 DEF RateLimitInv, AskedLast, Open
    <3> QED
      BY <3>1, <3>2
  <2> QED
    BY <1>2, <1>5, <2>1 DEF AskedLast, Open
<1> QED
    BY <1>5, <1>6, <1>8, <1>9, <1>10, <1>11, <1>12 DEF RateLimitInv

(* The pipeline of a request has run, and the session goes on with a refusal or ends. *)
LEMMA AnsweredStep ==
    ASSUME RateLimitInv, NEW w \in Worker, Open(w, "asking"), NEW at, at = txn[w].at,
           PipelineRuns(at), instant' = instant, came' = came, apart' = apart,
           CheckedInMemory \/ inMemory' = inMemory,
           \/ /\ OverLimit(Piped(at)) /\ Continue(w, [op |-> "refused", at |-> at])
              /\ passed' = passed /\ strays' = strays
           \/ /\ ~OverLimit(Piped(at)) /\ End(w)
              /\ passed' = passed \cup {at} /\ strays' = strays
           \/ /\ End(w) /\ passed' = passed /\ strays' = strays \cup {at}
    PROVE  RateLimitInv'
<1>1. /\ RateLimitTypeOK /\ OneOpen /\ txn \in [Worker -> RateLimitTxn] /\ Idle \in RateLimitTxn
      /\ txn[w] # Idle /\ CameFirst
    BY RateLimitTypes DEF RateLimitInv, Open
<1>2. passed' \subseteq passed \cup {at} /\ passed \subseteq passed' /\ strays \subseteq strays'
    OBVIOUS
<1>3. /\ at \in Instant /\ at \in came /\ at <= instant /\ (apart => at \notin passed)
      /\ inRedis' \subseteq Instant /\ late' \subseteq Instant
      /\ expires' \in 1..(LastInstant + WindowLength + 1) /\ newest' \in 0..LastInstant
      /\ late \subseteq late' /\ inRedis' = Piped(at) /\ at \in inRedis'
      /\ \A i \in inRedis' : i = at \/ i \in inRedis
      /\ SetIsKept'
    BY <1>2, PipelineKeeps
<1>4. PICK t \in RateLimitTxn : t = [op |-> "refused", at |-> at] /\ t.op = "refused"
                                /\ t.at = at /\ t # Idle
  <2> DEFINE new == [op |-> "refused", at |-> at]
  <2>1. new \in RateLimitTxn /\ new.op = "refused" /\ new.at = at
    BY <1>3 DEF RateLimitTxn
  <2> QED
    BY <2>1, IdleOp
<1>5. /\ overlap' = overlap /\ txn' \in [Worker -> RateLimitTxn] /\ txn'[w] \in {Idle, t}
      /\ \A v \in Worker : v # w => txn'[v] = txn[v]
    BY <1>1, <1>4 DEF Continue, End
<1>6. OneOpen'
    BY <1>1, <1>5 DEF OneOpen
<1>7. inMemory' \subseteq Instant \X (1..MaxRequests) /\ WithinMemory' <= MaxRequests
    BY MemoryIsBounded
<1>8. RateLimitTypeOK'
  <2>1. passed' \subseteq Instant /\ strays' \subseteq Instant
    BY <1>1, <1>3, RateLimitTypes
  <2> QED
    BY <1>1, <1>3, <1>5, <1>7, <2>1 DEF RateLimitTypeOK, RateLimitTxn
<1>9. apart => \A i \in Instant : Cardinality((passed' \ late') \cap Recent(i)) <= MaxRequests
  <2>1. CASE passed' = passed
    BY <1>3, <2>1, NoMorePass
  <2>2. CASE ~OverLimit(Piped(at)) /\ passed' = passed \cup {at}
    BY <2>2, LetThrough
  <2> QED
    BY <2>1, <2>2
<1>10. ASSUME ~overlap, NEW v \in Worker, txn'[v] # Idle
       PROVE  /\ v = w /\ txn'[v] = t /\ OverLimit(Piped(at))
              /\ passed' = passed /\ strays' = strays
  <2>1. v = w
    BY <1>1, <1>5, <1>10 DEF OneOpen
  <2>2. ~End(w)
    BY <1>1, <1>10, <2>1 DEF End
  <2> QED
    BY <1>5, <1>10, <2>1, <2>2
<1>11. RequestsAreCounted'
  <2>1. ASSUME ~overlap, NEW v \in Worker, txn'[v].op = "refused"
        PROVE  \A now : now = txn'[v].at => RefusedFairly(now)'
    <3>1. /\ v = w /\ txn'[v] = t /\ OverLimit(Piped(at)) /\ passed' = passed /\ strays' = strays
      BY <1>10, <2>1, IdleOp
    <3>2. RefusedFairly(at)
      BY <2>1, <3>1, RefusalIsFair
    <3> QED
      BY <1>4, <3>1, <3>2 DEF RefusedFairly, Recent
  <2>2. apart' /\ ~overlap' => \A v \in Worker : Open(v, "refused")' => RefusedFairly(txn[v].at)'
    BY <1>5, <2>1 DEF Open
  <2> QED
    BY <1>7, <1>9, <2>2, RequestsCounted DEF RequestsAreCounted, RefusedFairly, Recent
<1>12. CountedIsKnown'
  <2>1. ASSUME NEW i \in inRedis'
        PROVE  i \in passed' \cup strays' \/ \E v \in Worker : txn'[v].op = "refused" /\ txn'[v].at = i
    <3>1. CASE i = at
      <4>1. CASE at \in passed' \cup strays'
        BY <3>1, <4>1
      <4>2. CASE at \notin passed' \cup strays'
        <5>1. txn'[w] = t
          BY <1>1, <1>4, <4>2 DEF Continue
        <5> QED
          BY <1>4, <3>1, <5>1
      <4> QED
        BY <4>1, <4>2
    <3>2. CASE i # at
      <4>1. i \in passed \cup strays \/ \E v \in Worker : txn[v].op = "refused" /\ txn[v].at = i
        BY <1>3, <2>1, <3>2 DEF RateLimitInv, CountedIsKnown, Open
      <4>2. \A v \in Worker : txn[v].op = "refused" => v # w
        BY DEF Open
      <4> QED
        BY <1>2, <1>5, <4>1, <4>2
    <3> QED
      BY <3>1, <3>2
  <2> QED
    BY <2>1 DEF CountedIsKnown, Open
<1>13. CameFirst'
  <2>1. passed' \subseteq came
    BY <1>1, <1>2, <1>3 DEF CameFirst
  <2>2. \A v \in Worker : txn'[v] = Idle \/ (txn[v] # Idle /\ txn'[v].at = txn[v].at)
    BY <1>1, <1>4, <1>5
  <2>3. ASSUME apart, NEW v \in Worker, txn'[v] # Idle
        PROVE  txn'[v].at \notin passed'
    <3>1. CASE v = w
      <4>1. ~End(w)
        BY <1>1, <2>3, <3>1 DEF End
      <4> QED
        BY <1>3, <2>2, <2>3, <3>1, <4>1
    <3>2. CASE v # w
      <4>1. txn'[v] = txn[v] /\ txn[v].at # at /\ txn[v].at \notin passed
        BY <1>1, <1>5, <2>3, <3>2 DEF CameFirst
      <4> QED
        BY <1>2, <4>1
    <3> QED
      BY <3>1, <3>2
  <2> QED
    BY <1>1, <2>1, <2>2, <2>3, CameStays
<1>14. AskedLast'
  <2>1. ~overlap => \A v \in Worker : txn'[v].op # "asking"
    BY <1>4, <1>10, IdleOp
  <2> QED
    BY <1>5, <2>1 DEF AskedLast, Open
<1> QED
    BY <1>3, <1>6, <1>8, <1>11, <1>12, <1>13, <1>14 DEF RateLimitInv

(* A session ends, and in the set its member at most is gone: of a refusal the request
   is taken out, or left behind as a stray; of a request that Redis was not told of
   nothing is there. *)
LEMMA RequestEnds ==
    ASSUME RateLimitInv, NEW w \in Worker, txn[w] # Idle, End(w),
           instant' = instant, expires' = expires, newest' = newest, late' = late,
           came' = came, apart' = apart, passed' = passed,
           CheckedInMemory \/ inMemory' = inMemory,
           \/ /\ Open(w, "refused") /\ inRedis' = inRedis \ {txn[w].at} /\ strays' = strays
           \/ /\ Open(w, "refused") /\ inRedis' = inRedis /\ strays' = strays \cup {txn[w].at}
           \/ /\ Open(w, "asking") /\ inRedis' = inRedis /\ strays' = strays
    PROVE  RateLimitInv'
<1>1. /\ RateLimitTypeOK /\ OneOpen /\ txn \in [Worker -> RateLimitTxn] /\ Idle \in RateLimitTxn
      /\ txn[w].at \in Instant /\ CameFirst
    BY RateLimitTypes DEF RateLimitInv
<1>2. /\ overlap' = overlap
      /\ txn' \in [Worker -> RateLimitTxn]
      /\ \A v \in Worker : txn'[v] = Idle \/ (txn'[v] = txn[v] /\ overlap)
    BY <1>1, EndLeaves
<1>3. inMemory' \subseteq Instant \X (1..MaxRequests) /\ WithinMemory' <= MaxRequests
    BY MemoryIsBounded
<1>4. RateLimitTypeOK'
    BY <1>1, <1>2, <1>3 DEF RateLimitTypeOK, RateLimitTxn
<1>5. \A v \in Worker : txn'[v] # Idle => overlap
    BY <1>2
<1>6. RequestsAreCounted'
  <2>1. apart' => \A i \in Instant : Cardinality((passed' \ late') \cap Recent(i)) <= MaxRequests
    BY DEF RateLimitInv, RequestsAreCounted
  <2>2. ~overlap' => \A v \in Worker : ~Open(v, "refused")'
    BY <1>2, <1>5, IdleOp DEF Open
  <2> QED
    BY <1>3, <2>1, <2>2, RequestsCounted DEF RequestsAreCounted, RefusedFairly, Recent
<1>7. SetIsKept'
  <2>1. apart => txn[w].at \notin passed
    BY <1>1 DEF CameFirst
  <2>2. inRedis' \subseteq inRedis /\ \A i \in inRedis : i = txn[w].at \/ i \in inRedis'
    OBVIOUS
  <2> QED
    BY <2>1, <2>2 DEF RateLimitInv, SetIsKept
<1>8. CameFirst'
  <2>1. \A v \in Worker : txn'[v] = Idle \/ (txn[v] # Idle /\ txn'[v].at = txn[v].at)
    BY <1>1 DEF End
  <2>2. apart => \A v \in Worker : txn'[v] # Idle => txn'[v].at \notin passed'
    BY <1>1, <2>1 DEF CameFirst
  <2>3. passed' \subseteq came
    BY <1>1 DEF CameFirst
  <2> QED
    BY <1>1, <2>1, <2>2, <2>3, CameStays
<1>9. CountedIsKnown'
  <2>1. ASSUME NEW i \in inRedis'
        PROVE  i \in passed' \cup strays' \/ \E v \in Worker : txn'[v].op = "refused" /\ txn'[v].at = i
    <3>1. i \in passed \cup strays \/ \E v \in Worker : txn[v].op = "refused" /\ txn[v].at = i
      BY <2>1 DEF RateLimitInv, CountedIsKnown, Open
    <3>2. \A v \in Worker : v # w => txn'[v] = txn[v]
      BY <1>1 DEF End
    <3>3. i = txn[w].at => i \in strays' \/ txn[w].op # "refused"
      BY <2>1 DEF Open
    <3> QED
      BY <3>1, <3>2, <3>3
  <2> QED
    BY <2>1 DEF CountedIsKnown, Open
<1>10. AskedLast'
    BY <1>2, <1>5, IdleOp DEF AskedLast, Open
<1>11. OneOpen'
    BY <1>2 DEF OneOpen
<1> QED
    BY <1>4, <1>6, <1>7, <1>8, <1>9, <1>10, <1>11 DEF RateLimitInv

LEMMA RequestInMemoryStep ==
    ASSUME RateLimitInv, CheckedInMemory \/ inMemory' = inMemory,
           UNCHANGED <<instant, theSet, came, apart, passed, strays, txn, overlap>>
    PROVE  RateLimitInv'
<1>1. /\ instant' = instant /\ inRedis' = inRedis /\ expires' = expires /\ newest' = newest
      /\ late' = late /\ came' = came /\ apart' = apart /\ passed' = passed
      /\ strays' = strays /\ txn' = txn /\ overlap' = overlap
    BY DEF theSet
<1>2. inMemory' \subseteq Instant \X (1..MaxRequests) /\ WithinMemory' <= MaxRequests
    BY <1>1, MemoryIsBounded
<1>3. RateLimitTypeOK' /\ OneOpen'
    BY <1>1, <1>2 DEF RateLimitInv, RateLimitTypeOK, OneOpen
<1>4. RequestsAreCounted'
    BY <1>1, <1>2 DEF RateLimitInv, RequestsAreCounted, Open, Recent
<1>5. CountedIsKnown' /\ AskedLast'
    BY <1>1 DEF RateLimitInv, CountedIsKnown, AskedLast, Open
<1>6. CameFirst' /\ SetIsKept'
    BY <1>1 DEF RateLimitInv, CameFirst, SetIsKept
<1> QED
    BY <1>3, <1>4, <1>5, <1>6 DEF RateLimitInv

LEMMA InstantPassesStep ==
    ASSUME RateLimitInv, InstantPasses
    PROVE  RateLimitInv'
<1>1. /\ RateLimitTypeOK /\ OneOpen /\ Instant \subseteq Int /\ instant \in Instant
      /\ inRedis \subseteq Instant /\ passed \subseteq Instant /\ came \subseteq Instant
      /\ newest \in Int /\ expires \in Int /\ WindowLength \in Int /\ WindowLength > 0
    BY RateLimitTypes DEF RateLimitInv
<1>2. /\ instant' = instant + 1 /\ instant < LastInstant
      /\ expires' = expires /\ late' = late /\ inMemory' = inMemory /\ came' = came
      /\ apart' = apart /\ passed' = passed /\ strays' = strays /\ txn' = txn
      /\ overlap' = overlap
    BY DEF InstantPasses, sessions
<1>3. \/ instant' = expires /\ inRedis' = {} /\ newest' = expires
      \/ inRedis' = inRedis /\ newest' = newest
    BY DEF InstantPasses
<1>4. instant \in Int /\ instant' \in Instant /\ instant' \in 0..LastInstant /\ instant < instant'
    BY <1>1, <1>2, RateLimitTypes DEF Instant
<1>5. RateLimitTypeOK'
  <2>1. newest' \in 0..LastInstant /\ inRedis' \subseteq Instant
    BY <1>1, <1>3, <1>4 DEF RateLimitTypeOK
  <2> QED
    BY <1>1, <1>2, <1>4, <2>1 DEF RateLimitTypeOK
<1>6. WithinMemory' <= MaxRequests
  <2>1. \A r \in inMemory : r[1] \in Instant
    BY <1>1, RateLimitTypes
  <2>2. FreshInMemory' \subseteq FreshInMemory
    <3>1. \A i \in Instant : i > instant' - WindowLength => i > instant - WindowLength
      BY <1>1, <1>2
    <3> QED
      BY <1>2, <2>1, <3>1 DEF FreshInMemory
  <2>3. IsFiniteSet(FreshInMemory)
    <3>1. FreshInMemory \subseteq inMemory
      BY DEF FreshInMemory
    <3> QED
      BY <1>1, <3>1, RateLimitTypes, FS_Subset
  <2>4. WithinMemory' <= WithinMemory /\ WithinMemory' \in Nat /\ WithinMemory \in Nat
    BY <2>2, <2>3, PartCount DEF WithinMemory
  <2>5. WithinMemory <= MaxRequests
    BY DEF RateLimitInv, RequestsAreCounted
  <2>6. PICK n, before \in Nat : n = WithinMemory' /\ before = WithinMemory
    BY <2>4
  <2>7. n <= before /\ before <= MaxRequests
    BY <2>4, <2>5, <2>6
  <2>8. n <= MaxRequests
    BY <2>7, RateLimitAssumption
  <2> QED
    BY <2>6, <2>8
<1>7. RequestsAreCounted'
    BY <1>2, <1>6 DEF RateLimitInv, RequestsAreCounted, Open, Recent
<1>8. inRedis' \subseteq inRedis
    BY <1>3
<1>9. CountedIsKnown' /\ AskedLast'
    BY <1>2, <1>8 DEF RateLimitInv, CountedIsKnown, AskedLast, Open
<1>10. CameFirst'
  <2>1. \A i \in came' : i <= instant'
    BY <1>1, <1>2, <1>4 DEF RateLimitInv, CameFirst
  <2> QED
    BY <1>2, <2>1 DEF RateLimitInv, CameFirst
<1>11. SetIsKept'
  <2>1. SetIsKept
    BY DEF RateLimitInv
  <2>2. expires' <= instant' + WindowLength + 1
    BY <1>1, <1>2, <2>1 DEF SetIsKept
  <2>3. newest' <= instant' /\ newest <= newest'
    BY <1>1, <1>2, <1>3, <2>1 DEF SetIsKept
  <2>4. \A i \in inRedis' : i + WindowLength < expires'
    BY <1>2, <1>8, <2>1 DEF SetIsKept
  <2>5. \A i \in passed' \cup inRedis' : i <= newest'
    <3>1. \A i \in passed \cup inRedis : i <= newest /\ i \in Int
      BY <1>1, <2>1 DEF SetIsKept
    <3>2. newest' \in Int
      BY <1>1, <1>3
    <3> QED
      BY <1>1, <1>2, <1>8, <2>3, <3>1, <3>2
  <2>6. ASSUME apart, NEW i \in passed
        PROVE  i \in inRedis' \/ newest' >= i + WindowLength
    <3>1. CASE inRedis' = inRedis /\ newest' = newest
      BY <2>1, <2>6, <3>1 DEF SetIsKept
    <3>2. CASE newest' = expires /\ i \in inRedis
      <4>1. i + WindowLength < expires /\ i \in Int
        BY <1>1, <2>1, <3>2 DEF SetIsKept
      <4> QED
        BY <1>1, <3>2, <4>1
    <3>3. CASE newest' = expires /\ i \notin inRedis
      <4>1. newest >= i + WindowLength /\ i \in Int
        BY <1>1, <2>1, <2>6, <3>3 DEF SetIsKept
      <4> QED
        BY <1>1, <2>3, <3>3, <4>1
    <3> QED
      BY <1>3, <3>1, <3>2, <3>3
  <2> QED
    BY <1>2, <2>2, <2>3, <2>4, <2>5, <2>6 DEF SetIsKept
<1>12. OneOpen'
    BY <1>1, <1>2 DEF OneOpen
<1> QED
    BY <1>5, <1>7, <1>9, <1>10, <1>11, <1>12 DEF RateLimitInv

LEMMA RateLimitInvStep == RateLimitInv /\ RateLimitNext => RateLimitInv'
<1> SUFFICES ASSUME RateLimitInv, RateLimitNext PROVE RateLimitInv'
    OBVIOUS
<1>1. ASSUME NEW w \in Worker, RequestCounted(w)
      PROVE  RateLimitInv'
  <2>1. PICK at : at = txn[w].at
    OBVIOUS
  <2> QED
    BY <1>1, <2>1, AnsweredStep DEF RequestCounted
<1>2. ASSUME NEW w \in Worker, AnswerLost(w)
      PROVE  RateLimitInv'
  <2>1. PICK at : at = txn[w].at
    OBVIOUS
  <2> QED
    BY <1>2, <2>1, AnsweredStep DEF AnswerLost
<1>3. ASSUME NEW w \in Worker, RequestRefused(w) \/ RemovalFails(w) \/ RedisFails(w)
      PROVE  RateLimitInv'
  <2>1. txn[w] # Idle
    BY <1>3, IdleOp DEF RequestRefused, RemovalFails, RedisFails, Open
  <2> QED
    BY <1>3, <2>1, RequestEnds DEF RequestRefused, RemovalFails, RedisFails, theSet
<1>4. ASSUME NEW w \in Worker, RequestInMemory(w)
      PROVE  RateLimitInv'
    BY <1>4, RequestInMemoryStep DEF RequestInMemory, sessions
<1> QED
    BY <1>1, <1>2, <1>3, <1>4, AsksStep, InstantPassesStep DEF RateLimitNext

LEMMA RateLimitInvStutter == RateLimitInv /\ UNCHANGED rateLimitVars => RateLimitInv'
BY RequestInMemoryStep DEF rateLimitVars

(* The sliding window: whatever requests overlap and whenever Redis fails, memory
   never lets more than the limit through in a window, and Redis does not either of
   requests that read different times, but for those that it is told of late; where
   none overlap, a request is refused only if the window is full, or holds what a
   failure has left. *)
THEOREM WindowIsKept == RateLimitSpec => []RequestsAreCounted
<1>1. RateLimitInit => RateLimitInv
    BY RateLimitInitially DEF RateLimitInit
<1>2. RateLimitInv => RequestsAreCounted
    BY DEF RateLimitInv
<1> QED
    BY <1>1, <1>2, RateLimitInvStep, RateLimitInvStutter, PTL DEF RateLimitSpec

-----------------------------------------------------------------------------
(***************************************************************************)
(* Retention and the automatic rules: their types, on which the liveness   *)
(* that the runs check of them rests.                                      *)
(***************************************************************************)
LEMMA RetentionInitially == RetentionTablesInit /\ SessionsInit => RetentionTypeOK
BY DEF RetentionTablesInit, SessionsInit, RetentionTypeOK

(* What is deleted of a record are parts of it. *)
LEMMA WithoutIsTable ==
    ASSUME NEW table \in [RecordId -> Record \cup {NoRow}], NEW types
    PROVE  Without(table, types) \in [RecordId -> Record \cup {NoRow}]
<1> SUFFICES ASSUME NEW r \in RecordId, table[r] # NoRow
             PROVE  [parts |-> table[r].parts \ (types \cap table[r].old),
                     old |-> table[r].old \ types] \in Record
    BY DEF Without
<1>1. table[r].parts \subseteq Part /\ table[r].old \subseteq DataType
    BY DEF Record
<1> QED
    BY <1>1 DEF Record

(* A row that is there is changed to another. *)
LEMMA RecordChanged ==
    ASSUME RetentionTypeOK, NEW r \in RecordId, NEW row \in Record,
           records' = [records EXCEPT ![r] = row], UNCHANGED <<policies, sessions>>
    PROVE  RetentionTypeOK'
BY DEF RetentionTypeOK, sessions

LEMMA RetentionTypeStep == RetentionTypeOK /\ RetentionNext => RetentionTypeOK'
<1> SUFFICES ASSUME RetentionTypeOK, RetentionNext PROVE RetentionTypeOK'
    OBVIOUS
<1>1. /\ policies \in [DataType -> {"none", "auto", "keep"}]
      /\ records \in [RecordId -> Record \cup {NoRow}]
      /\ txn \in [Worker -> {Idle}] /\ overlap \in BOOLEAN
    BY DEF RetentionTypeOK
<1>2. ASSUME NEW w \in Worker, NEW parts \in SUBSET Part, RecordMade(w, parts)
      PROVE  RetentionTypeOK'
  <2>1. PICK row \in Record : row = [parts |-> parts, old |-> {}]
    BY DEF Record
  <2>2. Room(records) /\ records' = Inserted(records, row)
    BY <1>2, <2>1 DEF RecordMade
  <2>3. records' \in [RecordId -> Record \cup {NoRow}]
    BY <1>1, <2>2, InsertedTable
  <2> QED
    BY <1>1, <1>2, <2>3 DEF RecordMade, sessions, RetentionTypeOK
<1>3. ASSUME NEW r \in RecordId, NEW p \in DataType, RowAges(r, p)
      PROVE  RetentionTypeOK'
  <2>1. records[r] \in Record
    BY <1>1, <1>3 DEF RowAges, Has
  <2>2. [records[r] EXCEPT !.old = @ \cup {p}] \in Record
    BY <2>1 DEF Record
  <2>3. records' = [records EXCEPT ![r] = [records[r] EXCEPT !.old = @ \cup {p}]]
    BY <1>1, <1>3 DEF RowAges
  <2> QED
    BY <1>3, <2>2, <2>3, RecordChanged DEF RowAges
<1>4. ASSUME NEW w \in Worker, NEW r \in RecordId, Summarized(w, r) \/ Appealed(w, r)
      PROVE  RetentionTypeOK'
  <2>1. PICK p \in Part : Added(w, r, p)
    BY <1>4 DEF Summarized, Appealed, Part, DataType
  <2>2. records[r] \in Record
    BY <1>1, <1>4 DEF Summarized, Appealed, Has
  <2>3. [records[r] EXCEPT !.parts = @ \cup {p}] \in Record
    BY <2>2 DEF Record
  <2>4. records' = [records EXCEPT ![r] = [records[r] EXCEPT !.parts = @ \cup {p}]]
    BY <1>1, <2>1 DEF Added
  <2> QED
    BY <2>1, <2>3, <2>4, RecordChanged DEF Added
<1>5. ASSUME NEW w \in Worker, PoliciesViewed(w)
      PROVE  RetentionTypeOK'
    BY <1>1, <1>5 DEF PoliciesViewed, sessions, RetentionTypeOK
<1>6. ASSUME NEW w \in Worker, NEW p \in DataType, NEW auto \in BOOLEAN, PolicyUpdated(w, p, auto)
      PROVE  RetentionTypeOK'
    BY <1>1, <1>6 DEF PolicyUpdated, sessions, RetentionTypeOK
<1>7. Retained(records) \in [RecordId -> Record \cup {NoRow}]
    BY <1>1, WithoutIsTable DEF Retained
<1>8. Cleaned(records) \in [RecordId -> Record \cup {NoRow}]
    BY <1>1, WithoutIsTable DEF Cleaned
<1>9. Retained(Cleaned(records)) \in [RecordId -> Record \cup {NoRow}]
    BY <1>8, WithoutIsTable DEF Retained
<1>10. ASSUME NEW w \in Worker, RetentionJob(w) \/ ExcerptJob(w) \/ DailyRun(w)
       PROVE  RetentionTypeOK'
    BY <1>1, <1>7, <1>8, <1>9, <1>10
    DEF RetentionJob, ExcerptJob, DailyRun, sessions, RetentionTypeOK
<1>11. /\ {"capture event"} \in SUBSET Part
       /\ {"capture event", "risk event", "content excerpt"} \in SUBSET Part
    BY DEF Part, DataType
<1> QED
    BY <1>2, <1>3, <1>4, <1>5, <1>6, <1>10, <1>11 DEF RetentionNext, RetentionStep

LEMMA RetentionTypeStutter == RetentionTypeOK /\ UNCHANGED retentionVars => RetentionTypeOK'
BY DEF retentionVars, RetentionTypeOK

-----------------------------------------------------------------------------
LEMMA AutoBlocksInitially == AutoBlocksTablesInit /\ SessionsInit => AutoBlocksTypeOK
BY MaxBlocksAssumption DEF AutoBlocksTablesInit, SessionsInit, AutoBlocksTypeOK, AutoBlocksTxn

LEMMA AutoBlocksTypeStep == AutoBlocksTypeOK /\ AutoBlocksNext => AutoBlocksTypeOK'
<1> SUFFICES ASSUME AutoBlocksTypeOK, AutoBlocksNext PROVE AutoBlocksTypeOK'
    OBVIOUS
<1>1. /\ autoRules \in [AutoRuleId -> AutoRule \cup {NoRow}]
      /\ due \subseteq AutoRuleId /\ unlinked \subseteq AutoRuleId
      /\ blocks \in [AutoRuleId -> [Pupil -> 0..MaxBlocks]]
      /\ txn \in [Worker -> AutoBlocksTxn] /\ overlap \in BOOLEAN
      /\ Idle \in AutoBlocksTxn
    BY DEF AutoBlocksTypeOK, AutoBlocksTxn
<1>2. ASSUME NEW w \in Worker, NEW target \in Pupil \cup {Everyone}, NEW scheduled \in BOOLEAN,
             RuleCreated(w, target, scheduled)
      PROVE  AutoBlocksTypeOK'
  <2>1. PICK row \in AutoRule :
          row = [target |-> target, scheduled |-> scheduled, active |-> TRUE]
    BY DEF AutoRule
  <2>2. Room(autoRules) /\ autoRules' = Inserted(autoRules, row)
    BY <1>2, <2>1 DEF RuleCreated
  <2>3. autoRules' \in [AutoRuleId -> AutoRule \cup {NoRow}]
    BY <1>1, <2>2, InsertedTable
  <2> QED
    BY <1>1, <1>2, <2>3 DEF RuleCreated, sessions, AutoBlocksTypeOK
<1>3. ASSUME NEW w \in Worker, NEW r \in AutoRuleId, NEW on \in BOOLEAN,
             RuleUpdated(w, r, on)
      PROVE  AutoBlocksTypeOK'
  <2>1. autoRules[r] \in AutoRule
    BY <1>1, <1>3 DEF RuleUpdated, Rules
  <2>2. [autoRules[r] EXCEPT !.active = on] \in AutoRule
    BY <2>1 DEF AutoRule
  <2>3. autoRules' = [autoRules EXCEPT ![r] = [autoRules[r] EXCEPT !.active = on]]
    BY <1>1, <1>3 DEF RuleUpdated
  <2>4. autoRules' \in [AutoRuleId -> AutoRule \cup {NoRow}]
    BY <1>1, <2>2, <2>3
  <2> QED
    BY <1>1, <1>3, <2>4 DEF RuleUpdated, sessions, AutoBlocksTypeOK
<1>4. ASSUME NEW w \in Worker, NEW r \in AutoRuleId, RuleDeleted(w, r)
      PROVE  AutoBlocksTypeOK'
    BY <1>1, <1>4 DEF RuleDeleted, sessions, AutoBlocksTypeOK
<1>5. ASSUME NEW w \in Worker, NEW r \in AutoRuleId, BedtimeDeleted(w, r)
      PROVE  AutoBlocksTypeOK'
  <2>1. [m \in Pupil |-> 0] \in [Pupil -> 0..MaxBlocks]
    BY MaxBlocksAssumption
  <2>2. blocks' \in [AutoRuleId -> [Pupil -> 0..MaxBlocks]]
    BY <1>1, <1>5, <2>1 DEF BedtimeDeleted
  <2> QED
    BY <1>1, <1>5, <2>2 DEF BedtimeDeleted, sessions, AutoBlocksTypeOK
<1>6. ASSUME NEW w \in Worker, NEW r \in AutoRuleId, NEW m \in Pupil, BlockRevoked(w, r, m)
      PROVE  AutoBlocksTypeOK'
  <2>1. blocks[r] \in [Pupil -> 0..MaxBlocks] /\ blocks[r][m] > 0 /\ MaxBlocks \in Nat
    BY <1>1, <1>6, MaxBlocksAssumption DEF BlockRevoked
  <2>2. blocks[r][m] - 1 \in 0..MaxBlocks
    BY <2>1
  <2>3. [blocks[r] EXCEPT ![m] = @ - 1] \in [Pupil -> 0..MaxBlocks]
    BY <2>1, <2>2
  <2>4. blocks' = [blocks EXCEPT ![r] = [blocks[r] EXCEPT ![m] = @ - 1]]
    BY <1>1, <1>6 DEF BlockRevoked
  <2>5. blocks' \in [AutoRuleId -> [Pupil -> 0..MaxBlocks]]
    BY <1>1, <2>3, <2>4
  <2> QED
    BY <1>1, <1>6, <2>5 DEF BlockRevoked, sessions, AutoBlocksTypeOK
<1>7. ASSUME NEW w \in Worker, EvaluateRead(w)
      PROVE  AutoBlocksTypeOK'
  <2>1. PICK seen \in SUBSET Evaluated :
          Begin(w, [op |-> "evaluate", fired |-> {r \in seen : Fires(r)},
                    lifted |-> {r \in seen : Lifts(r)}])
    BY <1>7 DEF EvaluateRead
  <2>2. Evaluated \subseteq AutoRuleId
    BY DEF Evaluated, Rules
  <2>3. [op |-> "evaluate", fired |-> {r \in seen : Fires(r)},
         lifted |-> {r \in seen : Lifts(r)}] \in AutoBlocksTxn
    BY <2>2 DEF AutoBlocksTxn
  <2>4. txn' \in [Worker -> AutoBlocksTxn] /\ overlap' = overlap
    BY <1>1, <2>1, <2>3 DEF Begin
  <2> QED
    BY <1>1, <1>7, <2>4 DEF EvaluateRead, autoBlocksTables, AutoBlocksTypeOK
<1>8. ASSUME NEW w \in Worker, EvaluateWrite(w)
      PROVE  AutoBlocksTypeOK'
    BY <1>1, <1>8 DEF EvaluateWrite, End, AutoBlocksTypeOK
<1>9. ASSUME NEW w \in Worker, Abandon(w), UNCHANGED autoBlocksTables
      PROVE  AutoBlocksTypeOK'
    BY <1>1, <1>9 DEF Abandon, End, autoBlocksTables, AutoBlocksTypeOK
<1>10. ASSUME NEW r \in AutoRuleId, DueChanges(r)
       PROVE  AutoBlocksTypeOK'
    BY <1>1, <1>10 DEF DueChanges, sessions, AutoBlocksTypeOK
<1> QED
    BY <1>2, <1>3, <1>4, <1>5, <1>6, <1>7, <1>8, <1>9, <1>10
    DEF AutoBlocksNext, AutoBlocksStep, EvaluateEnds

LEMMA AutoBlocksTypeStutter == AutoBlocksTypeOK /\ UNCHANGED autoBlocksVars => AutoBlocksTypeOK'
BY DEF autoBlocksVars, AutoBlocksTypeOK

-----------------------------------------------------------------------------
(***************************************************************************)
(* Uplink: three queues, and an invariant for each.  What a queue holds is *)
(* there once (Unique); a session has in hand an event that is not in the  *)
(* queue yet.                                                              *)
(***************************************************************************)
Unique(s) == \A i, j \in DOMAIN s : s[i].event = s[j].event => i = j

Holds(w) == txn[w].op \in {"send", "evict", "add"}
HeldApart == \A v, w \in Worker : Holds(v) /\ Holds(w) /\ v # w => txn[v].event # txn[w].event

(* The extension, as long as nobody disturbs it: the flush has in hand what is at
   the head of the queue. *)
ExtensionInv ==
    /\ \A w \in Worker : txn[w].op \in {"idle", "send", "flush"}
    /\ Unique(outbox) /\ Events(outbox) \subseteq captured /\ Len(outbox) <= MaxQueue
    /\ \A w \in Worker : Holds(w) => txn[w].event \in captured \ (Events(outbox) \cup confirmed)
    /\ HeldApart
    /\ \A w \in Worker : Open(w, "flush") =>
         /\ txn[w].event \in captured
         /\ \A v \in Worker : Holds(v) => txn[v].event # txn[w].event
    /\ ~disturbed =>
         /\ \A v, w \in Worker : Open(v, "flush") /\ Open(w, "flush") => v = w
         /\ \A w \in Worker : Open(w, "flush") =>
              outbox # <<>> /\ Head(outbox).event = txn[w].event
         /\ Events(outbox) \cap confirmed = {}
         /\ NothingIsLost

(* The cache.  Adding are the calls that have made room or found it; by so many the
   limit may be exceeded. *)
Adding == {w \in Worker : Open(w, "add")}
Slack == IF overlap THEN Cardinality(Worker) - 1 ELSE 0

RoomIsKept ==
    /\ Len(outbox) + Cardinality(Adding) <= MaxQueue + Slack
    /\ \A w \in Worker : Open(w, "evict") =>
         /\ txn[w].count >= MaxQueue
         /\ Len(outbox) + Cardinality(Adding) <= txn[w].count + Slack

CacheInv ==
    /\ \A w \in Worker : txn[w].op \in {"idle", "evict", "add", "sync"}
    /\ Unique(outbox) /\ Events(outbox) \subseteq captured
    /\ \A w \in Worker : Holds(w) => txn[w].event \in captured \ Events(outbox)
    /\ HeldApart
    /\ \A w \in Worker : Open(w, "sync") =>
         txn[w].rest # <<>> /\ Events(txn[w].rest) \subseteq captured
    /\ ~overlap =>
         /\ Events(outbox) \cap confirmed = {}
         /\ \A w \in Worker : Holds(w) => txn[w].event \notin confirmed
    /\ NothingIsLost
    /\ RoomIsKept

(* The applications: what the replay has still to send and what it has kept are the
   queue to be; nothing of it has been confirmed. *)
ReplayStands == \A w \in Worker : Open(w, "replay") =>
    LET rest == txn[w].rest  kept == txn[w].kept IN
      /\ rest # <<>> /\ Unique(rest) /\ Unique(kept)
      /\ Events(rest) \cap Events(kept) = {}
      /\ Events(rest) \cup Events(kept) \subseteq captured \ confirmed
      /\ Len(rest) + Len(kept) <= MaxQueue
      /\ ~disturbed => captured \subseteq Events(rest) \cup Events(kept) \cup reached \cup shed

AppInv ==
    /\ \A w \in Worker : txn[w].op \in {"idle", "replay"}
    /\ \A v, w \in Worker : Open(v, "replay") /\ Open(w, "replay") => v = w
    /\ Unique(outbox) /\ Events(outbox) \subseteq captured /\ Len(outbox) <= MaxQueue
    /\ ReplayStands
    /\ ~Sending("replay") => Events(outbox) \cap confirmed = {}
    /\ NothingIsLost

UplinkInv ==
    /\ UplinkTypeOK
    /\ OneOpen
    /\ client = "extension" => ExtensionInv
    /\ client = "cache" => CacheInv
    /\ client = "app" => AppInv

-----------------------------------------------------------------------------
(* What the operators on queues do. *)
LEMMA MinOfTwo ==
    ASSUME NEW a \in Int, NEW b \in Int
    PROVE  /\ Min({a, b}) = IF a <= b THEN a ELSE b
           /\ Min({a, b}) <= a /\ Min({a, b}) <= b
<1>1. PICK m \in {a, b} : m = IF a <= b THEN a ELSE b
    OBVIOUS
<1>2. \A y \in {a, b} : m <= y
    BY <1>1
<1>3. \A x \in {a, b} : (\A y \in {a, b} : x <= y) => x = m
    BY <1>2
<1>4. Min({a, b}) = m
    BY <1>2, <1>3 DEF Min
<1> QED
    BY <1>1, <1>2, <1>4

LEMMA QueueFacts ==
    ASSUME NEW s \in Seq(QueueItem)
    PROVE  /\ Len(s) \in Nat /\ DOMAIN s = 1..Len(s)
           /\ \A i \in 1..Len(s) : s[i] \in QueueItem
           /\ Events(s) = {s[i].event : i \in 1..Len(s)} /\ Events(s) \subseteq Report
           /\ s # <<>> => Len(s) > 0
<1>1. Len(s) \in Nat /\ DOMAIN s = 1..Len(s) /\ s \in [1..Len(s) -> QueueItem]
    BY LenProperties
<1>2. \A i \in 1..Len(s) : s[i] \in QueueItem
    BY <1>1
<1>3. s # <<>> => Len(s) > 0
    BY EmptySeq
<1> QED
    BY <1>1, <1>2, <1>3 DEF Events, QueueItem

LEMMA NewItemType ==
    ASSUME NEW e \in Report
    PROVE  NewItem(e) \in QueueItem /\ NewItem(e).event = e
BY UplinkAssumption DEF NewItem, QueueItem

LEMMA NoEvents == Events(<<>>) = {} /\ <<>> \in Seq(QueueItem) /\ Len(<<>>) = 0 /\ Unique(<<>>)
<1>1. <<>> \in Seq(QueueItem) /\ Len(<<>>) = 0
    BY EmptySeq
<1>2. DOMAIN <<>> = {}
    BY <1>1, QueueFacts
<1> QED
    BY <1>1, <1>2 DEF Events, Unique

(* A queue with the same events in the same places. *)
LEMMA SameEvents ==
    ASSUME NEW s \in Seq(QueueItem), NEW t \in Seq(QueueItem), Len(t) = Len(s),
           \A i \in 1..Len(s) : t[i].event = s[i].event
    PROVE  Events(t) = Events(s) /\ (Unique(s) => Unique(t))
<1>1. DOMAIN s = 1..Len(s) /\ DOMAIN t = 1..Len(s)
    BY QueueFacts
<1>2. Events(t) = Events(s)
    BY <1>1 DEF Events
<1>3. Unique(s) => Unique(t)
    BY <1>1 DEF Unique
<1> QED
    BY <1>2, <1>3

LEMMA AppendEvents ==
    ASSUME NEW s \in Seq(QueueItem), NEW x \in QueueItem
    PROVE  LET t == Append(s, x) IN
             /\ t \in Seq(QueueItem) /\ Len(t) = Len(s) + 1
             /\ Events(t) = Events(s) \cup {x.event}
             /\ Unique(s) /\ x.event \notin Events(s) => Unique(t)
             /\ s # <<>> => Head(t) = Head(s)
<1> DEFINE t == Append(s, x)
<1>1. /\ t \in Seq(QueueItem) /\ Len(t) = Len(s) + 1
      /\ \A i \in 1..Len(s) : t[i] = s[i]
      /\ t[Len(s) + 1] = x
    BY AppendProperties
<1>2. /\ Len(s) \in Nat /\ DOMAIN s = 1..Len(s) /\ DOMAIN t = 1..(Len(s) + 1)
      /\ s # <<>> => Len(s) > 0
    BY <1>1, QueueFacts
<1>3. s # <<>> => Head(t) = Head(s)
  <2>1. Head(t) = t[1] /\ Head(s) = s[1]
    OBVIOUS
  <2> QED
    BY <1>1, <1>2, <2>1
<1> HIDE DEF t
<1>4. PICK n \in Nat : n = Len(s)
    BY <1>2
<1>5. /\ DOMAIN s = 1..n /\ DOMAIN t = 1..(n + 1) /\ t[n + 1] = x
      /\ \A i \in 1..n : t[i] = s[i]
    BY <1>1, <1>2, <1>4
<1>6. \A i \in 1..(n + 1) : i \in 1..n \/ i = n + 1
    OBVIOUS
<1>7. Events(t) = Events(s) \cup {x.event}
  <2>1. \A e \in Events(t) : e \in Events(s) \cup {x.event}
    BY <1>5, <1>6 DEF Events
  <2>2. \A e \in Events(s) : e \in Events(t)
    <3>1. \A i \in 1..n : i \in 1..(n + 1)
      OBVIOUS
    <3> QED
      BY <1>5, <3>1 DEF Events
  <2>3. x.event \in Events(t)
    BY <1>5 DEF Events
  <2> QED
    BY <2>1, <2>2, <2>3
<1>8. ASSUME Unique(s), x.event \notin Events(s) PROVE Unique(t)
  <2>1. \A i \in 1..n : s[i].event # x.event
    BY <1>5, <1>8 DEF Events
  <2> QED
    BY <1>5, <1>6, <1>8, <2>1 DEF Unique
<1> QED
    BY <1>1, <1>3, <1>7, <1>8 DEF t

(* What is left when the first n have gone. *)
LEMMA SuffixEvents ==
    ASSUME NEW s \in Seq(QueueItem), NEW n \in Nat, n <= Len(s)
    PROVE  LET t == SubSeq(s, n + 1, Len(s)) IN
             /\ t \in Seq(QueueItem) /\ Len(t) = Len(s) - n
             /\ Events(t) \subseteq Events(s)
             /\ Events(s) = Events(t) \cup Events(SubSeq(s, 1, n))
             /\ Unique(s) => Unique(t)
             /\ n = 0 => t = s
<1> DEFINE t == SubSeq(s, n + 1, Len(s))
           u == SubSeq(s, 1, n)
<1>1. PICK l \in Nat : l = Len(s) /\ n <= l
    BY QueueFacts
<1>2. DOMAIN s = 1..l /\ \A i \in 1..l : s[i] \in QueueItem
    BY <1>1, QueueFacts
<1>3. /\ \A i \in (n + 1)..l : s[i] \in QueueItem
      /\ \A i \in 1..n : s[i] \in QueueItem
    BY <1>1, <1>2
<1>4. /\ t \in Seq(QueueItem)
      /\ Len(t) = IF n + 1 <= l THEN l - (n + 1) + 1 ELSE 0
      /\ \A i \in 1..(l - (n + 1) + 1) : t[i] = s[(n + 1) + i - 1]
  <2>1. n + 1 \in Int /\ l \in Int
    BY <1>1
  <2> QED
    BY <1>1, <1>3, <2>1, SubSeqProperties
<1>5. /\ u \in Seq(QueueItem)
      /\ Len(u) = IF 1 <= n THEN n - 1 + 1 ELSE 0
      /\ \A i \in 1..(n - 1 + 1) : u[i] = s[1 + i - 1]
  <2>1. 1 \in Int /\ n \in Int
    OBVIOUS
  <2> QED
    BY <1>3, <2>1, SubSeqProperties
<1>6. n = 0 => t = s
    BY SubSeqFull
<1> HIDE DEF t, u
<1>7. Len(t) = l - n /\ Len(u) = n /\ DOMAIN t = 1..(l - n) /\ DOMAIN u = 1..n
  <2>1. Len(t) = l - n /\ Len(u) = n
    BY <1>1, <1>4, <1>5
  <2> QED
    BY <1>4, <1>5, <2>1, QueueFacts
<1>8. \A i \in 1..(l - n) : t[i] = s[n + i] /\ n + i \in 1..l
  <2> SUFFICES ASSUME NEW i \in 1..(l - n) PROVE t[i] = s[n + i] /\ n + i \in 1..l
    OBVIOUS
  <2>1. i \in 1..(l - (n + 1) + 1) /\ (n + 1) + i - 1 = n + i /\ n + i \in 1..l
    BY <1>1
  <2> QED
    BY <1>4, <2>1
<1>9. \A i \in 1..n : u[i] = s[i] /\ i \in 1..l
  <2> SUFFICES ASSUME NEW i \in 1..n PROVE u[i] = s[i] /\ i \in 1..l
    OBVIOUS
  <2>1. i \in 1..(n - 1 + 1) /\ 1 + i - 1 = i /\ i \in 1..l
    BY <1>1
  <2> QED
    BY <1>5, <2>1
<1>10. Events(t) \subseteq Events(s)
  <2>1. \A i \in 1..(l - n) : \E j \in 1..l : t[i].event = s[j].event
    BY <1>8
  <2> QED
    BY <1>2, <1>7, <2>1 DEF Events
<1>11. Events(u) \subseteq Events(s)
    BY <1>2, <1>7, <1>9 DEF Events
<1>12. Events(s) \subseteq Events(t) \cup Events(u)
  <2> SUFFICES ASSUME NEW i \in 1..l PROVE s[i].event \in Events(t) \cup Events(u)
    BY <1>2 DEF Events
  <2>1. CASE i <= n
    <3>1. i \in 1..n
      BY <2>1
    <3> QED
      BY <1>7, <1>9, <3>1 DEF Events
  <2>2. CASE i > n
    <3>1. i - n \in 1..(l - n) /\ n + (i - n) = i
      BY <2>2, <1>1
    <3> QED
      BY <1>7, <1>8, <3>1 DEF Events
  <2> QED
    BY <2>1, <2>2
<1>13. ASSUME Unique(s) PROVE Unique(t)
  <2> SUFFICES ASSUME NEW i \in 1..(l - n), NEW j \in 1..(l - n), t[i].event = t[j].event
               PROVE  i = j
    BY <1>7 DEF Unique
  <2>1. n + i = n + j
    BY <1>2, <1>8, <1>13 DEF Unique
  <2> QED
    BY <2>1
<1> QED
    BY <1>1, <1>4, <1>6, <1>7, <1>10, <1>11, <1>12, <1>13 DEF t, u

LEMMA TailEvents ==
    ASSUME NEW s \in Seq(QueueItem), s # <<>>
    PROVE  /\ Head(s) \in QueueItem /\ Head(s).event \in Events(s)
           /\ Tail(s) \in Seq(QueueItem) /\ Len(Tail(s)) = Len(s) - 1
           /\ Events(s) = {Head(s).event} \cup Events(Tail(s))
           /\ Unique(s) => Unique(Tail(s)) /\ Head(s).event \notin Events(Tail(s))
           /\ Len(s) # 1 => Tail(s) # <<>>
           /\ Len(s) = 1 => Events(Tail(s)) = {}
<1>1. PICK l \in Nat : l = Len(s) /\ l > 0
    BY QueueFacts
<1>2. DOMAIN s = 1..l /\ \A i \in 1..l : s[i] \in QueueItem
    BY <1>1, QueueFacts
<1>3. /\ Tail(s) \in Seq(QueueItem) /\ Len(Tail(s)) = l - 1
      /\ \A i \in 1..(l - 1) : Tail(s)[i] = s[i + 1]
    BY <1>1, HeadTailProperties
<1>4. Head(s) = s[1]
    OBVIOUS
<1> DEFINE t == Tail(s)
<1>5. DOMAIN t = 1..(l - 1) /\ \A i \in 1..(l - 1) : t[i] = s[i + 1] /\ i + 1 \in 1..l
    BY <1>1, <1>3, QueueFacts
<1> HIDE DEF t
<1>6. Len(s) # 1 => t # <<>>
  <2> SUFFICES ASSUME t = <<>> PROVE Len(s) = 1
    OBVIOUS
  <2>1. Len(t) = 0
    BY EmptySeq
  <2>2. Len(t) = l - 1
    BY <1>3 DEF t
  <2>3. 0 = l - 1
    BY <2>1, <2>2
  <2>4. l = 1
    BY <2>3
  <2> QED
    BY <1>1, <2>4
<1>7. 1 \in 1..l
    BY <1>1
<1>8. Head(s) \in QueueItem /\ Head(s).event \in Events(s)
    BY <1>2, <1>4, <1>7 DEF Events
<1>9. Events(t) \subseteq Events(s)
    BY <1>2, <1>5 DEF Events
<1>10. Events(s) \subseteq {Head(s).event} \cup Events(t)
  <2> SUFFICES ASSUME NEW i \in 1..l PROVE s[i].event \in {s[1].event} \cup Events(t)
    BY <1>2, <1>4 DEF Events
  <2>1. CASE i = 1
    BY <2>1
  <2>2. CASE i # 1
    <3>1. i - 1 \in 1..(l - 1) /\ (i - 1) + 1 = i
      BY <2>2, <1>1
    <3> QED
      BY <1>5, <3>1 DEF Events
  <2> QED
    BY <2>1, <2>2
<1>11. ASSUME Unique(s) PROVE Unique(t) /\ Head(s).event \notin Events(t)
  <2>1. ASSUME NEW i \in 1..(l - 1), NEW j \in 1..(l - 1), t[i].event = t[j].event
        PROVE  i = j
    <3>1. i + 1 = j + 1
      BY <1>2, <1>5, <1>11, <2>1 DEF Unique
    <3> QED
      BY <3>1
  <2>2. ASSUME NEW i \in 1..(l - 1), t[i].event = s[1].event
        PROVE  FALSE
    <3>1. i + 1 = 1
      BY <1>2, <1>5, <1>7, <1>11, <2>2 DEF Unique
    <3> QED
      BY <3>1
  <2>3. Unique(t)
    BY <1>5, <2>1 DEF Unique
  <2>4. Head(s).event \notin Events(t)
    BY <1>4, <1>5, <2>2 DEF Events
  <2> QED
    BY <2>3, <2>4
<1>12. Len(s) = 1 => Events(t) = {}
  <2>1. l = 1 => 1..(l - 1) = {}
    OBVIOUS
  <2> QED
    BY <1>1, <1>5, <2>1 DEF Events
<1> QED
    BY <1>1, <1>3, <1>6, <1>8, <1>9, <1>10, <1>11, <1>12 DEF t

(* One item less. *)
LEMMA RemoveEvents ==
    ASSUME NEW s \in Seq(QueueItem), NEW i \in 1..Len(s)
    PROVE  LET t == RemoveAt(s, i) IN
             /\ t \in Seq(QueueItem) /\ Len(t) = Len(s) - 1
             /\ Events(t) \subseteq Events(s)
             /\ Events(s) \subseteq Events(t) \cup {s[i].event}
             /\ Unique(s) => Unique(t) /\ s[i].event \notin Events(t)
<1>1. PICK l \in Nat : l = Len(s) /\ i \in 1..l
    BY QueueFacts
<1>2. DOMAIN s = 1..l /\ \A k \in 1..l : s[k] \in QueueItem
    BY <1>1, QueueFacts
<1> DEFINE a == SubSeq(s, 1, i - 1)
           b == SubSeq(s, i + 1, l)
           t == a \o b
<1>3. /\ \A k \in 1..(i - 1) : s[k] \in QueueItem
      /\ \A k \in (i + 1)..l : s[k] \in QueueItem
    BY <1>1, <1>2
<1>4. /\ a \in Seq(QueueItem)
      /\ Len(a) = IF 1 <= i - 1 THEN i - 1 - 1 + 1 ELSE 0
      /\ \A k \in 1..(i - 1 - 1 + 1) : a[k] = s[1 + k - 1]
  <2>1. 1 \in Int /\ i - 1 \in Int
    BY <1>1
  <2> QED
    BY <1>3, <2>1, SubSeqProperties
<1>5. /\ b \in Seq(QueueItem)
      /\ Len(b) = IF i + 1 <= l THEN l - (i + 1) + 1 ELSE 0
      /\ \A k \in 1..(l - (i + 1) + 1) : b[k] = s[(i + 1) + k - 1]
  <2>1. i + 1 \in Int /\ l \in Int
    BY <1>1
  <2> QED
    BY <1>3, <2>1, SubSeqProperties
<1>6. RemoveAt(s, i) = t
    BY <1>1 DEF RemoveAt
<1> HIDE DEF a, b
<1>7. Len(a) = i - 1 /\ Len(b) = l - i
    BY <1>1, <1>4, <1>5
<1>8. /\ t \in Seq(QueueItem) /\ Len(t) = (i - 1) + (l - i)
      /\ \A k \in 1..((i - 1) + (l - i)) : t[k] = IF k <= i - 1 THEN a[k] ELSE b[k - (i - 1)]
  <2>1. /\ t \in Seq(QueueItem) /\ Len(t) = Len(a) + Len(b)
        /\ \A k \in 1..(Len(a) + Len(b)) : t[k] = IF k <= Len(a) THEN a[k] ELSE b[k - Len(a)]
    BY <1>4, <1>5, ConcatProperties
  <2> HIDE DEF t
  <2> QED
    BY <1>7, <2>1
<1> HIDE DEF t
<1>9. Len(t) = l - 1 /\ DOMAIN t = 1..(l - 1)
  <2>1. Len(t) = l - 1
    BY <1>1, <1>8
  <2> QED
    BY <1>8, <2>1, QueueFacts
<1>10. \A k \in 1..(l - 1) : t[k] = s[IF k < i THEN k ELSE k + 1]
  <2> SUFFICES ASSUME NEW k \in 1..(l - 1) PROVE t[k] = s[IF k < i THEN k ELSE k + 1]
    OBVIOUS
  <2>1. k \in 1..((i - 1) + (l - i))
    BY <1>1
  <2>2. CASE k < i
    <3>1. k <= i - 1 /\ k \in 1..(i - 1 - 1 + 1) /\ 1 + k - 1 = k
      BY <1>1, <2>2
    <3> QED
      BY <1>4, <1>8, <2>1, <2>2, <3>1
  <2>3. CASE ~(k < i)
    <3>1. /\ ~(k <= i - 1) /\ k - (i - 1) \in 1..(l - (i + 1) + 1)
          /\ (i + 1) + (k - (i - 1)) - 1 = k + 1
      BY <1>1, <2>3
    <3>2. t[k] = b[k - (i - 1)]
      BY <1>8, <2>1, <3>1
    <3> QED
      BY <1>5, <2>3, <3>1, <3>2
  <2> QED
    BY <2>2, <2>3
<1>11. \A k \in 1..(l - 1) : (IF k < i THEN k ELSE k + 1) \in (1..l) \ {i}
    BY <1>1
<1>12. Events(t) \subseteq Events(s)
  <2>1. \A k \in 1..(l - 1) : \E j \in 1..l : t[k].event = s[j].event
    BY <1>10, <1>11
  <2> QED
    BY <1>2, <1>9, <2>1 DEF Events
<1>13. Events(s) \subseteq Events(t) \cup {s[i].event}
  <2> SUFFICES ASSUME NEW j \in 1..l, j # i PROVE s[j].event \in Events(t)
    BY <1>2 DEF Events
  <2>1. CASE j < i
    <3>1. j \in 1..(l - 1)
      BY <1>1, <2>1
    <3>2. t[j] = s[j]
      BY <1>10, <2>1, <3>1
    <3> QED
      BY <1>9, <3>1, <3>2 DEF Events
  <2>2. CASE ~(j < i)
    <3>1. j - 1 \in 1..(l - 1) /\ ~(j - 1 < i) /\ (j - 1) + 1 = j
      BY <1>1, <2>2
    <3>2. t[j - 1] = s[j]
      BY <1>10, <3>1
    <3> QED
      BY <1>9, <3>1, <3>2 DEF Events
  <2> QED
    BY <2>1, <2>2
<1>14. ASSUME Unique(s) PROVE Unique(t) /\ s[i].event \notin Events(t)
  <2>1. ASSUME NEW k \in 1..(l - 1), NEW j \in 1..(l - 1), t[k].event = t[j].event
        PROVE  k = j
    <3>1. (IF k < i THEN k ELSE k + 1) = (IF j < i THEN j ELSE j + 1)
      BY <1>2, <1>10, <1>11, <1>14, <2>1 DEF Unique
    <3> QED
      BY <1>1, <3>1
  <2>2. \A k \in 1..(l - 1) : t[k].event # s[i].event
    BY <1>1, <1>2, <1>10, <1>11, <1>14 DEF Unique
  <2> QED
    BY <1>9, <2>1, <2>2 DEF Unique, Events
<1> QED
    BY <1>1, <1>6, <1>8, <1>9, <1>12, <1>13, <1>14

LEMMA WithoutEvents ==
    ASSUME outbox \in Seq(QueueItem), NEW e
    PROVE  LET t == WithoutEvent(e) IN
             /\ t \in Seq(QueueItem) /\ Len(t) <= Len(outbox)
             /\ Events(t) \subseteq Events(outbox)
             /\ Events(outbox) \subseteq Events(t) \cup {e}
             /\ Unique(outbox) => Unique(t) /\ e \notin Events(t)
<1> DEFINE t == WithoutEvent(e)
<1>1. CASE e \in Events(outbox)
  <2>1. PICK i : i = CHOOSE k \in DOMAIN outbox : outbox[k].event = e
    OBVIOUS
  <2>2. i \in DOMAIN outbox /\ outbox[i].event = e
    BY <1>1, <2>1 DEF Events
  <2>3. i \in 1..Len(outbox) /\ Len(outbox) \in Nat
    BY <2>2, QueueFacts
  <2>4. t = RemoveAt(outbox, i)
    BY <1>1, <2>1 DEF WithoutEvent
  <2>5. PICK r : r = RemoveAt(outbox, i)
    OBVIOUS
  <2>6. /\ r \in Seq(QueueItem) /\ Len(r) = Len(outbox) - 1
        /\ Events(r) \subseteq Events(outbox)
        /\ Events(outbox) \subseteq Events(r) \cup {e}
        /\ Unique(outbox) => Unique(r) /\ e \notin Events(r)
    BY <2>2, <2>3, <2>5, RemoveEvents
  <2>7. Len(r) <= Len(outbox)
    BY <2>3, <2>6
  <2> QED
    BY <2>4, <2>5, <2>6, <2>7
<1>2. CASE e \notin Events(outbox)
  <2>1. t = outbox
    BY <1>2 DEF WithoutEvent
  <2>2. Len(outbox) \in Nat
    BY QueueFacts
  <2> QED
    BY <1>2, <2>1, <2>2
<1> QED
    BY <1>1, <1>2

(* A place in the queue for an event that is not in it: the oldest may go. *)
LEMMA LatestEvents ==
    ASSUME NEW s \in Seq(QueueItem)
    PROVE  LET t == Latest(s) IN
             /\ t \in Seq(QueueItem) /\ Len(t) <= MaxQueue
             /\ Events(t) \subseteq Events(s)
             /\ Unique(s) => Unique(t)
<1>1. PICK l \in Nat : l = Len(s)
    BY QueueFacts
<1>2. PICK m : m = Min({MaxQueue, l})
    OBVIOUS
<1>3. m \in Nat /\ m <= l /\ m <= MaxQueue
  <2>1. MaxQueue \in Int /\ l \in Int /\ MaxQueue \in Nat
    BY UplinkAssumption
  <2>2. m = (IF MaxQueue <= l THEN MaxQueue ELSE l)
    BY <1>2, <2>1, MinOfTwo
  <2> QED
    BY <2>1, <2>2
<1>4. PICK n \in Nat : n = l - m /\ n <= l
    BY <1>3
<1>5. Latest(s) = SubSeq(s, n + 1, Len(s))
    BY <1>1, <1>2, <1>4 DEF Latest
<1>6. LET t == SubSeq(s, n + 1, Len(s)) IN
        /\ t \in Seq(QueueItem) /\ Len(t) = l - n
        /\ Events(t) \subseteq Events(s) /\ (Unique(s) => Unique(t))
    BY <1>1, <1>4, SuffixEvents
<1>7. l - n <= MaxQueue
    BY <1>3, <1>4
<1> QED
    BY <1>5, <1>6, <1>7

-----------------------------------------------------------------------------
(* What the sessions have read. *)
LEMMA UplinkTypes ==
    ASSUME UplinkTypeOK
    PROVE  /\ outbox \in Seq(QueueItem) /\ Events(outbox) \subseteq Report
           /\ disturbed \in BOOLEAN /\ enabled \in BOOLEAN
           /\ captured \subseteq Report /\ reached \subseteq captured
           /\ confirmed \subseteq reached /\ shed \subseteq captured
           /\ txn \in [Worker -> UplinkTxn] /\ Idle \in UplinkTxn
BY QueueFacts DEF UplinkTypeOK, UplinkTxn

LEMMA UplinkReads ==
    ASSUME UplinkTypeOK, NEW w \in Worker
    PROVE  /\ Holds(w) \/ Open(w, "flush") => txn[w].event \in Report
           /\ Open(w, "evict") \/ Open(w, "add") =>
                txn[w] \in [op: {"evict", "add"}, event: Report,
                            count: 0..MaxQueue + Cardinality(Worker)]
           /\ Open(w, "sync") => txn[w] \in [op: {"sync"}, rest: Seq(QueueItem)]
           /\ Open(w, "replay") =>
                txn[w] \in [op: {"replay"}, rest: Seq(QueueItem), kept: Seq(QueueItem)]
           /\ txn[w].op = "idle" => txn[w] = Idle
<1>1. txn[w] \in UplinkTxn
    BY DEF UplinkTypeOK
<1>2. CASE txn[w] = Idle
    BY <1>2, IdleOp DEF Holds, Open
<1>3. CASE txn[w] \in [op: {"send"}, event: Report]
    BY <1>3 DEF Holds, Open
<1>4. CASE txn[w] \in [op: {"flush"}, event: Report]
    BY <1>4 DEF Holds, Open
<1>5. CASE txn[w] \in [op: {"evict", "add"}, event: Report,
                       count: 0..MaxQueue + Cardinality(Worker)]
    BY <1>5 DEF Holds, Open
<1>6. CASE txn[w] \in [op: {"sync"}, rest: Seq(QueueItem)]
    BY <1>6 DEF Holds, Open
<1>7. CASE txn[w] \in [op: {"replay"}, rest: Seq(QueueItem), kept: Seq(QueueItem)]
    BY <1>7 DEF Holds, Open
<1> QED
    BY <1>1, <1>2, <1>3, <1>4, <1>5, <1>6, <1>7 DEF UplinkTxn

LEMMA NoneHeld == \A w \in Worker : txn[w] = Idle => ~Holds(w)
BY IdleOp DEF Holds

LEMMA HandsAfter ==
    ASSUME UplinkTypeOK, NEW w \in Worker, NEW t \in UplinkTxn, txn' = [txn EXCEPT ![w] = t]
    PROVE  /\ txn' \in [Worker -> UplinkTxn] /\ txn'[w] = t
           /\ \A v \in Worker : v # w => txn'[v] = txn[v]
           /\ ~Holds(w) => InHand \subseteq InHand'
           /\ InHand \subseteq InHand' \cup {txn[w].event}
           /\ t.op \in {"send", "evict", "add"} => t.event \in InHand'
<1>1. txn' \in [Worker -> UplinkTxn] /\ txn'[w] = t
    BY UplinkTypes
<1>2. \A v \in Worker : v # w => txn'[v] = txn[v]
    BY UplinkTypes
<1>3. \A v \in Worker : v # w /\ Holds(v) => txn[v].event \in InHand'
    BY <1>2 DEF Holds, InHand
<1>4. ~Holds(w) => InHand \subseteq InHand'
    BY <1>3 DEF Holds, InHand
<1>5. InHand \subseteq InHand' \cup {txn[w].event}
    BY <1>3 DEF Holds, InHand
<1>6. t.op \in {"send", "evict", "add"} => t.event \in InHand'
    BY <1>1 DEF InHand
<1> QED
    BY <1>1, <1>2, <1>4, <1>5, <1>6

(* An answer. *)
LEMMA SentFacts ==
    ASSUME UplinkTypeOK, NEW e \in captured, NEW got \in BOOLEAN, NEW heard \in BOOLEAN,
           Sent(e, got, heard)
    PROVE  /\ reached \subseteq reached' /\ reached' \subseteq reached \cup {e}
           /\ confirmed' \subseteq confirmed \cup {e}
           /\ reached' \subseteq captured /\ confirmed' \subseteq reached'
           /\ IF heard THEN e \in reached' ELSE confirmed' = confirmed
BY UplinkTypes DEF Sent

(* A new item, and the oldest ones giving way to it. *)
LEMMA QueuedFacts ==
    ASSUME UplinkTypeOK, NEW e \in Report, NEW op, Queued(e, op)
    PROVE  /\ outbox' \in Seq(QueueItem) /\ Len(outbox') <= MaxQueue
           /\ Events(outbox') \subseteq Events(outbox) \cup {e}
           /\ Events(outbox) \cup {e} \subseteq Events(outbox') \cup shed'
           /\ shed \subseteq shed' /\ shed' \subseteq shed \cup Events(outbox) \cup {e}
           /\ Unique(outbox) /\ e \notin Events(outbox) => Unique(outbox')
           /\ disturbed' \in BOOLEAN /\ (disturbed => disturbed')
           /\ ~disturbed' /\ Sending(op) =>
                /\ op # "replay"
                /\ outbox # <<>> => outbox' # <<>> /\ Head(outbox') = Head(outbox)
<1>1. PICK longer : longer = Append(outbox, NewItem(e))
    OBVIOUS
<1>2. PICK kept : kept = Latest(longer)
    OBVIOUS
<1>3. /\ outbox' = kept
      /\ shed' = shed \cup (Events(longer) \ Events(kept))
      /\ disturbed' = (disturbed \/ (Sending(op) /\ (op = "replay" \/ kept # longer)))
    BY <1>1, <1>2 DEF Queued
<1>4. PICK s \in Seq(QueueItem) : s = outbox
    BY UplinkTypes
<1>5. NewItem(e) \in QueueItem /\ NewItem(e).event = e
    BY NewItemType
<1>6. /\ longer \in Seq(QueueItem) /\ Len(longer) = Len(s) + 1
      /\ Events(longer) = Events(s) \cup {e}
      /\ Unique(s) /\ e \notin Events(s) => Unique(longer)
      /\ s # <<>> => Head(longer) = Head(s)
    BY <1>1, <1>4, <1>5, AppendEvents
<1>7. /\ kept \in Seq(QueueItem) /\ Len(kept) <= MaxQueue
      /\ Events(kept) \subseteq Events(longer)
      /\ Unique(longer) => Unique(kept)
    BY <1>2, <1>6, LatestEvents
<1>8. ~disturbed' /\ Sending(op) => op # "replay" /\ kept = longer
    BY <1>3
<1>9. longer # <<>>
  <2>1. Len(s) \in Nat /\ Len(<<>>) = 0
    BY QueueFacts, EmptySeq
  <2> SUFFICES ASSUME longer = <<>> PROVE FALSE
    OBVIOUS
  <2>2. Len(longer) = 0
    BY <2>1
  <2>3. Len(s) + 1 = 0
    BY <1>6, <2>2
  <2> QED
    BY <2>1, <2>3
<1>10. disturbed' \in BOOLEAN /\ (disturbed => disturbed')
    BY <1>3, UplinkTypes
<1>11. /\ Events(kept) \subseteq Events(s) \cup {e}
       /\ Events(s) \cup {e} \subseteq Events(kept) \cup shed'
       /\ shed \subseteq shed' /\ shed' \subseteq shed \cup Events(s) \cup {e}
    BY <1>3, <1>6, <1>7
<1> QED
    BY <1>3, <1>4, <1>6, <1>7, <1>8, <1>9, <1>10, <1>11

-----------------------------------------------------------------------------
(* The extension. *)
LEMMA CaptureBeginsStep ==
    ASSUME UplinkTypeOK, OneOpen, ExtensionInv,
           NEW w \in Worker, NEW e \in Report, CaptureBegins(w, e)
    PROVE  UplinkTypeOK' /\ OneOpen' /\ client' = client /\ ExtensionInv'
<1> DEFINE t == [op |-> "send", event |-> e]
<1>1. /\ Begin(w, t) /\ e \notin captured /\ captured' = captured \cup {e}
      /\ client' = client /\ enabled' = enabled /\ outbox' = outbox /\ reached' = reached
      /\ confirmed' = confirmed /\ shed' = shed /\ disturbed' = disturbed
    BY DEF CaptureBegins
<1>2. t \in UplinkTxn /\ t.op = "send" /\ t.event = e
    BY DEF UplinkTxn
<1>3. txn' = [txn EXCEPT ![w] = t] /\ txn[w] = Idle /\ OneOpen'
    BY <1>1, UplinkTypes, BeginKeepsOne DEF Begin, Free
<1> HIDE DEF t
<1>4. /\ txn' \in [Worker -> UplinkTxn] /\ txn'[w] = t
      /\ \A v \in Worker : v # w => txn'[v] = txn[v]
      /\ InHand \subseteq InHand' /\ e \in InHand'
    BY <1>2, <1>3, HandsAfter, NoneHeld
<1>5. UplinkTypeOK'
    BY <1>1, <1>4 DEF UplinkTypeOK
<1>6. \A v \in Worker : Holds(v)' => IF v = w THEN txn'[v].event = e
                                     ELSE Holds(v) /\ txn'[v] = txn[v]
    BY <1>2, <1>4 DEF Holds
<1>7. \A v \in Worker : Open(v, "flush")' => Open(v, "flush") /\ txn'[v] = txn[v]
    BY <1>2, <1>4 DEF Open
<1>8. /\ \A v \in Worker : txn'[v].op \in {"idle", "send", "flush"}
      /\ Unique(outbox') /\ Events(outbox') \subseteq captured' /\ Len(outbox') <= MaxQueue
    BY <1>1, <1>2, <1>4 DEF ExtensionInv
<1>9. Events(outbox) \subseteq captured /\ confirmed \subseteq captured
    BY UplinkTypes DEF ExtensionInv
<1>10. \A v \in Worker : Holds(v)' =>
         txn'[v].event \in captured' \ (Events(outbox') \cup confirmed')
    BY <1>1, <1>6, <1>9 DEF ExtensionInv
<1>11. HeldApart'
    BY <1>1, <1>6 DEF ExtensionInv, HeldApart
<1>12. \A u \in Worker : Open(u, "flush")' =>
         /\ txn'[u].event \in captured'
         /\ \A v \in Worker : Holds(v)' => txn'[v].event # txn'[u].event
    BY <1>1, <1>6, <1>7 DEF ExtensionInv
<1>13. ~disturbed' =>
         /\ \A u, v \in Worker : Open(u, "flush")' /\ Open(v, "flush")' => u = v
         /\ \A v \in Worker : Open(v, "flush")' =>
              outbox' # <<>> /\ Head(outbox').event = txn'[v].event
         /\ Events(outbox') \cap confirmed' = {}
    BY <1>1, <1>7 DEF ExtensionInv
<1>14. ~disturbed' => NothingIsLost'
    BY <1>1, <1>4 DEF ExtensionInv, NothingIsLost
<1> QED
    BY <1>1, <1>3, <1>5, <1>8, <1>10, <1>11, <1>12, <1>13, <1>14 DEF ExtensionInv

LEMMA CaptureSentStep ==
    ASSUME UplinkTypeOK, OneOpen, ExtensionInv,
           NEW w \in Worker, NEW got \in BOOLEAN, NEW heard \in BOOLEAN,
           CaptureSent(w, got, heard)
    PROVE  UplinkTypeOK' /\ OneOpen' /\ client' = client /\ ExtensionInv'
<1>1. PICK e : e = txn[w].event
    OBVIOUS
<1>2. /\ Open(w, "send") /\ Sent(e, got, heard) /\ End(w)
      /\ IF heard THEN UNCHANGED <<outbox, shed, disturbed>> ELSE Queued(e, "flush")
      /\ client' = client /\ enabled' = enabled /\ captured' = captured
    BY <1>1 DEF CaptureSent
<1>3. Holds(w) /\ txn[w] # Idle
    BY <1>2, OpenIsNotIdle DEF Holds, Open
<1>4. e \in captured /\ e \in Report /\ e \notin Events(outbox) /\ e \notin confirmed
    BY <1>1, <1>3, UplinkTypes DEF ExtensionInv
<1>5. /\ txn' \in [Worker -> UplinkTxn] /\ txn'[w] = Idle
      /\ \A v \in Worker : v # w => txn'[v] = txn[v]
      /\ InHand \subseteq InHand' \cup {e}
    BY <1>1, <1>2, UplinkTypes, HandsAfter DEF End
<1>6. OneOpen'
    BY <1>2, UplinkTypes, EndKeepsOne
<1>7. /\ reached \subseteq reached' /\ reached' \subseteq reached \cup {e}
      /\ confirmed' \subseteq confirmed \cup {e}
      /\ reached' \subseteq captured /\ confirmed' \subseteq reached'
      /\ IF heard THEN e \in reached' ELSE confirmed' = confirmed
    BY <1>2, <1>4, SentFacts
<1>8. /\ Unique(outbox) /\ Events(outbox) \subseteq captured /\ Len(outbox) <= MaxQueue
      /\ HeldApart
      /\ \A v \in Worker : txn[v].op \in {"idle", "send", "flush"}
    BY DEF ExtensionInv
<1>9. /\ outbox' \in Seq(QueueItem) /\ Len(outbox') <= MaxQueue /\ Unique(outbox')
      /\ Events(outbox') \subseteq Events(outbox) \cup {e}
      /\ shed \subseteq shed' /\ shed' \subseteq captured
      /\ Events(outbox) \subseteq Events(outbox') \cup shed'
      /\ disturbed' \in BOOLEAN /\ (disturbed => disturbed')
      /\ ~disturbed' /\ Sending("flush") =>
           (outbox # <<>> => outbox' # <<>> /\ Head(outbox') = Head(outbox))
      /\ heard => outbox' = outbox
      /\ ~heard => e \in Events(outbox') \cup shed'
  <2>1. CASE heard
    BY <1>2, <1>8, <2>1, UplinkTypes
  <2>2. CASE ~heard
    <3>1. Queued(e, "flush")
      BY <1>2, <2>2
    <3> QED
      BY <1>4, <1>8, <2>2, <3>1, UplinkTypes, QueuedFacts
  <2> QED
    BY <2>1, <2>2
<1>10. UplinkTypeOK'
    BY <1>2, <1>5, <1>7, <1>9, UplinkTypes DEF UplinkTypeOK
<1>11. \A v \in Worker : Holds(v)' => v # w /\ Holds(v) /\ txn'[v] = txn[v] /\ txn[v].event # e
    BY <1>1, <1>3, <1>5, <1>8, IdleOp DEF Holds, HeldApart
<1>12. \A v \in Worker : Open(v, "flush")' => Open(v, "flush") /\ txn'[v] = txn[v]
    BY <1>5, IdleOp DEF Open
<1>13. \A v \in Worker : txn'[v].op \in {"idle", "send", "flush"}
    BY <1>5, <1>8, IdleOp
<1>14. Events(outbox') \subseteq captured'
    BY <1>2, <1>4, <1>8, <1>9
<1>15. \A v \in Worker : Holds(v)' =>
         txn'[v].event \in captured' \ (Events(outbox') \cup confirmed')
    BY <1>2, <1>7, <1>9, <1>11 DEF ExtensionInv
<1>16. HeldApart'
    BY <1>8, <1>11 DEF HeldApart
<1>17. \A u \in Worker : Open(u, "flush")' =>
         /\ txn'[u].event \in captured'
         /\ \A v \in Worker : Holds(v)' => txn'[v].event # txn'[u].event
    BY <1>2, <1>11, <1>12 DEF ExtensionInv
<1>18. ASSUME ~disturbed'
       PROVE  /\ \A u, v \in Worker : Open(u, "flush")' /\ Open(v, "flush")' => u = v
              /\ \A v \in Worker : Open(v, "flush")' =>
                   outbox' # <<>> /\ Head(outbox').event = txn'[v].event
              /\ Events(outbox') \cap confirmed' = {}
              /\ NothingIsLost'
  <2>1. /\ \A u, v \in Worker : Open(u, "flush") /\ Open(v, "flush") => u = v
        /\ \A v \in Worker : Open(v, "flush") =>
             outbox # <<>> /\ Head(outbox).event = txn[v].event
        /\ Events(outbox) \cap confirmed = {}
        /\ captured \subseteq Events(outbox) \cup InHand \cup reached \cup shed
    BY <1>9, <1>18 DEF ExtensionInv, NothingIsLost
  <2>2. ASSUME NEW v \in Worker, Open(v, "flush")'
        PROVE  outbox' # <<>> /\ Head(outbox').event = txn'[v].event
    <3>1. Sending("flush") /\ outbox # <<>> /\ Head(outbox).event = txn[v].event
      BY <1>12, <2>1, <2>2 DEF Sending
    <3> QED
      BY <1>9, <1>12, <1>18, <2>2, <3>1
  <2>3. Events(outbox') \cap confirmed' = {}
    BY <1>4, <1>7, <1>9, <2>1
  <2>4. captured' \subseteq Events(outbox') \cup InHand' \cup reached' \cup shed'
    BY <1>2, <1>5, <1>7, <1>9, <2>1
  <2> QED
    BY <1>12, <2>1, <2>2, <2>3, <2>4 DEF NothingIsLost
<1> QED
    BY <1>2, <1>6, <1>9, <1>10, <1>13, <1>14, <1>15, <1>16, <1>17, <1>18 DEF ExtensionInv

LEMMA FlushBeginsStep ==
    ASSUME UplinkTypeOK, OneOpen, ExtensionInv, NEW w \in Worker, FlushBegins(w)
    PROVE  UplinkTypeOK' /\ OneOpen' /\ client' = client /\ ExtensionInv'
<1>1. PICK e : e = Head(outbox).event
    OBVIOUS
<1> DEFINE t == [op |-> "flush", event |-> e]
<1>2. /\ Begin(w, t) /\ outbox # <<>>
      /\ disturbed' = (disturbed \/ Sending("flush"))
      /\ client' = client /\ enabled' = enabled /\ outbox' = outbox /\ captured' = captured
      /\ reached' = reached /\ confirmed' = confirmed /\ shed' = shed
    BY <1>1 DEF FlushBegins
<1>3. e \in Events(outbox) /\ e \in Report /\ e \in captured
    BY <1>1, <1>2, UplinkTypes, TailEvents DEF ExtensionInv
<1>4. t \in UplinkTxn /\ t.op = "flush" /\ t.event = e
    BY <1>3 DEF UplinkTxn
<1>5. txn' = [txn EXCEPT ![w] = t] /\ txn[w] = Idle /\ OneOpen'
    BY <1>2, UplinkTypes, BeginKeepsOne DEF Begin, Free
<1> HIDE DEF t
<1>6. /\ txn' \in [Worker -> UplinkTxn] /\ txn'[w] = t
      /\ \A v \in Worker : v # w => txn'[v] = txn[v]
      /\ InHand \subseteq InHand'
    BY <1>4, <1>5, HandsAfter, NoneHeld
<1>7. UplinkTypeOK'
    BY <1>2, <1>6, UplinkTypes DEF UplinkTypeOK
<1>8. \A v \in Worker : Holds(v)' => v # w /\ Holds(v) /\ txn'[v] = txn[v]
    BY <1>4, <1>6 DEF Holds
<1>9. \A v \in Worker : Open(v, "flush")' =>
        IF v = w THEN txn'[v].event = e ELSE Open(v, "flush") /\ txn'[v] = txn[v]
    BY <1>4, <1>6 DEF Open
<1>10. /\ \A v \in Worker : txn'[v].op \in {"idle", "send", "flush"}
       /\ Unique(outbox') /\ Events(outbox') \subseteq captured' /\ Len(outbox') <= MaxQueue
    BY <1>2, <1>4, <1>6 DEF ExtensionInv
<1>11. \A v \in Worker : Holds(v)' =>
         txn'[v].event \in captured' \ (Events(outbox') \cup confirmed')
    BY <1>2, <1>8 DEF ExtensionInv
<1>12. HeldApart'
    BY <1>8 DEF ExtensionInv, HeldApart
<1>13. \A u \in Worker : Open(u, "flush")' =>
         /\ txn'[u].event \in captured'
         /\ \A v \in Worker : Holds(v)' => txn'[v].event # txn'[u].event
    BY <1>2, <1>3, <1>8, <1>9 DEF ExtensionInv
<1>14. ASSUME ~disturbed'
       PROVE  /\ \A u, v \in Worker : Open(u, "flush")' /\ Open(v, "flush")' => u = v
              /\ \A v \in Worker : Open(v, "flush")' =>
                   outbox' # <<>> /\ Head(outbox').event = txn'[v].event
              /\ Events(outbox') \cap confirmed' = {}
              /\ NothingIsLost'
  <2>1. ~disturbed /\ \A v \in Worker : ~Open(v, "flush")
    BY <1>2, <1>14 DEF Sending
  <2>2. /\ Events(outbox) \cap confirmed = {}
        /\ captured \subseteq Events(outbox) \cup InHand \cup reached \cup shed
    BY <2>1 DEF ExtensionInv, NothingIsLost
  <2>3. \A v \in Worker : Open(v, "flush")' => v = w /\ txn'[v].event = e
    BY <1>9, <2>1
  <2>4. captured' \subseteq Events(outbox') \cup InHand' \cup reached' \cup shed'
    BY <1>2, <1>6, <2>2
  <2> QED
    BY <1>1, <1>2, <2>2, <2>3, <2>4 DEF NothingIsLost
<1> QED
    BY <1>2, <1>5, <1>7, <1>10, <1>11, <1>12, <1>13, <1>14 DEF ExtensionInv

(* What the flush takes from the queue is what it has sent, unless the queue was
   disturbed. *)
LEMMA FlushSentStep ==
    ASSUME UplinkTypeOK, OneOpen, ExtensionInv,
           NEW w \in Worker, NEW got \in BOOLEAN, NEW heard \in BOOLEAN,
           FlushSent(w, got, heard)
    PROVE  UplinkTypeOK' /\ OneOpen' /\ client' = client /\ ExtensionInv'
<1>1. PICK e : e = txn[w].event
    OBVIOUS
<1>2. /\ Open(w, "flush") /\ Sent(e, got, heard) /\ outbox' = AfterFlush(heard)
      /\ client' = client /\ enabled' = enabled /\ captured' = captured
      /\ shed' = shed /\ disturbed' = disturbed
    BY <1>1 DEF FlushSent
<1>3. e \in captured /\ e \in Report /\ txn[w] # Idle /\ ~Holds(w)
    BY <1>1, <1>2, UplinkTypes, OpenIsNotIdle DEF ExtensionInv, Holds, Open
<1>4. /\ reached \subseteq reached' /\ reached' \subseteq reached \cup {e}
      /\ confirmed' \subseteq confirmed \cup {e}
      /\ reached' \subseteq captured /\ confirmed' \subseteq reached'
      /\ IF heard THEN e \in reached' ELSE confirmed' = confirmed
    BY <1>2, <1>3, SentFacts
<1>5. /\ Unique(outbox) /\ Events(outbox) \subseteq captured /\ Len(outbox) <= MaxQueue
      /\ HeldApart
      /\ \A v \in Worker : txn[v].op \in {"idle", "send", "flush"}
      /\ outbox \in Seq(QueueItem)
    BY UplinkTypes DEF ExtensionInv
<1>6. /\ outbox' \in Seq(QueueItem) /\ Len(outbox') <= MaxQueue /\ Unique(outbox')
      /\ Events(outbox') \subseteq Events(outbox)
      /\ IF heard /\ outbox # <<>>
         THEN /\ Head(outbox).event \notin Events(outbox')
              /\ Events(outbox) \subseteq Events(outbox') \cup {Head(outbox).event}
         ELSE outbox' = outbox
  <2>1. CASE heard /\ outbox # <<>>
    <3>1. outbox' = Tail(outbox)
      BY <1>2, <2>1 DEF AfterFlush
    <3>2. /\ Tail(outbox) \in Seq(QueueItem) /\ Len(Tail(outbox)) = Len(outbox) - 1
          /\ Events(outbox) = {Head(outbox).event} \cup Events(Tail(outbox))
          /\ Unique(Tail(outbox)) /\ Head(outbox).event \notin Events(Tail(outbox))
      BY <1>5, <2>1, TailEvents
    <3>3. Len(outbox') <= MaxQueue
      <4>1. PICK n \in Nat : n = Len(outbox)
        BY <1>5, QueueFacts
      <4>2. Len(outbox') = n - 1 /\ n <= MaxQueue
        BY <1>5, <3>1, <3>2, <4>1
      <4> QED
        BY <4>2, UplinkAssumption
    <3> QED
      BY <2>1, <3>1, <3>2, <3>3
  <2>2. CASE ~(heard /\ outbox # <<>>)
    BY <1>2, <1>5, <2>2 DEF AfterFlush
  <2> QED
    BY <2>1, <2>2
<1>7. PICK t \in UplinkTxn :
        /\ txn' = [txn EXCEPT ![w] = t]
        /\ IF heard /\ outbox' # <<>>
           THEN t.op = "flush" /\ t.event = Head(outbox').event ELSE t = Idle
  <2>1. CASE heard /\ outbox' # <<>>
    <3>1. PICK h : h = Head(outbox').event
      OBVIOUS
    <3>2. h \in Report
      BY <1>6, <2>1, <3>1, TailEvents DEF QueueItem
    <3>3. PICK t : t = [op |-> "flush", event |-> h]
      OBVIOUS
    <3>4. t \in UplinkTxn /\ t.op = "flush" /\ t.event = h
      BY <3>2, <3>3 DEF UplinkTxn
    <3>5. txn' = [txn EXCEPT ![w] = t]
      BY <2>1, <3>1, <3>3 DEF FlushSent, Continue
    <3> QED
      BY <2>1, <3>1, <3>4, <3>5
  <2>2. CASE ~(heard /\ outbox' # <<>>)
    BY <2>2, UplinkTypes DEF FlushSent, End
  <2> QED
    BY <2>1, <2>2
<1>8. OneOpen'
  <2>1. CASE heard /\ outbox' # <<>>
    BY <1>3, <2>1, UplinkTypes, ContinueKeepsOne DEF FlushSent
  <2>2. CASE ~(heard /\ outbox' # <<>>)
    BY <2>2, UplinkTypes, EndKeepsOne DEF FlushSent
  <2> QED
    BY <2>1, <2>2
<1>9. /\ txn' \in [Worker -> UplinkTxn] /\ txn'[w] = t
      /\ \A v \in Worker : v # w => txn'[v] = txn[v]
      /\ InHand \subseteq InHand'
    BY <1>3, <1>7, HandsAfter
<1>10. UplinkTypeOK'
    BY <1>2, <1>4, <1>6, <1>9, UplinkTypes DEF UplinkTypeOK
<1>11. t.op \in {"idle", "flush"}
    BY <1>7, IdleOp
<1>12. \A v \in Worker : Holds(v)' => v # w /\ Holds(v) /\ txn'[v] = txn[v]
    BY <1>9, <1>11 DEF Holds
<1>13. \A v \in Worker : Open(v, "flush")' =>
         IF v = w THEN heard /\ outbox' # <<>> /\ txn'[v].event = Head(outbox').event
         ELSE Open(v, "flush") /\ txn'[v] = txn[v]
    BY <1>7, <1>9, IdleOp DEF Open
<1>14. \A v \in Worker : txn'[v].op \in {"idle", "send", "flush"}
    BY <1>5, <1>9, <1>11
<1>15. outbox' # <<>> => Head(outbox').event \in Events(outbox')
    BY <1>6, TailEvents
<1>16. \A v \in Worker : Holds(v)' =>
         txn'[v].event \in captured' \ (Events(outbox') \cup confirmed')
    BY <1>1, <1>2, <1>4, <1>6, <1>12 DEF ExtensionInv
<1>17. HeldApart'
    BY <1>12 DEF ExtensionInv, HeldApart
<1>18. ASSUME NEW u \in Worker, Open(u, "flush")'
       PROVE  /\ txn'[u].event \in captured'
              /\ \A v \in Worker : Holds(v)' => txn'[v].event # txn'[u].event
  <2>1. CASE u = w
    BY <1>2, <1>5, <1>6, <1>13, <1>15, <1>16, <1>18, <2>1
  <2>2. CASE u # w
    BY <1>2, <1>12, <1>13, <1>18, <2>2 DEF ExtensionInv
  <2> QED
    BY <2>1, <2>2
<1>19. ASSUME ~disturbed'
       PROVE  /\ \A u, v \in Worker : Open(u, "flush")' /\ Open(v, "flush")' => u = v
              /\ \A v \in Worker : Open(v, "flush")' =>
                   outbox' # <<>> /\ Head(outbox').event = txn'[v].event
              /\ Events(outbox') \cap confirmed' = {}
              /\ NothingIsLost'
  <2>1. /\ \A u, v \in Worker : Open(u, "flush") /\ Open(v, "flush") => u = v
        /\ outbox # <<>> /\ Head(outbox).event = e
        /\ Events(outbox) \cap confirmed = {}
        /\ captured \subseteq Events(outbox) \cup InHand \cup reached \cup shed
    BY <1>1, <1>2, <1>19 DEF ExtensionInv, NothingIsLost
  <2>2. \A v \in Worker : Open(v, "flush")' =>
          v = w /\ outbox' # <<>> /\ Head(outbox').event = txn'[v].event
    BY <1>2, <1>13, <2>1
  <2>3. Events(outbox') \cap confirmed' = {}
    BY <1>4, <1>6, <2>1
  <2>4. captured' \subseteq Events(outbox') \cup InHand' \cup reached' \cup shed'
    BY <1>2, <1>4, <1>6, <1>9, <2>1
  <2> QED
    BY <2>2, <2>3, <2>4 DEF NothingIsLost
<1>20. Events(outbox') \subseteq captured'
    BY <1>2, <1>5, <1>6
<1> QED
    BY <1>2, <1>6, <1>8, <1>10, <1>14, <1>16, <1>17, <1>18, <1>19, <1>20 DEF ExtensionInv

LEMMA ToggledStep ==
    ASSUME UplinkInv, Toggled
    PROVE  UplinkInv'
<1>1. /\ client = "extension" /\ client' = client /\ enabled' = ~enabled
      /\ outbox' = outbox /\ captured' = captured /\ reached' = reached
      /\ confirmed' = confirmed /\ shed' = shed /\ disturbed' = disturbed
      /\ txn' = txn /\ overlap' = overlap
    BY DEF Toggled, sessions
<1>2. UplinkTypeOK' /\ OneOpen'
    BY <1>1 DEF UplinkInv, UplinkTypeOK, OneOpen
<1>3. ExtensionInv'
    BY <1>1 DEF UplinkInv, ExtensionInv, Holds, HeldApart, Open, NothingIsLost, InHand
<1> QED
    BY <1>1, <1>2, <1>3 DEF UplinkInv

-----------------------------------------------------------------------------
(* The cache: the room first. *)
LEMMA NotAllOfThem ==
    ASSUME NEW A, A \subseteq Worker, NEW w \in Worker, w \notin A
    PROVE  /\ Cardinality(A) \in Nat /\ Cardinality(Worker) \in Nat
           /\ Cardinality(A) <= Cardinality(Worker) - 1
           /\ Cardinality(A \cup {w}) = Cardinality(A) + 1
<1>1. IsFiniteSet(Worker) /\ IsFiniteSet(A) /\ Cardinality(A) \in Nat /\ Cardinality(Worker) \in Nat
    BY UplinkAssumption, FS_Subset, FS_CardinalityType
<1>2. IsFiniteSet(A \cup {w}) /\ Cardinality(A \cup {w}) = Cardinality(A) + 1
    BY <1>1, FS_AddElement
<1>3. Cardinality(A \cup {w}) <= Cardinality(Worker)
  <2>1. A \cup {w} \subseteq Worker
    OBVIOUS
  <2> QED
    BY <1>1, <2>1, PartCount
<1> QED
    BY <1>1, <1>2, <1>3

LEMMA SlackForOthers ==
    ASSUME NEW A, A \subseteq Worker, NEW w \in Worker, w \notin A, ~overlap => A = {}
    PROVE  Cardinality(A) <= Slack
<1>1. CASE overlap
    BY <1>1, NotAllOfThem DEF Slack
<1>2. CASE ~overlap
    BY <1>2, FS_EmptySet DEF Slack
<1> QED
    BY <1>1, <1>2

LEMMA RoomTypes ==
    ASSUME UplinkTypeOK
    PROVE  /\ Len(outbox) \in Nat /\ MaxQueue \in Nat /\ MaxQueue >= 1
           /\ Adding \subseteq Worker /\ IsFiniteSet(Adding) /\ Cardinality(Adding) \in Nat
           /\ Cardinality(Worker) \in Nat /\ Slack \in Int
           /\ Slack <= Cardinality(Worker)
           /\ \A w \in Worker : Open(w, "evict") =>
                txn[w].count \in Nat /\ txn[w].count <= MaxQueue + Cardinality(Worker)
<1>1. Len(outbox) \in Nat /\ MaxQueue \in Nat /\ MaxQueue >= 1
    BY UplinkTypes, QueueFacts, UplinkAssumption
<1>2. Adding \subseteq Worker
    BY DEF Adding
<1>3. /\ IsFiniteSet(Adding) /\ Cardinality(Adding) \in Nat
      /\ Cardinality(Worker) \in Nat
    BY <1>2, UplinkAssumption, FS_Subset, FS_CardinalityType
<1>4. Slack \in Int /\ Slack <= Cardinality(Worker)
    BY <1>3 DEF Slack
<1>5. ASSUME NEW w \in Worker, Open(w, "evict")
      PROVE  txn[w].count \in Nat /\ txn[w].count <= MaxQueue + Cardinality(Worker)
  <2>1. txn[w].count \in 0..MaxQueue + Cardinality(Worker)
    BY <1>5, UplinkReads
  <2> QED
    BY <1>1, <1>3, <2>1
<1> QED
    BY <1>1, <1>2, <1>3, <1>4, <1>5

LEMMA RoomFollows ==
    ASSUME UplinkTypeOK, RoomIsKept, overlap' = overlap,
           NEW l \in Nat, l = Len(outbox'), NEW n \in Nat, n = Cardinality(Adding'),
           l + n <= Len(outbox) + Cardinality(Adding),
           \A v \in Worker : Open(v, "evict")' => Open(v, "evict") /\ txn'[v] = txn[v]
    PROVE  RoomIsKept'
<1>1. PICK L, A, S : L = Len(outbox) /\ A = Cardinality(Adding) /\ S = Slack
    OBVIOUS
<1>2. L \in Nat /\ A \in Nat /\ S \in Int /\ MaxQueue \in Nat
    BY <1>1, RoomTypes
<1>3. Slack' = S
    BY <1>1 DEF Slack
<1>4. L + A <= MaxQueue + S /\ l + n <= L + A
    BY <1>1 DEF RoomIsKept
<1>5. l + n <= MaxQueue + S
    BY <1>2, <1>4
<1>6. ASSUME NEW v \in Worker, Open(v, "evict")'
      PROVE  txn'[v].count >= MaxQueue /\ l + n <= txn'[v].count + S
  <2>1. Open(v, "evict") /\ txn'[v] = txn[v]
    BY <1>6
  <2>2. PICK c \in Nat : c = txn[v].count
    BY <2>1, RoomTypes
  <2>3. c >= MaxQueue /\ L + A <= c + S
    BY <1>1, <2>1, <2>2 DEF RoomIsKept
  <2>4. l + n <= c + S
    BY <1>2, <1>4, <2>2, <2>3
  <2> QED
    BY <2>1, <2>2, <2>3, <2>4
<1> QED
    BY <1>3, <1>5, <1>6 DEF RoomIsKept

LEMMA SameAdders ==
    ASSUME UplinkTypeOK, NEW w \in Worker, ~Open(w, "add"), ~Open(w, "add")',
           \A v \in Worker : v # w => txn'[v] = txn[v]
    PROVE  Adding' = Adding
BY DEF Adding, Open

LEMMA OneMoreAdder ==
    ASSUME UplinkTypeOK, NEW w \in Worker, ~Open(w, "add"), Open(w, "add")',
           \A v \in Worker : v # w => txn'[v] = txn[v]
    PROVE  Adding' = Adding \cup {w}
BY DEF Adding, Open

LEMMA OneAdderLess ==
    ASSUME UplinkTypeOK, NEW w \in Worker, Open(w, "add"), ~Open(w, "add")',
           \A v \in Worker : v # w => txn'[v] = txn[v]
    PROVE  Adding' = Adding \ {w}
BY DEF Adding, Open

LEMMA AddCountsRoom ==
    ASSUME UplinkTypeOK, OneOpen, RoomIsKept, NEW w \in Worker, NEW e, AddCounts(w, e),
           \A v \in Worker : v # w => txn'[v] = txn[v],
           txn'[w] = [op |-> IF Len(outbox) >= MaxQueue THEN "evict" ELSE "add",
                      event |-> e, count |-> Len(outbox)]
    PROVE  RoomIsKept'
<1>1. PICK L, A, S : L = Len(outbox) /\ A = Adding /\ S = Slack
    OBVIOUS
<1>2. /\ L \in Nat /\ Cardinality(A) \in Nat /\ S \in Int /\ MaxQueue \in Nat
      /\ A \subseteq Worker
    BY <1>1, RoomTypes
<1>3. outbox' = outbox /\ overlap' = overlap /\ Slack' = S /\ Free(w)
    BY <1>1 DEF AddCounts, Begin, Slack
<1>4. txn[w] = Idle /\ w \notin A
    BY <1>1, <1>3, IdleOp DEF Free, Adding, Open
<1>5. ~overlap => A = {} /\ \A v \in Worker : txn[v] = Idle
    BY <1>1, <1>3, IdleOp DEF Free, Adding, Open
<1>6. Cardinality(A) <= S
    BY <1>1, <1>2, <1>4, <1>5, SlackForOthers
<1>7. ~Open(w, "add")
    BY <1>4, IdleOp DEF Open
<1>8. L + Cardinality(A) <= MaxQueue + S
    BY <1>1 DEF RoomIsKept
<1>9. CASE L >= MaxQueue
  <2>1. Open(w, "evict")' /\ ~Open(w, "add")' /\ txn'[w].count = L
    BY <1>1, <1>9 DEF Open
  <2>2. Adding' = A
    BY <1>1, <1>7, <2>1, SameAdders
  <2>3. ASSUME NEW v \in Worker, Open(v, "evict")'
        PROVE  txn'[v].count >= MaxQueue /\ L + Cardinality(A) <= txn'[v].count + S
    <3>1. CASE v = w
      BY <1>2, <1>6, <1>9, <2>1, <3>1
    <3>2. CASE v # w
      BY <1>1, <2>3, <3>2 DEF RoomIsKept, Open
    <3> QED
      BY <3>1, <3>2
  <2> QED
    BY <1>1, <1>3, <1>8, <2>2, <2>3 DEF RoomIsKept
<1>10. CASE L < MaxQueue
  <2>1. Open(w, "add")' /\ ~Open(w, "evict")'
    BY <1>1, <1>2, <1>10 DEF Open
  <2>2. PICK B : B = A \cup {w}
    OBVIOUS
  <2>3. Adding' = B
    BY <1>1, <1>7, <2>1, <2>2, OneMoreAdder
  <2>4. Cardinality(B) = Cardinality(A) + 1 /\ B \subseteq Worker
    BY <1>2, <1>4, <2>2, NotAllOfThem
  <2>5. L + Cardinality(B) <= MaxQueue + S
    BY <1>2, <1>6, <1>10, <2>4
  <2>6. ASSUME NEW v \in Worker, Open(v, "evict")'
        PROVE  txn'[v].count >= MaxQueue /\ L + Cardinality(B) <= txn'[v].count + S
    <3>1. v # w /\ Open(v, "evict") /\ txn'[v] = txn[v]
      BY <2>1, <2>6 DEF Open
    <3>2. overlap
      BY <1>5, <3>1, OpenIsNotIdle
    <3>3. v \notin B
      BY <1>1, <2>2, <3>1 DEF Adding, Open
    <3>4. Cardinality(B) <= S
      BY <1>1, <2>4, <3>2, <3>3, SlackForOthers
    <3>5. PICK c \in Nat : c = txn[v].count
      BY <3>1, RoomTypes
    <3>6. c >= MaxQueue
      BY <3>1, <3>5 DEF RoomIsKept
    <3>7. L + Cardinality(B) <= c + S
      BY <1>2, <1>10, <2>4, <3>4, <3>5, <3>6
    <3> QED
      BY <3>1, <3>5, <3>6, <3>7
  <2> QED
    BY <1>1, <1>3, <2>3, <2>5, <2>6 DEF RoomIsKept
<1> QED
    BY <1>2, <1>9, <1>10

LEMMA EvictNumber ==
    ASSUME UplinkTypeOK, RoomIsKept, NEW w \in Worker, Open(w, "evict"),
           NEW c, c = txn[w].count, NEW n, n = ToEvict(c)
    PROVE  /\ c \in Nat /\ c >= MaxQueue /\ n \in Nat /\ n <= Len(outbox)
           /\ n = IF c - MaxQueue + 1 <= Len(outbox) THEN c - MaxQueue + 1 ELSE Len(outbox)
<1>1. c \in Nat /\ c >= MaxQueue /\ MaxQueue \in Nat /\ Len(outbox) \in Nat
    BY RoomTypes DEF RoomIsKept
<1>2. PICK d, L : d = c - MaxQueue + 1 /\ L = Len(outbox)
    OBVIOUS
<1>3. d \in Nat /\ L \in Nat
    BY <1>1, <1>2
<1>4. n = Min({d, L})
    BY <1>2 DEF ToEvict
<1>5. n = IF d <= L THEN d ELSE L
  <2>1. d \in Int /\ L \in Int
    BY <1>3
  <2> QED
    BY <1>4, <2>1, MinOfTwo
<1>6. n \in Nat /\ n <= L
    BY <1>3, <1>5
<1> QED
    BY <1>1, <1>2, <1>5, <1>6

LEMMA AddEvictsRoom ==
    ASSUME UplinkTypeOK, OneOpen, RoomIsKept, NEW w \in Worker, Open(w, "evict"),
           NEW n, n = ToEvict(txn[w].count), Len(outbox') = Len(outbox) - n,
           overlap' = overlap, Open(w, "add")', \A v \in Worker : v # w => txn'[v] = txn[v]
    PROVE  RoomIsKept'
<1>1. PICK L, A, S, c, B : /\ L = Len(outbox) /\ A = Adding /\ S = Slack
                           /\ c = txn[w].count /\ B = A \cup {w}
    OBVIOUS
<1>2. /\ L \in Nat /\ Cardinality(A) \in Nat /\ S \in Int
      /\ MaxQueue \in Nat /\ MaxQueue >= 1 /\ A \subseteq Worker
    BY <1>1, RoomTypes
<1>3. Slack' = S
    BY <1>1 DEF Slack
<1>4. w \notin A /\ ~Open(w, "add") /\ ~Open(w, "evict")'
    BY <1>1 DEF Adding, Open
<1>5. ~overlap => A = {}
  <2> SUFFICES ASSUME ~overlap, NEW v \in A PROVE FALSE
    OBVIOUS
  <2>1. v \in Worker /\ Open(v, "add") /\ v # w
    BY <1>1, <1>4 DEF Adding
  <2> QED
    BY <2>1, OpenIsNotIdle DEF OneOpen
<1>6. Cardinality(A) <= S
    BY <1>1, <1>2, <1>4, <1>5, SlackForOthers
<1>7. Adding' = B
    BY <1>1, <1>4, OneMoreAdder
<1>8. Cardinality(B) = Cardinality(A) + 1
    BY <1>1, <1>2, <1>4, NotAllOfThem
<1>9. /\ c \in Nat /\ c >= MaxQueue /\ n \in Nat /\ n <= L
      /\ n = IF c - MaxQueue + 1 <= L THEN c - MaxQueue + 1 ELSE L
    BY <1>1, EvictNumber
<1>10. L + Cardinality(A) <= c + S
    BY <1>1 DEF RoomIsKept
<1>11. (L - n) + Cardinality(B) <= MaxQueue + S
    BY <1>2, <1>6, <1>8, <1>9, <1>10
<1>12. ASSUME NEW v \in Worker, Open(v, "evict")'
       PROVE  txn'[v].count >= MaxQueue /\ (L - n) + Cardinality(B) <= txn'[v].count + S
  <2>1. v # w /\ Open(v, "evict") /\ txn'[v] = txn[v]
    BY <1>4, <1>12 DEF Open
  <2>2. PICK k \in Nat : k = txn[v].count
    BY <2>1, RoomTypes
  <2>3. k >= MaxQueue
    BY <2>1, <2>2 DEF RoomIsKept
  <2>4. (L - n) + Cardinality(B) <= k + S
    <3>1. PICK m : m = (L - n) + Cardinality(B)
      OBVIOUS
    <3>2. m \in Int
      BY <1>2, <1>8, <1>9, <3>1
    <3>3. m <= MaxQueue + S
      BY <1>11, <3>1
    <3>4. m <= k + S
      BY <1>2, <2>2, <2>3, <3>2, <3>3
    <3> QED
      BY <3>1, <3>4
  <2> QED
    BY <2>1, <2>2, <2>3, <2>4
<1> QED
    BY <1>1, <1>3, <1>7, <1>11, <1>12 DEF RoomIsKept

LEMMA AddPutsRoom ==
    ASSUME UplinkTypeOK, RoomIsKept, NEW w \in Worker, Open(w, "add"),
           outbox' \in Seq(QueueItem), Len(outbox') = Len(outbox) + 1, overlap' = overlap,
           txn'[w] = Idle, \A v \in Worker : v # w => txn'[v] = txn[v]
    PROVE  RoomIsKept'
<1>1. PICK L, A, B : L = Len(outbox) /\ A = Adding /\ B = A \ {w}
    OBVIOUS
<1>2. L \in Nat /\ A \subseteq Worker /\ w \in A
    BY <1>1, RoomTypes DEF Adding
<1>3. ~Open(w, "add")' /\ ~Open(w, "evict")'
    BY IdleOp DEF Open
<1>4. Adding' = B
    BY <1>1, <1>3, OneAdderLess
<1>5. B \subseteq Worker /\ w \notin B /\ B \cup {w} = A
    BY <1>1, <1>2
<1>6. Cardinality(A) = Cardinality(B) + 1 /\ Cardinality(B) \in Nat
    BY <1>5, NotAllOfThem
<1>7. PICK l, n : l = Len(outbox') /\ n = Cardinality(Adding')
    OBVIOUS
<1>8. l \in Nat /\ n \in Nat /\ l + n <= L + Cardinality(A)
    BY <1>1, <1>2, <1>4, <1>6, <1>7
<1>9. \A v \in Worker : Open(v, "evict")' => Open(v, "evict") /\ txn'[v] = txn[v]
    BY <1>3 DEF Open
<1> QED
    BY <1>1, <1>7, <1>8, <1>9, RoomFollows

LEMMA LessInRoom ==
    ASSUME UplinkTypeOK, RoomIsKept, outbox' \in Seq(QueueItem), Len(outbox') <= Len(outbox),
           overlap' = overlap, Adding' \subseteq Adding,
           \A v \in Worker : Open(v, "evict")' => Open(v, "evict") /\ txn'[v] = txn[v]
    PROVE  RoomIsKept'
<1>1. PICK L, A, l, n : /\ L = Len(outbox) /\ A = Cardinality(Adding)
                        /\ l = Len(outbox') /\ n = Cardinality(Adding')
    OBVIOUS
<1>2. l \in Nat /\ L \in Nat /\ l <= L
    BY <1>1, QueueFacts, UplinkTypes
<1>3. n \in Nat /\ A \in Nat /\ n <= A
    BY <1>1, RoomTypes, PartCount
<1>4. l + n <= L + A
    BY <1>2, <1>3
<1> QED
    BY <1>1, <1>2, <1>3, <1>4, RoomFollows

-----------------------------------------------------------------------------
(* A queue with one item tried again. *)
LEMMA FunctionIsQueue ==
    ASSUME NEW n \in Nat, NEW f \in [1..n -> QueueItem]
    PROVE  f \in Seq(QueueItem) /\ Len(f) = n
OBVIOUS

LEMMA RetriedEvents ==
    ASSUME outbox \in Seq(QueueItem), NEW e
    PROVE  /\ Retried(e) \in Seq(QueueItem) /\ Len(Retried(e)) = Len(outbox)
           /\ Events(Retried(e)) = Events(outbox)
           /\ Unique(outbox) => Unique(Retried(e))
<1> DEFINE s == outbox
           t == Retried(e)
<1>1. PICK n \in Nat : n = Len(s) /\ DOMAIN s = 1..n
    BY QueueFacts
<1>2. ASSUME NEW i \in 1..n
      PROVE  t[i] \in QueueItem /\ t[i].event = s[i].event
  <2>1. s[i] \in QueueItem
    BY <1>1, QueueFacts
  <2>2. CASE s[i].event # e
    BY <1>1, <2>1, <2>2 DEF Retried
  <2>3. CASE s[i].event = e
    <3>1. PICK k : k = Min({s[i].tries + 1, MaxRetries})
      OBVIOUS
    <3>2. s[i].tries \in Nat /\ MaxRetries \in Nat
      BY <2>1, UplinkAssumption DEF QueueItem
    <3>3. k \in 0..MaxRetries
      <4>1. PICK m \in Nat : m = s[i].tries
        BY <3>2
      <4>2. m + 1 \in Int /\ MaxRetries \in Int
        BY <3>2, <4>1
      <4>3. k = IF m + 1 <= MaxRetries THEN m + 1 ELSE MaxRetries
        BY <3>1, <4>1, <4>2, MinOfTwo
      <4> QED
        BY <3>2, <4>1, <4>3
    <3>4. t[i] = [s[i] EXCEPT !.tries = k]
      BY <1>1, <2>3, <3>1 DEF Retried
    <3> QED
      BY <2>1, <3>3, <3>4 DEF QueueItem
  <2> QED
    BY <2>2, <2>3
<1>3. t \in [1..n -> QueueItem]
    BY <1>1, <1>2 DEF Retried
<1>4. t \in Seq(QueueItem) /\ Len(t) = n
    BY <1>3, FunctionIsQueue
<1> QED
    BY <1>1, <1>2, <1>4, SameEvents

(* The cache. *)
LEMMA AddCountsStep ==
    ASSUME UplinkTypeOK, OneOpen, CacheInv,
           NEW w \in Worker, NEW e \in Report, AddCounts(w, e)
    PROVE  UplinkTypeOK' /\ OneOpen' /\ client' = client /\ CacheInv'
<1>1. PICK t : t = [op |-> IF Len(outbox) >= MaxQueue THEN "evict" ELSE "add",
                    event |-> e, count |-> Len(outbox)]
    OBVIOUS
<1>2. /\ Begin(w, t) /\ e \notin captured /\ captured' = captured \cup {e}
      /\ client' = client /\ enabled' = enabled /\ outbox' = outbox /\ reached' = reached
      /\ confirmed' = confirmed /\ shed' = shed /\ disturbed' = disturbed
      /\ overlap' = overlap
    BY <1>1 DEF AddCounts, Begin
<1>3. t \in UplinkTxn /\ t.op \in {"evict", "add"} /\ t.event = e
  <2>1. Len(outbox) \in 0..MaxQueue + Cardinality(Worker)
    <3>1. PICK L, A, S, k : L = Len(outbox) /\ A = Cardinality(Adding) /\ S = Slack
                            /\ k = Cardinality(Worker)
      OBVIOUS
    <3>2. /\ L \in Nat /\ A \in Nat /\ S \in Int /\ S <= k /\ k \in Nat
          /\ MaxQueue \in Nat
      BY <3>1, RoomTypes
    <3>3. L + A <= MaxQueue + S
      BY <3>1 DEF CacheInv, RoomIsKept
    <3>4. L \in 0..MaxQueue + k
      BY <3>2, <3>3
    <3> QED
      BY <3>1, <3>4
  <2>2. t.op \in {"evict", "add"} /\ t.event = e
    BY <1>1
  <2>3. t \in [op: {"evict", "add"}, event: Report, count: 0..MaxQueue + Cardinality(Worker)]
    BY <1>1, <2>1
  <2> QED
    BY <2>2, <2>3 DEF UplinkTxn
<1>4. txn' = [txn EXCEPT ![w] = t] /\ txn[w] = Idle /\ OneOpen'
    BY <1>2, UplinkTypes, BeginKeepsOne DEF Begin, Free
<1>5. /\ txn' \in [Worker -> UplinkTxn] /\ txn'[w] = t
      /\ \A v \in Worker : v # w => txn'[v] = txn[v]
      /\ InHand \subseteq InHand' /\ e \in InHand'
    BY <1>3, <1>4, HandsAfter, NoneHeld
<1>6. UplinkTypeOK'
    BY <1>2, <1>5, UplinkTypes DEF UplinkTypeOK
<1>7. RoomIsKept'
    BY <1>1, <1>5, AddCountsRoom DEF CacheInv
<1>8. \A v \in Worker : Holds(v)' => IF v = w THEN txn'[v].event = e
                                     ELSE Holds(v) /\ txn'[v] = txn[v]
    BY <1>3, <1>5 DEF Holds
<1>9. \A v \in Worker : Open(v, "sync")' => Open(v, "sync") /\ txn'[v] = txn[v]
    BY <1>3, <1>5 DEF Open
<1>10. Events(outbox) \subseteq captured /\ confirmed \subseteq captured
    BY UplinkTypes DEF CacheInv
<1>11. /\ \A v \in Worker : txn'[v].op \in {"idle", "evict", "add", "sync"}
       /\ Unique(outbox') /\ Events(outbox') \subseteq captured'
    BY <1>2, <1>3, <1>5 DEF CacheInv
<1>12. \A v \in Worker : Holds(v)' => txn'[v].event \in captured' \ Events(outbox')
    BY <1>2, <1>8, <1>10 DEF CacheInv
<1>13. HeldApart'
    BY <1>2, <1>8 DEF CacheInv, HeldApart
<1>14. \A v \in Worker : Open(v, "sync")' =>
         txn'[v].rest # <<>> /\ Events(txn'[v].rest) \subseteq captured'
    BY <1>2, <1>9 DEF CacheInv
<1>15. ~overlap' => /\ Events(outbox') \cap confirmed' = {}
                    /\ \A v \in Worker : Holds(v)' => txn'[v].event \notin confirmed'
    BY <1>2, <1>8, <1>10 DEF CacheInv
<1>16. NothingIsLost'
    BY <1>2, <1>5 DEF CacheInv, NothingIsLost
<1> QED
    BY <1>2, <1>4, <1>6, <1>7, <1>11, <1>12, <1>13, <1>14, <1>15, <1>16 DEF CacheInv

LEMMA AddEvictsStep ==
    ASSUME UplinkTypeOK, OneOpen, CacheInv, NEW w \in Worker, AddEvicts(w)
    PROVE  UplinkTypeOK' /\ OneOpen' /\ client' = client /\ CacheInv'
<1>1. PICK n : n = ToEvict(txn[w].count)
    OBVIOUS
<1>2. PICK t : t = [txn[w] EXCEPT !.op = "add"]
    OBVIOUS
<1>3. PICK gone : gone = SubSeq(outbox, 1, n)
    OBVIOUS
<1>4. /\ Open(w, "evict") /\ Continue(w, t)
      /\ outbox' = SubSeq(outbox, n + 1, Len(outbox))
      /\ shed' = shed \cup Events(gone)
      /\ client' = client /\ enabled' = enabled /\ captured' = captured
      /\ reached' = reached /\ confirmed' = confirmed /\ disturbed' = disturbed
      /\ overlap' = overlap
    BY <1>1, <1>2, <1>3 DEF AddEvicts, Continue
<1>5. n \in Nat /\ n <= Len(outbox)
    BY <1>1, <1>4, EvictNumber DEF CacheInv
<1>6. /\ outbox' \in Seq(QueueItem) /\ Len(outbox') = Len(outbox) - n
      /\ Events(outbox') \subseteq Events(outbox)
      /\ Events(outbox) = Events(outbox') \cup Events(gone)
      /\ Unique(outbox) => Unique(outbox')
    BY <1>3, <1>4, <1>5, UplinkTypes, SuffixEvents
<1>7. /\ t \in UplinkTxn /\ t.op = "add" /\ t.event = txn[w].event
      /\ Holds(w) /\ txn[w] # Idle
  <2>1. txn[w] \in [op: {"evict", "add"}, event: Report,
                    count: 0..MaxQueue + Cardinality(Worker)]
    BY <1>4, UplinkReads
  <2>2. /\ t \in [op: {"evict", "add"}, event: Report,
                  count: 0..MaxQueue + Cardinality(Worker)]
        /\ t.op = "add" /\ t.event = txn[w].event
    BY <1>2, <2>1
  <2>3. Holds(w) /\ txn[w] # Idle
    BY <1>4, OpenIsNotIdle DEF Holds, Open
  <2> QED
    BY <2>2, <2>3 DEF UplinkTxn
<1>8. /\ txn' \in [Worker -> UplinkTxn] /\ txn'[w] = t
      /\ \A v \in Worker : v # w => txn'[v] = txn[v]
      /\ InHand \subseteq InHand'
  <2>1. txn' = [txn EXCEPT ![w] = t]
    BY <1>4 DEF Continue
  <2>2. /\ txn' \in [Worker -> UplinkTxn] /\ txn'[w] = t
        /\ \A v \in Worker : v # w => txn'[v] = txn[v]
        /\ InHand \subseteq InHand' \cup {txn[w].event}
        /\ t.op \in {"send", "evict", "add"} => t.event \in InHand'
    BY <1>7, <2>1, HandsAfter
  <2> QED
    BY <1>7, <2>2
<1>9. OneOpen'
    BY <1>4, <1>7, UplinkTypes, ContinueKeepsOne
<1>10. RoomIsKept'
  <2>1. Open(w, "add")'
    BY <1>7, <1>8 DEF Open
  <2> QED
    BY <1>1, <1>4, <1>6, <1>8, <2>1, AddEvictsRoom DEF CacheInv
<1>11. Unique(outbox) /\ Events(outbox) \subseteq captured /\ Events(gone) \subseteq captured
    BY <1>6 DEF CacheInv
<1>12. UplinkTypeOK'
    BY <1>4, <1>6, <1>8, <1>11, UplinkTypes DEF UplinkTypeOK
<1>13. \A v \in Worker : Holds(v)' => Holds(v) /\ txn'[v].event = txn[v].event
    BY <1>7, <1>8 DEF Holds
<1>14. \A v \in Worker : Open(v, "sync")' => Open(v, "sync") /\ txn'[v] = txn[v]
    BY <1>7, <1>8 DEF Open
<1>15. /\ \A v \in Worker : txn'[v].op \in {"idle", "evict", "add", "sync"}
       /\ Unique(outbox') /\ Events(outbox') \subseteq captured'
    BY <1>4, <1>6, <1>7, <1>8, <1>11 DEF CacheInv
<1>16. \A v \in Worker : Holds(v)' => txn'[v].event \in captured' \ Events(outbox')
    BY <1>4, <1>6, <1>13 DEF CacheInv
<1>17. HeldApart'
    BY <1>13 DEF CacheInv, HeldApart
<1>18. \A v \in Worker : Open(v, "sync")' =>
         txn'[v].rest # <<>> /\ Events(txn'[v].rest) \subseteq captured'
    BY <1>4, <1>14 DEF CacheInv
<1>19. ~overlap' => /\ Events(outbox') \cap confirmed' = {}
                    /\ \A v \in Worker : Holds(v)' => txn'[v].event \notin confirmed'
    BY <1>4, <1>6, <1>13 DEF CacheInv
<1>20. NothingIsLost'
    BY <1>4, <1>6, <1>8 DEF CacheInv, NothingIsLost
<1> QED
    BY <1>4, <1>9, <1>10, <1>12, <1>15, <1>16, <1>17, <1>18, <1>19, <1>20 DEF CacheInv

LEMMA AddPutsStep ==
    ASSUME UplinkTypeOK, OneOpen, CacheInv, NEW w \in Worker, AddPuts(w)
    PROVE  UplinkTypeOK' /\ OneOpen' /\ client' = client /\ CacheInv'
<1>1. PICK e : e = txn[w].event
    OBVIOUS
<1>2. /\ Open(w, "add") /\ End(w) /\ outbox' = Append(outbox, NewItem(e))
      /\ client' = client /\ enabled' = enabled /\ captured' = captured /\ reached' = reached
      /\ confirmed' = confirmed /\ shed' = shed /\ disturbed' = disturbed
      /\ overlap' = overlap
    BY <1>1 DEF AddPuts, End
<1>3. Holds(w)
    BY <1>2 DEF Holds, Open
<1>4. e \in captured \ Events(outbox) /\ e \in Report
    BY <1>1, <1>3, UplinkTypes DEF CacheInv
<1>5. NewItem(e) \in QueueItem /\ NewItem(e).event = e
    BY <1>4, NewItemType
<1>6. /\ outbox' \in Seq(QueueItem) /\ Len(outbox') = Len(outbox) + 1
      /\ Events(outbox') = Events(outbox) \cup {e}
      /\ Unique(outbox')
  <2>1. Unique(outbox)
    BY DEF CacheInv
  <2> QED
    BY <1>2, <1>4, <1>5, <2>1, UplinkTypes, AppendEvents
<1>7. /\ txn' \in [Worker -> UplinkTxn] /\ txn'[w] = Idle
      /\ \A v \in Worker : v # w => txn'[v] = txn[v]
      /\ InHand \subseteq InHand' \cup {e}
    BY <1>1, <1>2, UplinkTypes, HandsAfter DEF End
<1>8. OneOpen'
    BY <1>2, UplinkTypes, EndKeepsOne
<1>9. RoomIsKept'
    BY <1>2, <1>6, <1>7, AddPutsRoom DEF CacheInv
<1>10. UplinkTypeOK'
    BY <1>2, <1>6, <1>7, UplinkTypes DEF UplinkTypeOK
<1>11. \A v \in Worker : Holds(v)' => v # w /\ Holds(v) /\ txn'[v] = txn[v] /\ txn[v].event # e
    BY <1>1, <1>3, <1>7, IdleOp DEF CacheInv, Holds, HeldApart
<1>12. \A v \in Worker : Open(v, "sync")' => Open(v, "sync") /\ txn'[v] = txn[v]
    BY <1>7, IdleOp DEF Open
<1>13. /\ \A v \in Worker : txn'[v].op \in {"idle", "evict", "add", "sync"}
       /\ Events(outbox') \subseteq captured'
    BY <1>2, <1>4, <1>6, <1>7, IdleOp DEF CacheInv
<1>14. \A v \in Worker : Holds(v)' => txn'[v].event \in captured' \ Events(outbox')
    BY <1>2, <1>6, <1>11 DEF CacheInv
<1>15. HeldApart'
    BY <1>11 DEF CacheInv, HeldApart
<1>16. \A v \in Worker : Open(v, "sync")' =>
         txn'[v].rest # <<>> /\ Events(txn'[v].rest) \subseteq captured'
    BY <1>2, <1>12 DEF CacheInv
<1>17. ~overlap' => /\ Events(outbox') \cap confirmed' = {}
                    /\ \A v \in Worker : Holds(v)' => txn'[v].event \notin confirmed'
    BY <1>1, <1>2, <1>3, <1>6, <1>11 DEF CacheInv
<1>18. NothingIsLost'
    BY <1>2, <1>6, <1>7 DEF CacheInv, NothingIsLost
<1> QED
    BY <1>2, <1>6, <1>8, <1>9, <1>10, <1>13, <1>14, <1>15, <1>16, <1>17, <1>18 DEF CacheInv

LEMMA SyncBeginsStep ==
    ASSUME UplinkTypeOK, OneOpen, CacheInv, NEW w \in Worker, SyncBegins(w)
    PROVE  UplinkTypeOK' /\ OneOpen' /\ client' = client /\ CacheInv'
<1>1. PICK t : t = [op |-> "sync", rest |-> outbox]
    OBVIOUS
<1>2. /\ Begin(w, t) /\ outbox # <<>>
      /\ client' = client /\ enabled' = enabled /\ outbox' = outbox /\ captured' = captured
      /\ reached' = reached /\ confirmed' = confirmed /\ shed' = shed
      /\ disturbed' = disturbed /\ overlap' = overlap
    BY <1>1 DEF SyncBegins, uplinkTables, Begin
<1>3. t \in UplinkTxn /\ t.op = "sync" /\ t.rest = outbox
  <2>1. t \in [op: {"sync"}, rest: Seq(QueueItem)]
    BY <1>1, UplinkTypes
  <2> QED
    BY <1>1, <2>1 DEF UplinkTxn
<1>4. txn' = [txn EXCEPT ![w] = t] /\ txn[w] = Idle /\ OneOpen'
    BY <1>2, UplinkTypes, BeginKeepsOne DEF Begin, Free
<1>5. /\ txn' \in [Worker -> UplinkTxn] /\ txn'[w] = t
      /\ \A v \in Worker : v # w => txn'[v] = txn[v]
      /\ InHand \subseteq InHand'
    BY <1>3, <1>4, HandsAfter, NoneHeld
<1>6. UplinkTypeOK'
    BY <1>2, <1>5, UplinkTypes DEF UplinkTypeOK
<1>7. RoomIsKept'
  <2>1. Adding' = Adding
    BY <1>3, <1>4, <1>5, IdleOp, SameAdders DEF Open
  <2>2. \A v \in Worker : Open(v, "evict")' => Open(v, "evict") /\ txn'[v] = txn[v]
    BY <1>3, <1>5 DEF Open
  <2>3. Len(outbox') <= Len(outbox)
    BY <1>2, RoomTypes
  <2> QED
    BY <1>2, <2>1, <2>2, <2>3, UplinkTypes, LessInRoom DEF CacheInv
<1>8. \A v \in Worker : Holds(v)' => Holds(v) /\ txn'[v] = txn[v]
    BY <1>3, <1>5 DEF Holds
<1>9. \A v \in Worker : Open(v, "sync")' =>
        IF v = w THEN txn'[v].rest = outbox ELSE Open(v, "sync") /\ txn'[v] = txn[v]
    BY <1>3, <1>5 DEF Open
<1>10. /\ \A v \in Worker : txn'[v].op \in {"idle", "evict", "add", "sync"}
       /\ Unique(outbox') /\ Events(outbox') \subseteq captured'
    BY <1>2, <1>3, <1>5 DEF CacheInv
<1>11. \A v \in Worker : Holds(v)' => txn'[v].event \in captured' \ Events(outbox')
    BY <1>2, <1>8 DEF CacheInv
<1>12. HeldApart'
    BY <1>8 DEF CacheInv, HeldApart
<1>13. \A v \in Worker : Open(v, "sync")' =>
         txn'[v].rest # <<>> /\ Events(txn'[v].rest) \subseteq captured'
    BY <1>2, <1>9 DEF CacheInv
<1>14. ~overlap' => /\ Events(outbox') \cap confirmed' = {}
                    /\ \A v \in Worker : Holds(v)' => txn'[v].event \notin confirmed'
    BY <1>2, <1>8 DEF CacheInv
<1>15. NothingIsLost'
    BY <1>2, <1>5 DEF CacheInv, NothingIsLost
<1> QED
    BY <1>2, <1>4, <1>6, <1>7, <1>10, <1>11, <1>12, <1>13, <1>14, <1>15 DEF CacheInv

(* A sync goes on with the copy it has made, and takes from the store what it has
   sent or given up, if that is still there. *)
LEMMA SyncSendsStep ==
    ASSUME UplinkTypeOK, OneOpen, CacheInv,
           NEW w \in Worker, NEW got \in BOOLEAN, NEW heard \in BOOLEAN,
           SyncSends(w, got, heard)
    PROVE  UplinkTypeOK' /\ OneOpen' /\ client' = client /\ CacheInv'
<1>1. PICK rest : rest = txn[w].rest
    OBVIOUS
<1>2. PICK e : e = Head(rest).event
    OBVIOUS
<1>3. /\ Open(w, "sync") /\ client' = client /\ enabled' = enabled
      /\ captured' = captured /\ disturbed' = disturbed
    BY DEF SyncSends
<1>4. /\ txn[w] \in [op: {"sync"}, rest: Seq(QueueItem)] /\ rest \in Seq(QueueItem)
      /\ rest # <<>> /\ Events(rest) \subseteq captured
    BY <1>1, <1>3, UplinkReads DEF CacheInv
<1>5. /\ e \in captured /\ Tail(rest) \in Seq(QueueItem)
      /\ Events(Tail(rest)) \subseteq captured
      /\ Len(rest) # 1 => Tail(rest) # <<>>
    BY <1>2, <1>4, TailEvents
<1>6. /\ Unique(outbox) /\ Events(outbox) \subseteq captured
      /\ outbox \in Seq(QueueItem) /\ Len(outbox) \in Nat
    BY UplinkTypes, QueueFacts DEF CacheInv
<1>7. PICK left : left = WithoutEvent(e)
    OBVIOUS
<1>8. /\ left \in Seq(QueueItem) /\ Len(left) <= Len(outbox) /\ Unique(left)
      /\ Events(left) \subseteq Events(outbox)
      /\ Events(outbox) \subseteq Events(left) \cup {e} /\ e \notin Events(left)
    BY <1>6, <1>7, WithoutEvents
<1>9. /\ outbox' \in Seq(QueueItem) /\ Len(outbox') <= Len(outbox) /\ Unique(outbox')
      /\ Events(outbox') \subseteq Events(outbox)
      /\ Events(outbox) \subseteq Events(outbox') \cup reached' \cup shed'
      /\ reached \subseteq reached' /\ reached' \subseteq captured
      /\ confirmed' \subseteq reached' /\ shed \subseteq shed' /\ shed' \subseteq captured
      /\ confirmed' \subseteq confirmed \cup {e}
      /\ e \in Events(outbox') => confirmed' = confirmed
  <2>1. CASE Head(rest).tries >= MaxRetries
    <3>1. /\ outbox' = left /\ shed' = shed \cup {e}
          /\ reached' = reached /\ confirmed' = confirmed
      BY <1>1, <1>2, <1>7, <2>1 DEF SyncSends
    <3> QED
      BY <1>5, <1>8, <3>1, UplinkTypes
  <2>2. CASE ~(Head(rest).tries >= MaxRetries)
    <3>1. PICK again : again = Retried(e)
      OBVIOUS
    <3>2. /\ Sent(e, got, heard) /\ shed' = shed
          /\ outbox' = IF heard THEN left ELSE again
      BY <1>1, <1>2, <1>7, <2>2, <3>1 DEF SyncSends
    <3>3. /\ reached \subseteq reached' /\ confirmed' \subseteq confirmed \cup {e}
          /\ reached' \subseteq captured /\ confirmed' \subseteq reached'
          /\ IF heard THEN e \in reached' ELSE confirmed' = confirmed
      BY <1>5, <3>2, SentFacts
    <3>4. /\ again \in Seq(QueueItem) /\ Len(again) = Len(outbox)
          /\ Events(again) = Events(outbox) /\ Unique(again)
      BY <1>6, <3>1, RetriedEvents
    <3>5. CASE heard
      BY <1>8, <3>2, <3>3, <3>5, UplinkTypes
    <3>6. CASE ~heard
      BY <1>6, <3>2, <3>3, <3>4, <3>6, UplinkTypes
    <3> QED
      BY <3>5, <3>6
  <2> QED
    BY <2>1, <2>2
<1>10. PICK t \in UplinkTxn :
         /\ txn' = [txn EXCEPT ![w] = t]
         /\ t = Idle \/ (t.op = "sync" /\ t.rest = Tail(rest) /\ Tail(rest) # <<>>)
  <2>1. CASE Len(rest) = 1
    <3>1. End(w)
      BY <1>1, <2>1 DEF SyncSends
    <3> QED
      BY <3>1, UplinkTypes DEF End
  <2>2. CASE Len(rest) # 1
    <3>1. PICK t : t = [txn[w] EXCEPT !.rest = Tail(rest)]
      OBVIOUS
    <3>2. t \in [op: {"sync"}, rest: Seq(QueueItem)] /\ t.rest = Tail(rest)
      BY <1>4, <1>5, <3>1
    <3>3. txn' = [txn EXCEPT ![w] = t]
      BY <1>1, <1>4, <2>2, <3>1 DEF SyncSends, Continue
    <3> QED
      BY <1>5, <2>2, <3>2, <3>3 DEF UplinkTxn
  <2> QED
    BY <2>1, <2>2
<1>11. OneOpen' /\ overlap' = overlap
  <2>1. CASE Len(rest) = 1
    BY <1>1, <2>1, UplinkTypes, EndKeepsOne DEF SyncSends, End
  <2>2. CASE Len(rest) # 1
    BY <1>1, <1>3, <2>2, OpenIsNotIdle, UplinkTypes, ContinueKeepsOne DEF SyncSends, Continue
  <2> QED
    BY <2>1, <2>2
<1>12. ~Holds(w) /\ ~Open(w, "add") /\ txn[w] # Idle
    BY <1>3, OpenIsNotIdle DEF Holds, Open
<1>13. /\ txn' \in [Worker -> UplinkTxn] /\ txn'[w] = t
       /\ \A v \in Worker : v # w => txn'[v] = txn[v]
       /\ InHand \subseteq InHand'
    BY <1>10, <1>12, HandsAfter
<1>14. t.op \in {"idle", "sync"}
    BY <1>10, IdleOp
<1>15. UplinkTypeOK'
    BY <1>3, <1>9, <1>13, UplinkTypes DEF UplinkTypeOK
<1>16. RoomIsKept'
  <2>1. Adding' = Adding
    BY <1>12, <1>13, <1>14, SameAdders DEF Open
  <2>2. \A v \in Worker : Open(v, "evict")' => Open(v, "evict") /\ txn'[v] = txn[v]
    BY <1>13, <1>14 DEF Open
  <2> QED
    BY <1>9, <1>11, <2>1, <2>2, LessInRoom DEF CacheInv
<1>17. \A v \in Worker : Holds(v)' => v # w /\ Holds(v) /\ txn'[v] = txn[v]
    BY <1>13, <1>14 DEF Holds
<1>18. \A v \in Worker : Open(v, "sync")' =>
         IF v = w THEN txn'[v].rest = Tail(rest) /\ Tail(rest) # <<>>
         ELSE Open(v, "sync") /\ txn'[v] = txn[v]
    BY <1>10, <1>13, IdleOp DEF Open
<1>19. /\ \A v \in Worker : txn'[v].op \in {"idle", "evict", "add", "sync"}
       /\ Events(outbox') \subseteq captured'
    BY <1>3, <1>6, <1>9, <1>13, <1>14 DEF CacheInv
<1>20. \A v \in Worker : Holds(v)' => txn'[v].event \in captured' \ Events(outbox')
    BY <1>3, <1>9, <1>17 DEF CacheInv
<1>21. HeldApart'
    BY <1>17 DEF CacheInv, HeldApart
<1>22. \A v \in Worker : Open(v, "sync")' =>
         txn'[v].rest # <<>> /\ Events(txn'[v].rest) \subseteq captured'
    BY <1>3, <1>5, <1>18 DEF CacheInv
<1>23. ASSUME ~overlap'
       PROVE  /\ Events(outbox') \cap confirmed' = {}
              /\ \A v \in Worker : Holds(v)' => txn'[v].event \notin confirmed'
  <2>1. Events(outbox) \cap confirmed = {}
    BY <1>11, <1>23 DEF CacheInv
  <2>2. Events(outbox') \cap confirmed' = {}
    BY <1>9, <2>1
  <2>3. \A v \in Worker : ~Holds(v)'
    BY <1>11, <1>12, <1>17, <1>23, NoneHeld DEF OneOpen
  <2> QED
    BY <2>2, <2>3
<1>24. NothingIsLost'
  <2>1. ASSUME ~disturbed'
        PROVE  captured' \subseteq Events(outbox') \cup InHand' \cup reached' \cup shed'
    <3>1. captured \subseteq Events(outbox) \cup InHand \cup reached \cup shed
      BY <1>3, <2>1 DEF CacheInv, NothingIsLost
    <3> QED
      BY <1>3, <1>9, <1>13, <3>1
  <2> QED
    BY <2>1 DEF NothingIsLost
<1> QED
    BY <1>3, <1>9, <1>11, <1>15, <1>16, <1>19, <1>20, <1>21, <1>22, <1>23, <1>24 DEF CacheInv

-----------------------------------------------------------------------------
(* The applications. *)
LEMMA NothingInHand == AppInv => InHand = {}
BY DEF AppInv, InHand

(* The same replays after a step that only adds to what has arrived or was given up. *)
LEMMA ReplayGoesOn ==
    ASSUME AppInv, txn' = txn, captured \subseteq captured', confirmed' = confirmed,
           ~disturbed' => ~disturbed /\ (captured' = captured \/ ~Sending("replay")),
           reached' = reached, shed \subseteq shed'
    PROVE  /\ \A w \in Worker : txn'[w].op \in {"idle", "replay"}
           /\ \A v, w \in Worker : Open(v, "replay")' /\ Open(w, "replay")' => v = w
           /\ ReplayStands'
           /\ Sending("replay")' = Sending("replay")
<1>1. \A w \in Worker : Open(w, "replay")' = Open(w, "replay")
    BY DEF Open
<1>2. Sending("replay")' = Sending("replay")
    BY <1>1 DEF Sending
<1>3. ASSUME NEW w \in Worker, Open(w, "replay")'
      PROVE  LET rest == txn'[w].rest  kept == txn'[w].kept IN
               /\ rest # <<>> /\ Unique(rest) /\ Unique(kept)
               /\ Events(rest) \cap Events(kept) = {}
               /\ Events(rest) \cup Events(kept) \subseteq captured' \ confirmed'
               /\ Len(rest) + Len(kept) <= MaxQueue
               /\ ~disturbed' => captured' \subseteq
                    Events(rest) \cup Events(kept) \cup reached' \cup shed'
  <2>1. Open(w, "replay") /\ Sending("replay")
    BY <1>1, <1>3 DEF Sending
  <2> QED
    BY <2>1 DEF AppInv, ReplayStands
<1>4. ReplayStands'
    BY <1>3 DEF ReplayStands
<1> QED
    BY <1>1, <1>2, <1>4 DEF AppInv

LEMMA EnqueuedStep ==
    ASSUME UplinkTypeOK, OneOpen, AppInv, NEW e \in Report, Enqueued(e)
    PROVE  UplinkTypeOK' /\ OneOpen' /\ client' = client /\ AppInv'
<1>1. /\ e \notin captured /\ captured' = captured \cup {e} /\ Queued(e, "replay")
      /\ client' = client /\ enabled' = enabled /\ reached' = reached
      /\ confirmed' = confirmed /\ txn' = txn /\ overlap' = overlap
    BY DEF Enqueued, sessions
<1>2. Unique(outbox) /\ Events(outbox) \subseteq captured
    BY DEF AppInv
<1>3. /\ outbox' \in Seq(QueueItem) /\ Len(outbox') <= MaxQueue
      /\ Events(outbox') \subseteq Events(outbox) \cup {e}
      /\ Events(outbox) \cup {e} \subseteq Events(outbox') \cup shed'
      /\ shed \subseteq shed' /\ shed' \subseteq shed \cup Events(outbox) \cup {e}
      /\ Unique(outbox')
      /\ disturbed' \in BOOLEAN /\ (disturbed => disturbed')
      /\ disturbed' \/ ~Sending("replay")
    BY <1>1, <1>2, QueuedFacts
<1>4. UplinkTypeOK' /\ OneOpen'
  <2>1. UplinkTypeOK'
    BY <1>1, <1>2, <1>3, UplinkTypes DEF UplinkTypeOK
  <2> QED
    BY <1>1, <2>1 DEF OneOpen
<1>5. /\ \A w \in Worker : txn'[w].op \in {"idle", "replay"}
      /\ \A v, w \in Worker : Open(v, "replay")' /\ Open(w, "replay")' => v = w
      /\ ReplayStands'
      /\ Sending("replay")' = Sending("replay")
    BY <1>1, <1>3, ReplayGoesOn
<1>6. ~Sending("replay")' => Events(outbox') \cap confirmed' = {}
  <2>1. confirmed \subseteq captured
    BY UplinkTypes
  <2> QED
    BY <1>1, <1>3, <1>5, <2>1 DEF AppInv
<1>7. ~disturbed' => captured' \subseteq Events(outbox') \cup reached' \cup shed'
  <2>1. ~disturbed => captured \subseteq Events(outbox) \cup reached \cup shed
    BY NothingInHand DEF AppInv, NothingIsLost
  <2> QED
    BY <1>1, <1>3, <2>1
<1>8. NothingIsLost'
    BY <1>7 DEF NothingIsLost
<1>9. Events(outbox') \subseteq captured'
    BY <1>1, <1>2, <1>3
<1> QED
    BY <1>1, <1>3, <1>4, <1>5, <1>6, <1>8, <1>9 DEF AppInv

(* A queue that keeps its events, or loses what is known to be given up. *)
LEMMA QueueShrinks ==
    ASSUME UplinkTypeOK, OneOpen, AppInv,
           outbox' \in Seq(QueueItem), Unique(outbox'), Len(outbox') <= MaxQueue,
           Events(outbox') \subseteq Events(outbox),
           Events(outbox) \subseteq Events(outbox') \cup shed',
           shed \subseteq shed', shed' \subseteq captured,
           UNCHANGED <<client, enabled, captured, reached, confirmed, disturbed, sessions>>
    PROVE  UplinkTypeOK' /\ OneOpen' /\ client' = client /\ AppInv'
<1>1. /\ client' = client /\ enabled' = enabled /\ captured' = captured
      /\ reached' = reached /\ confirmed' = confirmed /\ disturbed' = disturbed
      /\ txn' = txn /\ overlap' = overlap
    BY DEF sessions
<1>2. UplinkTypeOK' /\ OneOpen'
    BY <1>1 DEF UplinkTypeOK, OneOpen
<1>3. /\ \A w \in Worker : txn'[w].op \in {"idle", "replay"}
      /\ \A v, w \in Worker : Open(v, "replay")' /\ Open(w, "replay")' => v = w
      /\ ReplayStands'
      /\ Sending("replay")' = Sending("replay")
    BY <1>1, ReplayGoesOn
<1>4. ~Sending("replay")' => Events(outbox') \cap confirmed' = {}
    BY <1>1, <1>3 DEF AppInv
<1>5. ~disturbed' => captured' \subseteq Events(outbox') \cup reached' \cup shed'
    BY <1>1, NothingInHand DEF AppInv, NothingIsLost
<1>6. NothingIsLost'
    BY <1>5 DEF NothingIsLost
<1>7. Events(outbox') \subseteq captured'
    BY <1>1 DEF AppInv
<1> QED
    BY <1>1, <1>2, <1>3, <1>4, <1>6, <1>7 DEF AppInv

LEMMA AgesStep ==
    ASSUME UplinkTypeOK, OneOpen, AppInv, NEW i, Ages(i)
    PROVE  UplinkTypeOK' /\ OneOpen' /\ client' = client /\ AppInv'
<1>1. PICK s \in Seq(QueueItem) : s = outbox
    BY UplinkTypes
<1>2. PICK n \in Nat : n = Len(s) /\ DOMAIN s = 1..n
    BY QueueFacts
<1>3. i \in 1..n
    BY <1>1, <1>2 DEF Ages
<1>4. s[i] \in QueueItem
    BY <1>2, <1>3, QueueFacts
<1>5. PICK x : x = [s[i] EXCEPT !.old = TRUE]
    OBVIOUS
<1>6. x \in QueueItem /\ x.event = s[i].event
    BY <1>4, <1>5 DEF QueueItem
<1>7. PICK t : t = [s EXCEPT ![i] = x]
    OBVIOUS
<1>8. /\ t \in Seq(QueueItem) /\ Len(t) = n
      /\ \A j \in 1..n : t[j] = IF j = i THEN x ELSE s[j]
    BY <1>2, <1>3, <1>6, <1>7, ExceptSeq
<1>9. \A j \in 1..n : t[j].event = s[j].event
    BY <1>6, <1>8
<1>10. Events(t) = Events(s) /\ (Unique(s) => Unique(t))
    BY <1>2, <1>8, <1>9, SameEvents
<1>11. outbox' = t
    BY <1>1, <1>5, <1>7 DEF Ages
<1>12. Len(outbox) <= MaxQueue /\ Unique(outbox) /\ Events(outbox) \subseteq captured
    BY DEF AppInv
<1>13. UNCHANGED <<client, enabled, captured, reached, confirmed, shed, disturbed, sessions>>
    BY DEF Ages
<1> QED
    BY <1>1, <1>2, <1>8, <1>10, <1>11, <1>12, <1>13, UplinkTypes, QueueShrinks

LEMMA RequestRemovedStep ==
    ASSUME UplinkTypeOK, OneOpen, AppInv, NEW e, RequestRemoved(e)
    PROVE  UplinkTypeOK' /\ OneOpen' /\ client' = client /\ AppInv'
<1>1. PICK left : left = WithoutEvent(e)
    OBVIOUS
<1>2. /\ outbox' = left /\ shed' = shed \cup {e} /\ e \in Events(outbox)
      /\ UNCHANGED <<client, enabled, captured, reached, confirmed, disturbed, sessions>>
    BY <1>1 DEF RequestRemoved
<1>3. Unique(outbox) /\ Events(outbox) \subseteq captured /\ Len(outbox) <= MaxQueue
    BY DEF AppInv
<1>4. /\ left \in Seq(QueueItem) /\ Len(left) <= Len(outbox) /\ Unique(left)
      /\ Events(left) \subseteq Events(outbox)
      /\ Events(outbox) \subseteq Events(left) \cup {e}
    BY <1>1, <1>3, UplinkTypes, WithoutEvents
<1>5. Len(left) <= MaxQueue
  <2>1. Len(left) \in Nat /\ Len(outbox) \in Nat /\ MaxQueue \in Nat
    BY <1>4, UplinkTypes, QueueFacts, UplinkAssumption
  <2> QED
    BY <1>3, <1>4, <2>1
<1> QED
    BY <1>2, <1>3, <1>4, <1>5, UplinkTypes, QueueShrinks

(* What a replay begins with are the requests that are not old. *)
LEMMA ReplayedEvents ==
    ASSUME outbox \in Seq(QueueItem), Fresh # {},
           NEW order \in Bijection(1..Cardinality(Fresh), Fresh)
    PROVE  LET t == Replayed(order) IN
             /\ t \in Seq(QueueItem) /\ t # <<>> /\ Len(t) <= Len(outbox)
             /\ Events(t) \subseteq Events(outbox)
             /\ Events(outbox) \subseteq
                  Events(t) \cup {outbox[i].event : i \in DOMAIN outbox \ Fresh}
             /\ Unique(outbox) => Unique(t)
<1>1. PICK n \in Nat : n = Len(outbox) /\ DOMAIN outbox = 1..n
    BY QueueFacts
<1>2. PICK F : F = Fresh /\ F \subseteq 1..n /\ F # {}
    BY <1>1 DEF Fresh
<1>3. IsFiniteSet(1..n) /\ Cardinality(1..n) = n
  <2>1. 1 \in Int /\ n \in Int
    OBVIOUS
  <2> QED
    BY <2>1, FS_Interval
<1>4. PICK k \in Nat : k = Cardinality(F) /\ k <= n /\ k # 0
  <2>1. IsFiniteSet(F) /\ Cardinality(F) \in Nat /\ Cardinality(F) <= n
    BY <1>2, <1>3, PartCount
  <2>2. Cardinality(F) # 0
    BY <1>2, <2>1, FS_EmptySet
  <2> QED
    BY <2>1, <2>2
<1>5. /\ order \in [1..k -> F]
      /\ \A i, j \in 1..k : order[i] = order[j] => i = j
      /\ \A x \in F : \E i \in 1..k : order[i] = x
    BY <1>2, <1>4 DEF Bijection, Injection, Surjection, IsInjective
<1>6. PICK t : t = Replayed(order)
    OBVIOUS
<1>7. \A i \in 1..k : t[i] = outbox[order[i]] /\ order[i] \in F /\ order[i] \in 1..n
    BY <1>2, <1>5, <1>6 DEF Replayed
<1>8. \A i \in 1..n : outbox[i] \in QueueItem
    BY <1>1, QueueFacts
<1>9. t \in [1..k -> QueueItem]
    BY <1>5, <1>6, <1>7, <1>8 DEF Replayed
<1>10. t \in Seq(QueueItem) /\ Len(t) = k
    BY <1>9, FunctionIsQueue
<1>11. DOMAIN t = 1..k
    BY <1>9
<1>12. t # <<>>
  <2> SUFFICES ASSUME t = <<>> PROVE FALSE
    OBVIOUS
  <2>1. Len(t) = 0
    BY EmptySeq
  <2>2. k = 0
    BY <1>10, <2>1
  <2> QED
    BY <1>4, <2>2
<1>13. Events(t) \subseteq Events(outbox)
    BY <1>1, <1>7, <1>11 DEF Events
<1>14. Events(outbox) \subseteq Events(t) \cup {outbox[i].event : i \in DOMAIN outbox \ Fresh}
  <2> SUFFICES ASSUME NEW x \in 1..n, x \in F PROVE outbox[x].event \in Events(t)
    BY <1>1, <1>2 DEF Events
  <2>1. PICK i \in 1..k : order[i] = x
    BY <1>5
  <2>2. t[i] = outbox[x]
    BY <1>7, <2>1
  <2> QED
    BY <1>11, <2>2 DEF Events
<1>15. ASSUME Unique(outbox) PROVE Unique(t)
  <2> SUFFICES ASSUME NEW i \in 1..k, NEW j \in 1..k, t[i].event = t[j].event
               PROVE  i = j
    BY <1>11 DEF Unique
  <2>1. order[i] = order[j]
    BY <1>1, <1>7, <1>15 DEF Unique
  <2> QED
    BY <1>5, <2>1
<1> QED
    BY <1>1, <1>4, <1>6, <1>10, <1>12, <1>13, <1>14, <1>15

LEMMA ReplayBeginsStep ==
    ASSUME UplinkTypeOK, OneOpen, AppInv, NEW w \in Worker, ReplayBegins(w)
    PROVE  UplinkTypeOK' /\ OneOpen' /\ client' = client /\ AppInv'
<1>1. PICK olds : olds = {outbox[i].event : i \in DOMAIN outbox \ Fresh}
    OBVIOUS
<1>2. /\ ~Sending("replay") /\ shed' = shed \cup olds
      /\ client' = client /\ enabled' = enabled /\ captured' = captured
      /\ reached' = reached /\ confirmed' = confirmed /\ disturbed' = disturbed
    BY <1>1 DEF ReplayBegins, MayReplay
<1>3. /\ Unique(outbox) /\ Events(outbox) \subseteq captured /\ Len(outbox) <= MaxQueue
      /\ Events(outbox) \cap confirmed = {}
      /\ ~disturbed => captured \subseteq Events(outbox) \cup reached \cup shed
      /\ \A v \in Worker : ~Open(v, "replay")
      /\ \A v \in Worker : txn[v].op \in {"idle", "replay"}
    BY <1>2, NothingInHand DEF AppInv, NothingIsLost, Sending
<1>4. olds \subseteq Events(outbox) /\ shed' \subseteq captured /\ shed \subseteq shed'
    BY <1>1, <1>2, <1>3, UplinkTypes DEF Events
<1>5. CASE Fresh = {} /\ outbox' = <<>> /\ UNCHANGED sessions
  <2>1. Events(outbox) \subseteq olds
    BY <1>1, <1>5 DEF Events
  <2>2. /\ outbox' \in Seq(QueueItem) /\ Unique(outbox') /\ Len(outbox') <= MaxQueue
        /\ Events(outbox') = {}
    BY <1>5, NoEvents, UplinkAssumption
  <2> QED
    BY <1>2, <1>4, <1>5, <2>1, <2>2, QueueShrinks
<1>6. CASE /\ Fresh # {} /\ outbox' = outbox
           /\ \E order \in Bijection(1..Cardinality(Fresh), Fresh) :
                Begin(w, [op |-> "replay", rest |-> Replayed(order), kept |-> <<>>])
  <2>1. PICK order \in Bijection(1..Cardinality(Fresh), Fresh) :
          Begin(w, [op |-> "replay", rest |-> Replayed(order), kept |-> <<>>])
    BY <1>6
  <2>2. PICK rest : rest = Replayed(order)
    OBVIOUS
  <2>3. /\ rest \in Seq(QueueItem) /\ rest # <<>> /\ Len(rest) <= Len(outbox)
        /\ Events(rest) \subseteq Events(outbox)
        /\ Events(outbox) \subseteq Events(rest) \cup olds
        /\ Unique(rest)
    BY <1>1, <1>3, <1>6, <2>2, UplinkTypes, ReplayedEvents
  <2>4. PICK t : t = [op |-> "replay", rest |-> rest, kept |-> <<>>]
    OBVIOUS
  <2>5. t \in UplinkTxn /\ t.op = "replay" /\ t.rest = rest /\ t.kept = <<>>
    <3>1. t \in [op: {"replay"}, rest: Seq(QueueItem), kept: Seq(QueueItem)]
      BY <2>3, <2>4, NoEvents
    <3> QED
      BY <2>4, <3>1 DEF UplinkTxn
  <2>6. Begin(w, t) /\ overlap' = overlap
    BY <2>1, <2>2, <2>4 DEF Begin
  <2>7. txn' = [txn EXCEPT ![w] = t] /\ OneOpen'
    BY <2>6, UplinkTypes, BeginKeepsOne DEF Begin
  <2>8. /\ txn' \in [Worker -> UplinkTxn] /\ txn'[w] = t
        /\ \A v \in Worker : v # w => txn'[v] = txn[v]
    BY <2>5, <2>7, UplinkTypes
  <2>9. UplinkTypeOK'
    BY <1>2, <1>4, <1>6, <2>8, UplinkTypes DEF UplinkTypeOK
  <2>10. \A v \in Worker : Open(v, "replay")' => v = w
    BY <1>3, <2>8 DEF Open
  <2>11. Sending("replay")'
    BY <2>5, <2>8 DEF Sending, Open
  <2>12. Len(rest) + Len(<<>>) <= MaxQueue
    <3>1. PICK l, m : l = Len(rest) /\ m = Len(outbox)
      OBVIOUS
    <3>2. l \in Nat /\ m \in Nat /\ l <= m /\ m <= MaxQueue /\ MaxQueue \in Nat
      BY <1>3, <2>3, <3>1, UplinkTypes, QueueFacts, UplinkAssumption
    <3>3. l <= MaxQueue
      BY <3>2
    <3>4. Len(<<>>) = 0
      BY NoEvents
    <3>5. l + 0 <= MaxQueue
      BY <3>2, <3>3
    <3> QED
      BY <3>1, <3>4, <3>5
  <2>13. ReplayStands'
    <3>1. ~disturbed' => captured' \subseteq
            Events(rest) \cup Events(<<>>) \cup reached' \cup shed'
      BY <1>2, <1>3, <1>4, <2>3
    <3>2. /\ Unique(<<>>) /\ Events(rest) \cap Events(<<>>) = {}
          /\ Events(rest) \cup Events(<<>>) \subseteq captured' \ confirmed'
      BY <1>2, <1>3, <2>3, NoEvents
    <3> QED
      BY <2>3, <2>5, <2>8, <2>10, <2>12, <3>1, <3>2 DEF ReplayStands
  <2>14. NothingIsLost'
    BY <1>2, <1>3, <1>6 DEF NothingIsLost
  <2>15. \A v \in Worker : txn'[v].op \in {"idle", "replay"}
    BY <1>3, <2>5, <2>8
  <2> QED
    BY <1>2, <1>3, <1>6, <2>7, <2>9, <2>10, <2>11, <2>13, <2>14, <2>15 DEF AppInv
<1> QED
    BY <1>5, <1>6 DEF ReplayBegins

(* A replay keeps what failed; its last answer makes that the queue. *)
LEMMA ReplaySentStep ==
    ASSUME UplinkTypeOK, OneOpen, AppInv,
           NEW w \in Worker, NEW got \in BOOLEAN, NEW heard \in BOOLEAN,
           ReplaySent(w, got, heard)
    PROVE  UplinkTypeOK' /\ OneOpen' /\ client' = client /\ AppInv'
<1>1. PICK rest, kept : rest = txn[w].rest /\ kept = txn[w].kept
    OBVIOUS
<1>2. PICK item, e : item = Head(rest) /\ e = item.event
    OBVIOUS
<1>3. PICK keep : keep = IF heard THEN kept ELSE Append(kept, item)
    OBVIOUS
<1>4. /\ Open(w, "replay") /\ Sent(e, got, heard) /\ client' = client /\ enabled' = enabled
      /\ captured' = captured /\ shed' = shed /\ disturbed' = disturbed
    BY <1>1, <1>2 DEF ReplaySent
<1>5. txn[w] \in [op: {"replay"}, rest: Seq(QueueItem), kept: Seq(QueueItem)]
    BY <1>4, UplinkReads
<1>6. /\ rest \in Seq(QueueItem) /\ kept \in Seq(QueueItem)
      /\ rest # <<>> /\ Unique(rest) /\ Unique(kept)
      /\ Events(rest) \cap Events(kept) = {}
      /\ Events(rest) \cup Events(kept) \subseteq captured \ confirmed
      /\ Len(rest) + Len(kept) <= MaxQueue
      /\ ~disturbed => captured \subseteq Events(rest) \cup Events(kept) \cup reached \cup shed
    BY <1>1, <1>4, <1>5 DEF AppInv, ReplayStands
<1>7. PICK more : more = Tail(rest)
    OBVIOUS
<1>8. /\ item \in QueueItem /\ e \in Events(rest)
      /\ more \in Seq(QueueItem) /\ Len(more) = Len(rest) - 1
      /\ Events(rest) = {e} \cup Events(more)
      /\ Unique(more) /\ e \notin Events(more)
      /\ Len(rest) # 1 => more # <<>>
      /\ Len(rest) = 1 => Events(more) = {}
    BY <1>2, <1>6, <1>7, TailEvents
<1>9. /\ keep \in Seq(QueueItem) /\ Unique(keep)
      /\ Events(keep) = Events(kept) \cup (IF heard THEN {} ELSE {e})
      /\ Len(keep) = IF heard THEN Len(kept) ELSE Len(kept) + 1
  <2>1. CASE heard
    BY <1>3, <1>6, <2>1
  <2>2. CASE ~heard
    <3>1. keep = Append(kept, item) /\ e \notin Events(kept)
      BY <1>3, <1>6, <1>8, <2>2
    <3> QED
      BY <1>2, <1>6, <1>8, <2>2, <3>1, AppendEvents
  <2> QED
    BY <2>1, <2>2
<1>10. Len(more) + Len(keep) <= MaxQueue /\ Len(keep) <= MaxQueue
  <2>1. PICK r, k, m, p : r = Len(rest) /\ k = Len(kept) /\ m = Len(more) /\ p = Len(keep)
    OBVIOUS
  <2>2. r \in Nat /\ k \in Nat /\ m \in Nat /\ p \in Nat /\ MaxQueue \in Nat
    BY <1>6, <1>8, <1>9, <2>1, QueueFacts, UplinkAssumption
  <2>3. r + k <= MaxQueue /\ m = r - 1 /\ p <= k + 1
    BY <1>6, <1>8, <1>9, <2>1, <2>2
  <2>4. m + p <= MaxQueue /\ p <= MaxQueue
    BY <2>2, <2>3
  <2> QED
    BY <2>1, <2>4
<1>11. e \in captured
    BY <1>6, <1>8
<1>12. /\ reached \subseteq reached' /\ reached' \subseteq reached \cup {e}
       /\ confirmed' \subseteq confirmed \cup {e}
       /\ reached' \subseteq captured /\ confirmed' \subseteq reached'
       /\ IF heard THEN e \in reached' ELSE confirmed' = confirmed
    BY <1>4, <1>11, SentFacts
<1>13. /\ Events(more) \cap Events(keep) = {}
       /\ Events(more) \cup Events(keep) \subseteq captured \ confirmed'
       /\ ~disturbed => captured \subseteq
            Events(more) \cup Events(keep) \cup reached' \cup shed
  <2>1. Events(more) \cap Events(keep) = {}
    BY <1>6, <1>8, <1>9
  <2>2. Events(more) \cup Events(keep) \subseteq captured \ confirmed'
    <3>1. heard => e \notin Events(more) \cup Events(keep)
      BY <1>6, <1>8, <1>9
    <3>2. Events(more) \cup Events(keep) \subseteq Events(rest) \cup Events(kept)
      BY <1>8, <1>9
    <3> QED
      BY <1>6, <1>12, <3>1, <3>2
  <2>3. ~disturbed => captured \subseteq Events(more) \cup Events(keep) \cup reached' \cup shed
    BY <1>6, <1>8, <1>9, <1>12
  <2> QED
    BY <2>1, <2>2, <2>3
<1>14. /\ \A v \in Worker : Open(v, "replay") => v = w
       /\ \A v \in Worker : txn[v].op \in {"idle", "replay"}
       /\ Unique(outbox) /\ Events(outbox) \subseteq captured /\ Len(outbox) <= MaxQueue
       /\ ~disturbed => captured \subseteq Events(outbox) \cup reached \cup shed
    BY <1>4, NothingInHand DEF AppInv, NothingIsLost
<1>15. CASE Len(rest) = 1
  <2>1. outbox' = keep /\ End(w)
    BY <1>1, <1>2, <1>3, <1>15 DEF ReplaySent
  <2>2. /\ txn' \in [Worker -> UplinkTxn] /\ txn'[w] = Idle /\ overlap' = overlap
        /\ \A v \in Worker : v # w => txn'[v] = txn[v]
    BY <2>1, UplinkTypes DEF End
  <2>3. OneOpen'
    BY <2>1, UplinkTypes, EndKeepsOne
  <2>4. UplinkTypeOK'
    BY <1>4, <1>9, <1>12, <2>1, <2>2, UplinkTypes DEF UplinkTypeOK
  <2>5. \A v \in Worker : ~Open(v, "replay")' /\ txn'[v].op \in {"idle", "replay"}
    BY <1>14, <2>2, IdleOp DEF Open
  <2>6. Events(outbox') \cap confirmed' = {} /\ Events(outbox') \subseteq captured'
    BY <1>4, <1>13, <2>1
  <2>7. NothingIsLost'
    BY <1>4, <1>8, <1>13, <1>15, <2>1 DEF NothingIsLost
  <2>8. Unique(outbox') /\ Len(outbox') <= MaxQueue
    BY <1>9, <1>10, <2>1
  <2> QED
    BY <1>4, <2>3, <2>4, <2>5, <2>6, <2>7, <2>8 DEF AppInv, ReplayStands
<1>16. CASE Len(rest) # 1
  <2>1. PICK t : t = [txn[w] EXCEPT !.rest = more, !.kept = keep]
    OBVIOUS
  <2>2. /\ t \in [op: {"replay"}, rest: Seq(QueueItem), kept: Seq(QueueItem)]
        /\ t.rest = more /\ t.kept = keep
    BY <1>5, <1>8, <1>9, <2>1
  <2>3. t \in UplinkTxn /\ t.op = "replay"
    BY <2>2 DEF UplinkTxn
  <2>4. outbox' = outbox /\ Continue(w, t)
    BY <1>1, <1>2, <1>3, <1>5, <1>7, <1>16, <2>1 DEF ReplaySent
  <2>5. /\ txn' \in [Worker -> UplinkTxn] /\ txn'[w] = t /\ overlap' = overlap
        /\ \A v \in Worker : v # w => txn'[v] = txn[v]
    BY <2>3, <2>4, UplinkTypes DEF Continue
  <2>6. OneOpen'
    BY <1>4, <2>4, OpenIsNotIdle, UplinkTypes, ContinueKeepsOne
  <2>7. UplinkTypeOK'
    BY <1>4, <1>12, <2>4, <2>5, UplinkTypes DEF UplinkTypeOK
  <2>8. \A v \in Worker : Open(v, "replay")' => v = w
    BY <1>14, <2>5 DEF Open
  <2>9. \A v \in Worker : txn'[v].op \in {"idle", "replay"}
    BY <1>14, <2>3, <2>5
  <2>10. Sending("replay")'
    BY <2>3, <2>5 DEF Sending, Open
  <2>11. ReplayStands'
    BY <1>4, <1>8, <1>9, <1>10, <1>13, <1>16, <2>2, <2>5, <2>8 DEF ReplayStands
  <2>12. NothingIsLost'
    BY <1>4, <1>12, <1>14, <2>4 DEF NothingIsLost
  <2> QED
    BY <1>4, <1>14, <2>4, <2>6, <2>7, <2>8, <2>9, <2>10, <2>11, <2>12 DEF AppInv
<1> QED
    BY <1>15, <1>16
(* A restart ends every call; what was in memory only is given up. *)
LEMMA NoneSends ==
    ASSUME UplinkTypeOK, \A v \in Worker : txn[v] = Idle
    PROVE  /\ InHand = {} /\ Adding = {}
           /\ \A v \in Worker : ~Holds(v) /\ txn[v].op = "idle"
           /\ \A op \in {"send", "flush", "evict", "add", "sync", "replay"} :
                ~Sending(op) /\ \A v \in Worker : ~Open(v, op)
<1>1. \A v \in Worker : txn[v].op = "idle"
    BY IdleOp
<1> QED
    BY <1>1 DEF InHand, Adding, Holds, Sending, Open

LEMMA RestartsStep ==
    ASSUME UplinkInv, Restarts
    PROVE  UplinkInv'
<1>1. /\ outbox' = IF client = "cache" THEN outbox ELSE <<>>
      /\ shed' = shed \cup InHand \cup (IF client = "cache" THEN {} ELSE Events(outbox))
      /\ txn' = [w \in Worker |-> Idle]
      /\ client' = client /\ enabled' = enabled /\ captured' = captured
      /\ reached' = reached /\ confirmed' = confirmed /\ disturbed' = disturbed
      /\ overlap' = overlap
    BY DEF Restarts
<1>2. UplinkTypeOK /\ OneOpen
    BY DEF UplinkInv
<1>3. client \in Client
    BY <1>2 DEF UplinkTypeOK
<1>4. Events(outbox) \subseteq captured /\ (client = "app" \/ InHand \subseteq captured)
  <2>1. CASE client = "extension"
    BY <2>1 DEF UplinkInv, ExtensionInv, InHand, Holds
  <2>2. CASE client = "cache"
    BY <2>2 DEF UplinkInv, CacheInv, InHand, Holds
  <2>3. CASE client = "app"
    BY <2>3 DEF UplinkInv, AppInv
  <2> QED
    BY <1>3, <2>1, <2>2, <2>3 DEF Client
<1>5. client = "app" => InHand = {}
    BY NothingInHand DEF UplinkInv
<1>6. outbox' \in Seq(QueueItem) /\ txn' \in [Worker -> UplinkTxn]
    BY <1>1, <1>2, UplinkTypes, NoEvents
<1>7. \A v \in Worker : txn'[v] = Idle
    BY <1>1
<1>8. UplinkTypeOK' /\ OneOpen'
  <2>1. shed' \subseteq captured
    BY <1>1, <1>2, <1>4, <1>5, UplinkTypes
  <2> QED
    BY <1>1, <1>2, <1>6, <1>7, <2>1 DEF UplinkTypeOK, OneOpen
<1>9. /\ InHand' = {} /\ Adding' = {}
      /\ \A v \in Worker : ~Holds(v)' /\ txn'[v].op = "idle"
      /\ \A op \in {"send", "flush", "evict", "add", "sync", "replay"} :
           ~Sending(op)' /\ \A v \in Worker : ~Open(v, op)'
  <2>1. \A v \in Worker : txn'[v].op = "idle"
    BY <1>7, IdleOp
  <2> QED
    BY <2>1 DEF InHand, Adding, Holds, Sending, Open
<1>10. HeldApart'
    BY <1>9 DEF HeldApart
<1>11. NothingIsLost => NothingIsLost'
  <2>1. Events(outbox) \cup InHand \cup reached \cup shed
          \subseteq Events(outbox') \cup reached' \cup shed'
    BY <1>1 DEF Events
  <2> QED
    BY <1>1, <2>1 DEF NothingIsLost
<1>12. client # "cache" => /\ Unique(outbox') /\ Events(outbox') = {}
                           /\ Len(outbox') <= MaxQueue
  <2>1. 0 <= MaxQueue
    BY UplinkAssumption
  <2> QED
    BY <1>1, <2>1, NoEvents
<1>13. client = "extension" => ExtensionInv'
    BY <1>1, <1>9, <1>10, <1>11, <1>12 DEF UplinkInv, ExtensionInv
<1>14. client = "app" => AppInv'
    BY <1>1, <1>9, <1>11, <1>12 DEF UplinkInv, AppInv, ReplayStands
<1>15. client = "cache" => CacheInv'
  <2> SUFFICES ASSUME client = "cache" PROVE CacheInv'
    OBVIOUS
  <2>1. CacheInv /\ outbox' = outbox
    BY <1>1 DEF UplinkInv
  <2>2. RoomIsKept'
    <3>1. Len(outbox') <= Len(outbox)
      BY <1>2, <2>1, RoomTypes
    <3>2. Adding' \subseteq Adding /\ \A v \in Worker : ~Open(v, "evict")'
      BY <1>9
    <3> QED
      BY <1>1, <1>2, <1>6, <2>1, <3>1, <3>2, LessInRoom DEF CacheInv
  <2>3. \A v \in Worker : txn'[v].op \in {"idle", "evict", "add", "sync"}
    BY <1>9
  <2>4. Unique(outbox') /\ Events(outbox') \subseteq captured'
    BY <1>1, <2>1 DEF CacheInv
  <2>5. NothingIsLost' /\ (~overlap' => Events(outbox') \cap confirmed' = {})
    BY <1>1, <1>11, <2>1 DEF CacheInv
  <2> QED
    BY <1>9, <1>10, <2>2, <2>3, <2>4, <2>5 DEF CacheInv
<1> QED
    BY <1>1, <1>8, <1>13, <1>14, <1>15 DEF UplinkInv

-----------------------------------------------------------------------------
(* The three together. *)
LEMMA UplinkInitially == UplinkTablesInit /\ SessionsInit => UplinkInv
<1> SUFFICES ASSUME UplinkTablesInit, SessionsInit PROVE UplinkInv
    OBVIOUS
<1>1. /\ client \in Client /\ enabled = FALSE /\ outbox = <<>> /\ captured = {}
      /\ reached = {} /\ confirmed = {} /\ shed = {} /\ disturbed = FALSE
    BY DEF UplinkTablesInit
<1>2. \A v \in Worker : txn[v] = Idle
    BY DEF SessionsInit
<1>3. UplinkTypeOK /\ OneOpen
  <2>1. txn \in [Worker -> UplinkTxn]
    BY DEF SessionsInit, UplinkTxn
  <2> QED
    BY <1>1, <2>1, NoEvents, NoneOpen DEF UplinkTypeOK
<1>4. /\ InHand = {} /\ Adding = {}
      /\ \A v \in Worker : ~Holds(v) /\ txn[v].op = "idle"
      /\ \A op \in {"send", "flush", "evict", "add", "sync", "replay"} :
           ~Sending(op) /\ \A v \in Worker : ~Open(v, op)
    BY <1>2, <1>3, NoneSends
<1>5. Unique(outbox) /\ Events(outbox) = {} /\ Len(outbox) = 0 /\ 0 <= MaxQueue
    BY <1>1, NoEvents, UplinkAssumption
<1>6. HeldApart /\ NothingIsLost
    BY <1>1, <1>4 DEF HeldApart, NothingIsLost
<1>7. ExtensionInv
    BY <1>1, <1>4, <1>5, <1>6 DEF ExtensionInv
<1>8. AppInv
    BY <1>1, <1>4, <1>5, <1>6 DEF AppInv, ReplayStands
<1>9. CacheInv
  <2>1. RoomIsKept
    <3>1. Cardinality(Adding) = 0
      BY <1>4, FS_EmptySet
    <3>2. Slack \in Int /\ -1 <= Slack /\ MaxQueue \in Nat /\ MaxQueue >= 1
      BY <1>3, RoomTypes DEF Slack
    <3>3. 0 + 0 <= MaxQueue + Slack
      BY <3>2
    <3> QED
      BY <1>4, <1>5, <3>1, <3>3 DEF RoomIsKept
  <2> QED
    BY <1>1, <1>4, <1>5, <1>6, <2>1 DEF CacheInv
<1> QED
    BY <1>3, <1>7, <1>8, <1>9 DEF UplinkInv

LEMMA UplinkInvStep ==
    ASSUME UplinkInv, UplinkNext
    PROVE  UplinkInv'
<1>1. UplinkTypeOK /\ OneOpen /\ client \in Client
    BY DEF UplinkInv, UplinkTypeOK
<1>2. CASE Toggled \/ Restarts
    BY <1>2, ToggledStep, RestartsStep
<1>3. CASE client = "extension" /\ ~(Toggled \/ Restarts)
  <2>1. ExtensionInv
    BY <1>3 DEF UplinkInv
  <2>2. UplinkTypeOK' /\ OneOpen' /\ client' = client /\ ExtensionInv'
    <3>1. PICK w \in Worker, e \in Report, got, heard \in BOOLEAN :
            \/ CaptureBegins(w, e) \/ CaptureSent(w, got, heard)
            \/ FlushBegins(w) \/ FlushSent(w, got, heard)
      <4>1. \A v \in Worker : ~Open(v, "evict") /\ ~Open(v, "add") /\ ~Open(v, "sync")
                                /\ ~Open(v, "replay")
        BY <2>1 DEF ExtensionInv, Open
      <4>2. /\ \A v \in Worker, e \in Report : ~AddCounts(v, e)
            /\ \A v \in Worker : /\ ~AddEvicts(v) /\ ~AddPuts(v) /\ ~SyncBegins(v)
                                 /\ ~ReplayBegins(v)
            /\ \A v \in Worker, got, heard \in BOOLEAN :
                 ~SyncSends(v, got, heard) /\ ~ReplaySent(v, got, heard)
            /\ \A e \in Report : ~Enqueued(e) /\ ~RequestRemoved(e)
            /\ \A i \in 1..MaxQueue : ~Ages(i)
        BY <1>3, <4>1 DEF AddCounts, AddEvicts, AddPuts, SyncBegins, ReplayBegins, MayReplay,
                          SyncSends, ReplaySent, Enqueued, RequestRemoved, Ages
      <4>3. PICK w \in Worker :
              \/ \E e \in Report : CaptureBegins(w, e)
              \/ FlushBegins(w)
              \/ \E got, heard \in BOOLEAN : CaptureSent(w, got, heard) \/ FlushSent(w, got, heard)
        BY <1>3, <4>2 DEF UplinkNext, UplinkStep
      <4>4. Report # {}
        <5>1. CASE \E e \in Report : CaptureBegins(w, e)
          BY <5>1
        <5>2. CASE FlushBegins(w)
          <6>1. outbox # <<>> /\ outbox \in Seq(QueueItem)
            BY <1>1, <5>2, UplinkTypes DEF FlushBegins
          <6> QED
            BY <1>1, <6>1, TailEvents, UplinkTypes
        <5>3. CASE \E got, heard \in BOOLEAN :
                     CaptureSent(w, got, heard) \/ FlushSent(w, got, heard)
          <6>1. Open(w, "send") \/ Open(w, "flush")
            BY <5>3 DEF CaptureSent, FlushSent
          <6> QED
            BY <1>1, <6>1, UplinkReads DEF Holds, Open
        <5> QED
          BY <4>3, <5>1, <5>2, <5>3
      <4> QED
        BY <4>3, <4>4
    <3> QED
      BY <1>1, <2>1, <3>1, CaptureBeginsStep, CaptureSentStep, FlushBeginsStep, FlushSentStep
  <2> QED
    BY <1>3, <2>2 DEF UplinkInv
<1>4. CASE client = "cache" /\ ~(Toggled \/ Restarts)
  <2>1. CacheInv
    BY <1>4 DEF UplinkInv
  <2>2. \A v \in Worker : ~Open(v, "send") /\ ~Open(v, "flush") /\ ~Open(v, "replay")
    BY <2>1 DEF CacheInv, Open
  <2>3. /\ \A v \in Worker, e \in Report : ~CaptureBegins(v, e)
        /\ \A v \in Worker : ~FlushBegins(v) /\ ~ReplayBegins(v)
        /\ \A v \in Worker, got, heard \in BOOLEAN :
             ~CaptureSent(v, got, heard) /\ ~FlushSent(v, got, heard)
               /\ ~ReplaySent(v, got, heard)
        /\ \A e \in Report : ~Enqueued(e) /\ ~RequestRemoved(e)
        /\ \A i \in 1..MaxQueue : ~Ages(i)
    BY <1>4, <2>2 DEF CaptureBegins, FlushBegins, ReplayBegins, MayReplay, CaptureSent,
                      FlushSent, ReplaySent, Enqueued, RequestRemoved, Ages
  <2>4. PICK w \in Worker :
          \/ \E e \in Report : AddCounts(w, e)
          \/ AddEvicts(w) \/ AddPuts(w) \/ SyncBegins(w)
          \/ \E got, heard \in BOOLEAN : SyncSends(w, got, heard)
    BY <1>4, <2>3 DEF UplinkNext, UplinkStep
  <2>5. UplinkTypeOK' /\ OneOpen' /\ client' = client /\ CacheInv'
    BY <1>1, <2>1, <2>4, AddCountsStep, AddEvictsStep, AddPutsStep, SyncBeginsStep,
       SyncSendsStep
  <2> QED
    BY <1>4, <2>5 DEF UplinkInv
<1>5. CASE client = "app" /\ ~(Toggled \/ Restarts)
  <2>1. AppInv
    BY <1>5 DEF UplinkInv
  <2>2. \A v \in Worker : /\ ~Open(v, "send") /\ ~Open(v, "flush") /\ ~Open(v, "evict")
                          /\ ~Open(v, "add") /\ ~Open(v, "sync")
    BY <2>1 DEF AppInv, Open
  <2>3. /\ \A v \in Worker, e \in Report : ~CaptureBegins(v, e) /\ ~AddCounts(v, e)
        /\ \A v \in Worker : /\ ~FlushBegins(v) /\ ~AddEvicts(v) /\ ~AddPuts(v)
                             /\ ~SyncBegins(v)
        /\ \A v \in Worker, got, heard \in BOOLEAN :
             ~CaptureSent(v, got, heard) /\ ~FlushSent(v, got, heard)
               /\ ~SyncSends(v, got, heard)
    BY <1>5, <2>2 DEF CaptureBegins, AddCounts, FlushBegins, AddEvicts, AddPuts, SyncBegins,
                      CaptureSent, FlushSent, SyncSends
  <2>4. \/ \E w \in Worker : \/ ReplayBegins(w)
                             \/ \E got, heard \in BOOLEAN : ReplaySent(w, got, heard)
        \/ \E e \in Report : Enqueued(e) \/ RequestRemoved(e)
        \/ \E i \in 1..MaxQueue : Ages(i)
    BY <1>5, <2>3 DEF UplinkNext, UplinkStep
  <2>5. UplinkTypeOK' /\ OneOpen' /\ client' = client /\ AppInv'
    BY <1>1, <2>1, <2>4, ReplayBeginsStep, ReplaySentStep, EnqueuedStep, RequestRemovedStep,
       AgesStep
  <2> QED
    BY <1>5, <2>5 DEF UplinkInv
<1> QED
    BY <1>1, <1>2, <1>3, <1>4, <1>5 DEF Client

LEMMA UplinkInvStutter ==
    ASSUME UplinkInv, UNCHANGED uplinkVars
    PROVE  UplinkInv'
<1>1. /\ client' = client /\ enabled' = enabled /\ outbox' = outbox /\ captured' = captured
      /\ reached' = reached /\ confirmed' = confirmed /\ shed' = shed
      /\ disturbed' = disturbed /\ txn' = txn /\ overlap' = overlap
    BY DEF uplinkVars
<1>2. UplinkTypeOK' /\ OneOpen'
    BY <1>1 DEF UplinkInv, UplinkTypeOK, OneOpen
<1>3. /\ NothingIsLost' = NothingIsLost /\ HeldApart' = HeldApart
      /\ RoomIsKept' = RoomIsKept /\ ReplayStands' = ReplayStands
    BY <1>1 DEF NothingIsLost, HeldApart, RoomIsKept, ReplayStands, Holds, Adding, Slack,
                InHand, Open
<1>4. (client = "extension" => ExtensionInv) => (client' = "extension" => ExtensionInv')
    BY <1>1, <1>3 DEF ExtensionInv, Holds, Open
<1>5. (client = "cache" => CacheInv) => (client' = "cache" => CacheInv')
    BY <1>1, <1>3 DEF CacheInv, Holds, Open
<1>6. (client = "app" => AppInv) => (client' = "app" => AppInv')
    BY <1>1, <1>3 DEF AppInv, Sending, Open
<1> QED
    BY <1>2, <1>4, <1>5, <1>6 DEF UplinkInv

(* What the invariant says of the queues. *)
LEMMA ConcatEvents ==
    ASSUME NEW s \in Seq(QueueItem), NEW t \in Seq(QueueItem)
    PROVE  Events(s \o t) \subseteq Events(s) \cup Events(t)
<1>1. PICK m, n : m = Len(s) /\ n = Len(t)
    OBVIOUS
<1>2. m \in Nat /\ n \in Nat /\ DOMAIN s = 1..m /\ DOMAIN t = 1..n
    BY <1>1, QueueFacts
<1>3. /\ s \o t \in Seq(QueueItem) /\ Len(s \o t) = m + n
      /\ \A i \in 1..(m + n) : (s \o t)[i] = IF i <= m THEN s[i] ELSE t[i - m]
    BY <1>1, ConcatProperties
<1>4. DOMAIN (s \o t) = 1..(m + n)
    BY <1>3, QueueFacts
<1>5. ASSUME NEW i \in 1..(m + n)
      PROVE  (s \o t)[i].event \in Events(s) \cup Events(t)
  <2>1. CASE i <= m
    <3>1. i \in DOMAIN s /\ (s \o t)[i] = s[i]
      BY <1>2, <1>3, <2>1
    <3> QED
      BY <3>1 DEF Events
  <2>2. CASE ~(i <= m)
    <3>1. i - m \in DOMAIN t /\ (s \o t)[i] = t[i - m]
      BY <1>2, <1>3, <2>2
    <3> QED
      BY <3>1 DEF Events
  <2> QED
    BY <2>1, <2>2
<1> QED
    BY <1>4, <1>5 DEF Events

LEMMA QueueFollows == UplinkInv => QueueIsFaithful
<1> SUFFICES ASSUME UplinkInv PROVE QueueIsFaithful
    OBVIOUS
<1>1. UplinkTypeOK /\ client \in Client
    BY DEF UplinkInv, UplinkTypeOK
<1>2. CASE client = "extension"
  <2>1. ExtensionInv
    BY <1>2 DEF UplinkInv
  <2>2. ~Sending("replay")
    BY <2>1 DEF ExtensionInv, Sending, Open
  <2>3. NothingIsLost
    BY <2>1 DEF ExtensionInv, NothingIsLost
  <2>4. SentUntilConfirmed
    BY <1>2, <2>1, <2>2 DEF ExtensionInv, SentUntilConfirmed, StillToSend
  <2>5. CacheIsBounded
    <3>1. Len(outbox) <= MaxQueue + 0
      BY <1>1, <2>1, RoomTypes DEF ExtensionInv
    <3> QED
      BY <1>2, <3>1 DEF CacheIsBounded
  <2> QED
    BY <2>3, <2>4, <2>5 DEF QueueIsFaithful
<1>3. CASE client = "cache"
  <2>1. CacheInv
    BY <1>3 DEF UplinkInv
  <2>2. ~Sending("replay")
    BY <2>1 DEF CacheInv, Sending, Open
  <2>3. SentUntilConfirmed
    BY <1>3, <2>1, <2>2 DEF CacheInv, SentUntilConfirmed, StillToSend
  <2>4. CacheIsBounded
    <3>1. PICK L, A, S : L = Len(outbox) /\ A = Cardinality(Adding) /\ S = Slack
      OBVIOUS
    <3>2. L \in Nat /\ A \in Nat /\ S \in Int /\ MaxQueue \in Nat
      BY <1>1, <3>1, RoomTypes
    <3>3. L + A <= MaxQueue + S
      BY <2>1, <3>1 DEF CacheInv, RoomIsKept
    <3>4. L <= MaxQueue + S
      BY <3>2, <3>3
    <3>5. S = IF client = "cache" /\ overlap THEN Cardinality(Worker) - 1 ELSE 0
      BY <1>3, <3>1 DEF Slack
    <3> QED
      BY <3>1, <3>4, <3>5 DEF CacheIsBounded
  <2> QED
    BY <2>1, <2>3, <2>4 DEF QueueIsFaithful, CacheInv
<1>4. CASE client = "app"
  <2>1. AppInv
    BY <1>4 DEF UplinkInv
  <2>2. SentUntilConfirmed
    <3>1. CASE ~Sending("replay")
      BY <2>1, <3>1 DEF AppInv, SentUntilConfirmed, StillToSend
    <3>2. CASE Sending("replay")
      <4>1. ASSUME NEW w \in Worker, Open(w, "replay")
            PROVE  Events(txn[w].rest \o txn[w].kept) \cap confirmed = {}
        <5>1. txn[w].rest \in Seq(QueueItem) /\ txn[w].kept \in Seq(QueueItem)
          BY <1>1, <4>1, UplinkReads
        <5>2. (Events(txn[w].rest) \cup Events(txn[w].kept)) \cap confirmed = {}
          BY <2>1, <4>1 DEF AppInv, ReplayStands
        <5>3. Events(txn[w].rest \o txn[w].kept)
                \subseteq Events(txn[w].rest) \cup Events(txn[w].kept)
          BY <5>1, ConcatEvents
        <5> QED
          BY <5>2, <5>3
      <4>2. StillToSend \cap confirmed = {}
        BY <3>2, <4>1 DEF StillToSend
      <4> QED
        BY <4>2 DEF SentUntilConfirmed
    <3> QED
      BY <3>1, <3>2
  <2>3. CacheIsBounded
    <3>1. Len(outbox) <= MaxQueue + 0
      BY <1>1, <2>1, RoomTypes DEF AppInv
    <3> QED
      BY <1>4, <3>1 DEF CacheIsBounded
  <2> QED
    BY <2>1, <2>2, <2>3 DEF QueueIsFaithful, AppInv
<1> QED
    BY <1>1, <1>2, <1>3, <1>4 DEF Client

(* A queue loses nothing that it was handed, as long as nobody disturbs the call that
   sends from it; what the client knows to be with the server is not sent again; and
   the cache exceeds its limit by the calls that overlap at most, the others never. *)
THEOREM QueuesAreFaithful == UplinkSpec => []QueueIsFaithful
<1>1. UplinkInit => UplinkInv
    BY UplinkInitially DEF UplinkInit
<1>2. UplinkInv /\ [UplinkNext]_uplinkVars => UplinkInv'
    BY UplinkInvStep, UplinkInvStutter
<1> QED
    BY <1>1, <1>2, QueueFollows, PTL DEF UplinkSpec

-----------------------------------------------------------------------------
(***************************************************************************)
(* The services together.  The one that runs keeps its own invariant; the  *)
(* tables of the others are as they were at first (ServicesInv).  For each *)
(* a lemma says that a step of any service keeps that, whatever else holds *)
(* of the others.                                                          *)
(***************************************************************************)
ScreenTimeServed ==
    IF active = "screen time" THEN ScreenTimeInv ELSE ScreenTimeTablesInit
LocationServed ==
    IF active = "location" THEN LocationInv ELSE LocationTablesInit
CaptureServed ==
    IF active = "capture" THEN CaptureInv ELSE CaptureTablesInit
DataRightsServed ==
    IF active = "data rights" THEN DataRightsInv ELSE DataRightsTablesInit
RetentionServed ==
    IF active = "retention" THEN RetentionTypeOK ELSE RetentionTablesInit
AutoBlocksServed ==
    IF active = "automatic rules" THEN AutoBlocksTypeOK ELSE AutoBlocksTablesInit
BypassServed ==
    IF active = "bypass" THEN BypassInv ELSE BypassTablesInit
JoiningServed ==
    IF active = "joining" THEN JoiningInv ELSE JoiningTablesInit
CredentialsServed ==
    IF active = "credentials" THEN CredentialsInv ELSE CredentialsTablesInit
SubscriptionsServed ==
    IF active = "subscriptions" THEN SubscriptionsInv ELSE SubscriptionsTablesInit
UplinkServed ==
    IF active = "uplink" THEN UplinkInv ELSE UplinkTablesInit /\ client = "extension"
RealtimeServed ==
    IF active = "realtime" THEN RealtimeInv ELSE RealtimeTablesInit
SharingServed ==
    IF active = "sharing" THEN SharingInv ELSE SharingTablesInit
LearningServed ==
    IF active = "learning" THEN LearningInv ELSE LearningTablesInit
IdentityProtectionServed ==
    IF active = "identity protection" THEN IdentityProtectionInv ELSE IdentityProtectionTablesInit
CasesServed ==
    IF active = "cases" THEN CasesInv ELSE CasesTablesInit
DeviceUsageServed ==
    IF active = "device usage" THEN DeviceUsageInv ELSE DeviceUsageTablesInit
GroupSettingsServed ==
    IF active = "group settings" THEN GroupSettingsInv ELSE GroupSettingsTablesInit
SpendServed ==
    IF active = "spend" THEN SpendInv ELSE SpendTablesInit
RateLimitServed ==
    IF active = "rate limit" THEN RateLimitInv ELSE RateLimitTablesInit
SocketClientServed ==
    IF active = "socket client" THEN SocketClientInv ELSE SocketClientTablesInit

ServicesInv ==
    /\ active \in Service
    /\ ScreenTimeServed
    /\ LocationServed
    /\ CaptureServed
    /\ DataRightsServed
    /\ RetentionServed
    /\ AutoBlocksServed
    /\ BypassServed
    /\ JoiningServed
    /\ CredentialsServed
    /\ SubscriptionsServed
    /\ UplinkServed
    /\ RealtimeServed
    /\ SharingServed
    /\ LearningServed
    /\ IdentityProtectionServed
    /\ CasesServed
    /\ DeviceUsageServed
    /\ GroupSettingsServed
    /\ SpendServed
    /\ RateLimitServed
    /\ SocketClientServed

(* Where a service runs it takes every step, and where it does not its tables
   stay. *)
LEMMA OneServes ==
    ASSUME ServicesNext
    PROVE  /\ active' = active
           /\ active = "screen time" => ScreenTimeNext
           /\ active # "screen time" => UNCHANGED screenTimeTables
           /\ active = "location" => LocationNext
           /\ active # "location" => UNCHANGED locationTables
           /\ active = "capture" => CaptureNext
           /\ active # "capture" => UNCHANGED captureTables
           /\ active = "data rights" => DataRightsNext
           /\ active # "data rights" => UNCHANGED dataRightsTables
           /\ active = "retention" => RetentionNext
           /\ active # "retention" => UNCHANGED retentionTables
           /\ active = "automatic rules" => AutoBlocksNext
           /\ active # "automatic rules" => UNCHANGED autoBlocksTables
           /\ active = "bypass" => BypassNext
           /\ active # "bypass" => UNCHANGED bypassTables
           /\ active = "joining" => JoiningNext
           /\ active # "joining" => UNCHANGED joiningTables
           /\ active = "credentials" => CredentialsNext
           /\ active # "credentials" => UNCHANGED credentialsTables
           /\ active = "subscriptions" => SubscriptionsNext
           /\ active # "subscriptions" => UNCHANGED subscriptionsTables
           /\ active = "uplink" => UplinkNext
           /\ active # "uplink" => UNCHANGED uplinkTables
           /\ active = "realtime" => RealtimeNext
           /\ active # "realtime" => UNCHANGED realtimeTables
           /\ active = "sharing" => SharingNext
           /\ active # "sharing" => UNCHANGED sharingTables
           /\ active = "learning" => LearningNext
           /\ active # "learning" => UNCHANGED learningTables
           /\ active = "identity protection" => IdentityProtectionNext
           /\ active # "identity protection" => UNCHANGED identityProtectionTables
           /\ active = "cases" => CasesNext
           /\ active # "cases" => UNCHANGED casesTables
           /\ active = "device usage" => DeviceUsageNext
           /\ active # "device usage" => UNCHANGED deviceUsageTables
           /\ active = "group settings" => GroupSettingsNext
           /\ active # "group settings" => UNCHANGED groupSettingsTables
           /\ active = "spend" => SpendNext
           /\ active # "spend" => UNCHANGED spendTables
           /\ active = "rate limit" => RateLimitNext
           /\ active # "rate limit" => UNCHANGED rateLimitTables
           /\ active = "socket client" => SocketClientNext
           /\ active # "socket client" => UNCHANGED socketClientTables
BY DEF ServicesNext, OthersUnchanged

LEMMA NoneServes ==
    ASSUME UNCHANGED servicesVars
    PROVE  /\ active' = active
           /\ UNCHANGED screenTimeTables
           /\ UNCHANGED locationTables
           /\ UNCHANGED captureTables
           /\ UNCHANGED dataRightsTables
           /\ UNCHANGED retentionTables
           /\ UNCHANGED autoBlocksTables
           /\ UNCHANGED bypassTables
           /\ UNCHANGED joiningTables
           /\ UNCHANGED credentialsTables
           /\ UNCHANGED subscriptionsTables
           /\ UNCHANGED uplinkTables
           /\ UNCHANGED realtimeTables
           /\ UNCHANGED sharingTables
           /\ UNCHANGED learningTables
           /\ UNCHANGED identityProtectionTables
           /\ UNCHANGED casesTables
           /\ UNCHANGED deviceUsageTables
           /\ UNCHANGED groupSettingsTables
           /\ UNCHANGED spendTables
           /\ UNCHANGED rateLimitTables
           /\ UNCHANGED socketClientTables
           /\ UNCHANGED screenTimeVars
           /\ UNCHANGED locationVars
           /\ UNCHANGED captureVars
           /\ UNCHANGED dataRightsVars
           /\ UNCHANGED retentionVars
           /\ UNCHANGED autoBlocksVars
           /\ UNCHANGED bypassVars
           /\ UNCHANGED joiningVars
           /\ UNCHANGED credentialsVars
           /\ UNCHANGED subscriptionsVars
           /\ UNCHANGED uplinkVars
           /\ UNCHANGED sharingVars
           /\ UNCHANGED learningVars
           /\ UNCHANGED identityProtectionVars
           /\ UNCHANGED casesVars
           /\ UNCHANGED deviceUsageVars
           /\ UNCHANGED groupSettingsVars
           /\ UNCHANGED spendVars
           /\ UNCHANGED rateLimitVars
BY DEF servicesVars, sessions, screenTimeTables, screenTimeVars,
       locationTables, locationVars,
       captureTables, captureVars,
       dataRightsTables, dataRightsVars,
       retentionTables, retentionVars,
       autoBlocksTables, autoBlocksVars,
       bypassTables, bypassVars,
       joiningTables, joiningVars,
       credentialsTables, credentialsVars,
       subscriptionsTables, subscriptionsVars,
       uplinkTables, uplinkVars,
       realtimeTables, realtimeVars,
       sharingTables, sharingVars,
       learningTables, learningVars,
       identityProtectionTables, identityProtectionVars,
       casesTables, casesVars,
       deviceUsageTables, deviceUsageVars,
       groupSettingsTables, groupSettingsVars,
       spendTables, spendVars,
       rateLimitTables, rateLimitVars,
       socketClientTables, socketClientVars

LEMMA ScreenTimeServes ==
    ScreenTimeServed /\ [ServicesNext]_servicesVars => ScreenTimeServed'
<1> SUFFICES ASSUME ScreenTimeServed, [ServicesNext]_servicesVars
             PROVE  ScreenTimeServed'
    OBVIOUS
<1>1. active' = active
    BY OneServes, NoneServes
<1>2. CASE active = "screen time"
  <2>1. ScreenTimeInv /\ [ScreenTimeNext]_screenTimeVars
    BY <1>2, OneServes, NoneServes DEF ScreenTimeServed
  <2> QED
    BY <1>1, <1>2, <2>1, ScreenTimeInvStep DEF ScreenTimeServed
<1>3. CASE active # "screen time"
  <2>1. ScreenTimeTablesInit /\ UNCHANGED screenTimeTables
    BY <1>3, OneServes, NoneServes DEF ScreenTimeServed
  <2>2. ScreenTimeTablesInit'
    BY <2>1 DEF ScreenTimeTablesInit, screenTimeTables
  <2> QED
    BY <1>1, <1>3, <2>2 DEF ScreenTimeServed
<1> QED
    BY <1>2, <1>3

LEMMA LocationServes ==
    LocationServed /\ [ServicesNext]_servicesVars => LocationServed'
<1> SUFFICES ASSUME LocationServed, [ServicesNext]_servicesVars
             PROVE  LocationServed'
    OBVIOUS
<1>1. active' = active
    BY OneServes, NoneServes
<1>2. CASE active = "location"
  <2>1. LocationInv /\ (LocationNext \/ UNCHANGED locationVars)
    BY <1>2, OneServes, NoneServes DEF LocationServed
  <2> QED
    BY <1>1, <1>2, <2>1, LocationInvStep, LocationInvStutter DEF LocationServed
<1>3. CASE active # "location"
  <2>1. LocationTablesInit /\ UNCHANGED locationTables
    BY <1>3, OneServes, NoneServes DEF LocationServed
  <2>2. LocationTablesInit'
    BY <2>1 DEF LocationTablesInit, locationTables
  <2> QED
    BY <1>1, <1>3, <2>2 DEF LocationServed
<1> QED
    BY <1>2, <1>3

LEMMA CaptureServes ==
    CaptureServed /\ [ServicesNext]_servicesVars => CaptureServed'
<1> SUFFICES ASSUME CaptureServed, [ServicesNext]_servicesVars
             PROVE  CaptureServed'
    OBVIOUS
<1>1. active' = active
    BY OneServes, NoneServes
<1>2. CASE active = "capture"
  <2>1. CaptureInv /\ [CaptureNext]_captureVars
    BY <1>2, OneServes, NoneServes DEF CaptureServed
  <2> QED
    BY <1>1, <1>2, <2>1, CaptureInvStep DEF CaptureServed
<1>3. CASE active # "capture"
  <2>1. CaptureTablesInit /\ UNCHANGED captureTables
    BY <1>3, OneServes, NoneServes DEF CaptureServed
  <2>2. CaptureTablesInit'
    BY <2>1 DEF CaptureTablesInit, captureTables
  <2> QED
    BY <1>1, <1>3, <2>2 DEF CaptureServed
<1> QED
    BY <1>2, <1>3

LEMMA DataRightsServes ==
    DataRightsServed /\ [ServicesNext]_servicesVars => DataRightsServed'
<1> SUFFICES ASSUME DataRightsServed, [ServicesNext]_servicesVars
             PROVE  DataRightsServed'
    OBVIOUS
<1>1. active' = active
    BY OneServes, NoneServes
<1>2. CASE active = "data rights"
  <2>1. DataRightsInv /\ [DataRightsNext]_dataRightsVars
    BY <1>2, OneServes, NoneServes DEF DataRightsServed
  <2> QED
    BY <1>1, <1>2, <2>1, DataRightsInvStep DEF DataRightsServed
<1>3. CASE active # "data rights"
  <2>1. DataRightsTablesInit /\ UNCHANGED dataRightsTables
    BY <1>3, OneServes, NoneServes DEF DataRightsServed
  <2>2. DataRightsTablesInit'
    BY <2>1 DEF DataRightsTablesInit, dataRightsTables
  <2> QED
    BY <1>1, <1>3, <2>2 DEF DataRightsServed
<1> QED
    BY <1>2, <1>3

LEMMA RetentionServes ==
    RetentionServed /\ [ServicesNext]_servicesVars => RetentionServed'
<1> SUFFICES ASSUME RetentionServed, [ServicesNext]_servicesVars
             PROVE  RetentionServed'
    OBVIOUS
<1>1. active' = active
    BY OneServes, NoneServes
<1>2. CASE active = "retention"
  <2>1. RetentionTypeOK /\ (RetentionNext \/ UNCHANGED retentionVars)
    BY <1>2, OneServes, NoneServes DEF RetentionServed
  <2> QED
    BY <1>1, <1>2, <2>1, RetentionTypeStep, RetentionTypeStutter DEF RetentionServed
<1>3. CASE active # "retention"
  <2>1. RetentionTablesInit /\ UNCHANGED retentionTables
    BY <1>3, OneServes, NoneServes DEF RetentionServed
  <2>2. RetentionTablesInit'
    BY <2>1 DEF RetentionTablesInit, retentionTables
  <2> QED
    BY <1>1, <1>3, <2>2 DEF RetentionServed
<1> QED
    BY <1>2, <1>3

LEMMA AutoBlocksServes ==
    AutoBlocksServed /\ [ServicesNext]_servicesVars => AutoBlocksServed'
<1> SUFFICES ASSUME AutoBlocksServed, [ServicesNext]_servicesVars
             PROVE  AutoBlocksServed'
    OBVIOUS
<1>1. active' = active
    BY OneServes, NoneServes
<1>2. CASE active = "automatic rules"
  <2>1. AutoBlocksTypeOK /\ (AutoBlocksNext \/ UNCHANGED autoBlocksVars)
    BY <1>2, OneServes, NoneServes DEF AutoBlocksServed
  <2> QED
    BY <1>1, <1>2, <2>1, AutoBlocksTypeStep, AutoBlocksTypeStutter DEF AutoBlocksServed
<1>3. CASE active # "automatic rules"
  <2>1. AutoBlocksTablesInit /\ UNCHANGED autoBlocksTables
    BY <1>3, OneServes, NoneServes DEF AutoBlocksServed
  <2>2. AutoBlocksTablesInit'
    BY <2>1 DEF AutoBlocksTablesInit, autoBlocksTables
  <2> QED
    BY <1>1, <1>3, <2>2 DEF AutoBlocksServed
<1> QED
    BY <1>2, <1>3

LEMMA BypassServes ==
    BypassServed /\ [ServicesNext]_servicesVars => BypassServed'
<1> SUFFICES ASSUME BypassServed, [ServicesNext]_servicesVars
             PROVE  BypassServed'
    OBVIOUS
<1>1. active' = active
    BY OneServes, NoneServes
<1>2. CASE active = "bypass"
  <2>1. BypassInv /\ [BypassNext]_bypassVars
    BY <1>2, OneServes, NoneServes DEF BypassServed
  <2> QED
    BY <1>1, <1>2, <2>1, BypassInvStep DEF BypassServed
<1>3. CASE active # "bypass"
  <2>1. BypassTablesInit /\ UNCHANGED bypassTables
    BY <1>3, OneServes, NoneServes DEF BypassServed
  <2>2. BypassTablesInit'
    BY <2>1 DEF BypassTablesInit, bypassTables
  <2> QED
    BY <1>1, <1>3, <2>2 DEF BypassServed
<1> QED
    BY <1>2, <1>3

LEMMA JoiningServes ==
    JoiningServed /\ [ServicesNext]_servicesVars => JoiningServed'
<1> SUFFICES ASSUME JoiningServed, [ServicesNext]_servicesVars
             PROVE  JoiningServed'
    OBVIOUS
<1>1. active' = active
    BY OneServes, NoneServes
<1>2. CASE active = "joining"
  <2>1. JoiningInv /\ (JoiningNext \/ UNCHANGED joiningVars)
    BY <1>2, OneServes, NoneServes DEF JoiningServed
  <2> QED
    BY <1>1, <1>2, <2>1, JoiningInvStep, JoiningInvStutter DEF JoiningServed
<1>3. CASE active # "joining"
  <2>1. JoiningTablesInit /\ UNCHANGED joiningTables
    BY <1>3, OneServes, NoneServes DEF JoiningServed
  <2>2. JoiningTablesInit'
    BY <2>1 DEF JoiningTablesInit, joiningTables
  <2> QED
    BY <1>1, <1>3, <2>2 DEF JoiningServed
<1> QED
    BY <1>2, <1>3

LEMMA CredentialsServes ==
    CredentialsServed /\ [ServicesNext]_servicesVars => CredentialsServed'
<1> SUFFICES ASSUME CredentialsServed, [ServicesNext]_servicesVars
             PROVE  CredentialsServed'
    OBVIOUS
<1>1. active' = active
    BY OneServes, NoneServes
<1>2. CASE active = "credentials"
  <2>1. CredentialsInv /\ [CredentialsNext]_credentialsVars
    BY <1>2, OneServes, NoneServes DEF CredentialsServed
  <2> QED
    BY <1>1, <1>2, <2>1, CredentialsInvStep DEF CredentialsServed
<1>3. CASE active # "credentials"
  <2>1. CredentialsTablesInit /\ UNCHANGED credentialsTables
    BY <1>3, OneServes, NoneServes DEF CredentialsServed
  <2>2. CredentialsTablesInit'
    BY <2>1 DEF CredentialsTablesInit, credentialsTables
  <2> QED
    BY <1>1, <1>3, <2>2 DEF CredentialsServed
<1> QED
    BY <1>2, <1>3

LEMMA SubscriptionsServes ==
    SubscriptionsServed /\ [ServicesNext]_servicesVars => SubscriptionsServed'
<1> SUFFICES ASSUME SubscriptionsServed, [ServicesNext]_servicesVars
             PROVE  SubscriptionsServed'
    OBVIOUS
<1>1. active' = active
    BY OneServes, NoneServes
<1>2. CASE active = "subscriptions"
  <2>1. SubscriptionsInv /\ (SubscriptionsNext \/ UNCHANGED subscriptionsVars)
    BY <1>2, OneServes, NoneServes DEF SubscriptionsServed
  <2> QED
    BY <1>1, <1>2, <2>1, SubscriptionsInvStep, SubscriptionsInvStutter DEF SubscriptionsServed
<1>3. CASE active # "subscriptions"
  <2>1. SubscriptionsTablesInit /\ UNCHANGED subscriptionsTables
    BY <1>3, OneServes, NoneServes DEF SubscriptionsServed
  <2>2. SubscriptionsTablesInit'
    BY <2>1 DEF SubscriptionsTablesInit, subscriptionsTables
  <2> QED
    BY <1>1, <1>3, <2>2 DEF SubscriptionsServed
<1> QED
    BY <1>2, <1>3

LEMMA UplinkServes ==
    UplinkServed /\ [ServicesNext]_servicesVars => UplinkServed'
<1> SUFFICES ASSUME UplinkServed, [ServicesNext]_servicesVars
             PROVE  UplinkServed'
    OBVIOUS
<1>1. active' = active
    BY OneServes, NoneServes
<1>2. CASE active = "uplink"
  <2>1. UplinkInv /\ (UplinkNext \/ UNCHANGED uplinkVars)
    BY <1>2, OneServes, NoneServes DEF UplinkServed
  <2> QED
    BY <1>1, <1>2, <2>1, UplinkInvStep, UplinkInvStutter DEF UplinkServed
<1>3. CASE active # "uplink"
  <2>1. UplinkTablesInit /\ client = "extension" /\ UNCHANGED uplinkTables
    BY <1>3, OneServes, NoneServes DEF UplinkServed
  <2>2. UplinkTablesInit' /\ client' = "extension"
    BY <2>1 DEF UplinkTablesInit, uplinkTables
  <2> QED
    BY <1>1, <1>3, <2>2 DEF UplinkServed
<1> QED
    BY <1>2, <1>3

LEMMA RealtimeServes ==
    RealtimeServed /\ [ServicesNext]_servicesVars => RealtimeServed'
<1> SUFFICES ASSUME RealtimeServed, [ServicesNext]_servicesVars
             PROVE  RealtimeServed'
    OBVIOUS
<1>1. active' = active
    BY OneServes, NoneServes
<1>2. CASE active = "realtime"
  <2>1. RealtimeInv /\ (RealtimeNext \/ UNCHANGED realtimeTables)
    BY <1>2, OneServes, NoneServes DEF RealtimeServed
  <2> QED
    BY <1>1, <1>2, <2>1, RealtimeInvStep, RealtimeInvStutter DEF RealtimeServed
<1>3. CASE active # "realtime"
  <2>1. RealtimeTablesInit /\ UNCHANGED realtimeTables
    BY <1>3, OneServes, NoneServes DEF RealtimeServed
  <2>2. RealtimeTablesInit'
    BY <2>1 DEF RealtimeTablesInit, realtimeTables
  <2> QED
    BY <1>1, <1>3, <2>2 DEF RealtimeServed
<1> QED
    BY <1>2, <1>3

LEMMA SharingServes ==
    SharingServed /\ [ServicesNext]_servicesVars => SharingServed'
<1> SUFFICES ASSUME SharingServed, [ServicesNext]_servicesVars
             PROVE  SharingServed'
    OBVIOUS
<1>1. active' = active
    BY OneServes, NoneServes
<1>2. CASE active = "sharing"
  <2>1. SharingInv /\ (SharingNext \/ UNCHANGED sharingVars)
    BY <1>2, OneServes, NoneServes DEF SharingServed
  <2> QED
    BY <1>1, <1>2, <2>1, SharingInvStep, SharingInvStutter DEF SharingServed
<1>3. CASE active # "sharing"
  <2>1. SharingTablesInit /\ UNCHANGED sharingTables
    BY <1>3, OneServes, NoneServes DEF SharingServed
  <2>2. SharingTablesInit'
    BY <2>1 DEF SharingTablesInit, sharingTables
  <2> QED
    BY <1>1, <1>3, <2>2 DEF SharingServed
<1> QED
    BY <1>2, <1>3

LEMMA LearningServes ==
    LearningServed /\ [ServicesNext]_servicesVars => LearningServed'
<1> SUFFICES ASSUME LearningServed, [ServicesNext]_servicesVars
             PROVE  LearningServed'
    OBVIOUS
<1>1. active' = active
    BY OneServes, NoneServes
<1>2. CASE active = "learning"
  <2>1. LearningInv /\ (LearningNext \/ UNCHANGED learningVars)
    BY <1>2, OneServes, NoneServes DEF LearningServed
  <2> QED
    BY <1>1, <1>2, <2>1, LearningInvStep, LearningInvStutter DEF LearningServed
<1>3. CASE active # "learning"
  <2>1. LearningTablesInit /\ UNCHANGED learningTables
    BY <1>3, OneServes, NoneServes DEF LearningServed
  <2>2. LearningTablesInit'
    BY <2>1 DEF LearningTablesInit, learningTables
  <2> QED
    BY <1>1, <1>3, <2>2 DEF LearningServed
<1> QED
    BY <1>2, <1>3

LEMMA IdentityProtectionServes ==
    IdentityProtectionServed /\ [ServicesNext]_servicesVars => IdentityProtectionServed'
<1> SUFFICES ASSUME IdentityProtectionServed, [ServicesNext]_servicesVars
             PROVE  IdentityProtectionServed'
    OBVIOUS
<1>1. active' = active
    BY OneServes, NoneServes
<1>2. CASE active = "identity protection"
  <2>1. IdentityProtectionInv /\ (IdentityProtectionNext \/ UNCHANGED identityProtectionVars)
    BY <1>2, OneServes, NoneServes DEF IdentityProtectionServed
  <2> QED
    BY <1>1, <1>2, <2>1, IdentityInvStep, IdentityInvStutter DEF IdentityProtectionServed
<1>3. CASE active # "identity protection"
  <2>1. IdentityProtectionTablesInit /\ UNCHANGED identityProtectionTables
    BY <1>3, OneServes, NoneServes DEF IdentityProtectionServed
  <2>2. IdentityProtectionTablesInit'
    BY <2>1 DEF IdentityProtectionTablesInit, identityProtectionTables
  <2> QED
    BY <1>1, <1>3, <2>2 DEF IdentityProtectionServed
<1> QED
    BY <1>2, <1>3

LEMMA CasesServes ==
    CasesServed /\ [ServicesNext]_servicesVars => CasesServed'
<1> SUFFICES ASSUME CasesServed, [ServicesNext]_servicesVars
             PROVE  CasesServed'
    OBVIOUS
<1>1. active' = active
    BY OneServes, NoneServes
<1>2. CASE active = "cases"
  <2>1. CasesInv /\ (CasesNext \/ UNCHANGED casesVars)
    BY <1>2, OneServes, NoneServes DEF CasesServed
  <2> QED
    BY <1>1, <1>2, <2>1, CasesInvStep, CasesInvStutter DEF CasesServed
<1>3. CASE active # "cases"
  <2>1. CasesTablesInit /\ UNCHANGED casesTables
    BY <1>3, OneServes, NoneServes DEF CasesServed
  <2>2. CasesTablesInit'
    BY <2>1 DEF CasesTablesInit, casesTables
  <2> QED
    BY <1>1, <1>3, <2>2 DEF CasesServed
<1> QED
    BY <1>2, <1>3

LEMMA DeviceUsageServes ==
    DeviceUsageServed /\ [ServicesNext]_servicesVars => DeviceUsageServed'
<1> SUFFICES ASSUME DeviceUsageServed, [ServicesNext]_servicesVars
             PROVE  DeviceUsageServed'
    OBVIOUS
<1>1. active' = active
    BY OneServes, NoneServes
<1>2. CASE active = "device usage"
  <2>1. DeviceUsageInv /\ (DeviceUsageNext \/ UNCHANGED deviceUsageVars)
    BY <1>2, OneServes, NoneServes DEF DeviceUsageServed
  <2> QED
    BY <1>1, <1>2, <2>1, DeviceUsageInvStep, DeviceUsageInvStutter DEF DeviceUsageServed
<1>3. CASE active # "device usage"
  <2>1. DeviceUsageTablesInit /\ UNCHANGED deviceUsageTables
    BY <1>3, OneServes, NoneServes DEF DeviceUsageServed
  <2>2. DeviceUsageTablesInit'
    BY <2>1 DEF DeviceUsageTablesInit, deviceUsageTables
  <2> QED
    BY <1>1, <1>3, <2>2 DEF DeviceUsageServed
<1> QED
    BY <1>2, <1>3

LEMMA GroupSettingsServes ==
    GroupSettingsServed /\ [ServicesNext]_servicesVars => GroupSettingsServed'
<1> SUFFICES ASSUME GroupSettingsServed, [ServicesNext]_servicesVars
             PROVE  GroupSettingsServed'
    OBVIOUS
<1>1. active' = active
    BY OneServes, NoneServes
<1>2. CASE active = "group settings"
  <2>1. GroupSettingsInv /\ (GroupSettingsNext \/ UNCHANGED groupSettingsVars)
    BY <1>2, OneServes, NoneServes DEF GroupSettingsServed
  <2> QED
    BY <1>1, <1>2, <2>1, GroupSettingsInvStep, GroupSettingsInvStutter DEF GroupSettingsServed
<1>3. CASE active # "group settings"
  <2>1. GroupSettingsTablesInit /\ UNCHANGED groupSettingsTables
    BY <1>3, OneServes, NoneServes DEF GroupSettingsServed
  <2>2. GroupSettingsTablesInit'
    BY <2>1 DEF GroupSettingsTablesInit, groupSettingsTables
  <2> QED
    BY <1>1, <1>3, <2>2 DEF GroupSettingsServed
<1> QED
    BY <1>2, <1>3

LEMMA SpendServes ==
    SpendServed /\ [ServicesNext]_servicesVars => SpendServed'
<1> SUFFICES ASSUME SpendServed, [ServicesNext]_servicesVars
             PROVE  SpendServed'
    OBVIOUS
<1>1. active' = active
    BY OneServes, NoneServes
<1>2. CASE active = "spend"
  <2>1. SpendInv /\ (SpendNext \/ UNCHANGED spendVars)
    BY <1>2, OneServes, NoneServes DEF SpendServed
  <2> QED
    BY <1>1, <1>2, <2>1, SpendInvStep, SpendInvStutter DEF SpendServed
<1>3. CASE active # "spend"
  <2>1. SpendTablesInit /\ UNCHANGED spendTables
    BY <1>3, OneServes, NoneServes DEF SpendServed
  <2>2. SpendTablesInit'
    BY <2>1 DEF SpendTablesInit, spendTables, recorded
  <2> QED
    BY <1>1, <1>3, <2>2 DEF SpendServed
<1> QED
    BY <1>2, <1>3

LEMMA RateLimitServes ==
    RateLimitServed /\ [ServicesNext]_servicesVars => RateLimitServed'
<1> SUFFICES ASSUME RateLimitServed, [ServicesNext]_servicesVars
             PROVE  RateLimitServed'
    OBVIOUS
<1>1. active' = active
    BY OneServes, NoneServes
<1>2. CASE active = "rate limit"
  <2>1. RateLimitInv /\ (RateLimitNext \/ UNCHANGED rateLimitVars)
    BY <1>2, OneServes, NoneServes DEF RateLimitServed
  <2> QED
    BY <1>1, <1>2, <2>1, RateLimitInvStep, RateLimitInvStutter DEF RateLimitServed
<1>3. CASE active # "rate limit"
  <2>1. RateLimitTablesInit /\ UNCHANGED rateLimitTables
    BY <1>3, OneServes, NoneServes DEF RateLimitServed
  <2>2. RateLimitTablesInit'
    BY <2>1 DEF RateLimitTablesInit, rateLimitTables, theSet
  <2> QED
    BY <1>1, <1>3, <2>2 DEF RateLimitServed
<1> QED
    BY <1>2, <1>3

LEMMA SocketClientServes ==
    SocketClientServed /\ [ServicesNext]_servicesVars => SocketClientServed'
<1> SUFFICES ASSUME SocketClientServed, [ServicesNext]_servicesVars
             PROVE  SocketClientServed'
    OBVIOUS
<1>1. active' = active
    BY OneServes, NoneServes
<1>2. CASE active = "socket client"
  <2>1. SocketClientInv /\ (SocketClientNext \/ UNCHANGED socketClientTables)
    BY <1>2, OneServes, NoneServes DEF SocketClientServed
  <2> QED
    BY <1>1, <1>2, <2>1, SocketClientInvStep, SocketClientInvStutter DEF SocketClientServed
<1>3. CASE active # "socket client"
  <2>1. SocketClientTablesInit /\ UNCHANGED socketClientTables
    BY <1>3, OneServes, NoneServes DEF SocketClientServed
  <2>2. SocketClientTablesInit'
    BY <2>1 DEF SocketClientTablesInit, socketClientTables
  <2> QED
    BY <1>1, <1>3, <2>2 DEF SocketClientServed
<1> QED
    BY <1>2, <1>3

LEMMA ServicesInitially == ServicesInit => ServicesInv
<1> SUFFICES ASSUME ServicesInit PROVE ServicesInv
    OBVIOUS
<1>0. active \in Service /\ SessionsInit
    BY RunningAssumption DEF ServicesInit
<1>1. ScreenTimeServed
    BY <1>0, ScreenTimeInitially DEF ServicesInit, ScreenTimeServed, ScreenTimeInit
<1>2. LocationServed
    BY <1>0, LocationInitially DEF ServicesInit, LocationServed, LocationInit
<1>3. CaptureServed
    BY <1>0, CaptureInitially DEF ServicesInit, CaptureServed, CaptureInit
<1>4. DataRightsServed
    BY <1>0, DataRightsInitially DEF ServicesInit, DataRightsServed, DataRightsInit
<1>5. RetentionServed
    BY <1>0, RetentionInitially DEF ServicesInit, RetentionServed, RetentionInit
<1>6. AutoBlocksServed
    BY <1>0, AutoBlocksInitially DEF ServicesInit, AutoBlocksServed, AutoBlocksInit
<1>7. BypassServed
    BY <1>0, BypassInitially DEF ServicesInit, BypassServed, BypassInit
<1>8. JoiningServed
    BY <1>0, JoiningInitially DEF ServicesInit, JoiningServed, JoiningInit
<1>9. CredentialsServed
    BY <1>0, CredentialsInitially DEF ServicesInit, CredentialsServed, CredentialsInit
<1>10. SubscriptionsServed
    BY <1>0, SubscriptionsInitially DEF ServicesInit, SubscriptionsServed, SubscriptionsInit
<1>11. UplinkServed
    BY <1>0, UplinkInitially DEF ServicesInit, UplinkServed, UplinkInit
<1>12. RealtimeServed
    BY <1>0, RealtimeInitially DEF ServicesInit, RealtimeServed, RealtimeInit
<1>13. SharingServed
    BY <1>0, SharingInitially DEF ServicesInit, SharingServed, SharingInit
<1>14. LearningServed
    BY <1>0, LearningInitially DEF ServicesInit, LearningServed, LearningInit
<1>15. IdentityProtectionServed
    BY <1>0, IdentityInitially DEF ServicesInit, IdentityProtectionServed, IdentityProtectionInit
<1>16. CasesServed
    BY <1>0, CasesInitially DEF ServicesInit, CasesServed, CasesInit
<1>17. DeviceUsageServed
    BY <1>0, DeviceUsageInitially DEF ServicesInit, DeviceUsageServed, DeviceUsageInit
<1>18. GroupSettingsServed
    BY <1>0, GroupSettingsInitially DEF ServicesInit, GroupSettingsServed, GroupSettingsInit
<1>19. SpendServed
    BY <1>0, SpendInitially DEF ServicesInit, SpendServed, SpendInit
<1>20. RateLimitServed
    BY <1>0, RateLimitInitially DEF ServicesInit, RateLimitServed, RateLimitInit
<1>21. SocketClientServed
    BY <1>0, SocketClientInitially DEF ServicesInit, SocketClientServed, SocketClientInit
<1> QED
    BY <1>0, <1>1, <1>2, <1>3, <1>4, <1>5, <1>6, <1>7, <1>8, <1>9, <1>10, <1>11, <1>12,
       <1>13, <1>14, <1>15, <1>16, <1>17, <1>18, <1>19, <1>20, <1>21
    DEF ServicesInv

LEMMA ServicesInvStep == ServicesInv /\ [ServicesNext]_servicesVars => ServicesInv'
<1>1. active \in Service /\ [ServicesNext]_servicesVars => active' \in Service
    BY OneServes, NoneServes
<1> QED
    BY <1>1, ScreenTimeServes, LocationServes, CaptureServes, DataRightsServes,
       RetentionServes, AutoBlocksServes, BypassServes, JoiningServes, CredentialsServes,
       SubscriptionsServes, UplinkServes, RealtimeServes, SharingServes, LearningServes,
       IdentityProtectionServes, CasesServes, DeviceUsageServes, GroupSettingsServes,
       SpendServes, RateLimitServes, SocketClientServes
    DEF ServicesInv

LEMMA ServicesAlways == ServicesSpec => []ServicesInv
BY ServicesInitially, ServicesInvStep, PTL DEF ServicesSpec

-----------------------------------------------------------------------------
(* What a table that no service has touched says is true of itself. *)
LEMMA NoneIsOne == IsFiniteSet({}) /\ Cardinality({}) = 0
BY FS_EmptySet

LEMMA LimitServed == ScreenTimeServed => WithinExtensionLimit
<1>1. ScreenTimeInv => WithinExtensionLimit
    BY DEF ScreenTimeInv
<1>2. ASSUME ScreenTimeTablesInit PROVE WithinExtensionLimit
  <2>1. \A m \in Member : RequestsToday(m) = {}
    BY <1>2 DEF ScreenTimeTablesInit, RequestsToday, Requests
  <2> QED
    BY <2>1, NoneIsOne, ExtensionLimitAssumption DEF WithinExtensionLimit
<1> QED
    BY <1>1, <1>2 DEF ScreenTimeServed

LEMMA AgreementServed == CaptureServed => OneActiveAgreement
<1>1. CaptureInv => OneActiveAgreement
    BY DEF CaptureInv
<1>2. ASSUME CaptureTablesInit PROVE OneActiveAgreement
  <2>1. Active = {}
    BY <1>2 DEF CaptureTablesInit, Active
  <2> QED
    BY <2>1, NoneIsOne DEF OneActiveAgreement
<1> QED
    BY <1>1, <1>2 DEF CaptureServed

LEMMA ErasureServed == DataRightsServed => ErasedIsGone
<1>1. DataRightsInv => ErasedIsGone
    BY DEF DataRightsInv, RowsNeedMember, ErasedLeft, ErasedIsGone
<1>2. DataRightsTablesInit => ErasedIsGone
    BY DEF DataRightsTablesInit, ErasedIsGone
<1> QED
    BY <1>1, <1>2 DEF DataRightsServed

LEMMA PassesServed == JoiningServed => JoinedAsAllowed
<1>1. JoiningInv => JoinedAsAllowed
    BY DEF JoiningInv, JoinedAsAllowed
<1>2. JoiningTablesInit => JoinedAsAllowed
    BY DEF JoiningTablesInit, JoinedAsAllowed, WithinCap, PassCountsOnce
<1> QED
    BY <1>1, <1>2 DEF JoiningServed

LEMMA GrantsServed == CredentialsServed => OneGrantEach
<1>1. ASSUME CredentialsTablesInit PROVE OneGrantEach
  <2>1. \A c \in CodeId : LivePairs(c) = {}
    BY <1>1 DEF CredentialsTablesInit, LivePairs
  <2>2. \A l \in LoginId : logins[l] = NoRow
    BY <1>1 DEF CredentialsTablesInit
  <2>3. \A s \in SetupId : devices[s] = 0 /\ setups[s] = NoRow
    BY <1>1 DEF CredentialsTablesInit
  <2>4. \A c \in CodeId : Cardinality(LivePairs(c)) <= 1
    BY <2>1, NoneIsOne
  <2> QED
    BY <2>2, <2>3, <2>4 DEF OneGrantEach
<1> QED
    BY <1>1, OneGrantFollows DEF CredentialsServed

LEMMA WebhooksServed == SubscriptionsServed => RowsFollowStripe
<1>1. ASSUME SubscriptionsTablesInit PROVE RowsFollowStripe
  <2>1. \A s \in StripeId : OfStripe(s) = {}
    BY <1>1 DEF SubscriptionsTablesInit, OfStripe, OfGroup
  <2> QED
    BY <2>1, NoneIsOne DEF RowsFollowStripe
<1> QED
    BY <1>1, RowsFollow DEF SubscriptionsServed

LEMMA QueuesServed == UplinkServed => QueueIsFaithful
<1>1. ASSUME UplinkTablesInit, client = "extension" PROVE QueueIsFaithful
  <2>1. outbox = <<>> /\ captured = {} /\ confirmed = {}
    BY <1>1 DEF UplinkTablesInit
  <2>2. Len(outbox) = 0 /\ 0 <= MaxQueue /\ MaxQueue + 0 = MaxQueue
    BY <2>1, NoEvents, UplinkAssumption
  <2>3. CacheIsBounded
    BY <1>1, <2>2 DEF CacheIsBounded
  <2> QED
    BY <2>1, <2>3 DEF QueueIsFaithful, NothingIsLost, SentUntilConfirmed
<1> QED
    BY <1>1, QueueFollows DEF UplinkServed

LEMMA SocketsServed == RealtimeServed => SocketsAreTracked
BY RealtimeInitially DEF RealtimeServed, RealtimeInv, SocketsAreTracked

LEMMA RefusalServed == SharingServed => RefusalStands
<1>1. ASSUME SharingTablesInit PROVE RefusalStands
  <2>1. \A t \in Provider : ItemsOf(items, {t}) = {} /\ standing[t] = "none"
    BY <1>1 DEF SharingTablesInit, ItemsOf
  <2>2. \A t \in Provider :
          {i \in ItemsOf(items, {t}) : items[i].consented /\ ~items[i].withdrawn} = {}
    BY <2>1
  <2>3. \A t \in Provider : ~Allowed(t)
    BY <2>2, NoneIsOne DEF Allowed
  <2>4. ASSUME NEW t \in Provider
        PROVE  Cardinality(ItemsOf(items, {t})) <= 1 /\ standing[t] # "given"
    <3>1. ItemsOf(items, {t}) = {} /\ standing[t] = "none"
      BY <2>1
    <3>2. Cardinality(ItemsOf(items, {t})) <= 1
      BY <3>1, NoneIsOne
    <3> QED
      BY <3>1, <3>2
  <2> QED
    BY <2>3, <2>4, Zenon DEF RefusalStands
<1> QED
    BY <1>1, RefusalFollows DEF SharingServed

LEMMA LinksServed == IdentityProtectionServed => AccountsAreLinked
<1>1. ASSUME IdentityProtectionTablesInit PROVE AccountsAreLinked
  <2>1. \A u \in Member : links[u] = NoRow
    BY <1>1 DEF IdentityProtectionTablesInit
  <2>2. \A a \in AccountId, u \in Member : partnerAccounts[a] # [user |-> u, open |-> TRUE]
    <3>1. \A a \in AccountId : partnerAccounts[a] = NoRow
      BY <1>1 DEF IdentityProtectionTablesInit
    <3>2. \A u \in Member : [user |-> u, open |-> TRUE] \in Account
      BY DEF Account
    <3> QED
      BY <3>1, <3>2, AccountAssumption
  <2>3. \A u \in Member : ~HasActive(u)
    BY <2>1 DEF HasActive
  <2> QED
    BY <2>1, <2>2, <2>3 DEF AccountsAreLinked
<1> QED
    BY <1>1, LinkedFollows DEF IdentityProtectionServed

LEMMA DisconnectServed == SocketClientServed => DisconnectedStays
BY SocketClientInitially, DisconnectedFollows DEF SocketClientServed

LEMMA LearningCounts == LearningServed => RewardsAreEarned /\ ProgressCounts
<1>1. LearningTablesInit => RowsIn(rewards) = {} /\ RowsIn(progress) = {}
    BY DEF LearningTablesInit, RowsIn
<1> QED
    BY <1>1 DEF LearningServed, LearningInv, RewardsAreEarned, ProgressCounts

LEMMA UsageCounts == DeviceUsageServed => SummaryFollowsRecords
<1>1. ASSUME DeviceUsageTablesInit PROVE SummaryFollowsRecords
  <2>1. \A d \in Date : On(d, stored) = {} /\ summary[d] = NoRow
    BY <1>1 DEF DeviceUsageTablesInit, On
  <2> QED
    BY <2>1, NoneIsOne DEF SummaryFollowsRecords
<1> QED
    BY <1>1 DEF DeviceUsageServed, DeviceUsageInv

LEMMA CasesCount == CasesServed => StepsAreKept
BY DEF CasesServed, CasesInv, CasesTablesInit, StepsAreKept

LEMMA SettingsCount == GroupSettingsServed => SettingsStand
<1>1. ASSUME GroupSettingsTablesInit PROVE SettingsStand
  <2>1. \A d \in ReminderDays : mailed[d] = 0
    BY <1>1 DEF GroupSettingsTablesInit
  <2>2. settings = NothingSet /\ chosen = NothingChosen
    BY <1>1 DEF GroupSettingsTablesInit
  <2> QED
    BY <2>1, <2>2 DEF SettingsStand, NothingSet, NothingChosen
<1> QED
    BY <1>1 DEF GroupSettingsServed, GroupSettingsInv

LEMMA SpendCounts == SpendServed => SpendAddsUp
<1>1. ASSUME SpendTablesInit PROVE SpendAddsUp
  <2>1. \A x, y \in ActiveAccounts : x = y
    <3>1. PICK row \in {NoRow, NewAccount("legacy")} :
            llmAccounts = [i \in LlmId |-> IF i = FirstKey THEN row ELSE NoRow]
      BY <1>1 DEF SpendTablesInit
    <3> QED
      BY <3>1 DEF ActiveAccounts
  <2>2. Cardinality(ActiveAccounts) <= 1
    BY <2>1, AtMostOne
  <2>3. /\ \A a \in LlmId : covered[a] = Never
        /\ \A a \in LlmId, h \in Hour : spendRecords[a][h] = 0
        /\ \A m \in MonthStart, l \in Level : fired[m][l] = 0
    BY <1>1 DEF SpendTablesInit
  <2>4. UsageIsFetched /\ UsageIsCountedOnce
    BY <2>3 DEF UsageIsFetched, UsageIsCountedOnce
  <2>5. \A m \in MonthStart, l \in Level : fired[m][l] <= 1
    BY <2>3
  <2> QED
    BY <2>2, <2>4, <2>5 DEF SpendAddsUp
<1> QED
    BY <1>1, SpendFollows DEF SpendServed

LEMMA RequestsCount == RateLimitServed => (active = "rate limit" => RequestsAreCounted)
BY DEF RateLimitServed, RateLimitInv

-----------------------------------------------------------------------------
(* The tables of the service that runs and what its sessions have read are of their
   types. *)
THEOREM ServicesTypeCorrect == ServicesSpec => []ServicesTypeOK
<1>1. ServicesInv => ServicesTypeOK
    BY DEF ServicesInv, ServicesTypeOK, ScreenTimeServed, LocationServed, CaptureServed,
        DataRightsServed, RetentionServed, AutoBlocksServed, BypassServed, JoiningServed,
        CredentialsServed, SubscriptionsServed, UplinkServed, RealtimeServed, SharingServed,
        LearningServed, IdentityProtectionServed, CasesServed, DeviceUsageServed,
        GroupSettingsServed, SpendServed, RateLimitServed, SocketClientServed,
        ScreenTimeInv, LocationInv, CaptureInv, DataRightsInv, BypassInv, JoiningInv,
        CredentialsInv, SubscriptionsInv, UplinkInv, RealtimeInv, SharingInv, LearningInv,
        IdentityProtectionInv, CasesInv, DeviceUsageInv, GroupSettingsInv, SpendInv,
        RateLimitInv, SocketClientInv
<1> QED
    BY <1>1, ServicesAlways, PTL

(* What a parent or subscriber has refused, cancelled or closed is not taken up
   again behind their back: no provider is shared with that they last refused, no
   partner account is open that they cancelled, no socket comes back that they
   disconnected. *)
THEOREM WithdrawnStaysWithdrawn == ServicesSpec => []WithdrawalsStand
<1>1. ServicesInv => WithdrawalsStand
    BY RefusalServed, LinksServed, DisconnectServed DEF ServicesInv, WithdrawalsStand
<1> QED
    BY <1>1, ServicesAlways, PTL

(* Rewards, progress, summaries, case steps, settings, spend and requests agree with
   the rows or the wishes they stand for. *)
THEOREM EveryRecordAddsUp == ServicesSpec => []RecordsAddUp
<1>1. ServicesInv => RecordsAddUp
    BY LearningCounts, UsageCounts, CasesCount, SettingsCount, SpendCounts, RequestsCount
    DEF ServicesInv, RecordsAddUp
<1> QED
    BY <1>1, ServicesAlways, PTL

(* The limits, passes, grants, rows and sockets of the services for which each has a
   theorem of its own, where they run side by side: the extension requests of a day,
   the active agreement, what an erased user leaves, the uses of a pass, the tokens
   of a code, the subscription rows, what the child's devices have yet to send and the
   sockets of a user. *)
THEOREM EachKeepsItsOwn ==
    ServicesSpec => [](/\ WithinExtensionLimit /\ OneActiveAgreement /\ ErasedIsGone
                       /\ JoinedAsAllowed /\ OneGrantEach /\ RowsFollowStripe
                       /\ QueueIsFaithful /\ SocketsAreTracked)
<1>1. ServicesInv => /\ WithinExtensionLimit /\ OneActiveAgreement /\ ErasedIsGone
                     /\ JoinedAsAllowed /\ OneGrantEach /\ RowsFollowStripe
                     /\ QueueIsFaithful /\ SocketsAreTracked
    BY LimitServed, AgreementServed, ErasureServed, PassesServed, GrantsServed,
       WebhooksServed, QueuesServed, SocketsServed DEF ServicesInv
<1> QED
    BY <1>1, ServicesAlways, PTL

(* Nor does a step of any service store a position, a check-in or a captured event
   that nobody has agreed to, or pass over an attempt to bypass the rules. *)
THEOREM NoStepWithoutLeave ==
    ServicesSpec => TrackedAsAllowed /\ CaptureIsConsented /\ BypassIsBlocked
<1>1. ServicesInv /\ [ServicesNext]_servicesVars => [~overlap =>
        /\ \A m \in Member : switch[m] = "on" =>
             \A p \in PositionId : positions'[p] = m => positions[p] = m
        /\ \A k \in CheckInId : attendance[k] = NoRow /\ attendance'[k] # NoRow =>
             LET f == attendance'[k].fence IN
               fences[f] # NoRow
                 /\ consents[attendance'[k].member, fences[f].school] = "on"]_locationVars
  <2> SUFFICES ASSUME LocationServed, ServicesNext
               PROVE  [~overlap =>
        /\ \A m \in Member : switch[m] = "on" =>
             \A p \in PositionId : positions'[p] = m => positions[p] = m
        /\ \A k \in CheckInId : attendance[k] = NoRow /\ attendance'[k] # NoRow =>
             LET f == attendance'[k].fence IN
               fences[f] # NoRow
                 /\ consents[attendance'[k].member, fences[f].school] = "on"]_locationVars
    BY NoneServes DEF ServicesInv
  <2>1. CASE active = "location"
    <3>1. LocationInv /\ LocationNext
      BY <2>1, OneServes DEF LocationServed
    <3> QED
      BY <3>1, StoredWhileOff, CheckedInWithConsent
  <2>2. CASE active # "location"
    BY <2>2, OneServes DEF locationTables
  <2> QED
    BY <2>1, <2>2
<1>2. ServicesInv /\ [ServicesNext]_servicesVars => [StoredAsConsented]_captureVars
  <2> SUFFICES ASSUME CaptureServed, ServicesNext PROVE [StoredAsConsented]_captureVars
    BY NoneServes DEF ServicesInv
  <2>1. CASE active = "capture"
    BY <2>1, OneServes, EveryStepIsConsented DEF CaptureServed
  <2>2. CASE active # "capture"
    BY <2>2, OneServes DEF captureTables, StoredAsConsented
  <2> QED
    BY <2>1, <2>2
<1>3. ServicesInv /\ [ServicesNext]_servicesVars => [~overlap => \A m \in Member :
        (attempts'[m] >= BypassThreshold /\ \E w \in Worker :
            txn[w].op = "attempt" /\ txn[w].member = m /\ txn'[w] = Idle
              /\ attempts'[m] > attempts[m])
          => bypass'[m].live + bypass'[m].expired = 1]_bypassVars
  <2> SUFFICES ASSUME BypassServed, ServicesNext, ~overlap, NEW m \in Member,
                      attempts'[m] > attempts[m], attempts'[m] >= BypassThreshold
               PROVE  bypass'[m].live + bypass'[m].expired = 1
    BY NoneServes DEF ServicesInv
  <2>1. active = "bypass"
    <3>1. CASE active # "bypass"
      <4>1. attempts'[m] = 0 /\ attempts[m] = 0
        BY <3>1, OneServes DEF BypassServed, BypassTablesInit, bypassTables
      <4> QED
        BY <4>1
    <3> QED
      BY <3>1
  <2>2. BypassInv /\ BypassNext
    BY <2>1, OneServes DEF BypassServed
  <2> QED
    BY <2>2, AttemptRecorded
<1> QED
    BY <1>1, <1>2, <1>3, ServicesAlways, PTL
    DEF ServicesSpec, TrackedAsAllowed, CaptureIsConsented, BypassIsBlocked
=============================================================================

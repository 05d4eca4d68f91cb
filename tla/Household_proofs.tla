-------------------------- MODULE Household_proofs --------------------------
(***************************************************************************)
(* Proofs about the services that act on what a parent has allowed and on  *)
(* what a child has done: Location, Capture, Bypass, Sharing, Learning,    *)
(* DeviceUsage, Cases and GroupSettings, for every set of members, rows,   *)
(* providers and days and any number of sessions.                          *)
(***************************************************************************)
EXTENDS Location, Capture, Bypass, Sharing, Learning, DeviceUsage, Cases,
        GroupSettings, Sessions_proofs

(***************************************************************************)
(* Location.  What a session has read of the switch, of the fence and of   *)
(* the consent still holds when it writes, where it runs alone.            *)
(***************************************************************************)
LocationCurrent(t) ==
    /\ t.op = "report" => switch[t.member] # "on"
    /\ t.op = "check in" => Consented(t.member, t.fence)

LocationInv ==
    /\ LocationTypeOK
    /\ OneOpen
    /\ ~overlap => \A w \in Worker : LocationCurrent(txn[w])

LEMMA LocationInitially == LocationInit => LocationInv
<1> SUFFICES ASSUME LocationInit PROVE LocationInv
    OBVIOUS
<1> USE DEF LocationInit, LocationTablesInit, SessionsInit
<1>1. LocationTypeOK
    BY DEF LocationTypeOK, LocationTxn, Flag
<1>2. OneOpen
    BY NoneOpen
<1>3. \A w \in Worker : LocationCurrent(txn[w])
    BY IdleOp DEF LocationCurrent
<1> QED
    BY <1>1, <1>2, <1>3 DEF LocationInv

(* What a session is open for tells what it has read. *)
LEMMA LocationReads ==
    ASSUME LocationTypeOK, NEW w \in Worker
    PROVE  /\ txn[w].op \in {"activate", "deactivate", "report", "fence", "check in"} =>
                txn[w].member \in Member
           /\ txn[w].op \in {"activate", "deactivate"} => txn[w].seen \in Flag
           /\ txn[w].op = "fence" => txn[w].school \in School
           /\ txn[w].op = "check in" => txn[w].fence \in FenceId
           /\ txn[w].op = "check out" => txn[w].checkin \in CheckInId
<1>1. txn[w] \in LocationTxn
    BY DEF LocationTypeOK
<1> QED
    BY <1>1, IdleOp DEF LocationTxn

(* A step that reads, and one after which no session is open that has read
   before, where they do not overlap. *)
LEMMA LocationReadStep ==
    ASSUME LocationInv, NEW w \in Worker, NEW t, Begin(w, t), UNCHANGED locationTables,
           t \in LocationTxn, LocationCurrent(t)
    PROVE  LocationInv'
<1>t. LocationTypeOK /\ txn \in [Worker -> LocationTxn] /\ OneOpen
    BY DEF LocationInv, LocationTypeOK
<1>1. /\ OneOpen'
      /\ txn' = [txn EXCEPT ![w] = t] /\ overlap' = overlap
      /\ UNCHANGED <<switch, positions, fences, consents, attendance>>
    BY <1>t, BeginKeepsOne DEF Begin, locationTables
<1>2. LocationTypeOK'
    BY <1>t, <1>1 DEF LocationTypeOK
<1>3. \A v \in Worker : txn'[v] = t \/ txn'[v] = txn[v]
    BY <1>t, <1>1
<1>4. overlap' \/ \A v \in Worker : LocationCurrent(txn[v])'
    BY <1>1, <1>3 DEF LocationInv, LocationCurrent, Consented
<1> QED
    BY <1>1, <1>2, <1>4 DEF LocationInv

LEMMA LocationWriteStep ==
    ASSUME LocationInv, NEW w \in Worker,
           (txn[w] # Idle /\ End(w)) \/ (Free(w) /\ UNCHANGED sessions),
           switch' \in [Member -> Flag],
           positions' \in [PositionId -> Member \cup {NoRow}],
           fences' \in [FenceId -> Fence \cup {NoRow}],
           consents' \in [Member \X School -> Flag],
           attendance' \in [CheckInId -> CheckIn \cup {NoRow}]
    PROVE  LocationInv'
<1>t. LocationTypeOK /\ txn \in [Worker -> LocationTxn] /\ OneOpen /\ Idle \in LocationTxn
    BY DEF LocationInv, LocationTypeOK, LocationTxn
<1>1. /\ overlap' = overlap /\ txn' \in [Worker -> LocationTxn]
      /\ \A v \in Worker : txn'[v] = Idle \/ (txn'[v] = txn[v] /\ overlap)
    BY <1>t, EndLeaves, FreeLeaves
<1>2. LocationTypeOK'
    BY <1>t, <1>1 DEF LocationTypeOK
<1>3. OneOpen'
    BY <1>1 DEF OneOpen
<1>4. overlap' \/ \A v \in Worker : LocationCurrent(txn[v])'
    BY <1>1, IdleOp DEF LocationCurrent
<1> QED
    BY <1>2, <1>3, <1>4 DEF LocationInv

LEMMA LocationInvStep == LocationInv /\ LocationNext => LocationInv'
<1> SUFFICES ASSUME LocationInv, NEW w \in Worker, LocationStep(w) PROVE LocationInv'
    BY DEF LocationNext
<1>t. /\ switch \in [Member -> Flag]
      /\ positions \in [PositionId -> Member \cup {NoRow}]
      /\ fences \in [FenceId -> Fence \cup {NoRow}]
      /\ consents \in [Member \X School -> Flag]
      /\ attendance \in [CheckInId -> CheckIn \cup {NoRow}]
      /\ LocationTypeOK
    BY DEF LocationInv, LocationTypeOK
<1> DEFINE Reads == \E t \in LocationTxn :
      Begin(w, t) /\ LocationCurrent(t) /\ UNCHANGED locationTables
<1>r. Reads => LocationInv'
    BY LocationReadStep
<1>1. ASSUME NEW m \in Member, NEW op \in {"activate", "deactivate"}, SwitchRead(w, op, m)
      PROVE  LocationInv'
  <2>1. [op |-> op, member |-> m, seen |-> switch[m]] \in LocationTxn
    BY <1>t DEF LocationTxn
  <2> QED
    BY <1>r, <1>1, <2>1 DEF SwitchRead, LocationCurrent
<1>2. ASSUME NEW m \in Member, ReportRead(w, m) PROVE LocationInv'
  <2>1. [op |-> "report", member |-> m] \in LocationTxn
    BY DEF LocationTxn
  <2> QED
    BY <1>r, <1>2, <2>1 DEF ReportRead, Reports, LocationCurrent
<1>3. ASSUME NEW m \in Member, EraseHistory(w, m) PROVE LocationInv'
    BY <1>t, <1>3, LocationWriteStep DEF EraseHistory
<1>4. ASSUME NEW m \in Member, NEW s \in School, FenceCount(w, m, s) PROVE LocationInv'
  <2>1. [op |-> "fence", member |-> m, school |-> s] \in LocationTxn
    BY DEF LocationTxn
  <2> QED
    BY <1>r, <1>4, <2>1 DEF FenceCount, LocationCurrent
<1>5. ASSUME NEW m \in Member, NEW s \in School, GrantRead(w, m, s) PROVE LocationInv'
  <2>1. [op |-> "grant", member |-> m, school |-> s, seen |-> consents[m, s]] \in LocationTxn
    BY <1>t DEF LocationTxn
  <2> QED
    BY <1>r, <1>5, <2>1 DEF GrantRead, LocationCurrent
<1>6. ASSUME NEW m \in Member, NEW s \in School, RevokeRead(w, m, s) PROVE LocationInv'
  <2>1. [op |-> "revoke", member |-> m, school |-> s, seen |-> "on"] \in LocationTxn
    BY DEF LocationTxn, Flag
  <2> QED
    BY <1>r, <1>6, <2>1 DEF RevokeRead, LocationCurrent
<1>7. ASSUME NEW m \in Member, NEW f \in FenceId, CheckInRead(w, m, f) PROVE LocationInv'
  <2>1. [op |-> "check in", member |-> m, fence |-> f] \in LocationTxn
    BY DEF LocationTxn
  <2> QED
    BY <1>r, <1>7, <2>1 DEF CheckInRead, LocationCurrent
<1>8. ASSUME NEW k \in CheckInId, CheckOutRead(w, k) PROVE LocationInv'
  <2>1. [op |-> "check out", checkin |-> k] \in LocationTxn
    BY DEF LocationTxn
  <2> QED
    BY <1>r, <1>8, <2>1 DEF CheckOutRead, LocationCurrent
<1>9. CASE ActivateWrite(w)
  <2>1. txn[w] # Idle /\ txn[w].member \in Member
    BY <1>t, <1>9, OpenIsNotIdle, LocationReads DEF ActivateWrite, Open
  <2>2. switch' \in [Member -> Flag]
    BY <1>t, <1>9, <2>1 DEF ActivateWrite, Activated, Flag
  <2> QED
    BY <1>t, <1>9, <2>1, <2>2, LocationWriteStep DEF ActivateWrite
<1>10. CASE DeactivateWrite(w)
  <2>1. txn[w] # Idle
    BY <1>10, OpenIsNotIdle DEF DeactivateWrite
  <2>2. switch' \in [Member -> Flag]
    BY <1>t, <1>10 DEF DeactivateWrite, Flag
  <2> QED
    BY <1>t, <1>10, <2>1, <2>2, LocationWriteStep DEF DeactivateWrite
<1>11. CASE ReportInsert(w)
  <2>1. txn[w] # Idle /\ txn[w].member \in Member
    BY <1>t, <1>11, OpenIsNotIdle, LocationReads DEF ReportInsert, Open
  <2>2. positions' \in [PositionId -> Member \cup {NoRow}]
    BY <1>t, <1>11, <2>1, InsertedTable DEF ReportInsert
  <2> QED
    BY <1>t, <1>11, <2>1, <2>2, LocationWriteStep DEF ReportInsert
<1>12. CASE FenceInsert(w)
  <2>1. txn[w] # Idle /\ txn[w].member \in Member /\ txn[w].school \in School
    BY <1>t, <1>12, OpenIsNotIdle, LocationReads DEF FenceInsert, Open
  <2>2. [member |-> txn[w].member, school |-> txn[w].school] \in Fence
    BY <2>1 DEF Fence
  <2>3. PICK row \in Fence : fences' = Inserted(fences, row) /\ Room(fences)
    BY <1>12, <2>2 DEF FenceInsert
  <2>4. fences' \in [FenceId -> Fence \cup {NoRow}]
    BY <1>t, <2>3, InsertedTable
  <2> QED
    BY <1>t, <1>12, <2>1, <2>4, LocationWriteStep DEF FenceInsert
<1>13. CASE GrantWrite(w)
  <2>1. txn[w] # Idle
    BY <1>13, OpenIsNotIdle DEF GrantWrite
  <2>2. consents' \in [Member \X School -> Flag]
    BY <1>t, <1>13 DEF GrantWrite, Flag
  <2> QED
    BY <1>t, <1>13, <2>1, <2>2, LocationWriteStep DEF GrantWrite
<1>14. CASE RevokeWrite(w)
  <2>1. txn[w] # Idle
    BY <1>14, OpenIsNotIdle DEF RevokeWrite
  <2>2. consents' \in [Member \X School -> Flag]
    BY <1>t, <1>14 DEF RevokeWrite, Flag
  <2> QED
    BY <1>t, <1>14, <2>1, <2>2, LocationWriteStep DEF RevokeWrite
<1>15. ASSUME NEW f \in FenceId, FenceDelete(w, f) PROVE LocationInv'
    BY <1>t, <1>15, LocationWriteStep DEF FenceDelete
<1>16. CASE CheckInInsert(w)
  <2>1. txn[w] # Idle /\ txn[w].member \in Member /\ txn[w].fence \in FenceId
    BY <1>t, <1>16, OpenIsNotIdle, LocationReads DEF CheckInInsert, Open
  <2>2. [member |-> txn[w].member, fence |-> txn[w].fence, open |-> TRUE] \in CheckIn
    BY <2>1 DEF CheckIn
  <2>3. PICK row \in CheckIn : attendance' = Inserted(attendance, row) /\ Room(attendance)
    BY <1>16, <2>2 DEF CheckInInsert
  <2>4. attendance' \in [CheckInId -> CheckIn \cup {NoRow}]
    BY <1>t, <2>3, InsertedTable
  <2> QED
    BY <1>t, <1>16, <2>1, <2>4, LocationWriteStep DEF CheckInInsert
<1>17. CASE CheckOutWrite(w)
  <2>1. txn[w] # Idle /\ txn[w].checkin \in CheckInId
    BY <1>t, <1>17, OpenIsNotIdle, LocationReads DEF CheckOutWrite, Open
  <2>2. attendance' \in [CheckInId -> CheckIn \cup {NoRow}]
    BY <1>t, <1>17, <2>1 DEF CheckOutWrite, CheckIn
  <2> QED
    BY <1>t, <1>17, <2>1, <2>2, LocationWriteStep DEF CheckOutWrite
<1>18. CASE Abandon(w) /\ UNCHANGED locationTables
    BY <1>t, <1>18, LocationWriteStep DEF Abandon, locationTables
<1> HIDE DEF Reads
<1> QED
    BY <1>1, <1>2, <1>3, <1>4, <1>5, <1>6, <1>7, <1>8, <1>9, <1>10, <1>11, <1>12, <1>13,
       <1>14, <1>15, <1>16, <1>17, <1>18
    DEF LocationStep

-----------------------------------------------------------------------------
(* Only a report stores a position, and only a check-in makes a record. *)
LEMMA StoredWhileOff ==
    ASSUME LocationInv, LocationNext, ~overlap, NEW m \in Member, switch[m] = "on",
           NEW p \in PositionId, positions'[p] = m
    PROVE  positions[p] = m
<1>t. positions \in [PositionId -> Member \cup {NoRow}] /\ LocationTypeOK
    BY DEF LocationInv, LocationTypeOK
<1>1. PICK w \in Worker : LocationStep(w)
    BY DEF LocationNext
<1>2. CASE positions' = positions
    BY <1>2
<1>3. CASE \E n \in Member : EraseHistory(w, n)
    BY <1>t, <1>3, LocationAssumption DEF EraseHistory
<1>4. CASE ReportInsert(w)
  <2>1. txn[w].op = "report" /\ txn[w].member \in Member /\ switch[txn[w].member] # "on"
    BY <1>t, <1>4, LocationReads DEF ReportInsert, Open, LocationInv, LocationCurrent
  <2>2. PICK k \in PositionId :
          /\ positions'[k] = txn[w].member
          /\ \A j \in PositionId : j # k => positions'[j] = positions[j]
    BY <1>t, <1>4, <2>1, InsertedTable DEF ReportInsert
  <2> QED
    BY <2>1, <2>2
<1> QED
    BY <1>1, <1>2, <1>3, <1>4
    DEF LocationStep, SwitchRead, ReportRead, FenceCount, GrantRead, RevokeRead, CheckInRead,
        CheckOutRead, ActivateWrite, DeactivateWrite, FenceInsert, GrantWrite, RevokeWrite,
        FenceDelete, CheckInInsert, CheckOutWrite, locationTables

LEMMA CheckedInWithConsent ==
    ASSUME LocationInv, LocationNext, ~overlap,
           NEW k \in CheckInId, attendance[k] = NoRow, attendance'[k] # NoRow
    PROVE  LET f == attendance'[k].fence IN
             fences[f] # NoRow /\ consents[attendance'[k].member, fences[f].school] = "on"
<1>t. attendance \in [CheckInId -> CheckIn \cup {NoRow}] /\ LocationTypeOK
    BY DEF LocationInv, LocationTypeOK
<1>1. PICK w \in Worker : LocationStep(w)
    BY DEF LocationNext
<1>2. attendance' # attendance
    OBVIOUS
<1>3. ~\E n \in Member : EraseHistory(w, n)
    BY <1>t DEF EraseHistory
<1>4. ~\E f \in FenceId : FenceDelete(w, f)
    BY <1>t DEF FenceDelete
<1>5. ~CheckOutWrite(w)
    BY <1>t DEF CheckOutWrite
<1>6. CASE CheckInInsert(w)
  <2>1. /\ txn[w].op = "check in" /\ txn[w].member \in Member /\ txn[w].fence \in FenceId
        /\ Consented(txn[w].member, txn[w].fence)
    BY <1>t, <1>6, LocationReads DEF CheckInInsert, Open, LocationInv, LocationCurrent
  <2> DEFINE row == [member |-> txn[w].member, fence |-> txn[w].fence, open |-> TRUE]
  <2>2. row \in CheckIn /\ row.member = txn[w].member /\ row.fence = txn[w].fence
    BY <2>1 DEF CheckIn
  <2>3. attendance' = Inserted(attendance, row) /\ Room(attendance)
    BY <1>6 DEF CheckInInsert
  <2> HIDE DEF row
  <2>4. attendance'[k] = row
    BY <1>t, <2>2, <2>3, InsertedTable
  <2> QED
    BY <2>1, <2>2, <2>4 DEF Consented
<1> QED
    BY <1>1, <1>2, <1>3, <1>4, <1>5, <1>6
    DEF LocationStep, SwitchRead, ReportRead, FenceCount, GrantRead, RevokeRead, CheckInRead,
        CheckOutRead, ActivateWrite, DeactivateWrite, FenceInsert, GrantWrite, RevokeWrite,
        ReportInsert, locationTables

LEMMA LocationInvStutter == LocationInv /\ UNCHANGED locationVars => LocationInv'
<1> SUFFICES ASSUME LocationInv, UNCHANGED locationVars PROVE LocationInv'
    OBVIOUS
<1>1. /\ switch' = switch /\ positions' = positions /\ fences' = fences
      /\ consents' = consents /\ attendance' = attendance /\ txn' = txn /\ overlap' = overlap
    BY DEF locationVars
<1>2. LocationTypeOK' /\ OneOpen'
    BY <1>1 DEF LocationInv, LocationTypeOK, OneOpen
<1>3. overlap' \/ \A w \in Worker : LocationCurrent(txn[w])'
    BY <1>1 DEF LocationInv, LocationCurrent, Consented
<1> QED
    BY <1>2, <1>3 DEF LocationInv

THEOREM LocationTypeCorrect == LocationSpec => []LocationTypeOK
<1>1. LocationInv => LocationTypeOK
    BY DEF LocationInv
<1> QED
    BY <1>1, LocationInitially, LocationInvStep, LocationInvStutter, PTL DEF LocationSpec

THEOREM TrackedWithLeave == LocationSpec => TrackedAsAllowed
<1>1. LocationInv /\ [LocationNext]_locationVars => [~overlap =>
        /\ \A m \in Member : switch[m] = "on" =>
             \A p \in PositionId : positions'[p] = m => positions[p] = m
        /\ \A k \in CheckInId : attendance[k] = NoRow /\ attendance'[k] # NoRow =>
             LET f == attendance'[k].fence IN
               fences[f] # NoRow
                 /\ consents[attendance'[k].member, fences[f].school] = "on"]_locationVars
    BY StoredWhileOff, CheckedInWithConsent
<1> QED
    BY <1>1, LocationInitially, LocationInvStep, LocationInvStutter, PTL
    DEF LocationSpec, TrackedAsAllowed

-----------------------------------------------------------------------------
(***************************************************************************)
(* Capture. Two kinds of facts about what an open session has read: that   *)
(* the rows it will write to are there, which stays true whatever the      *)
(* others do (CaptureBacked), and that it read what still is the case,     *)
(* which only a session that runs alone can rely on (CaptureCurrent). A    *)
(* step either begins a session and changes no table, or ends one; hence   *)
(* the two lemmas below.                                                   *)
(***************************************************************************)
CaptureBacked(t) ==
    /\ t.op = "withdraw" => \A c \in t.records : given[c] \in Consent
    /\ t.op = "agree" /\ t.replaces \in AgreementId => agreements[t.replaces] # NoRow
    /\ t.op = "sign" => agreements[t.agreement] # NoRow

CaptureCurrent(t) ==
    /\ t.op = "agree" => Active \subseteq {t.replaces}
    /\ t.op = "ingest" => HasConsent(t.member) /\ HasSigned(t.member)

CaptureInv ==
    /\ CaptureTypeOK
    /\ OneOpen
    /\ IsFiniteSet(Active)
    /\ OneActiveAgreement
    /\ \A w \in Worker : CaptureBacked(txn[w])
    /\ ~overlap => \A w \in Worker : CaptureCurrent(txn[w])

LEMMA CaptureIdle == CaptureBacked(Idle) /\ CaptureCurrent(Idle)
BY IdleOp DEF CaptureBacked, CaptureCurrent

LEMMA CaptureInitially == CaptureInit => CaptureInv
<1> SUFFICES ASSUME CaptureInit PROVE CaptureInv
    OBVIOUS
<1> USE DEF CaptureInit, CaptureTablesInit, SessionsInit
<1>1. CaptureTypeOK
    BY DEF CaptureTypeOK, CaptureTxn
<1>2. Active = {}
    BY DEF Active
<1>3. OneOpen
    BY NoneOpen
<1>4. \A w \in Worker : txn[w] = Idle
    OBVIOUS
<1>5. IsFiniteSet(Active) /\ OneActiveAgreement
    BY <1>2, FS_EmptySet DEF OneActiveAgreement
<1> QED
    BY <1>1, <1>3, <1>4, <1>5, CaptureIdle DEF CaptureInv

-----------------------------------------------------------------------------
(* A session that begins: it has read what it holds. *)
LEMMA CaptureBeginStep ==
    ASSUME CaptureInv, UNCHANGED captureTables, NEW w \in Worker,
           NEW t \in CaptureTxn, Begin(w, t), CaptureBacked(t), CaptureCurrent(t)
    PROVE  CaptureInv'
<1>0. CaptureTypeOK /\ OneOpen
    BY DEF CaptureInv
<1>1. CaptureTypeOK'
    BY <1>0 DEF CaptureTypeOK, captureTables, Begin
<1>2. OneOpen'
    BY <1>0, BeginKeepsOne DEF CaptureTypeOK
<1>3. Active' = Active /\ overlap' = overlap
    BY DEF Active, captureTables, Begin
<1>4. \A v \in Worker : txn'[v] = txn[v] \/ txn'[v] = t
    BY <1>0 DEF Begin, CaptureTypeOK
<1>5. \A v \in Worker : CaptureBacked(txn[v])'
    BY <1>4 DEF CaptureInv, CaptureBacked, captureTables
<1>6. ~overlap => \A v \in Worker : CaptureCurrent(txn[v])'
  <2> SUFFICES ASSUME ~overlap, NEW v \in Worker PROVE CaptureCurrent(txn[v])'
    OBVIOUS
  <2>1. /\ \A m : InForce(m)' = InForce(m) /\ HasConsent(m)' = HasConsent(m)
        /\ \A m : HasSigned(m)' = HasSigned(m)
    BY <1>3 DEF HasConsent, HasSigned, InForce, captureTables
  <2>2. CaptureCurrent(txn[v])
    BY DEF CaptureInv
  <2>3. CASE txn'[v] = txn[v]
    BY <1>3, <2>1, <2>2, <2>3 DEF CaptureCurrent
  <2>4. CASE txn'[v] = t
    BY <1>3, <2>1, <2>4 DEF CaptureCurrent
  <2> QED
    BY <1>4, <2>3, <2>4
<1> QED
    BY <1>1, <1>2, <1>3, <1>5, <1>6 DEF CaptureInv, OneActiveAgreement

(* A step that ends one, or is one by itself: no row disappears, and whoever runs
   alone leaves no session behind. *)
LEMMA CaptureCommitStep ==
    ASSUME CaptureInv, CaptureTypeOK', overlap' = overlap,
           \A v \in Worker : txn'[v] = Idle \/ (txn'[v] = txn[v] /\ overlap),
           \A c \in ConsentId : given[c] \in Consent => given'[c] \in Consent,
           \A a \in AgreementId : agreements[a] # NoRow => agreements'[a] # NoRow,
           IsFiniteSet(Active'), OneActiveAgreement'
    PROVE  CaptureInv'
<1>1. OneOpen'
    BY DEF OneOpen
<1>2. ASSUME NEW v \in Worker PROVE CaptureBacked(txn[v])'
  <2>1. CASE txn'[v] = Idle
    BY <2>1, IdleOp DEF CaptureBacked
  <2>2. CASE txn'[v] = txn[v]
    <3>1. CaptureBacked(txn[v])
        BY DEF CaptureInv
    <3>2. /\ txn[v].op = "withdraw" => txn[v].records \subseteq ConsentId
          /\ txn[v].op = "sign" => txn[v].agreement \in AgreementId
        BY IdleOp DEF CaptureInv, CaptureTypeOK, CaptureTxn
    <3> QED
        BY <2>2, <3>1, <3>2 DEF CaptureBacked
  <2> QED
    BY <2>1, <2>2
<1>3. ~overlap => \A v \in Worker : CaptureCurrent(txn[v])'
    BY IdleOp DEF CaptureCurrent
<1> QED
    BY <1>1, <1>2, <1>3 DEF CaptureInv

LEMMA CaptureEndLeaves ==
    ASSUME CaptureInv, NEW w \in Worker, End(w), txn[w] # Idle
    PROVE  /\ overlap' = overlap
           /\ txn' \in [Worker -> CaptureTxn]
           /\ \A v \in Worker : txn'[v] = Idle \/ (txn'[v] = txn[v] /\ overlap)
<1>1. txn \in [Worker -> CaptureTxn] /\ Idle \in CaptureTxn /\ OneOpen
    BY DEF CaptureInv, CaptureTypeOK, CaptureTxn
<1> QED
    BY <1>1, EndLeaves

LEMMA CaptureFreeLeaves ==
    ASSUME CaptureInv, NEW w \in Worker, Free(w), UNCHANGED sessions
    PROVE  /\ overlap' = overlap
           /\ txn' \in [Worker -> CaptureTxn]
           /\ \A v \in Worker : txn'[v] = Idle \/ (txn'[v] = txn[v] /\ overlap)
<1>1. txn \in [Worker -> CaptureTxn]
    BY DEF CaptureInv, CaptureTypeOK
<1> QED
    BY <1>1, FreeLeaves

(* What an open session has read. *)
LEMMA CaptureReads ==
    ASSUME CaptureInv, NEW w \in Worker
    PROVE  /\ Open(w, "withdraw") => txn[w].records \subseteq ConsentId
           /\ Open(w, "agree") => txn[w].replaces \in AgreementId \cup {NoRow}
           /\ Open(w, "sign") => /\ txn[w].agreement \in AgreementId
                                 /\ txn[w].signed \subseteq Member
           /\ Open(w, "ingest") \/ Open(w, "capture content") => txn[w].member \in Member
BY IdleOp DEF CaptureInv, CaptureTypeOK, CaptureTxn, Open

(* The agreements that are active after an agreement: the new one alone, if the
   session still knew which one was. *)
LEMMA AgreementStep ==
    ASSUME CaptureInv, NEW w \in Worker, AgreementWrite(w)
    PROVE  CaptureInv'
<1> USE DEF CaptureInv
<1> DEFINE old == txn[w].replaces
           kept == Replaced(old)
           row == [active |-> TRUE, signed |-> {}]
<1>1. txn[w].op = "agree" /\ txn[w] # Idle /\ old \in AgreementId \cup {NoRow}
    BY CaptureReads, IdleOp DEF AgreementWrite, Open
<1>2. old \in AgreementId => agreements[old] # NoRow
    BY <1>1 DEF CaptureBacked
<1>3. /\ kept \in [AgreementId -> Agreement \cup {NoRow}]
      /\ \A a \in AgreementId : kept[a] = NoRow <=> agreements[a] = NoRow
      /\ \A a \in AgreementId : kept[a] # NoRow /\ kept[a].active => a \in Active \ {old}
  <2>1. \A a \in AgreementId : a # old => kept[a] = agreements[a]
    BY DEF Replaced
  <2>2. old \in AgreementId =>
          /\ kept[old] = [agreements[old] EXCEPT !.active = FALSE]
          /\ agreements[old] \in Agreement
    BY <1>2 DEF Replaced, CaptureTypeOK
  <2>3. old \in AgreementId => kept[old] \in Agreement /\ kept[old].active = FALSE
    BY <2>2 DEF Agreement
  <2>4. kept = [a \in AgreementId |-> kept[a]]
    BY DEF Replaced
  <2> HIDE DEF kept
  <2>5. \A a \in AgreementId : kept[a] \in Agreement \cup {NoRow}
    BY <2>1, <2>3 DEF CaptureTypeOK
  <2> QED
    BY <1>2, <2>1, <2>3, <2>4, <2>5, AgreementAssumption DEF Active
<1>4. row \in Agreement
    BY DEF Agreement
<1>5. Room(agreements) /\ agreements' = Inserted(kept, row)
    BY DEF AgreementWrite
<1>6. Room(kept)
    BY <1>3, <1>5 DEF Room, CaptureTypeOK
<1> HIDE DEF kept, row
<1>t. kept \in [AgreementId -> Agreement \cup {NoRow}]
    BY <1>3
<1>i. agreements' = Inserted(kept, row)
    BY <1>5
<1>7. PICK k \in AgreementId :
        /\ kept[k] = NoRow
        /\ agreements'[k] = row
        /\ \A j \in AgreementId : j # k => agreements'[j] = kept[j]
    BY <1>t, <1>i, <1>4, <1>6, AfterInsert
<1>8. agreements' \in [AgreementId -> Agreement \cup {NoRow}]
    BY <1>t, <1>i, <1>4, <1>6, InsertedTable
<1>9. Active' \subseteq (Active \ {old}) \cup {k}
    BY <1>3, <1>7 DEF Active
<1>10. \A a \in AgreementId : agreements[a] # NoRow => agreements'[a] # NoRow
    BY <1>3, <1>7
<1>11. /\ overlap' = overlap
       /\ txn' \in [Worker -> CaptureTxn]
       /\ \A v \in Worker : txn'[v] = Idle \/ (txn'[v] = txn[v] /\ overlap)
    BY <1>1, CaptureEndLeaves DEF AgreementWrite
<1>12. IsFiniteSet(Active')
  <2>1. Active' \subseteq Active \cup {k}
    BY <1>9
  <2> QED
    BY <2>1, OneMoreCount
<1>13. OneActiveAgreement'
  <2> SUFFICES ASSUME ~overlap PROVE Cardinality(Active') <= 1
    BY <1>11 DEF OneActiveAgreement
  <2>1. Active \subseteq {old}
    BY <1>1 DEF CaptureCurrent
  <2>2. Active' \subseteq {k}
    BY <1>9, <2>1
  <2>3. IsFiniteSet({k}) /\ Cardinality({k}) = 1
    BY FS_Singleton
  <2>4. Cardinality(Active') \in Nat /\ Cardinality(Active') <= Cardinality({k})
    BY <2>2, <2>3, PartCount
  <2> QED
    BY <2>3, <2>4
<1>14. CaptureTypeOK'
    BY <1>8, <1>11 DEF AgreementWrite, CaptureTypeOK
<1>15. \A c \in ConsentId : given[c] \in Consent => given'[c] \in Consent
    BY DEF AgreementWrite
<1> QED
    BY <1>10, <1>11, <1>12, <1>13, <1>14, <1>15, CaptureCommitStep

(* The other writes leave the same agreements active. *)
LEMMA SignStep ==
    ASSUME CaptureInv, NEW w \in Worker, SignWrite(w)
    PROVE  CaptureInv'
<1> USE DEF CaptureInv
<1>1. txn[w].op = "sign" /\ txn[w] # Idle
    BY IdleOp DEF SignWrite, Open
<1>2. PICK a \in AgreementId : a = txn[w].agreement /\ txn[w].signed \subseteq Member
    BY CaptureReads DEF SignWrite
<1>3. agreements[a] # NoRow /\ agreements[a] \in Agreement
    BY <1>1, <1>2 DEF CaptureBacked, CaptureTypeOK
<1>4. /\ agreements'[a] \in Agreement /\ agreements'[a].active = agreements[a].active
      /\ \A b \in AgreementId : b # a => agreements'[b] = agreements[b]
      /\ agreements' = [b \in AgreementId |-> agreements'[b]]
    BY <1>2, <1>3 DEF SignWrite, Agreement, CaptureTypeOK
<1>5. Active' = Active /\ \A b \in AgreementId : agreements[b] # NoRow => agreements'[b] # NoRow
    BY <1>3, <1>4, AgreementAssumption DEF Active
<1>6. /\ overlap' = overlap
      /\ txn' \in [Worker -> CaptureTxn]
      /\ \A v \in Worker : txn'[v] = Idle \/ (txn'[v] = txn[v] /\ overlap)
    BY <1>1, CaptureEndLeaves DEF SignWrite
<1>7. agreements' \in [AgreementId -> Agreement \cup {NoRow}]
    BY <1>4 DEF CaptureTypeOK
<1>8. CaptureTypeOK' /\ OneActiveAgreement'
    BY <1>5, <1>6, <1>7 DEF SignWrite, CaptureTypeOK, OneActiveAgreement
<1>9. \A c \in ConsentId : given[c] \in Consent => given'[c] \in Consent
    BY DEF SignWrite
<1>10. IsFiniteSet(Active')
    BY <1>5
<1> QED
    BY <1>5, <1>6, <1>8, <1>9, <1>10, CaptureCommitStep

(* Consents and events: no agreement is touched. *)
LEMMA OtherTables ==
    ASSUME CaptureInv, UNCHANGED agreements, overlap' = overlap,
           txn' \in [Worker -> CaptureTxn],
           \A v \in Worker : txn'[v] = Idle \/ (txn'[v] = txn[v] /\ overlap),
           given' \in [ConsentId -> Consent \cup {NoRow}],
           events' \in [EventId -> Event \cup {NoRow}],
           \A c \in ConsentId : given[c] \in Consent => given'[c] \in Consent
    PROVE  CaptureInv'
<1>1. Active' = Active
    BY DEF Active
<1>2. CaptureTypeOK' /\ IsFiniteSet(Active') /\ OneActiveAgreement'
    BY <1>1 DEF CaptureInv, CaptureTypeOK, OneActiveAgreement
<1> QED
    BY <1>2, CaptureCommitStep

LEMMA StoredIsTyped ==
    ASSUME CaptureInv, NEW m \in Member, NEW outcome \in Outcome, Stored(m, outcome)
    PROVE  /\ events' \in [EventId -> Event \cup {NoRow}]
           /\ \E k \in EventId :
                /\ events'[k] = [member |-> m, processed |-> outcome.processed,
                                 trace |-> outcome.trace]
                /\ \A e \in EventId : e # k => events'[e] = events[e]
<1> DEFINE row == [member |-> m, processed |-> outcome.processed, trace |-> outcome.trace]
<1>1. row \in Event
  <2>1. outcome.processed \in BOOLEAN /\ outcome.trace \subseteq Trace
    BY DEF Outcome, Trace
  <2> QED
    BY <2>1 DEF Event
<1>2. /\ events \in [EventId -> Event \cup {NoRow}] /\ Room(events)
      /\ events' = Inserted(events, row)
    BY DEF Stored, CaptureInv, CaptureTypeOK
<1> HIDE DEF row
<1>3. events' \in [EventId -> Event \cup {NoRow}]
    BY <1>1, <1>2, InsertedTable
<1>4. PICK k \in EventId : /\ events[k] = NoRow
                           /\ events'[k] = row
                           /\ \A e \in EventId : e # k => events'[e] = events[e]
    BY <1>1, <1>2, InsertedTable
<1> QED
    BY <1>3, <1>4 DEF row

LEMMA RecordStep ==
    ASSUME CaptureInv, NEW w \in Worker, NEW m \in Member, ConsentRecorded(w, m)
    PROVE  /\ given' \in [ConsentId -> Consent \cup {NoRow}]
           /\ \A c \in ConsentId : given[c] \in Consent => given'[c] \in Consent
<1> DEFINE row == [member |-> m, inForce |-> TRUE]
<1>1. row \in Consent
    BY DEF Consent
<1>2. /\ given \in [ConsentId -> Consent \cup {NoRow}] /\ Room(given)
      /\ given' = Inserted(given, row)
    BY DEF ConsentRecorded, CaptureInv, CaptureTypeOK
<1> HIDE DEF row
<1>3. given' \in [ConsentId -> Consent \cup {NoRow}]
    BY <1>1, <1>2, InsertedTable
<1>4. PICK k \in ConsentId : /\ given[k] = NoRow
                             /\ given'[k] = row
                             /\ \A c \in ConsentId : c # k => given'[c] = given[c]
    BY <1>1, <1>2, InsertedTable
<1> QED
    BY <1>1, <1>3, <1>4

-----------------------------------------------------------------------------
LEMMA CaptureInvStep == CaptureInv /\ [CaptureNext]_captureVars => CaptureInv'
<1> SUFFICES ASSUME CaptureInv, [CaptureNext]_captureVars
             PROVE  CaptureInv'
    OBVIOUS
<1>0. CaptureTypeOK /\ OneOpen
    BY DEF CaptureInv
<1>1. CASE UNCHANGED captureVars
    BY <1>1 DEF captureVars, CaptureInv, CaptureTypeOK, OneOpen, OneActiveAgreement, Active,
                CaptureBacked, CaptureCurrent, HasConsent, HasSigned, InForce
<1>2. ASSUME NEW w \in Worker, NEW m \in Member, ConsentRecorded(w, m)
      PROVE  CaptureInv'
    BY <1>0, <1>2, RecordStep, CaptureFreeLeaves, OtherTables DEF ConsentRecorded, CaptureTypeOK
<1>3. ASSUME NEW w \in Worker, NEW m \in Member, WithdrawRead(w, m)
      PROVE  CaptureInv'
  <2>1. PICK records \in SUBSET InForce(m) : Begin(w, [op |-> "withdraw", records |-> records])
    BY <1>3 DEF WithdrawRead
  <2> DEFINE t == [op |-> "withdraw", records |-> records]
  <2>2. t \in CaptureTxn
    BY DEF CaptureTxn, InForce
  <2>3. \A c \in InForce(m) : c \in ConsentId /\ given[c] \in Consent
    <3> SUFFICES ASSUME NEW c \in InForce(m) PROVE given[c] \in Consent
        BY DEF InForce
    <3>1. given[c] = [member |-> m, inForce |-> TRUE]
        BY DEF InForce
    <3> QED
        BY <3>1 DEF Consent
  <2>4. CaptureBacked(t) /\ CaptureCurrent(t)
    BY <2>3 DEF CaptureBacked, CaptureCurrent
  <2> HIDE DEF t
  <2> QED
    BY <1>3, <2>1, <2>2, <2>4, CaptureBeginStep DEF WithdrawRead, t
<1>4. ASSUME NEW w \in Worker, WithdrawWrite(w)
      PROVE  CaptureInv'
  <2>1. txn[w].op = "withdraw" /\ txn[w] # Idle /\ txn[w].records \subseteq ConsentId
    BY <1>4, CaptureReads, IdleOp DEF WithdrawWrite, Open
  <2>2. \A c \in txn[w].records : given[c] \in Consent
    BY <2>1 DEF CaptureInv, CaptureBacked
  <2>3. \A c \in ConsentId : given'[c] = given[c] \/ given'[c] \in Consent
    BY <1>4, <2>2 DEF WithdrawWrite, Consent
  <2>4. given' \in [ConsentId -> Consent \cup {NoRow}]
    BY <1>0, <1>4, <2>3 DEF WithdrawWrite, CaptureTypeOK
  <2> QED
    BY <1>0, <1>4, <2>1, <2>3, <2>4, CaptureEndLeaves, OtherTables DEF WithdrawWrite, CaptureTypeOK
<1>5. ASSUME NEW w \in Worker, AgreementRead(w)
      PROVE  CaptureInv'
  <2>1. PICK old \in IF Active = {} THEN {NoRow} ELSE Active :
          Begin(w, [op |-> "agree", replaces |-> old])
    BY <1>5 DEF AgreementRead
  <2> DEFINE t == [op |-> "agree", replaces |-> old]
  <2>2. t \in CaptureTxn
    BY DEF CaptureTxn, Active
  <2>3. old \in AgreementId => agreements[old] # NoRow
    BY AgreementAssumption DEF Active
  <2>4. Active \subseteq {old}
    <3>1. Active = {} \/ Cardinality(Active) = 0 \/ Cardinality(Active) = 1
        BY <1>5, FS_CardinalityType DEF AgreementRead, CaptureInv
    <3>2. Active = {} \/ \E x : Active = {x}
        BY <3>1, FS_EmptySet, FS_Singleton DEF CaptureInv
    <3> QED
        BY <3>2
  <2>5. CaptureBacked(t) /\ CaptureCurrent(t)
    BY <2>3, <2>4 DEF CaptureBacked, CaptureCurrent
  <2> HIDE DEF t
  <2> QED
    BY <1>5, <2>1, <2>2, <2>5, CaptureBeginStep DEF AgreementRead, t
<1>6. ASSUME NEW w \in Worker, AgreementWrite(w)
      PROVE  CaptureInv'
    BY <1>6, AgreementStep
<1>7. ASSUME NEW w \in Worker, NEW a \in AgreementId, NEW m \in Member, SignRead(w, a, m)
      PROVE  CaptureInv'
  <2> DEFINE t == [op |-> "sign", agreement |-> a, signed |-> agreements[a].signed \cup {m}]
  <2>1. agreements[a] # NoRow /\ agreements[a] \in Agreement
    BY <1>0, <1>7 DEF SignRead, CaptureTypeOK
  <2>2. t \in CaptureTxn
    BY <2>1 DEF CaptureTxn, Agreement
  <2>3. CaptureBacked(t) /\ CaptureCurrent(t)
    BY <2>1 DEF CaptureBacked, CaptureCurrent
  <2> HIDE DEF t
  <2> QED
    BY <1>7, <2>2, <2>3, CaptureBeginStep DEF SignRead, t
<1>8. ASSUME NEW w \in Worker, SignWrite(w)
      PROVE  CaptureInv'
    BY <1>8, SignStep
<1>9. ASSUME NEW w \in Worker, NEW m \in Member, IngestRead(w, m)
      PROVE  CaptureInv'
  <2> DEFINE t == [op |-> "ingest", member |-> m]
  <2>1. t \in CaptureTxn
    BY DEF CaptureTxn
  <2>2. CaptureBacked(t) /\ CaptureCurrent(t)
    BY <1>9 DEF IngestRead, CaptureBacked, CaptureCurrent
  <2> HIDE DEF t
  <2> QED
    BY <1>9, <2>1, <2>2, CaptureBeginStep DEF IngestRead, t
<1>10. ASSUME NEW w \in Worker, NEW m \in Member, ContentRead(w, m)
       PROVE  CaptureInv'
  <2> DEFINE t == [op |-> "capture content", member |-> m]
  <2>1. t \in CaptureTxn
    BY DEF CaptureTxn
  <2>2. CaptureBacked(t) /\ CaptureCurrent(t)
    BY DEF CaptureBacked, CaptureCurrent
  <2> HIDE DEF t
  <2> QED
    BY <1>10, <2>1, <2>2, CaptureBeginStep DEF ContentRead, t
<1>11. ASSUME NEW w \in Worker, IngestWrite(w)
       PROVE  CaptureInv'
  <2>1. txn[w] # Idle /\ txn[w].member \in Member
    BY <1>11, CaptureReads, IdleOp DEF IngestWrite, Open
  <2>2. events' \in [EventId -> Event \cup {NoRow}]
    BY <1>11, <2>1, StoredIsTyped DEF IngestWrite
  <2> QED
    BY <1>0, <1>11, <2>1, <2>2, CaptureEndLeaves, OtherTables DEF IngestWrite, CaptureTypeOK
<1>12. ASSUME NEW w \in Worker, ContentWrite(w)
       PROVE  CaptureInv'
  <2>1. txn[w] # Idle /\ txn[w].member \in Member
    BY <1>12, CaptureReads, IdleOp DEF ContentWrite, Open
  <2>2. [processed |-> FALSE, trace |-> {}] \in Outcome
    BY DEF Outcome
  <2>3. events' \in [EventId -> Event \cup {NoRow}]
    BY <1>12, <2>1, <2>2, StoredIsTyped DEF ContentWrite
  <2> QED
    BY <1>0, <1>12, <2>1, <2>3, CaptureEndLeaves, OtherTables DEF ContentWrite, CaptureTypeOK
<1>13. ASSUME NEW w \in Worker, Abandon(w), UNCHANGED captureTables
       PROVE  CaptureInv'
    BY <1>0, <1>13, CaptureEndLeaves, OtherTables DEF Abandon, captureTables, CaptureTypeOK
<1> QED
    BY <1>1, <1>2, <1>3, <1>4, <1>5, <1>6, <1>7, <1>8, <1>9, <1>10, <1>11, <1>12, <1>13
    DEF CaptureNext, CaptureStep

LEMMA CaptureAlways == CaptureSpec => []CaptureInv
BY CaptureInitially, CaptureInvStep, PTL DEF CaptureSpec

(* Type correctness: consents, agreements and events are what their tables say. *)
THEOREM CaptureTypeCorrect == CaptureSpec => []CaptureTypeOK
<1>1. CaptureInv => CaptureTypeOK
    BY DEF CaptureInv
<1> QED
    BY <1>1, CaptureAlways, PTL

(* "Deactivate any existing active agreement": one parent at a time never leaves
   two active agreements, on which every capture of a child under 13 would fail. *)
THEOREM OneAgreement == CaptureSpec => []OneActiveAgreement
<1>1. CaptureInv => OneActiveAgreement
    BY DEF CaptureInv
<1> QED
    BY <1>1, CaptureAlways, PTL

-----------------------------------------------------------------------------
(* What an ingest stores was consented to when it was read, and so still is. *)
LEMMA IngestIsConsented ==
    ASSUME CaptureInv, NEW w \in Worker, IngestWrite(w)
    PROVE  StoredAsConsented
<1> SUFFICES ASSUME ~overlap, NEW e \in EventId, events[e] = NoRow, events'[e] # NoRow,
                    events'[e].member \in Young
             PROVE  /\ \E c \in ConsentId :
                         given[c] = [member |-> events'[e].member, inForce |-> TRUE]
                    /\ \E a \in AgreementId :
                         /\ agreements[a] # NoRow /\ agreements[a].active
                         /\ events'[e].member \in agreements[a].signed
    BY DEF StoredAsConsented
<1>1. txn[w].op = "ingest" /\ txn[w].member \in Member
    BY CaptureReads DEF IngestWrite, Open
<1>2. PICK outcome \in Outcome : Stored(txn[w].member, outcome)
    BY DEF IngestWrite
<1>3. PICK k \in EventId :
        /\ events'[k] = [member |-> txn[w].member, processed |-> outcome.processed,
                         trace |-> outcome.trace]
        /\ \A j \in EventId : j # k => events'[j] = events[j]
    BY <1>1, <1>2, StoredIsTyped
<1>4. events'[e].member = txn[w].member
    BY <1>3
<1>5. HasConsent(txn[w].member) /\ HasSigned(txn[w].member)
    BY <1>1 DEF CaptureInv, CaptureCurrent
<1>6. InForce(txn[w].member) # {}
    BY <1>4, <1>5 DEF HasConsent
<1>7. Cardinality(Active) = 1 /\ \A a \in Active : txn[w].member \in agreements[a].signed
    BY <1>4, <1>5 DEF HasSigned
<1>8. \E a : Active = {a}
    BY <1>7, FS_Singleton DEF CaptureInv
<1> QED
    BY <1>4, <1>6, <1>7, <1>8 DEF InForce, Active

(* An event that is neither analysed nor leaves a risk event says nothing. *)
LEMMA ContentIsOutside ==
    ASSUME CaptureInv, NEW w \in Worker, ContentWrite(w)
    PROVE  StoredAsConsented
<1> DEFINE outcome == [processed |-> FALSE, trace |-> {}]
<1>1. txn[w].member \in Member /\ outcome \in Outcome
    BY CaptureReads DEF ContentWrite, Outcome
<1>2. Stored(txn[w].member, outcome)
    BY DEF ContentWrite
<1>3. PICK k \in EventId :
        /\ events'[k] = [member |-> txn[w].member, processed |-> outcome.processed,
                         trace |-> outcome.trace]
        /\ \A j \in EventId : j # k => events'[j] = events[j]
    BY <1>1, <1>2, StoredIsTyped
<1> QED
    BY <1>3 DEF StoredAsConsented

LEMMA EveryStepIsConsented ==
    CaptureInv /\ [CaptureNext]_captureVars => [StoredAsConsented]_captureVars
<1> SUFFICES ASSUME CaptureInv, CaptureNext PROVE StoredAsConsented
    OBVIOUS
<1>1. CASE UNCHANGED events
    BY <1>1 DEF StoredAsConsented
<1>2. ASSUME NEW w \in Worker, IngestWrite(w) PROVE StoredAsConsented
    BY <1>2, IngestIsConsented
<1>3. ASSUME NEW w \in Worker, ContentWrite(w) PROVE StoredAsConsented
    BY <1>3, ContentIsOutside
<1> QED
    BY <1>1, <1>2, <1>3
    DEF CaptureNext, CaptureStep, captureTables, ConsentRecorded, WithdrawRead, WithdrawWrite,
        AgreementRead, AgreementWrite, SignRead, SignWrite, IngestRead, ContentRead

(* "Blocks events for members who require consent", "require signed family
   agreement for children <13": with one session at a time, no event of a child
   under 13 is analysed without a consent in force and a signed agreement. *)
THEOREM EventsConsented == CaptureSpec => CaptureIsConsented
BY CaptureAlways, EveryStepIsConsented, PTL DEF CaptureSpec, CaptureIsConsented

-----------------------------------------------------------------------------
(***************************************************************************)
(* Bypass.  A session that has read an attempt still knows whether there   *)
(* is a block, although attempts age and blocks expire meanwhile: that can *)
(* only take the attempt below the threshold, and an expired block counts. *)
(***************************************************************************)
BypassTxn == {Idle} \cup [op: {"attempt"}, member: Member, block: BOOLEAN]

Blocks(m) == bypass[m].live + bypass[m].expired

BypassCurrent(t) == \A m \in Member :
    t.op = "attempt" /\ t.member = m /\ attempts[m] + 1 >= BypassThreshold =>
        Blocks(m) = IF t.block THEN 0 ELSE 1

BypassInv ==
    /\ BypassTypeOK
    /\ OneOpen
    /\ ~overlap => \A w \in Worker : BypassCurrent(txn[w])

LEMMA BypassTypes ==
    ASSUME BypassTypeOK
    PROVE  /\ txn \in [Worker -> BypassTxn]
           /\ bypass \in [Member -> [live: 0..MaxBypassBlocks, expired: 0..MaxBypassBlocks]]
           /\ \A m \in Member : /\ attempts[m] \in Nat /\ attempts[m] \in 0..BypassThreshold + 1
                                /\ bypass[m].live \in Nat /\ bypass[m].expired \in Nat
                                /\ Blocks(m) \in Nat
           /\ \A w \in Worker : Open(w, "attempt") =>
                txn[w] \in [op: {"attempt"}, member: Member, block: BOOLEAN]
<1>1. /\ txn \in [Worker -> BypassTxn]
      /\ bypass \in [Member -> [live: 0..MaxBypassBlocks, expired: 0..MaxBypassBlocks]]
      /\ attempts \in [Member -> 0..BypassThreshold + 1]
    BY DEF BypassTypeOK, BypassTxn
<1>2. \A m \in Member : /\ attempts[m] \in Nat /\ attempts[m] \in 0..BypassThreshold + 1
                        /\ bypass[m].live \in Nat /\ bypass[m].expired \in Nat
                        /\ Blocks(m) \in Nat
    BY <1>1, BypassAssumption DEF Blocks
<1>3. \A w \in Worker : Open(w, "attempt") =>
        txn[w] \in [op: {"attempt"}, member: Member, block: BOOLEAN]
    BY <1>1, IdleOp DEF BypassTxn, Open
<1> QED
    BY <1>1, <1>2, <1>3

LEMMA BypassInitially == BypassInit => BypassInv
<1> SUFFICES ASSUME BypassInit PROVE BypassInv
    OBVIOUS
<1> USE DEF BypassInit, BypassTablesInit, SessionsInit
<1>1. BypassTypeOK
    BY BypassAssumption DEF BypassTypeOK
<1>2. OneOpen
    BY NoneOpen
<1>3. \A w \in Worker : BypassCurrent(txn[w])
    BY IdleOp DEF BypassCurrent
<1> QED
    BY <1>1, <1>2, <1>3 DEF BypassInv

(* Every step keeps the types. *)
LEMMA BypassTypeStep == BypassTypeOK /\ BypassNext => BypassTypeOK'
<1> SUFFICES ASSUME BypassTypeOK, BypassNext PROVE BypassTypeOK'
    OBVIOUS
<1>t. /\ attempts \in [Member -> 0..BypassThreshold + 1]
      /\ bypass \in [Member -> [live: 0..MaxBypassBlocks, expired: 0..MaxBypassBlocks]]
      /\ txn \in [Worker -> BypassTxn] /\ overlap \in BOOLEAN
      /\ BypassThreshold \in Nat /\ MaxBypassBlocks \in Nat
    BY BypassAssumption DEF BypassTypeOK, BypassTxn
<1>0. (/\ attempts' \in [Member -> 0..BypassThreshold + 1]
       /\ bypass' \in [Member -> [live: 0..MaxBypassBlocks, expired: 0..MaxBypassBlocks]]
       /\ txn' \in [Worker -> BypassTxn] /\ overlap' \in BOOLEAN) => BypassTypeOK'
    BY DEF BypassTypeOK, BypassTxn
<1>1. ASSUME NEW w \in Worker, NEW m \in Member, AttemptRead(w, m) PROVE BypassTypeOK'
  <2>1. [op |-> "attempt", member |-> m, block |-> BlocksNow(m)] \in BypassTxn
    BY DEF BypassTxn, BlocksNow
  <2> QED
    BY <1>t, <1>0, <1>1, <2>1 DEF AttemptRead, Begin, bypassTables
<1>2. ASSUME NEW w \in Worker, NEW m \in Member, Polled(w, m) PROVE BypassTypeOK'
    BY <1>t, <1>0, <1>2 DEF Polled, sessions
<1>3. ASSUME NEW w \in Worker, NEW m \in Member, BypassRevoked(w, m) PROVE BypassTypeOK'
    BY <1>t, <1>0, <1>3 DEF BypassRevoked, sessions
<1>4. ASSUME NEW w \in Worker, AttemptWrite(w) PROVE BypassTypeOK'
  <2>1. PICK m \in Member : m = txn[w].member
    BY <1>4, BypassTypes DEF AttemptWrite
  <2>2. /\ txn[w].block => bypass[m].live < MaxBypassBlocks
        /\ attempts' = [attempts EXCEPT ![m] = IF @ <= BypassThreshold THEN @ + 1 ELSE @]
        /\ bypass' = [bypass EXCEPT ![m].live = IF txn[w].block THEN @ + 1 ELSE @]
        /\ End(w)
    BY <1>4, <2>1 DEF AttemptWrite
  <2>3. attempts' \in [Member -> 0..BypassThreshold + 1]
    BY <1>t, <2>2
  <2>4. bypass' \in [Member -> [live: 0..MaxBypassBlocks, expired: 0..MaxBypassBlocks]]
    BY <1>t, <2>2
  <2> QED
    BY <1>t, <1>0, <2>2, <2>3, <2>4 DEF End, BypassTxn
<1>5. ASSUME NEW w \in Worker, Abandon(w), UNCHANGED bypassTables PROVE BypassTypeOK'
    BY <1>t, <1>0, <1>5 DEF Abandon, End, bypassTables, BypassTxn
<1>6. ASSUME NEW m \in Member, AttemptsAge(m) PROVE BypassTypeOK'
    BY <1>t, <1>0, <1>6 DEF AttemptsAge, sessions
<1>7. ASSUME NEW m \in Member, BypassExpires(m) PROVE BypassTypeOK'
    BY <1>t, <1>0, <1>7 DEF BypassExpires, sessions
<1> QED
    BY <1>1, <1>2, <1>3, <1>4, <1>5, <1>6, <1>7 DEF BypassNext, BypassStep

(* What a block and an attempt become in a step that is no session's. *)
LEMMA BypassAges ==
    ASSUME BypassInv, NEW m \in Member, AttemptsAge(m) \/ BypassExpires(m)
    PROVE  /\ UNCHANGED sessions
           /\ \A n \in Member : attempts'[n] <= attempts[n] /\ Blocks(n)' = Blocks(n)
           /\ \A n \in Member : attempts'[n] \in Nat
<1>t. /\ attempts \in [Member -> 0..BypassThreshold + 1] /\ BypassThreshold \in Nat
      /\ bypass \in [Member -> [live: 0..MaxBypassBlocks, expired: 0..MaxBypassBlocks]]
    BY BypassAssumption DEF BypassInv, BypassTypeOK
<1>1. \A n \in Member : attempts[n] \in Nat /\ bypass[n].live \in Nat /\ bypass[n].expired \in Nat
    BY <1>t
<1>2. CASE AttemptsAge(m)
    BY <1>t, <1>1, <1>2 DEF AttemptsAge, Blocks
<1>3. CASE BypassExpires(m)
    BY <1>t, <1>1, <1>3 DEF BypassExpires, Blocks
<1> QED
    BY <1>2, <1>3

LEMMA BypassCurrentStep == BypassInv /\ BypassNext => OneOpen' /\
    (~overlap' => \A w \in Worker : BypassCurrent(txn[w])')
<1> SUFFICES ASSUME BypassInv, BypassNext
             PROVE  OneOpen' /\ (~overlap' => \A w \in Worker : BypassCurrent(txn[w])')
    OBVIOUS
<1>t. txn \in [Worker -> BypassTxn] /\ OneOpen /\ Idle \in BypassTxn
    BY BypassTypes DEF BypassInv, BypassTxn
<1>0. BypassCurrent(Idle)'
    BY IdleOp DEF BypassCurrent
<1>1. ASSUME NEW w \in Worker, NEW m \in Member, AttemptRead(w, m)
      PROVE  OneOpen' /\ (~overlap' => \A v \in Worker : BypassCurrent(txn[v])')
  <2>1. OneOpen' /\ overlap' = overlap /\ UNCHANGED <<attempts, bypass>>
    BY <1>t, <1>1, BeginKeepsOne DEF AttemptRead, Begin, bypassTables
  <2>2. PICK t : /\ txn' = [txn EXCEPT ![w] = t]
                 /\ t = [op |-> "attempt", member |-> m, block |-> BlocksNow(m)]
    BY <1>1 DEF AttemptRead, Begin
  <2>3. attempts[m] + 1 >= BypassThreshold => Blocks(m) = IF t.block THEN 0 ELSE 1
    <3>1. /\ attempts[m] \in Nat /\ bypass[m].live \in Nat /\ bypass[m].expired \in Nat
          /\ bypass[m] \in [live: 0..MaxBypassBlocks, expired: 0..MaxBypassBlocks]
        BY BypassTypes DEF BypassInv
    <3>0. t.block <=> BlocksNow(m)
        BY <2>2
    <3>2. CASE BlocksNow(m)
        BY <3>0, <3>1, <3>2 DEF BlocksNow, Blocks
    <3>3. CASE ~BlocksNow(m) /\ attempts[m] + 1 >= BypassThreshold
      <4>1. bypass[m].live + bypass[m].expired <= 1
        BY <1>1, <3>3 DEF AttemptRead
      <4>2. bypass[m].live # 0 \/ bypass[m].expired # 0
        BY <3>1, <3>3 DEF BlocksNow
      <4> QED
        BY <3>0, <3>1, <3>3, <4>1, <4>2 DEF Blocks
    <3> QED
        BY <3>2, <3>3
  <2>4. \A v \in Worker : txn'[v] = t \/ txn'[v] = txn[v]
    BY <1>t, <2>2
  <2>5. t.op = "attempt" /\ t.member = m
    BY <2>2
  <2>6. \A n \in Member : Blocks(n)' = Blocks(n)
    BY <2>1 DEF Blocks
  <2>7. ASSUME ~overlap, NEW v \in Worker, NEW n \in Member, txn'[v].op = "attempt",
               txn'[v].member = n, attempts[n] + 1 >= BypassThreshold
        PROVE  Blocks(n)' = IF txn'[v].block THEN 0 ELSE 1
    <3>1. CASE txn'[v] = t
        BY <2>3, <2>5, <2>6, <2>7, <3>1
    <3>2. CASE txn'[v] = txn[v]
        BY <2>6, <2>7, <3>2 DEF BypassInv, BypassCurrent
    <3> QED
        BY <2>4, <3>1, <3>2
  <2> QED
    BY <2>1, <2>7 DEF BypassCurrent
<1>2. ASSUME NEW w \in Worker, NEW m \in Member, Polled(w, m) \/ BypassRevoked(w, m)
      PROVE  OneOpen' /\ (~overlap' => \A v \in Worker : BypassCurrent(txn[v])')
  <2>1. Free(w) /\ UNCHANGED sessions
    BY <1>2 DEF Polled, BypassRevoked
  <2>2. OneOpen'
    BY <1>t, <2>1 DEF OneOpen, sessions
  <2>3. overlap' = overlap /\ \A v \in Worker : txn'[v] = Idle \/ overlap
    BY <1>t, <2>1, FreeLeaves
  <2> QED
    BY <1>0, <2>2, <2>3 DEF BypassCurrent
<1>3. ASSUME NEW w \in Worker, AttemptWrite(w) \/ Abandon(w)
      PROVE  OneOpen' /\ (~overlap' => \A v \in Worker : BypassCurrent(txn[v])')
  <2>1. End(w) /\ txn[w] # Idle
    BY <1>3, OpenIsNotIdle DEF AttemptWrite, Abandon
  <2>2. OneOpen'
    BY <1>t, <2>1, EndKeepsOne
  <2>3. overlap' = overlap /\ \A v \in Worker : txn'[v] = Idle \/ overlap
    BY <1>t, <2>1, EndLeaves
  <2> QED
    BY <1>0, <2>2, <2>3 DEF BypassCurrent
<1>4. ASSUME NEW m \in Member, AttemptsAge(m) \/ BypassExpires(m)
      PROVE  OneOpen' /\ (~overlap' => \A v \in Worker : BypassCurrent(txn[v])')
  <2>1. /\ txn' = txn /\ overlap' = overlap
        /\ \A n \in Member : attempts'[n] <= attempts[n] /\ Blocks(n)' = Blocks(n)
        /\ \A n \in Member : attempts'[n] \in Nat /\ attempts[n] \in Nat
        /\ BypassThreshold \in Nat
    BY <1>4, BypassAges, BypassTypes, BypassAssumption DEF sessions, BypassInv
  <2>2. OneOpen'
    BY <1>t, <2>1 DEF OneOpen
  <2>3. ASSUME ~overlap, NEW v \in Worker, NEW n \in Member, txn[v].op = "attempt",
               txn[v].member = n, attempts'[n] + 1 >= BypassThreshold
        PROVE  Blocks(n)' = IF txn[v].block THEN 0 ELSE 1
    <3>1. attempts[n] + 1 >= BypassThreshold
        BY <2>1, <2>3
    <3>2. Blocks(n) = IF txn[v].block THEN 0 ELSE 1
        BY <2>3, <3>1 DEF BypassInv, BypassCurrent
    <3> QED
        BY <2>1, <3>2
  <2> QED
    BY <2>1, <2>2, <2>3 DEF BypassCurrent
<1> QED
    BY <1>1, <1>2, <1>3, <1>4 DEF BypassNext, BypassStep

(* An attempt is recorded by the session that has read it. *)
LEMMA AttemptRecorded ==
    ASSUME BypassInv, BypassNext, ~overlap, NEW m \in Member, attempts'[m] > attempts[m],
           attempts'[m] >= BypassThreshold
    PROVE  bypass'[m].live + bypass'[m].expired = 1
<1>t. /\ attempts \in [Member -> 0..BypassThreshold + 1] /\ BypassThreshold \in Nat
      /\ bypass \in [Member -> [live: 0..MaxBypassBlocks, expired: 0..MaxBypassBlocks]]
      /\ \A n \in Member : attempts[n] \in Nat /\ bypass[n].live \in Nat /\ bypass[n].expired \in Nat
    BY BypassTypes, BypassAssumption DEF BypassInv, BypassTypeOK
<1>1. PICK w \in Worker : AttemptWrite(w)
  <2>1. ~(attempts' = attempts) /\ ~\E n \in Member : AttemptsAge(n)
    BY <1>t DEF AttemptsAge
  <2> QED
    BY <2>1 DEF BypassNext, BypassStep, AttemptRead, Polled, BypassRevoked, Abandon, bypassTables,
       BypassExpires
<1>2. /\ txn[w].op = "attempt" /\ txn[w].member = m /\ txn[w].block \in BOOLEAN
      /\ attempts'[m] = attempts[m] + 1
      /\ bypass' = [bypass EXCEPT ![m].live = IF txn[w].block THEN @ + 1 ELSE @]
  <2>1. PICK n \in Member : n = txn[w].member
    BY <1>1, BypassTypes DEF BypassInv, AttemptWrite
  <2>2. /\ attempts' = [attempts EXCEPT ![n] = IF @ <= BypassThreshold THEN @ + 1 ELSE @]
        /\ bypass' = [bypass EXCEPT ![n].live = IF txn[w].block THEN @ + 1 ELSE @]
        /\ txn[w].op = "attempt" /\ txn[w].block \in BOOLEAN
    BY <1>1, <2>1, BypassTypes DEF BypassInv, AttemptWrite, Open
  <2>3. n = m
    BY <1>t, <2>2
  <2> QED
    BY <1>t, <2>1, <2>2, <2>3
<1>3. Blocks(m) = IF txn[w].block THEN 0 ELSE 1
  <2>1. BypassCurrent(txn[w])
    BY DEF BypassInv
  <2> QED
    BY <1>2, <2>1 DEF BypassCurrent
<1>4. /\ bypass'[m].live = IF txn[w].block THEN bypass[m].live + 1 ELSE bypass[m].live
      /\ bypass'[m].expired = bypass[m].expired
    BY <1>t, <1>2
<1> QED
    BY <1>t, <1>2, <1>3, <1>4 DEF Blocks

THEOREM BypassTypeCorrect == BypassSpec => []BypassTypeOK
<1>1. BypassInit => BypassTypeOK
    BY BypassInitially DEF BypassInv
<1>2. BypassTypeOK /\ UNCHANGED bypassVars => BypassTypeOK'
    BY DEF BypassTypeOK, bypassVars
<1> QED
    BY <1>1, <1>2, BypassTypeStep, PTL DEF BypassSpec

LEMMA BypassInvStep == BypassInv /\ [BypassNext]_bypassVars => BypassInv'
<1>1. CASE BypassNext
    BY <1>1, BypassTypeStep, BypassCurrentStep DEF BypassInv
<1>2. CASE UNCHANGED bypassVars
    BY <1>2 DEF bypassVars, BypassInv, BypassTypeOK, OneOpen, BypassCurrent, Blocks
<1> QED
    BY <1>1, <1>2

THEOREM ThirdAttemptBlocks == BypassSpec => BypassIsBlocked
<1>1. BypassInv /\ [BypassNext]_bypassVars => [~overlap => \A m \in Member :
        (attempts'[m] >= BypassThreshold /\ \E w \in Worker :
            txn[w].op = "attempt" /\ txn[w].member = m /\ txn'[w] = Idle
              /\ attempts'[m] > attempts[m])
          => bypass'[m].live + bypass'[m].expired = 1]_bypassVars
    BY AttemptRecorded
<1> QED
    BY <1>1, BypassInitially, BypassInvStep, PTL DEF BypassSpec, BypassIsBlocked

-----------------------------------------------------------------------------
(***************************************************************************)
(* Sharing.  A row that a session has read stays, and its provider's, but  *)
(* not what it says (SharingBacked); as long as sessions do not overlap    *)
(* the session has read all there is (SharingCurrent).  A provider's only  *)
(* row says yes where the parent's last decision was to consent alone      *)
(* (YesWasGiven), and where sessions do not overlap always (GivenIsYes).   *)
(***************************************************************************)
RowOf(i, t) == items[i] # NoRow /\ items[i].provider = t
SaysYes(i) == items[i].consented /\ ~items[i].withdrawn
OnlyRow(t) == \A i, j \in ItemId : RowOf(i, t) /\ RowOf(j, t) => i = j

FewItems == \A t \in Provider : IsFiniteSet(ItemsOf(items, {t}))

YesWasGiven == \A t \in Provider, i \in ItemId :
    OnlyRow(t) /\ RowOf(i, t) /\ SaysYes(i) => standing[t] = "given"

GivenIsYes == \A t \in Provider :
    /\ OnlyRow(t)
    /\ standing[t] = "given" => \E i \in ItemId : RowOf(i, t) /\ SaysYes(i)

SharingBacked(x) == x.op \in {"update", "refuse"} => \A i \in DOMAIN x.read :
    /\ RowOf(i, x.read[i].provider)
    /\ x.op = "update" => x.read[i].provider = x.provider

SharingCurrent(x) ==
    /\ x.op \in {"update", "refuse"} => \A i \in DOMAIN x.read : x.read[i] = items[i]
    /\ x.op = "update" => \A i \in ItemId : RowOf(i, x.provider) => i \in DOMAIN x.read
    /\ x.op = "refuse" => \A i \in ItemId : items[i] # NoRow => i \in DOMAIN x.read

SharingInv ==
    /\ SharingTypeOK
    /\ OneOpen
    /\ FewItems
    /\ YesWasGiven
    /\ \A w \in Worker : SharingBacked(txn[w])
    /\ ~overlap => GivenIsYes /\ \A w \in Worker : SharingCurrent(txn[w])

LEMMA SharingTypes ==
    ASSUME SharingTypeOK
    PROVE  /\ items \in [ItemId -> ConsentItem \cup {NoRow}]
           /\ standing \in [Provider -> ParentDecision]
           /\ txn \in [Worker -> SharingTxn]
BY DEF SharingTypeOK

LEMMA SharingIdle == SharingBacked(Idle) /\ SharingCurrent(Idle) /\ Idle \in SharingTxn
BY IdleOp DEF SharingBacked, SharingCurrent, SharingTxn

(* What a session holds. *)
LEMMA SharingHolds ==
    ASSUME NEW x \in SharingTxn
    PROVE  /\ x.op = "update" => x.provider \in Provider /\ x.consented \in BOOLEAN
           /\ x.op = "refuse" => x.refused \in BOOLEAN
           /\ x.op \in {"update", "refuse"} =>
                /\ DOMAIN x.read \subseteq ItemId
                /\ \A i \in DOMAIN x.read : x.read[i] \in ConsentItem
<1>1. CASE x = Idle
    BY <1>1, IdleOp
<1>2. CASE x # Idle
  <2>1. x.read \in FoundItems
    BY <1>2 DEF SharingTxn
  <2>2. PICK found \in SUBSET ItemId : x.read \in [found -> ConsentItem]
    BY <2>1 DEF FoundItems
  <2> QED
    BY <1>2, <2>2 DEF SharingTxn
<1> QED
    BY <1>1, <1>2

(* Rows of a provider, as the queries find them. *)
LEMMA ItemsOfOne ==
    ASSUME SharingTypeOK, NEW t
    PROVE  ItemsOf(items, {t}) = {i \in ItemId : RowOf(i, t)}
BY SharingTypes DEF ItemsOf, RowOf

LEMMA SharingInitially == SharingTablesInit /\ SessionsInit => SharingInv
<1> SUFFICES ASSUME SharingTablesInit, SessionsInit PROVE SharingInv
    OBVIOUS
<1> USE DEF SharingTablesInit, SessionsInit
<1>1. SharingTypeOK
    BY SharingIdle DEF SharingTypeOK, ParentDecision
<1>2. \A i \in ItemId : items[i] = NoRow
    OBVIOUS
<1>3. FewItems
  <2>1. \A t : ItemsOf(items, {t}) = {}
    BY <1>1, <1>2, ItemsOfOne DEF RowOf
  <2> QED
    BY <2>1, FS_EmptySet DEF FewItems
<1>4. YesWasGiven /\ GivenIsYes
    BY <1>2 DEF YesWasGiven, GivenIsYes, RowOf, OnlyRow
<1>5. \A w \in Worker : SharingBacked(txn[w]) /\ SharingCurrent(txn[w])
    BY SharingIdle
<1> QED
    BY <1>1, <1>3, <1>4, <1>5, NoneOpen DEF SharingInv

(* A session that has read. *)
LEMMA SharingReads ==
    ASSUME SharingInv, NEW w \in Worker, NEW x \in SharingTxn, Begin(w, x),
           UNCHANGED sharingTables, SharingBacked(x), SharingCurrent(x)
    PROVE  SharingInv'
<1>t. SharingTypeOK /\ txn \in [Worker -> SharingTxn] /\ OneOpen
    BY DEF SharingInv, SharingTypeOK
<1>1. OneOpen'
    BY <1>t, BeginKeepsOne
<1>2. /\ items' = items /\ standing' = standing /\ overlap' = overlap
      /\ txn' \in [Worker -> SharingTxn]
      /\ \A v \in Worker : txn'[v] = txn[v] \/ txn'[v] = x
    BY <1>t DEF Begin, sharingTables
<1>3. SharingTypeOK' /\ FewItems' /\ YesWasGiven'
    BY <1>t, <1>2
    DEF SharingInv, SharingTypeOK, FewItems, YesWasGiven, ItemsOf, RowOf, OnlyRow, SaysYes
<1>4. ~overlap => GivenIsYes'
    BY <1>2 DEF SharingInv, GivenIsYes, RowOf, OnlyRow, SaysYes
<1>5. \A v \in Worker : SharingBacked(txn[v])'
    BY <1>2 DEF SharingInv, SharingBacked, RowOf
<1>6. ~overlap => \A v \in Worker : SharingCurrent(txn[v])'
    BY <1>2 DEF SharingInv, SharingCurrent, RowOf
<1> QED
    BY <1>1, <1>2, <1>3, <1>4, <1>5, <1>6 DEF SharingInv

(* A session that has written or is abandoned: rows stay, and whose they are. *)
RowsStay == \A i \in ItemId, t \in Provider : RowOf(i, t) => RowOf(i, t)'

LEMMA SharingWrites ==
    ASSUME SharingInv, NEW w \in Worker, txn[w] # Idle, End(w), RowsStay,
           items' \in [ItemId -> ConsentItem \cup {NoRow}],
           standing' \in [Provider -> ParentDecision],
           FewItems', YesWasGiven', ~overlap => GivenIsYes'
    PROVE  SharingInv'
<1>t. SharingTypeOK /\ txn \in [Worker -> SharingTxn] /\ OneOpen
    BY DEF SharingInv, SharingTypeOK
<1>1. /\ overlap' = overlap /\ txn' \in [Worker -> SharingTxn] /\ OneOpen'
      /\ \A v \in Worker : txn'[v] = Idle \/ (txn'[v] = txn[v] /\ overlap)
    BY <1>t, SharingIdle, EndLeaves, EndKeepsOne
<1>2. SharingTypeOK'
    BY <1>1 DEF SharingTypeOK
<1>3. \A v \in Worker : SharingBacked(txn[v])'
  <2> SUFFICES ASSUME NEW v \in Worker PROVE SharingBacked(txn[v])'
    OBVIOUS
  <2>1. CASE txn'[v] = Idle
    BY <2>1, IdleOp DEF SharingBacked
  <2>2. CASE txn'[v] = txn[v]
    <3>1. txn[v] \in SharingTxn /\ SharingBacked(txn[v])
        BY <1>t DEF SharingInv
    <3>2. txn[v].op \in {"update", "refuse"} => \A i \in DOMAIN txn[v].read :
            i \in ItemId /\ txn[v].read[i].provider \in Provider
        BY <3>1, SharingHolds DEF ConsentItem
    <3> QED
        BY <2>2, <3>1, <3>2 DEF SharingBacked, RowsStay
  <2> QED
    BY <1>1, <2>1, <2>2
<1>4. ~overlap => \A v \in Worker : SharingCurrent(txn[v])'
    BY <1>1, IdleOp DEF SharingCurrent
<1> QED
    BY <1>1, <1>2, <1>3, <1>4 DEF SharingInv

(* What a query has found. *)
LEMMA FoundIs ==
    ASSUME SharingTypeOK, NEW providers
    PROVE  /\ Found(providers) \in FoundItems
           /\ DOMAIN Found(providers) =
                {i \in ItemId : items[i] # NoRow /\ items[i].provider \in providers}
           /\ \A i \in DOMAIN Found(providers) : Found(providers)[i] = items[i]
<1> DEFINE found == {i \in ItemId : items[i] # NoRow /\ items[i].provider \in providers}
<1>1. ItemsOf(items, providers) = found
    BY SharingTypes DEF ItemsOf
<1>2. \A i \in found : items[i] \in ConsentItem
    BY SharingTypes
<1>3. Found(providers) = [i \in found |-> items[i]]
    BY <1>1 DEF Found
<1>4. found \in SUBSET ItemId
    OBVIOUS
<1> HIDE DEF found
<1>5. Found(providers) \in [found -> ConsentItem]
    BY <1>2, <1>3
<1>6. Found(providers) \in FoundItems
    BY <1>4, <1>5 DEF FoundItems
<1> QED
    BY <1>3, <1>6 DEF found

LEMMA UpdateReadStep ==
    ASSUME SharingInv, NEW w \in Worker, NEW t \in Provider, NEW consented \in BOOLEAN,
           UpdateRead(w, t, consented)
    PROVE  SharingInv'
<1> DEFINE x == [op |-> "update", provider |-> t, consented |-> consented, read |-> Found({t})]
<1>t. SharingTypeOK
    BY DEF SharingInv
<1>1. /\ x \in SharingTxn /\ x.op = "update" /\ x.provider = t /\ x.read = Found({t})
    BY <1>t, FoundIs DEF SharingTxn
<1>2. Begin(w, x) /\ UNCHANGED sharingTables
    BY DEF UpdateRead
<1> HIDE DEF x
<1>f. PICK found : found = Found({t})
    OBVIOUS
<1>g. /\ DOMAIN found = {i \in ItemId : items[i] # NoRow /\ items[i].provider \in {t}}
      /\ \A i \in DOMAIN found : found[i] = items[i]
    BY <1>t, <1>f, FoundIs
<1>3. SharingBacked(x) /\ SharingCurrent(x)
    BY <1>1, <1>f, <1>g DEF SharingBacked, SharingCurrent, RowOf
<1> QED
    BY <1>1, <1>2, <1>3, SharingReads

LEMMA RefuseReadStep ==
    ASSUME SharingInv, NEW w \in Worker, NEW refused \in BOOLEAN, RefuseRead(w, refused)
    PROVE  SharingInv'
<1> DEFINE x == [op |-> "refuse", refused |-> refused, read |-> Found(Provider)]
<1>t. SharingTypeOK
    BY DEF SharingInv
<1>1. /\ x \in SharingTxn /\ x.op = "refuse" /\ x.read = Found(Provider)
    BY <1>t, FoundIs DEF SharingTxn
<1>2. Begin(w, x) /\ UNCHANGED sharingTables
    BY DEF RefuseRead
<1> HIDE DEF x
<1>3. \A i \in ItemId : items[i] # NoRow => items[i].provider \in Provider
    BY <1>t, SharingTypes DEF ConsentItem
<1>f. PICK found : found = Found(Provider)
    OBVIOUS
<1>g. /\ DOMAIN found = {i \in ItemId : items[i] # NoRow /\ items[i].provider \in Provider}
      /\ \A i \in DOMAIN found : found[i] = items[i]
    BY <1>t, <1>f, FoundIs
<1>4. SharingBacked(x) /\ SharingCurrent(x)
    BY <1>1, <1>3, <1>f, <1>g DEF SharingBacked, SharingCurrent, RowOf
<1> QED
    BY <1>1, <1>2, <1>4, SharingReads

(* A column that is written says what was decided, and one that is not keeps
   what it said; a withdrawal is written either way. *)
LEMMA WrittenRow ==
    ASSUME NEW i, items[i] \in ConsentItem, NEW old \in ConsentItem,
           NEW consented \in BOOLEAN, NEW withdrawn \in BOOLEAN
    PROVE  /\ Written(i, old, consented, withdrawn) \in ConsentItem
           /\ Written(i, old, consented, withdrawn).provider = items[i].provider
           /\ withdrawn => Written(i, old, consented, withdrawn).withdrawn
           /\ old = items[i] =>
                /\ Written(i, old, consented, withdrawn).consented = consented
                /\ Written(i, old, consented, withdrawn).withdrawn = withdrawn
<1> DEFINE c == IF old.consented = consented THEN items[i].consented ELSE consented
           d == IF ~old.withdrawn /\ ~withdrawn THEN items[i].withdrawn ELSE withdrawn
           row == Written(i, old, consented, withdrawn)
<1>0. /\ old.consented \in BOOLEAN /\ old.withdrawn \in BOOLEAN
      /\ items[i].consented \in BOOLEAN /\ items[i].withdrawn \in BOOLEAN
    BY DEF ConsentItem
<1>1. c \in BOOLEAN /\ d \in BOOLEAN
    BY <1>0, Zenon
<1>2. withdrawn => d
    BY Zenon
<1>3. old = items[i] => c = consented
    BY Zenon
<1>4. old = items[i] => d = withdrawn
  <2>1. CASE ~old.withdrawn /\ ~withdrawn
    <3>1. old = items[i] => items[i].withdrawn = withdrawn
        BY <1>0, <2>1
    <3> QED
        BY <2>1, <3>1, Zenon
  <2>2. CASE ~(~old.withdrawn /\ ~withdrawn)
    BY <2>2, Zenon
  <2> QED
    BY <2>1, <2>2
<1>5. row = [items[i] EXCEPT !.consented = c, !.withdrawn = d]
    BY DEF Written
<1> HIDE DEF c, d, row
<1>6. row \in ConsentItem /\ row.provider = items[i].provider /\ row.consented = c /\ row.withdrawn = d
    BY <1>1, <1>5 DEF ConsentItem
<1> QED
    BY <1>2, <1>3, <1>4, <1>6, Zenon DEF row

LEMMA UpdateInserts ==
    ASSUME SharingInv, NEW w \in Worker, UpdateWrite(w), DOMAIN txn[w].read = {}
    PROVE  SharingInv'
<1>t. /\ SharingTypeOK /\ txn \in [Worker -> SharingTxn]
      /\ items \in [ItemId -> ConsentItem \cup {NoRow}]
      /\ standing \in [Provider -> ParentDecision]
    BY DEF SharingInv, SharingTypeOK
<1>0. /\ txn[w].op = "update" /\ txn[w] # Idle /\ txn[w].provider \in Provider
      /\ txn[w].consented \in BOOLEAN
    BY <1>t, IdleOp, SharingHolds DEF UpdateWrite, Open
<1>1. PICK t \in Provider, yes \in BOOLEAN : txn[w].provider = t /\ txn[w].consented = yes
    BY <1>0
<1> DEFINE row == [provider |-> t, consented |-> yes, withdrawn |-> ~yes]
<1>2. /\ Room(items) /\ items' = Inserted(items, row) /\ End(w)
      /\ standing' = [standing EXCEPT ![t] = IF yes THEN "given" ELSE "refused"]
    BY <1>1 DEF UpdateWrite
<1>3. row \in ConsentItem
    BY DEF ConsentItem
<1>4. row # NoRow /\ row.provider = t
    BY <1>3, ConsentItemAssumption
<1>5. row.consented /\ ~row.withdrawn <=> yes
    OBVIOUS
<1> HIDE DEF row
<1>6. items' \in [ItemId -> ConsentItem \cup {NoRow}]
    BY <1>t, <1>2, <1>3, InsertedTable
<1>7. PICK k \in ItemId :
        /\ items[k] = NoRow /\ items'[k] = row
        /\ \A j \in ItemId : j # k => items'[j] = items[j]
    BY <1>t, <1>2, <1>3, AfterInsert
<1>8. /\ standing' \in [Provider -> ParentDecision]
      /\ standing'[t] = IF yes THEN "given" ELSE "refused"
      /\ \A p \in Provider : p # t => standing'[p] = standing[p]
    BY <1>t, <1>2 DEF ParentDecision
<1>9. /\ RowOf(k, t)' /\ (SaysYes(k)' <=> yes) /\ ~RowOf(k, t)
      /\ \A j \in ItemId : j # k => /\ \A p : RowOf(j, p)' <=> RowOf(j, p)
                                    /\ SaysYes(j)' <=> SaysYes(j)
      /\ \A p : p # t => ~RowOf(k, p)' /\ ~RowOf(k, p)
    BY <1>4, <1>5, <1>7 DEF RowOf, SaysYes
<1>10. RowsStay
    BY <1>9 DEF RowsStay
<1>11. FewItems'
  <2> SUFFICES ASSUME NEW p \in Provider PROVE IsFiniteSet(ItemsOf(items', {p}))
    BY DEF FewItems
  <2>1. ItemsOf(items', {p}) \subseteq ItemsOf(items, {p}) \cup {k}
    BY <1>t, <1>6, <1>7 DEF ItemsOf
  <2> QED
    BY <2>1, OneMoreCount DEF SharingInv, FewItems
<1>12. YesWasGiven'
  <2> SUFFICES ASSUME NEW p \in Provider, NEW i \in ItemId, OnlyRow(p)', RowOf(i, p)', SaysYes(i)'
               PROVE  standing'[p] = "given"
    BY DEF YesWasGiven
  <2>1. CASE p = t
    <3>1. i = k
        BY <1>9, <2>1 DEF OnlyRow
    <3> QED
        BY <1>8, <1>9, <2>1, <3>1
  <2>2. CASE p # t
    <3>1. OnlyRow(p) /\ RowOf(i, p) /\ SaysYes(i)
        BY <1>9, <2>2 DEF OnlyRow
    <3> QED
        BY <1>8, <2>2, <3>1 DEF SharingInv, YesWasGiven
  <2> QED
    BY <2>1, <2>2
<1>13. ASSUME ~overlap PROVE GivenIsYes'
  <2>1. GivenIsYes /\ \A i \in ItemId : ~RowOf(i, t)
    BY <1>0, <1>1, <1>13 DEF SharingInv, SharingCurrent
  <2> SUFFICES ASSUME NEW p \in Provider
               PROVE  /\ OnlyRow(p)'
                      /\ standing'[p] = "given" => \E i \in ItemId : RowOf(i, p)' /\ SaysYes(i)'
    BY DEF GivenIsYes
  <2>2. CASE p = t
    BY <1>8, <1>9, <2>1, <2>2 DEF OnlyRow
  <2>3. CASE p # t
    <3>1. OnlyRow(p)'
        BY <1>9, <2>1, <2>3 DEF OnlyRow, GivenIsYes
    <3>2. standing'[p] = "given" => \E i \in ItemId : RowOf(i, p)' /\ SaysYes(i)'
        BY <1>8, <1>9, <2>1, <2>3 DEF GivenIsYes
    <3> QED
        BY <3>1, <3>2
  <2> QED
    BY <2>2, <2>3
<1> QED
    BY <1>0, <1>2, <1>6, <1>8, <1>10, <1>11, <1>12, <1>13, SharingWrites

(* Rows that keep their place and their provider. *)
LEMMA SameRows ==
    ASSUME SharingInv, NEW w \in Worker, txn[w] # Idle, End(w),
           items' \in [ItemId -> ConsentItem \cup {NoRow}],
           standing' \in [Provider -> ParentDecision],
           \A i \in ItemId : /\ items'[i] = NoRow <=> items[i] = NoRow
                             /\ items[i] # NoRow => items'[i].provider = items[i].provider,
           \A t \in Provider :
             \/ standing'[t] = standing[t] /\ \A i \in ItemId : RowOf(i, t) => items'[i] = items[i]
             \/ standing'[t] = "given" /\ (~overlap => \E i \in ItemId : RowOf(i, t) /\ SaysYes(i)')
             \/ standing'[t] = "refused" /\ \E i \in ItemId : RowOf(i, t) /\ ~SaysYes(i)'
    PROVE  SharingInv'
<1>t. SharingTypeOK
    BY DEF SharingInv
<1>1. \A i \in ItemId, t \in Provider : RowOf(i, t)' <=> RowOf(i, t)
    BY DEF RowOf
<1>2. \A t \in Provider : OnlyRow(t)' <=> OnlyRow(t)
    BY <1>1 DEF OnlyRow
<1>3. RowsStay
    BY <1>1 DEF RowsStay
<1>4. FewItems'
  <2>1. SharingTypeOK'
    <3>1. txn' \in [Worker -> SharingTxn]
        BY SharingIdle DEF SharingInv, SharingTypeOK, End
    <3> QED
        BY <3>1 DEF SharingTypeOK
  <2>2. \A t \in Provider : ItemsOf(items', {t}) = ItemsOf(items, {t})
    BY <1>t, SharingTypes DEF ItemsOf
  <2> QED
    BY <2>2 DEF SharingInv, FewItems
<1>5. YesWasGiven'
  <2> SUFFICES ASSUME NEW t \in Provider, NEW i \in ItemId, OnlyRow(t)', RowOf(i, t)', SaysYes(i)'
               PROVE  standing'[t] = "given"
    BY DEF YesWasGiven
  <2>1. OnlyRow(t) /\ RowOf(i, t)
    BY <1>1, <1>2
  <2>2. CASE standing'[t] = standing[t] /\ \A j \in ItemId : RowOf(j, t) => items'[j] = items[j]
    <3>1. SaysYes(i)
        BY <2>1, <2>2 DEF SaysYes
    <3> QED
        BY <2>1, <2>2, <3>1 DEF SharingInv, YesWasGiven
  <2>3. CASE standing'[t] = "refused" /\ \E j \in ItemId : RowOf(j, t) /\ ~SaysYes(j)'
    BY <2>1, <2>3 DEF OnlyRow
  <2> QED
    BY <2>2, <2>3
<1>6. ASSUME ~overlap PROVE GivenIsYes'
  <2>0. GivenIsYes
    BY <1>6 DEF SharingInv
  <2> SUFFICES ASSUME NEW t \in Provider
               PROVE  /\ OnlyRow(t)'
                      /\ standing'[t] = "given" => \E i \in ItemId : RowOf(i, t)' /\ SaysYes(i)'
    BY DEF GivenIsYes
  <2>1. OnlyRow(t)'
    BY <1>2, <2>0 DEF GivenIsYes
  <2>2. CASE standing'[t] = standing[t] /\ \A j \in ItemId : RowOf(j, t) => items'[j] = items[j]
    <3>1. standing[t] = "given" => \E i \in ItemId : RowOf(i, t) /\ SaysYes(i)
        BY <2>0 DEF GivenIsYes
    <3>2. \A i \in ItemId : RowOf(i, t) /\ SaysYes(i) => RowOf(i, t)' /\ SaysYes(i)'
        BY <1>1, <2>2 DEF SaysYes
    <3> QED
        BY <2>1, <2>2, <3>1, <3>2
  <2>3. CASE \E i \in ItemId : RowOf(i, t) /\ SaysYes(i)'
    BY <1>1, <2>1, <2>3
  <2>4. CASE standing'[t] = "refused"
    BY <2>1, <2>4
  <2> QED
    BY <1>6, <2>2, <2>3, <2>4
<1> QED
    BY <1>3, <1>4, <1>5, <1>6, SharingWrites

LEMMA UpdateChanges ==
    ASSUME SharingInv, NEW w \in Worker, UpdateWrite(w), DOMAIN txn[w].read # {}
    PROVE  SharingInv'
<1>t. /\ SharingTypeOK /\ txn \in [Worker -> SharingTxn]
      /\ items \in [ItemId -> ConsentItem \cup {NoRow}]
      /\ standing \in [Provider -> ParentDecision]
    BY DEF SharingInv, SharingTypeOK
<1>0. /\ txn[w].op = "update" /\ txn[w] # Idle /\ txn[w].provider \in Provider
      /\ txn[w].consented \in BOOLEAN /\ DOMAIN txn[w].read \subseteq ItemId
      /\ \A i \in DOMAIN txn[w].read : txn[w].read[i] \in ConsentItem
    BY <1>t, IdleOp, SharingHolds DEF UpdateWrite, Open
<1>a. PICK t \in Provider, yes \in BOOLEAN : txn[w].provider = t /\ txn[w].consented = yes
    BY <1>0
<1>b. PICK read : txn[w].read = read
    OBVIOUS
<1>1. txn[w].provider = t /\ txn[w].consented = yes /\ txn[w].read = read
    BY <1>a, <1>b
<1>2. /\ items' = [i \in ItemId |-> IF i \in DOMAIN read THEN Written(i, read[i], yes, ~yes)
                                    ELSE items[i]]
      /\ standing' = [standing EXCEPT ![t] = IF yes THEN "given" ELSE "refused"] /\ End(w)
    BY <1>1 DEF UpdateWrite
<1>3. /\ \A i \in DOMAIN read : /\ i \in ItemId /\ RowOf(i, t) /\ items[i] \in ConsentItem
                                /\ read[i] \in ConsentItem /\ (~overlap => read[i] = items[i])
      /\ DOMAIN read # {}
    BY <1>t, <1>0, <1>1 DEF SharingInv, SharingBacked, SharingCurrent, RowOf
<1>4. \A i \in DOMAIN read :
        /\ items'[i] \in ConsentItem /\ items'[i].provider = items[i].provider
        /\ ~yes => items'[i].withdrawn
        /\ ~overlap => items'[i].consented = yes /\ items'[i].withdrawn = ~yes
  <2> SUFFICES ASSUME NEW i \in DOMAIN read
               PROVE  /\ items'[i] \in ConsentItem /\ items'[i].provider = items[i].provider
                      /\ ~yes => items'[i].withdrawn
                      /\ ~overlap => items'[i].consented = yes /\ items'[i].withdrawn = ~yes
    OBVIOUS
  <2>1. PICK no \in BOOLEAN : no = ~yes
    OBVIOUS
  <2>2. items'[i] = Written(i, read[i], yes, no)
    BY <1>2, <1>3, <2>1
  <2>3. /\ Written(i, read[i], yes, no) \in ConsentItem
        /\ Written(i, read[i], yes, no).provider = items[i].provider
        /\ no => Written(i, read[i], yes, no).withdrawn
        /\ read[i] = items[i] => /\ Written(i, read[i], yes, no).consented = yes
                                 /\ Written(i, read[i], yes, no).withdrawn = no
    BY <1>3, WrittenRow
  <2> QED
    BY <1>3, <2>1, <2>2, <2>3, Zenon
<1>5. \A i \in ItemId : i \notin DOMAIN read => items'[i] = items[i]
    BY <1>2
<1>6. items' \in [ItemId -> ConsentItem \cup {NoRow}]
  <2>1. items' = [i \in ItemId |-> items'[i]]
    BY <1>2
  <2>2. \A i \in ItemId : items'[i] \in ConsentItem \cup {NoRow}
    BY <1>t, <1>4, <1>5
  <2> QED
    BY <2>1, <2>2
<1>7. \A i \in ItemId : /\ items'[i] = NoRow <=> items[i] = NoRow
                        /\ items[i] # NoRow => items'[i].provider = items[i].provider
    BY <1>3, <1>4, <1>5, ConsentItemAssumption
<1>8. /\ standing' \in [Provider -> ParentDecision]
      /\ standing'[t] = IF yes THEN "given" ELSE "refused"
      /\ \A p \in Provider : p # t => standing'[p] = standing[p]
    BY <1>t, <1>2 DEF ParentDecision
<1>9. ASSUME NEW p \in Provider
      PROVE  \/ /\ standing'[p] = standing[p]
                /\ \A i \in ItemId : RowOf(i, p) => items'[i] = items[i]
             \/ /\ standing'[p] = "given"
                /\ ~overlap => \E i \in ItemId : RowOf(i, p) /\ SaysYes(i)'
             \/ /\ standing'[p] = "refused"
                /\ \E i \in ItemId : RowOf(i, p) /\ ~SaysYes(i)'
  <2>1. CASE p # t
    <3>1. \A i \in ItemId : RowOf(i, p) => i \notin DOMAIN read
        BY <1>3, <2>1 DEF RowOf
    <3> QED
        BY <1>5, <1>8, <2>1, <3>1
  <2>2. PICK i \in DOMAIN read : TRUE
    BY <1>3
  <2>3. CASE p = t /\ yes
    <3>1. ~overlap => SaysYes(i)'
        BY <1>4, <2>3 DEF SaysYes
    <3>2. standing'[p] = "given" /\ i \in ItemId /\ RowOf(i, p)
        BY <1>3, <1>8, <2>3
    <3> QED
        BY <3>1, <3>2
  <2>4. CASE p = t /\ ~yes
    <3>1. ~SaysYes(i)'
        BY <1>4, <2>4 DEF SaysYes
    <3>2. standing'[p] = "refused" /\ i \in ItemId /\ RowOf(i, p)
        BY <1>3, <1>8, <2>4
    <3> QED
        BY <3>1, <3>2
  <2> QED
    BY <2>1, <2>3, <2>4
<1> QED
    BY <1>0, <1>2, <1>6, <1>7, <1>8, <1>9, SameRows

(* A refusal that finds no row inserts one for each provider. *)
LEMMA RefuseInserts ==
    ASSUME SharingInv, NEW w \in Worker, RefuseWrite(w), DOMAIN txn[w].read = {}
    PROVE  SharingInv'
<1>t. /\ SharingTypeOK /\ txn \in [Worker -> SharingTxn]
      /\ items \in [ItemId -> ConsentItem \cup {NoRow}]
      /\ standing \in [Provider -> ParentDecision]
    BY DEF SharingInv, SharingTypeOK
<1>0. txn[w].op = "refuse" /\ txn[w] # Idle /\ txn[w].refused \in BOOLEAN
    BY <1>t, IdleOp, SharingHolds DEF RefuseWrite, Open
<1>a. PICK refused \in BOOLEAN : txn[w].refused = refused
    BY <1>0
<1>b. PICK read : txn[w].read = read
    OBVIOUS
<1>1. txn[w].refused = refused /\ txn[w].read = read
    BY <1>a, <1>b
<1> DEFINE free == {i \in ItemId : items[i] = NoRow}
<1>2. PICK at \in Places(free) :
        items' = [i \in ItemId |-> IF \E p \in Provider : at[p] = i
                                   THEN Default(CHOOSE p \in Provider : at[p] = i, refused)
                                   ELSE items[i]]
  <2> DEFINE at == CHOOSE a \in Places(free) : TRUE
             after(a) == [i \in ItemId |->
                            IF \E p \in Provider : a[p] = i
                            THEN Default(CHOOSE p \in Provider : a[p] = i, refused)
                            ELSE items[i]]
  <2>1. Places(free) # {} /\ items' = after(at)
    BY <1>1 DEF RefuseWrite
  <2>2. at \in Places(free)
    BY <2>1
  <2> HIDE DEF at
  <2> QED
    BY <2>1, <2>2
<1>3. /\ standing' = [t \in Provider |-> IF refused /\ Covered(read, t) THEN "refused"
                                         ELSE standing[t]]
      /\ End(w)
    BY <1>1 DEF RefuseWrite
<1>4. /\ \A p \in Provider : at[p] \in ItemId /\ items[at[p]] = NoRow
      /\ \A p, q \in Provider : p # q => at[p] # at[q]
    BY <1>2 DEF Places
<1>5. \A p \in Provider : items'[at[p]] = Default(p, refused)
  <2> SUFFICES ASSUME NEW p \in Provider PROVE items'[at[p]] = Default(p, refused)
    OBVIOUS
  <2>1. (CHOOSE q \in Provider : at[q] = at[p]) = p
    BY <1>4
  <2> QED
    BY <1>2, <1>4, <2>1
<1>6. \A i \in ItemId : (\A p \in Provider : at[p] # i) => items'[i] = items[i]
    BY <1>2
<1>7. \A p \in Provider : /\ Default(p, refused) \in ConsentItem
                          /\ Default(p, refused).provider = p
                          /\ ~Default(p, refused).consented
    BY DEF Default, ConsentItem
<1>8. items' \in [ItemId -> ConsentItem \cup {NoRow}]
  <2>1. items' = [i \in ItemId |-> items'[i]]
    BY <1>2
  <2>2. \A i \in ItemId : items'[i] \in ConsentItem \cup {NoRow}
    BY <1>t, <1>5, <1>6, <1>7
  <2> QED
    BY <2>1, <2>2
<1>9. /\ \A p \in Provider : RowOf(at[p], p)' /\ ~SaysYes(at[p])'
      /\ \A i \in ItemId, p \in Provider : RowOf(i, p)' => i = at[p] \/ RowOf(i, p)
      /\ \A i \in ItemId, p \in Provider : RowOf(i, p) => RowOf(i, p)'
  <2>1. \A p \in Provider : RowOf(at[p], p)' /\ ~SaysYes(at[p])'
    BY <1>5, <1>7, ConsentItemAssumption DEF RowOf, SaysYes
  <2>2. ASSUME NEW i \in ItemId, NEW p \in Provider, RowOf(i, p)', i # at[p] PROVE RowOf(i, p)
    <3>1. \A q \in Provider : at[q] # i
        BY <1>5, <1>7, <2>2 DEF RowOf
    <3> QED
        BY <1>6, <2>2, <3>1 DEF RowOf
  <2>3. ASSUME NEW i \in ItemId, NEW p \in Provider, RowOf(i, p) PROVE RowOf(i, p)'
    <3>1. \A q \in Provider : at[q] # i
        BY <1>4, <2>3 DEF RowOf
    <3> QED
        BY <1>6, <2>3, <3>1 DEF RowOf
  <2> QED
    BY <2>1, <2>2, <2>3
<1>10. RowsStay
    BY <1>9 DEF RowsStay
<1>11. standing' \in [Provider -> ParentDecision]
    BY <1>t, <1>3 DEF ParentDecision
<1>12. FewItems'
  <2> SUFFICES ASSUME NEW p \in Provider PROVE IsFiniteSet(ItemsOf(items', {p}))
    BY DEF FewItems
  <2>1. ItemsOf(items', {p}) = {i \in ItemId : RowOf(i, p)'}
    BY <1>8 DEF ItemsOf, RowOf
  <2>2. ItemsOf(items', {p}) \subseteq ItemsOf(items, {p}) \cup {at[p]}
    BY <1>t, <1>9, <2>1, ItemsOfOne
  <2> QED
    BY <2>2, OneMoreCount DEF SharingInv, FewItems
<1>13. YesWasGiven'
    BY <1>4, <1>9 DEF YesWasGiven, OnlyRow
<1>14. ASSUME ~overlap PROVE GivenIsYes'
  <2>1. GivenIsYes /\ \A i \in ItemId : items[i] = NoRow
    BY <1>0, <1>14 DEF SharingInv, SharingCurrent
  <2>2. \A i \in ItemId, p \in Provider : ~RowOf(i, p)
    BY <2>1 DEF RowOf
  <2>3. \A p \in Provider : OnlyRow(p)'
    BY <1>9, <2>2 DEF OnlyRow
  <2>4. \A p \in Provider : standing'[p] # "given"
    BY <1>3, <2>1, <2>2 DEF GivenIsYes
  <2> QED
    BY <2>3, <2>4 DEF GivenIsYes
<1> QED
    BY <1>0, <1>3, <1>8, <1>10, <1>11, <1>12, <1>13, <1>14, SharingWrites

LEMMA RefuseChanges ==
    ASSUME SharingInv, NEW w \in Worker, RefuseWrite(w), DOMAIN txn[w].read # {}
    PROVE  SharingInv'
<1>t. /\ SharingTypeOK /\ txn \in [Worker -> SharingTxn]
      /\ items \in [ItemId -> ConsentItem \cup {NoRow}]
      /\ standing \in [Provider -> ParentDecision]
    BY DEF SharingInv, SharingTypeOK
<1>0. /\ txn[w].op = "refuse" /\ txn[w] # Idle /\ txn[w].refused \in BOOLEAN
      /\ DOMAIN txn[w].read \subseteq ItemId
      /\ \A i \in DOMAIN txn[w].read : txn[w].read[i] \in ConsentItem
    BY <1>t, IdleOp, SharingHolds DEF RefuseWrite, Open
<1>a. PICK refused \in BOOLEAN : txn[w].refused = refused
    BY <1>0
<1>b. PICK read : txn[w].read = read
    OBVIOUS
<1>1. txn[w].refused = refused /\ txn[w].read = read
    BY <1>a, <1>b
<1> DEFINE hit == {i \in DOMAIN read : refused /\ read[i].provider \in Provider \ Essential}
<1>2. /\ items' = [i \in ItemId |-> IF refused /\ i \in ToRefuse(read)
                                    THEN Written(i, read[i], FALSE, TRUE) ELSE items[i]]
      /\ standing' = [t \in Provider |-> IF refused /\ Covered(read, t) THEN "refused"
                                         ELSE standing[t]]
      /\ End(w)
    BY <1>1 DEF RefuseWrite
<1>3. /\ \A i \in DOMAIN read :
           /\ i \in ItemId /\ RowOf(i, read[i].provider) /\ items[i] \in ConsentItem
           /\ read[i] \in ConsentItem /\ read[i] # NoRow
      /\ DOMAIN read # {}
    BY <1>t, <1>0, <1>1, ConsentItemAssumption DEF SharingInv, SharingBacked, RowOf
<1>4. \A i : i \in hit <=> refused /\ i \in ToRefuse(read)
    BY <1>3 DEF ToRefuse, ItemsOf
<1>5. \A i \in hit : /\ items'[i] \in ConsentItem /\ items'[i].provider = items[i].provider
                     /\ items'[i].withdrawn
  <2> SUFFICES ASSUME NEW i \in hit
               PROVE  /\ items'[i] \in ConsentItem /\ items'[i].provider = items[i].provider
                      /\ items'[i].withdrawn
    OBVIOUS
  <2>1. i \in ItemId /\ items[i] \in ConsentItem /\ read[i] \in ConsentItem
    BY <1>3
  <2>2. items'[i] = Written(i, read[i], FALSE, TRUE)
    BY <1>2, <1>4, <2>1
  <2>3. /\ Written(i, read[i], FALSE, TRUE) \in ConsentItem
        /\ Written(i, read[i], FALSE, TRUE).provider = items[i].provider
        /\ Written(i, read[i], FALSE, TRUE).withdrawn
    BY <2>1, WrittenRow
  <2> QED
    BY <2>2, <2>3
<1>6. \A i \in ItemId : i \notin hit => items'[i] = items[i]
    BY <1>2, <1>4
<1>7. hit \subseteq DOMAIN read
    OBVIOUS
<1>8. \A t \in Provider :
        /\ refused /\ Covered(read, t) => \E i \in hit : RowOf(i, t)
        /\ ~(refused /\ Covered(read, t)) => \A i \in hit : ~RowOf(i, t)
  <2> SUFFICES ASSUME NEW t \in Provider
               PROVE  /\ refused /\ Covered(read, t) => \E i \in hit : RowOf(i, t)
                      /\ ~(refused /\ Covered(read, t)) => \A i \in hit : ~RowOf(i, t)
    OBVIOUS
  <2>1. ASSUME refused, Covered(read, t) PROVE \E i \in hit : RowOf(i, t)
    <3>1. t \in Provider \ Essential /\ ItemsOf(read, {t}) # {}
        BY <1>3, <2>1 DEF Covered
    <3>2. PICK i \in DOMAIN read : read[i].provider = t
        BY <3>1 DEF ItemsOf
    <3> QED
        BY <1>3, <2>1, <3>1, <3>2
  <2>2. ASSUME NEW i \in hit, RowOf(i, t) PROVE refused /\ Covered(read, t)
    <3>1. refused /\ i \in DOMAIN read /\ read[i].provider = t /\ t \in Provider \ Essential
        BY <1>3, <2>2 DEF RowOf
    <3>2. i \in ItemsOf(read, {t})
        BY <1>3, <3>1 DEF ItemsOf
    <3> QED
        BY <3>1, <3>2 DEF Covered
  <2> QED
    BY <2>1, <2>2
<1> HIDE DEF hit
<1>9. items' \in [ItemId -> ConsentItem \cup {NoRow}]
  <2>1. items' = [i \in ItemId |-> items'[i]]
    BY <1>2
  <2>2. \A i \in ItemId : items'[i] \in ConsentItem \cup {NoRow}
    BY <1>t, <1>5, <1>6
  <2> QED
    BY <2>1, <2>2
<1>10. \A i \in ItemId : /\ items'[i] = NoRow <=> items[i] = NoRow
                         /\ items[i] # NoRow => items'[i].provider = items[i].provider
    BY <1>3, <1>5, <1>6, <1>7, ConsentItemAssumption
<1>11. standing' \in [Provider -> ParentDecision]
    BY <1>t, <1>2 DEF ParentDecision
<1>12. ASSUME NEW t \in Provider
       PROVE  \/ /\ standing'[t] = standing[t]
                 /\ \A i \in ItemId : RowOf(i, t) => items'[i] = items[i]
              \/ /\ standing'[t] = "given"
                 /\ ~overlap => \E i \in ItemId : RowOf(i, t) /\ SaysYes(i)'
              \/ /\ standing'[t] = "refused"
                 /\ \E i \in ItemId : RowOf(i, t) /\ ~SaysYes(i)'
  <2>1. CASE refused /\ Covered(read, t)
    <3>1. PICK i \in hit : RowOf(i, t)
        BY <1>8, <2>1
    <3>2. i \in ItemId /\ ~SaysYes(i)'
        BY <1>3, <1>5, <1>7 DEF SaysYes
    <3> QED
        BY <1>2, <2>1, <3>1, <3>2
  <2>2. CASE ~(refused /\ Covered(read, t))
    BY <1>2, <1>6, <1>8, <2>2
  <2> QED
    BY <2>1, <2>2
<1> QED
    BY <1>0, <1>2, <1>9, <1>10, <1>11, <1>12, SameRows

LEMMA SharingAbandonStep ==
    ASSUME SharingInv, NEW w \in Worker, Abandon(w), UNCHANGED sharingTables
    PROVE  SharingInv'
<1>1. txn[w] # Idle /\ End(w) /\ items' = items /\ standing' = standing
    BY DEF Abandon, sharingTables
<1>2. items' \in [ItemId -> ConsentItem \cup {NoRow}] /\ standing' \in [Provider -> ParentDecision]
    BY <1>1 DEF SharingInv, SharingTypeOK
<1> QED
    BY <1>1, <1>2, SameRows

LEMMA SharingInvStep == SharingInv /\ SharingNext => SharingInv'
<1> SUFFICES ASSUME SharingInv, SharingNext PROVE SharingInv'
    OBVIOUS
<1>1. ASSUME NEW w \in Worker, UpdateWrite(w) PROVE SharingInv'
    BY <1>1, UpdateInserts, UpdateChanges
<1>2. ASSUME NEW w \in Worker, RefuseWrite(w) PROVE SharingInv'
    BY <1>2, RefuseInserts, RefuseChanges
<1> QED
    BY <1>1, <1>2, UpdateReadStep, RefuseReadStep, SharingAbandonStep DEF SharingNext

LEMMA SharingInvStutter == SharingInv /\ UNCHANGED sharingVars => SharingInv'
<1> SUFFICES ASSUME SharingInv, UNCHANGED sharingVars PROVE SharingInv'
    OBVIOUS
<1>1. items' = items /\ standing' = standing /\ txn' = txn /\ overlap' = overlap
    BY DEF sharingVars
<1>2. SharingTypeOK' /\ OneOpen' /\ FewItems' /\ YesWasGiven'
    BY <1>1 DEF SharingInv, SharingTypeOK, OneOpen, FewItems, YesWasGiven, ItemsOf, RowOf,
       OnlyRow, SaysYes
<1>3. /\ \A w \in Worker : SharingBacked(txn[w])'
      /\ ~overlap => GivenIsYes' /\ \A w \in Worker : SharingCurrent(txn[w])'
    BY <1>1 DEF SharingInv, SharingBacked, SharingCurrent, GivenIsYes, RowOf, OnlyRow, SaysYes
<1> QED
    BY <1>1, <1>2, <1>3 DEF SharingInv

(* What the invariant says of a refusal. *)
LEMMA RefusalFollows == SharingInv => RefusalStands
<1> SUFFICES ASSUME SharingInv, NEW t \in Provider
             PROVE  LET once == Cardinality(ItemsOf(items, {t})) <= 1 IN
                      /\ ~overlap => once
                      /\ once /\ Allowed(t) => standing[t] = "given"
                      /\ ~overlap /\ standing[t] = "given" => Allowed(t)
    BY DEF RefusalStands
<1> DEFINE rows == ItemsOf(items, {t})
           yes == {i \in rows : items[i].consented /\ ~items[i].withdrawn}
<1>1. rows = {i \in ItemId : RowOf(i, t)}
    BY ItemsOfOne DEF SharingInv
<1>2. yes = {i \in ItemId : RowOf(i, t) /\ SaysYes(i)}
    BY <1>1 DEF SaysYes
<1>3. OnlyRow(t) => Cardinality(rows) <= 1
  <2>1. OnlyRow(t) => \A i, j \in rows : i = j
    BY <1>1 DEF OnlyRow
  <2> QED
    BY <2>1, AtMostOne
<1>4. Cardinality(rows) <= 1 => OnlyRow(t)
  <2>1. IsFiniteSet(rows)
    BY DEF SharingInv, FewItems
  <2>2. Cardinality(rows) <= 1 => \A i, j \in rows : i = j
    BY <2>1, OneAtMost
  <2> QED
    BY <1>1, <2>2 DEF OnlyRow
<1>5. Allowed(t) <=> Cardinality(yes) = 1
    BY DEF Allowed
<1> HIDE DEF rows, yes
<1>6. Allowed(t) => \E i \in ItemId : RowOf(i, t) /\ SaysYes(i)
  <2>1. yes # {} \/ Cardinality(yes) = 0
    BY FS_EmptySet
  <2> QED
    BY <1>2, <1>5, <2>1
<1>7. ASSUME OnlyRow(t), NEW i \in ItemId, RowOf(i, t), SaysYes(i) PROVE Allowed(t)
  <2>1. yes = {i}
    BY <1>2, <1>7 DEF OnlyRow
  <2>2. Cardinality({i}) = 1
    BY FS_Singleton
  <2> QED
    BY <1>5, <2>1, <2>2
<1>8. ~overlap => Cardinality(rows) <= 1
    BY <1>3 DEF SharingInv, GivenIsYes
<1>9. Cardinality(rows) <= 1 /\ Allowed(t) => standing[t] = "given"
    BY <1>4, <1>6 DEF SharingInv, YesWasGiven
<1>10. ~overlap /\ standing[t] = "given" => Allowed(t)
    BY <1>7 DEF SharingInv, GivenIsYes
<1> QED
    BY <1>8, <1>9, <1>10 DEF rows

THEOREM RefusalHolds == SharingSpec => []RefusalStands
<1>1. SharingInit => SharingInv
    BY SharingInitially DEF SharingInit
<1>2. SharingInv /\ [SharingNext]_sharingVars => SharingInv'
    BY SharingInvStep, SharingInvStutter
<1> QED
    BY <1>1, <1>2, RefusalFollows, PTL DEF SharingSpec

-----------------------------------------------------------------------------
(***************************************************************************)
(* Learning.  Two rewards are more than a week apart (RewardsApart), so    *)
(* that an assessment lies in the week before one of them alone.  A        *)
(* session has counted no more courses than will be assessed, and has an   *)
(* assessment for its reward (LearningBacked); where it runs alone, its    *)
(* count and the row of progress that it found are still right, and no     *)
(* reward was granted meanwhile (LearningCurrent).                         *)
(***************************************************************************)
RewardsApart == ~overlap => \A q, r \in RowsIn(rewards) :
    q # r => rewards[q] < rewards[r] - Week \/ rewards[r] < rewards[q] - Week

CompletedByNow == \A a \in RowsIn(assessments) : assessments[a].completed <= today

LearningBacked(t) ==
    /\ t.op = "submit" => /\ t.counted <= Cardinality(Assessed \cup {t.course})
                          /\ t.found # NoRow => progress[t.found] # NoRow
    /\ t.op = "award" => \E a \in RowsIn(assessments) :
                           assessments[a].completed \in t.day - Week..t.day
    /\ t.op \in {"submit", "award"} => t.day = today

LearningCurrent(t) ==
    /\ t.op = "submit" => /\ t.counted = Cardinality(Assessed \cup {t.course})
                          /\ t.found = NoRow => RowsIn(progress) = {}
                          /\ t.found # NoRow => RowsIn(progress) = {t.found} /\ t.read = progress[t.found]
    /\ t.op = "award" => \A r \in RowsIn(rewards) : rewards[r] < t.day - Week

LearningInv ==
    /\ LearningTypeOK
    /\ OneOpen
    /\ RewardsAreEarned
    /\ ProgressCounts
    /\ RewardsApart
    /\ CompletedByNow
    /\ \A w \in Worker : LearningBacked(txn[w])
    /\ ~overlap => \A w \in Worker : LearningCurrent(txn[w])

LEMMA LearningIdle == LearningBacked(Idle) /\ LearningCurrent(Idle)
BY IdleOp DEF LearningBacked, LearningCurrent

LEMMA LearningTypes ==
    ASSUME LearningTypeOK
    PROVE  /\ today \in Day /\ today \in Int /\ Week \in Nat
           /\ assessments \in [AssessmentId -> Assessment \cup {NoRow}]
           /\ progress \in [ProgressId -> CourseCount \cup {NoRow}]
           /\ rewards \in [RewardId -> Day \cup {NoRow}]
           /\ txn \in [Worker -> LearningTxn] /\ Idle \in LearningTxn
           /\ \A a \in RowsIn(assessments) :
                /\ a \in AssessmentId
                /\ assessments[a].course \in Course /\ assessments[a].completed \in Int
           /\ \A p \in RowsIn(progress) : p \in ProgressId /\ progress[p] \in Nat
           /\ \A r \in RowsIn(rewards) : r \in RewardId /\ rewards[r] \in Int
<1>1. LastDay \in Nat /\ Week \in Nat /\ Day \subseteq Int
    BY LearningAssumption DEF Day
<1>2. CourseCount \subseteq Nat
    BY LearningAssumption, FS_CardinalityType DEF CourseCount
<1> QED
    BY <1>1, <1>2 DEF LearningTypeOK, RowsIn, Assessment, LearningTxn

LEMMA LearningHolds ==
    ASSUME NEW t \in LearningTxn
    PROVE  /\ t.op = "submit" => /\ t.course \in Course /\ t.day \in Day /\ t # Idle
                                 /\ t.counted \in CourseCount
                                 /\ t.found \in ProgressId \cup {NoRow}
                                 /\ t.read \in CourseCount \cup {NoRow}
           /\ t.op = "award" => t.day \in Day /\ t # Idle
           /\ t # Idle => t.op \in {"submit", "award"}
BY IdleOp DEF LearningTxn

(* Courses are counted in Nat, and no fewer as assessments are added. *)
LEMMA CoursesCounted ==
    ASSUME NEW S, NEW T, S \subseteq T, T \subseteq Course
    PROVE  /\ Cardinality(S) \in Nat /\ Cardinality(T) \in Nat
           /\ Cardinality(S) <= Cardinality(T)
           /\ \A c \in T : Cardinality(T) \in CourseCount
<1>1. IsFiniteSet(T) /\ Cardinality(T) \in Nat /\ Cardinality(Course) \in Nat
      /\ Cardinality(T) <= Cardinality(Course)
    BY LearningAssumption, PartCount
<1>2. /\ Cardinality(S) \in Nat /\ Cardinality(S) <= Cardinality(T)
    BY <1>1, PartCount
<1>3. ASSUME NEW c \in T
      PROVE  Cardinality(T) \in CourseCount
  <2>1. Cardinality(T) # 0
    BY <1>1, <1>3, FS_EmptySet
  <2> QED
    BY <1>1, <2>1 DEF CourseCount
<1> QED
    BY <1>1, <1>2, <1>3

LEMMA LearningInitially == LearningTablesInit /\ SessionsInit => LearningInv
<1> SUFFICES ASSUME LearningTablesInit, SessionsInit PROVE LearningInv
    OBVIOUS
<1> USE DEF LearningTablesInit, SessionsInit
<1>1. LearningTypeOK
    BY LearningAssumption DEF LearningTypeOK, LearningTxn, Day
<1>2. RowsIn(assessments) = {} /\ RowsIn(progress) = {} /\ RowsIn(rewards) = {}
    BY DEF RowsIn
<1>3. RewardsAreEarned /\ ProgressCounts /\ RewardsApart /\ CompletedByNow
    BY <1>2 DEF RewardsAreEarned, ProgressCounts, RewardsApart, CompletedByNow
<1> QED
    BY <1>1, <1>3, NoneOpen, LearningIdle DEF LearningInv

(* Nothing that is said of the tables changes while they do not. *)
LEMMA LearningSame ==
    ASSUME UNCHANGED learningTables
    PROVE  /\ RowsIn(assessments)' = RowsIn(assessments)
           /\ RowsIn(progress)' = RowsIn(progress)
           /\ RowsIn(rewards)' = RowsIn(rewards)
           /\ Assessed' = Assessed
           /\ \A t : LearningBacked(t) => LearningBacked(t)'
           /\ \A t : LearningCurrent(t) => LearningCurrent(t)'
           /\ RewardsAreEarned /\ overlap' = overlap => RewardsAreEarned'
           /\ ProgressCounts /\ overlap' = overlap => ProgressCounts'
           /\ RewardsApart /\ overlap' = overlap => RewardsApart'
           /\ CompletedByNow => CompletedByNow'
<1>1. /\ today' = today /\ assessments' = assessments /\ progress' = progress
      /\ rewards' = rewards
    BY DEF learningTables
<1>2. /\ RowsIn(assessments)' = RowsIn(assessments)
      /\ RowsIn(progress)' = RowsIn(progress)
      /\ RowsIn(rewards)' = RowsIn(rewards)
    BY <1>1 DEF RowsIn
<1>3. Assessed' = Assessed
    BY <1>1, <1>2 DEF Assessed
<1>4. \A r : PaidBy(r)' = PaidBy(r)
    BY <1>1, <1>2 DEF PaidBy
<1>5. \A t : LearningBacked(t) => LearningBacked(t)'
    BY <1>1, <1>2, <1>3 DEF LearningBacked
<1>6. \A t : LearningCurrent(t) => LearningCurrent(t)'
    BY <1>1, <1>2, <1>3 DEF LearningCurrent
<1>7. RewardsAreEarned /\ overlap' = overlap => RewardsAreEarned'
    BY <1>1, <1>2, <1>4 DEF RewardsAreEarned
<1>8. ProgressCounts /\ overlap' = overlap => ProgressCounts'
    BY <1>1, <1>2, <1>3 DEF ProgressCounts
<1>9. RewardsApart /\ overlap' = overlap => RewardsApart'
    BY <1>1, <1>2 DEF RewardsApart
<1>10. CompletedByNow => CompletedByNow'
    BY <1>1, <1>2 DEF CompletedByNow
<1> QED
    BY <1>2, <1>3, <1>5, <1>6, <1>7, <1>8, <1>9, <1>10

LEMMA LearningReads ==
    ASSUME LearningInv, NEW w \in Worker, NEW t \in LearningTxn,
           LearningBacked(t), ~overlap => LearningCurrent(t), Begin(w, t),
           UNCHANGED learningTables
    PROVE  LearningInv'
<1>1. LearningTypeOK /\ OneOpen /\ txn \in [Worker -> LearningTxn]
    BY DEF LearningInv, LearningTypeOK
<1>2. /\ today' = today /\ assessments' = assessments /\ progress' = progress
      /\ rewards' = rewards /\ overlap' = overlap
    BY DEF learningTables, Begin
<1>3. /\ txn' \in [Worker -> LearningTxn]
      /\ \A v \in Worker : txn'[v] = IF v = w THEN t ELSE txn[v]
    BY <1>1 DEF Begin
<1>4. OneOpen'
    BY <1>1, BeginKeepsOne
<1>5. LearningTypeOK'
    BY <1>1, <1>2, <1>3 DEF LearningTypeOK
<1>6. RewardsAreEarned' /\ ProgressCounts' /\ RewardsApart' /\ CompletedByNow'
    BY <1>2, LearningSame DEF LearningInv
<1>7. \A v \in Worker : \A now : now = txn'[v] => LearningBacked(now)'
    BY <1>3, LearningSame DEF LearningInv
<1>8. ~overlap' => \A v \in Worker : \A now : now = txn'[v] => LearningCurrent(now)'
    BY <1>2, <1>3, LearningSame DEF LearningInv
<1> QED
    BY <1>4, <1>5, <1>6, <1>7, <1>8 DEF LearningInv

(* A session that ends and writes nothing, or a step that no session takes. *)
LEMMA LearningStays ==
    ASSUME LearningInv, txn' \in [Worker -> LearningTxn], overlap' = overlap,
           \A v \in Worker : txn'[v] = Idle \/ txn'[v] = txn[v],
           UNCHANGED learningTables
    PROVE  LearningInv'
<1>1. LearningTypeOK /\ OneOpen /\ txn \in [Worker -> LearningTxn]
    BY DEF LearningInv, LearningTypeOK
<1>2. /\ today' = today /\ assessments' = assessments /\ progress' = progress
      /\ rewards' = rewards
    BY DEF learningTables
<1>3. LearningTypeOK' /\ OneOpen'
    BY <1>1, <1>2 DEF LearningTypeOK, OneOpen
<1>4. RewardsAreEarned' /\ ProgressCounts' /\ RewardsApart' /\ CompletedByNow'
    BY LearningSame DEF LearningInv
<1>5. \A v \in Worker : \A now : now = txn'[v] => LearningBacked(now)'
    BY LearningSame, LearningIdle DEF LearningInv
<1>6. ~overlap' => \A v \in Worker : \A now : now = txn'[v] => LearningCurrent(now)'
    BY LearningSame, LearningIdle DEF LearningInv
<1> QED
    BY <1>3, <1>4, <1>5, <1>6 DEF LearningInv

-----------------------------------------------------------------------------
LEMMA SubmitReadStep ==
    ASSUME LearningInv, NEW w \in Worker, NEW course \in Course, SubmitRead(w, course)
    PROVE  LearningInv'
<1>1. LearningTypeOK /\ ProgressCounts
    BY DEF LearningInv
<1>2. PICK p : /\ p = IF RowsIn(progress) = {} THEN NoRow ELSE CHOOSE q \in RowsIn(progress) : TRUE
    OBVIOUS
<1> DEFINE t == [op |-> "submit", course |-> course, day |-> today,
                 counted |-> CountedWith(course), found |-> p,
                 read |-> IF p = NoRow THEN NoRow ELSE progress[p]]
<1>3. Begin(w, t) /\ UNCHANGED learningTables
    BY <1>2 DEF SubmitRead
<1>4. p # NoRow => p \in RowsIn(progress) /\ p \in ProgressId /\ progress[p] \in CourseCount
  <2>1. p # NoRow => p \in RowsIn(progress)
    BY <1>2
  <2> QED
    BY <1>1, <2>1, LearningTypes DEF RowsIn
<1>5. p = NoRow => RowsIn(progress) = {}
  <2>1. CASE RowsIn(progress) # {}
    <3>1. p \in RowsIn(progress)
      BY <1>2, <2>1
    <3>2. p \in ProgressId
      BY <1>1, <3>1, LearningTypes
    <3> QED
      BY <3>2, ProgressAssumption
  <2> QED
    BY <2>1
<1>6. /\ CountedWith(course) \in CourseCount
      /\ CountedWith(course) = Cardinality(Assessed \cup {course}) /\ CountedWith(course) \in Nat
  <2>1. Assessed \cup {course} \subseteq Course
    BY <1>1, LearningTypes DEF Assessed
  <2> QED
    BY <2>1, CoursesCounted DEF CountedWith
<1>7. t \in LearningTxn
  <2>1. today \in Day
    BY <1>1, LearningTypes
  <2> QED
    BY <1>4, <1>6, <2>1 DEF LearningTxn
<1>8. /\ t.op = "submit" /\ t.course = course /\ t.day = today /\ t.found = p
      /\ t.counted = CountedWith(course)
      /\ p # NoRow => t.read = progress[p]
    OBVIOUS
<1> HIDE DEF t
<1>9. LearningBacked(t)
    BY <1>4, <1>6, <1>8 DEF LearningBacked, RowsIn
<1>10. ~overlap => LearningCurrent(t)
    BY <1>1, <1>4, <1>5, <1>6, <1>8 DEF LearningCurrent, ProgressCounts
<1> QED
    BY <1>3, <1>7, <1>9, <1>10, LearningReads

(* Two rewards that are more than a week apart have no assessment in common. *)
LEMMA ApartMeansOwn ==
    ASSUME NEW q \in Int, NEW r \in Int, q < r - Week \/ r < q - Week
    PROVE  (q - Week..q) \cap (r - Week..r) = {}
<1> Week \in Int
    BY LearningAssumption
<1> QED
    OBVIOUS

LEMMA SubmitWriteStep ==
    ASSUME LearningInv, NEW w \in Worker, SubmitWrite(w)
    PROVE  LearningInv'
<1>1. /\ LearningTypeOK /\ OneOpen /\ txn \in [Worker -> LearningTxn] /\ Idle \in LearningTxn
    BY LearningTypes DEF LearningInv
<1>2. PICK s \in LearningTxn : s = txn[w]
    BY <1>1
<1>3. s.op = "submit" /\ End(w) /\ today' = today /\ rewards' = rewards /\ s # Idle
    BY <1>2, OpenIsNotIdle DEF SubmitWrite, Open
<1>4. /\ s.course \in Course /\ s.day \in Day /\ s.counted \in CourseCount
      /\ s.found \in ProgressId \cup {NoRow}
    BY <1>3, LearningHolds
<1>5. /\ s.counted <= Cardinality(Assessed \cup {s.course})
      /\ s.found # NoRow => progress[s.found] # NoRow
      /\ s.day = today
    BY <1>2, <1>3 DEF LearningInv, LearningBacked
<1>6. ~overlap => /\ s.counted = Cardinality(Assessed \cup {s.course})
                  /\ s.found = NoRow => RowsIn(progress) = {}
                  /\ s.found # NoRow => RowsIn(progress) = {s.found} /\ s.read = progress[s.found]
    BY <1>2, <1>3 DEF LearningInv, LearningCurrent
<1>7. /\ overlap' = overlap
      /\ txn' \in [Worker -> LearningTxn]
      /\ \A v \in Worker : txn'[v] = Idle \/ (txn'[v] = txn[v] /\ overlap)
    BY <1>1, <1>2, <1>3, EndLeaves
<1>8. PICK row \in Assessment : row = [course |-> s.course, completed |-> s.day]
                                /\ row.course = s.course /\ row.completed = s.day
  <2> DEFINE new == [course |-> s.course, completed |-> s.day]
  <2>1. new \in Assessment
    BY <1>4 DEF Assessment
  <2>2. new.course = s.course /\ new.completed = s.day
    OBVIOUS
  <2> QED
    BY <2>1, <2>2
<1>9. Room(assessments) /\ assessments' = Inserted(assessments, row)
    BY <1>2, <1>8 DEF SubmitWrite
<1>10. assessments \in [AssessmentId -> Assessment \cup {NoRow}]
    BY <1>1, LearningTypes
<1>11. assessments' \in [AssessmentId -> Assessment \cup {NoRow}]
    BY <1>9, <1>10, InsertedTable
<1>12. PICK k \in AssessmentId :
         /\ assessments[k] = NoRow
         /\ assessments'[k] = row
         /\ \A j \in AssessmentId : j # k => assessments'[j] = assessments[j]
    BY <1>9, <1>10, AfterInsert
<1>13. row # NoRow
    BY ProgressAssumption
<1>14. RowsIn(assessments)' = RowsIn(assessments) \cup {k} /\ k \notin RowsIn(assessments)
    BY <1>10, <1>11, <1>12, <1>13 DEF RowsIn
<1>15. Assessed' = Assessed \cup {s.course}
  <2>1. \A a \in RowsIn(assessments) : assessments'[a] = assessments[a]
    BY <1>1, <1>12, <1>14, LearningTypes
  <2> QED
    BY <1>8, <1>12, <1>14, <2>1 DEF Assessed
<1>16. /\ Cardinality(Assessed) \in Nat /\ Cardinality(Assessed') \in Nat
       /\ Cardinality(Assessed) <= Cardinality(Assessed')
       /\ s.counted <= Cardinality(Assessed') /\ s.counted \in Nat
       /\ ~overlap => s.counted = Cardinality(Assessed')
  <2>1. Assessed' \subseteq Course
    BY <1>1, <1>4, <1>15, LearningTypes DEF Assessed
  <2>2. s.counted \in Nat
    BY <1>4, LearningAssumption, FS_CardinalityType DEF CourseCount
  <2> QED
    BY <1>5, <1>6, <1>15, <2>1, <2>2, CoursesCounted
<1>17. progress \in [ProgressId -> CourseCount \cup {NoRow}]
    BY <1>1, LearningTypes
<1>18. /\ progress' \in [ProgressId -> CourseCount \cup {NoRow}]
       /\ \A p \in ProgressId : progress[p] # NoRow => progress'[p] # NoRow
       /\ \A p \in RowsIn(progress)' : \/ p \in RowsIn(progress) /\ progress'[p] = progress[p]
                                       \/ progress'[p] = s.counted
       /\ ~overlap => \A p \in RowsIn(progress)' :
            progress'[p] = s.counted /\ RowsIn(progress)' = {p}
  <2>0. s.counted # NoRow
    BY <1>4, ProgressAssumption
  <2>1. CASE s.found = NoRow /\ Room(progress) /\ progress' = Inserted(progress, s.counted)
    <3>1. progress' \in [ProgressId -> CourseCount \cup {NoRow}]
      BY <1>4, <1>17, <2>1, InsertedTable
    <3>2. PICK p \in ProgressId :
            /\ progress[p] = NoRow
            /\ progress'[p] = s.counted
            /\ \A j \in ProgressId : j # p => progress'[j] = progress[j]
      BY <1>4, <1>17, <2>1, AfterInsert
    <3>3. RowsIn(progress)' = RowsIn(progress) \cup {p}
      BY <1>17, <2>0, <3>1, <3>2 DEF RowsIn
    <3>4. \A j \in RowsIn(progress) : j \in ProgressId
      BY <1>17 DEF RowsIn
    <3> QED
      BY <1>6, <2>1, <3>1, <3>2, <3>3, <3>4
  <2>2. CASE s.found # NoRow /\ s.counted = s.read /\ progress' = progress
    <3>1. RowsIn(progress)' = RowsIn(progress)
      BY <2>2 DEF RowsIn
    <3> QED
      BY <1>6, <1>17, <2>2, <3>1
  <2>3. CASE s.found # NoRow /\ s.counted # s.read
             /\ progress' = [progress EXCEPT ![s.found] = s.counted]
    <3>1. s.found \in ProgressId /\ progress[s.found] # NoRow
      BY <1>4, <1>5, <2>3
    <3>2. /\ progress' \in [ProgressId -> CourseCount \cup {NoRow}]
          /\ progress'[s.found] = s.counted
          /\ \A j \in ProgressId : j # s.found => progress'[j] = progress[j]
      BY <1>4, <1>17, <2>3, <3>1
    <3>3. RowsIn(progress)' = RowsIn(progress)
      BY <1>17, <2>0, <3>1, <3>2 DEF RowsIn
    <3>4. \A j \in RowsIn(progress) : j \in ProgressId
      BY <1>17 DEF RowsIn
    <3> QED
      BY <1>6, <2>0, <2>3, <3>1, <3>2, <3>3, <3>4
  <2> QED
    BY <1>2, <2>1, <2>2, <2>3 DEF SubmitWrite
<1>19. LearningTypeOK' /\ OneOpen'
    BY <1>1, <1>3, <1>7, <1>11, <1>18 DEF LearningTypeOK, OneOpen
<1>20. \A p \in RowsIn(progress)' :
         /\ progress'[p] <= Cardinality(Assessed')
         /\ ~overlap => progress'[p] = Cardinality(Assessed') /\ RowsIn(progress)' = {p}
  <2>1. \A p \in RowsIn(progress) : progress[p] \in Nat /\ progress[p] <= Cardinality(Assessed)
    BY <1>1, LearningTypes DEF LearningInv, ProgressCounts
  <2>2. \A p \in RowsIn(progress) : progress[p] <= Cardinality(Assessed')
    BY <1>16, <2>1
  <2> QED
    BY <1>16, <1>18, <2>2
<1>21. ProgressCounts'
    BY <1>7, <1>20 DEF ProgressCounts
<1>22. RowsIn(rewards)' = RowsIn(rewards)
    BY <1>3 DEF RowsIn
<1>23. RewardsApart'
    BY <1>3, <1>7, <1>22 DEF LearningInv, RewardsApart
<1>24. \A a \in RowsIn(assessments) : assessments'[a] = assessments[a]
    BY <1>1, <1>12, <1>14, LearningTypes
<1>25. RewardsAreEarned'
  <2>1. \A r \in RowsIn(rewards) : PaidBy(r) \subseteq PaidBy(r)'
    BY <1>3, <1>14, <1>24 DEF PaidBy
  <2>2. \A r \in RowsIn(rewards) : PaidBy(r) # {}
    BY DEF LearningInv, RewardsAreEarned
  <2>3. \A r \in RowsIn(rewards)' : PaidBy(r)' # {}
    BY <1>22, <2>1, <2>2
  <2>4. ~overlap' => \A r, q \in RowsIn(rewards)' : q # r => PaidBy(q)' \cap PaidBy(r)' = {}
    <3> SUFFICES ASSUME ~overlap', NEW r \in RowsIn(rewards)', NEW q \in RowsIn(rewards)', q # r
                 PROVE  PaidBy(q)' \cap PaidBy(r)' = {}
      OBVIOUS
    <3>1. rewards'[q] \in Int /\ rewards'[r] \in Int
      BY <1>19, LearningAssumption DEF LearningTypeOK, RowsIn, Day
    <3>2. rewards'[q] < rewards'[r] - Week \/ rewards'[r] < rewards'[q] - Week
      BY <1>23 DEF RewardsApart
    <3> QED
      BY <3>1, <3>2, ApartMeansOwn DEF PaidBy
  <2> QED
    BY <2>3, <2>4 DEF RewardsAreEarned
<1>26. CompletedByNow'
  <2>1. s.day <= today
    BY <1>1, <1>5, LearningTypes
  <2> QED
    BY <1>3, <1>8, <1>12, <1>14, <1>24, <2>1 DEF LearningInv, CompletedByNow
<1>27. ASSUME NEW v \in Worker
       PROVE  \A t \in LearningTxn : LearningBacked(t) => LearningBacked(t)'
  <2>1. ASSUME NEW t \in LearningTxn, LearningBacked(t), t.op = "submit"
        PROVE  t.counted <= Cardinality(Assessed' \cup {t.course})
    <3>1. /\ t.counted <= Cardinality(Assessed \cup {t.course})
          /\ t.counted \in Nat /\ t.course \in Course
      BY <2>1, LearningHolds, LearningAssumption, FS_CardinalityType
      DEF LearningBacked, CourseCount
    <3>2. /\ Assessed \cup {t.course} \subseteq Assessed' \cup {t.course}
          /\ Assessed' \cup {t.course} \subseteq Course
      BY <1>1, <1>4, <1>15, <3>1, LearningTypes DEF Assessed
    <3>3. /\ Cardinality(Assessed \cup {t.course}) \in Nat
          /\ Cardinality(Assessed' \cup {t.course}) \in Nat
          /\ Cardinality(Assessed \cup {t.course}) <= Cardinality(Assessed' \cup {t.course})
      BY <3>2, CoursesCounted
    <3> QED
      BY <3>1, <3>3
  <2>2. ASSUME NEW t \in LearningTxn, LearningBacked(t), t.op = "submit", t.found # NoRow
        PROVE  progress'[t.found] # NoRow
    BY <1>18, <2>2, LearningHolds DEF LearningBacked
  <2>3. ASSUME NEW t \in LearningTxn, LearningBacked(t), t.op = "award"
        PROVE  \E a \in RowsIn(assessments)' : assessments'[a].completed \in t.day - Week..t.day
    BY <1>14, <1>24, <2>3 DEF LearningBacked
  <2> QED
    BY <1>3, <2>1, <2>2, <2>3 DEF LearningBacked
<1>28. \A v \in Worker : \A now : now = txn'[v] => LearningBacked(now)'
  <2>1. LearningBacked(Idle)'
    BY IdleOp DEF LearningBacked
  <2> QED
    BY <1>1, <1>7, <1>27, <2>1 DEF LearningInv
<1>29. ~overlap' => \A v \in Worker : \A now : now = txn'[v] => LearningCurrent(now)'
    BY <1>7, IdleOp DEF LearningCurrent
<1> QED
    BY <1>19, <1>21, <1>23, <1>25, <1>26, <1>28, <1>29 DEF LearningInv

-----------------------------------------------------------------------------
LEMMA AwardReadStep ==
    ASSUME LearningInv, NEW w \in Worker, AwardRead(w)
    PROVE  LearningInv'
<1>1. LearningTypeOK
    BY DEF LearningInv
<1>2. PICK t \in LearningTxn : t = [op |-> "award", day |-> today] /\ t.op = "award" /\ t.day = today
  <2> DEFINE new == [op |-> "award", day |-> today]
  <2>1. today \in Day
    BY <1>1, LearningTypes
  <2>2. new \in LearningTxn
    BY <2>1 DEF LearningTxn
  <2>3. new.op = "award" /\ new.day = today
    OBVIOUS
  <2> QED
    BY <2>2, <2>3
<1>3. Begin(w, t) /\ UNCHANGED learningTables
    BY <1>2 DEF AwardRead
<1>4. \A r \in RowsIn(rewards) : rewards[r] < today - Week
    BY <1>1, LearningTypes DEF AwardRead, AwardedSince
<1>5. \E a \in RowsIn(assessments) : assessments[a].completed \in today - Week..today
  <2>1. PICK a \in RowsIn(assessments) : assessments[a].completed >= today - Week
    BY DEF AwardRead, AssessedSince
  <2>2. assessments[a].completed <= today
    BY DEF LearningInv, CompletedByNow
  <2>3. assessments[a].completed \in today - Week..today
    BY <1>1, <2>1, <2>2, LearningTypes
  <2> QED
    BY <2>3
<1>6. LearningBacked(t) /\ LearningCurrent(t)
    BY <1>2, <1>4, <1>5 DEF LearningBacked, LearningCurrent
<1> QED
    BY <1>3, <1>6, LearningReads

LEMMA AwardWriteStep ==
    ASSUME LearningInv, NEW w \in Worker, AwardWrite(w)
    PROVE  LearningInv'
<1>1. /\ LearningTypeOK /\ OneOpen /\ txn \in [Worker -> LearningTxn] /\ Idle \in LearningTxn
    BY LearningTypes DEF LearningInv
<1>2. PICK s \in LearningTxn : s = txn[w]
    BY <1>1
<1>3. /\ s.op = "award" /\ End(w) /\ today' = today /\ s # Idle
      /\ assessments' = assessments /\ progress' = progress
    BY <1>2, OpenIsNotIdle DEF AwardWrite, Open
<1>4. s.day \in Day /\ s.day \in Int
    BY <1>3, LearningHolds, LearningAssumption DEF Day
<1>5. \E a \in RowsIn(assessments) : assessments[a].completed \in s.day - Week..s.day
    BY <1>2, <1>3 DEF LearningInv, LearningBacked
<1>6. ~overlap => \A r \in RowsIn(rewards) : rewards[r] < s.day - Week
    BY <1>2, <1>3 DEF LearningInv, LearningCurrent
<1>7. /\ overlap' = overlap
      /\ txn' \in [Worker -> LearningTxn]
      /\ \A v \in Worker : txn'[v] = Idle \/ (txn'[v] = txn[v] /\ overlap)
    BY <1>1, <1>2, <1>3, EndLeaves
<1>8. Room(rewards) /\ rewards' = Inserted(rewards, s.day)
    BY <1>2 DEF AwardWrite
<1>9. rewards \in [RewardId -> Day \cup {NoRow}]
    BY <1>1, LearningTypes
<1>10. rewards' \in [RewardId -> Day \cup {NoRow}]
    BY <1>4, <1>8, <1>9, InsertedTable
<1>11. PICK k \in RewardId :
         /\ rewards[k] = NoRow
         /\ rewards'[k] = s.day
         /\ \A j \in RewardId : j # k => rewards'[j] = rewards[j]
    BY <1>4, <1>8, <1>9, AfterInsert
<1>12. s.day # NoRow
    BY <1>4, ProgressAssumption
<1>13. /\ RowsIn(rewards)' = RowsIn(rewards) \cup {k} /\ k \notin RowsIn(rewards)
       /\ \A r \in RowsIn(rewards) : rewards'[r] = rewards[r]
    BY <1>9, <1>10, <1>11, <1>12 DEF RowsIn
<1>14. RowsIn(assessments)' = RowsIn(assessments) /\ RowsIn(progress)' = RowsIn(progress)
    BY <1>3 DEF RowsIn
<1>15. Assessed' = Assessed
    BY <1>3, <1>14 DEF Assessed
<1>16. LearningTypeOK' /\ OneOpen'
    BY <1>1, <1>3, <1>7, <1>10 DEF LearningTypeOK, OneOpen
<1>17. RewardsApart'
  <2>1. ASSUME ~overlap, NEW q \in RowsIn(rewards)', NEW r \in RowsIn(rewards)', q # r
        PROVE  rewards'[q] < rewards'[r] - Week \/ rewards'[r] < rewards'[q] - Week
    <3>1. CASE q = k
      BY <1>6, <1>11, <1>13, <2>1, <3>1
    <3>2. CASE r = k
      BY <1>6, <1>11, <1>13, <2>1, <3>2
    <3>3. CASE q # k /\ r # k
      BY <1>13, <2>1, <3>3 DEF LearningInv, RewardsApart
    <3> QED
      BY <3>1, <3>2, <3>3
  <2> QED
    BY <1>7, <2>1 DEF RewardsApart
<1>18. RewardsAreEarned'
  <2>1. \A r \in RowsIn(rewards) : PaidBy(r)' = PaidBy(r)
    BY <1>3, <1>13, <1>14 DEF PaidBy
  <2>2. PaidBy(k)' # {}
    BY <1>3, <1>5, <1>11, <1>14 DEF PaidBy
  <2>3. \A r \in RowsIn(rewards)' : PaidBy(r)' # {}
    BY <1>13, <2>1, <2>2 DEF LearningInv, RewardsAreEarned
  <2>4. ~overlap' => \A r, q \in RowsIn(rewards)' : q # r => PaidBy(q)' \cap PaidBy(r)' = {}
    <3> SUFFICES ASSUME ~overlap', NEW r \in RowsIn(rewards)', NEW q \in RowsIn(rewards)', q # r
                 PROVE  PaidBy(q)' \cap PaidBy(r)' = {}
      OBVIOUS
    <3>1. rewards'[q] \in Int /\ rewards'[r] \in Int
      BY <1>16, LearningAssumption DEF LearningTypeOK, RowsIn, Day
    <3>2. rewards'[q] < rewards'[r] - Week \/ rewards'[r] < rewards'[q] - Week
      BY <1>17 DEF RewardsApart
    <3> QED
      BY <3>1, <3>2, ApartMeansOwn DEF PaidBy
  <2> QED
    BY <2>3, <2>4 DEF RewardsAreEarned
<1>19. ProgressCounts' /\ CompletedByNow'
    BY <1>3, <1>7, <1>14, <1>15 DEF LearningInv, ProgressCounts, CompletedByNow
<1>20. \A t : LearningBacked(t) => LearningBacked(t)'
    BY <1>3, <1>14, <1>15 DEF LearningBacked
<1>21. \A v \in Worker : \A now : now = txn'[v] => LearningBacked(now)'
    BY <1>7, <1>20, LearningIdle DEF LearningInv
<1>22. ~overlap' => \A v \in Worker : \A now : now = txn'[v] => LearningCurrent(now)'
    BY <1>7, IdleOp DEF LearningCurrent
<1> QED
    BY <1>16, <1>17, <1>18, <1>19, <1>21, <1>22 DEF LearningInv

LEMMA DayPassesStep ==
    ASSUME LearningInv, DayPasses
    PROVE  LearningInv'
<1>1. LearningTypeOK /\ OneOpen
    BY DEF LearningInv
<1>2. /\ today' = today + 1 /\ today < LastDay /\ \A w \in Worker : txn[w] = Idle
      /\ assessments' = assessments /\ progress' = progress /\ rewards' = rewards
      /\ txn' = txn /\ overlap' = overlap
    BY DEF DayPasses, sessions
<1>3. today' \in Day /\ today \in Int
    BY <1>1, <1>2, LearningTypes, LearningAssumption DEF Day
<1>4. LearningTypeOK' /\ OneOpen'
    BY <1>1, <1>2, <1>3 DEF LearningTypeOK, OneOpen
<1>5. /\ RowsIn(assessments)' = RowsIn(assessments)
      /\ RowsIn(progress)' = RowsIn(progress)
      /\ RowsIn(rewards)' = RowsIn(rewards)
    BY <1>2 DEF RowsIn
<1>6. Assessed' = Assessed /\ \A r : PaidBy(r)' = PaidBy(r)
    BY <1>2, <1>5 DEF Assessed, PaidBy
<1>7. RewardsAreEarned' /\ ProgressCounts' /\ RewardsApart'
    BY <1>2, <1>5, <1>6 DEF LearningInv, RewardsAreEarned, ProgressCounts, RewardsApart
<1>8. CompletedByNow'
    BY <1>1, <1>2, <1>3, <1>5, LearningTypes DEF LearningInv, CompletedByNow
<1>9. \A v \in Worker : \A now : now = txn'[v] => LearningBacked(now)' /\ LearningCurrent(now)'
    BY <1>2, IdleOp DEF LearningBacked, LearningCurrent
<1> QED
    BY <1>4, <1>7, <1>8, <1>9 DEF LearningInv

LEMMA LearningInvStep == LearningInv /\ LearningNext => LearningInv'
<1> SUFFICES ASSUME LearningInv, LearningNext PROVE LearningInv'
    OBVIOUS
<1>1. ASSUME NEW w \in Worker, Abandon(w), UNCHANGED learningTables
      PROVE  LearningInv'
  <2>1. /\ overlap' = overlap /\ txn' \in [Worker -> LearningTxn]
        /\ \A v \in Worker : txn'[v] = Idle \/ txn'[v] = txn[v]
    BY <1>1, LearningTypes, EndLeaves DEF LearningInv, Abandon
  <2> QED
    BY <1>1, <2>1, LearningStays
<1> QED
    BY <1>1, SubmitReadStep, SubmitWriteStep, AwardReadStep, AwardWriteStep, DayPassesStep
    DEF LearningNext

LEMMA LearningInvStutter == LearningInv /\ UNCHANGED learningVars => LearningInv'
<1> SUFFICES ASSUME LearningInv, UNCHANGED learningVars PROVE LearningInv'
    OBVIOUS
<1>1. /\ UNCHANGED learningTables /\ txn' = txn /\ overlap' = overlap
    BY DEF learningVars, learningTables
<1>2. txn \in [Worker -> LearningTxn]
    BY LearningTypes DEF LearningInv
<1> QED
    BY <1>1, <1>2, LearningStays

(* Whatever checks overlap, a reward has an assessment in the week before it, and
   where none do, one of its own; and the progress never counts a course too many,
   and where no sessions overlap, none too few. *)
THEOREM LearningAddsUp == LearningSpec => [](RewardsAreEarned /\ ProgressCounts)
<1>1. LearningInit => LearningInv
    BY LearningInitially DEF LearningInit
<1>2. LearningInv => RewardsAreEarned /\ ProgressCounts
    BY DEF LearningInv
<1> QED
    BY <1>1, <1>2, LearningInvStep, LearningInvStutter, PTL DEF LearningSpec

-----------------------------------------------------------------------------
(***************************************************************************)
(* DeviceUsage.  A sync has counted no more than there will be when it     *)
(* writes (DeviceUsageBacked), and, where it runs alone, just that         *)
(* (DeviceUsageCurrent).                                                   *)
(***************************************************************************)
Used(d, rows) == Cardinality(On(d, rows))
MinutesOf(d) == IF summary[d] = NoRow THEN 0 ELSE summary[d]

DeviceUsageBacked(t) == t.op = "sync" => \A d \in Date : t.counted[d] <= Used(d, stored \cup t.batch)

DeviceUsageCurrent(t) == t.op = "sync" =>
    t.read = summary /\ \A d \in Date : t.counted[d] = Used(d, stored \cup t.batch)

DeviceUsageInv ==
    /\ DeviceUsageTypeOK
    /\ OneOpen
    /\ SummaryFollowsRecords
    /\ \A w \in Worker : DeviceUsageBacked(txn[w])
    /\ ~overlap => \A w \in Worker : DeviceUsageCurrent(txn[w])

LEMMA DeviceUsageIdle == DeviceUsageBacked(Idle) /\ DeviceUsageCurrent(Idle)
BY IdleOp DEF DeviceUsageBacked, DeviceUsageCurrent

LEMMA UsedMore ==
    ASSUME NEW d, NEW S, NEW T, S \subseteq T, T \subseteq Usage
    PROVE  /\ Used(d, S) \in Nat /\ Used(d, T) \in Nat
           /\ Used(d, S) <= Used(d, T)
           /\ Used(d, T) \in Minutes
<1>1. /\ On(d, S) \subseteq On(d, T) /\ On(d, T) \subseteq Usage /\ IsFiniteSet(Usage)
    BY DeviceUsageAssumption DEF On
<1>2. /\ IsFiniteSet(On(d, T)) /\ Cardinality(On(d, T)) \in Nat /\ Cardinality(Usage) \in Nat
      /\ Cardinality(On(d, T)) <= Cardinality(Usage)
    BY <1>1, PartCount
<1>3. /\ Cardinality(On(d, S)) \in Nat
      /\ Cardinality(On(d, S)) <= Cardinality(On(d, T))
    BY <1>1, <1>2, PartCount
<1> QED
    BY <1>2, <1>3 DEF Used, Minutes

LEMMA DeviceUsageInitially == DeviceUsageTablesInit /\ SessionsInit => DeviceUsageInv
<1> SUFFICES ASSUME DeviceUsageTablesInit, SessionsInit PROVE DeviceUsageInv
    OBVIOUS
<1> USE DEF DeviceUsageTablesInit, SessionsInit
<1>1. DeviceUsageTypeOK
    BY DEF DeviceUsageTypeOK, DeviceUsageTxn, Summary
<1>2. \A d \in Date : On(d, stored) = {}
    BY DEF On
<1>3. \A d \in Date : Cardinality(On(d, stored)) = 0
    BY <1>2, FS_EmptySet
<1>4. SummaryFollowsRecords
    BY <1>3 DEF SummaryFollowsRecords
<1> QED
    BY <1>1, <1>4, NoneOpen, DeviceUsageIdle DEF DeviceUsageInv

LEMMA SyncHolds ==
    ASSUME DeviceUsageTypeOK, NEW w \in Worker
    PROVE  /\ Open(w, "sync") => /\ txn[w] \in DeviceUsageTxn /\ txn[w] # Idle
                                 /\ txn[w].batch \subseteq Usage
                                 /\ txn[w].read \in [Date -> Summary]
                                 /\ txn[w].counted \in [Date -> Minutes]
           /\ txn[w].op = "sync" => txn[w].batch \subseteq Usage
BY IdleOp DEF DeviceUsageTypeOK, DeviceUsageTxn, Open

(* Records by themselves: their day is behind, until it is counted anew. *)
LEMMA RecordedStep ==
    ASSUME DeviceUsageInv, NEW w \in Worker, NEW u \in Usage, Recorded(w, u)
    PROVE  DeviceUsageInv'
<1>1. /\ DeviceUsageTypeOK /\ OneOpen /\ txn \in [Worker -> DeviceUsageTxn]
      /\ stored \subseteq Usage /\ summary \in [Date -> Summary]
    BY DEF DeviceUsageInv, DeviceUsageTypeOK
<1>2. /\ stored' = stored \cup {u} /\ behind' = behind \cup {UtcDay[u]}
      /\ summary' = summary /\ txn' = txn /\ overlap' = overlap /\ Free(w)
    BY DEF Recorded, sessions
<1>3. /\ \A v \in Worker : txn'[v] = Idle \/ (txn'[v] = txn[v] /\ overlap)
    BY <1>1, <1>2, FreeLeaves DEF sessions
<1>4. DeviceUsageTypeOK' /\ OneOpen'
    BY <1>1, <1>2, DeviceUsageAssumption DEF DeviceUsageTypeOK, OneOpen
<1>5. SummaryFollowsRecords'
  <2>1. ASSUME NEW d \in Date
        PROVE  /\ MinutesOf(d) <= Used(d, stored \cup {u})
               /\ ~overlap /\ d \notin behind \cup {UtcDay[u]} => MinutesOf(d) = Used(d, stored \cup {u})
    <3>1. /\ MinutesOf(d) <= Used(d, stored)
          /\ ~overlap /\ d \notin behind => MinutesOf(d) = Used(d, stored)
      BY DEF DeviceUsageInv, SummaryFollowsRecords, MinutesOf, Used
    <3>2. /\ Used(d, stored) \in Nat /\ Used(d, stored \cup {u}) \in Nat
          /\ Used(d, stored) <= Used(d, stored \cup {u})
      BY <1>1, UsedMore
    <3>3. MinutesOf(d) \in Nat
      BY <1>1, DeviceUsageAssumption, FS_CardinalityType DEF MinutesOf, Summary, Minutes
    <3>4. MinutesOf(d) <= Used(d, stored \cup {u})
      BY <3>1, <3>2, <3>3
    <3>5. CASE d # UtcDay[u]
      <4>1. On(d, stored \cup {u}) = On(d, stored)
        BY <3>5 DEF On
      <4> QED
        BY <3>1, <3>4, <4>1 DEF Used
    <3> QED
      BY <3>4, <3>5
  <2> QED
    BY <1>2, <2>1 DEF SummaryFollowsRecords, MinutesOf, Used, On
<1>6. \A v \in Worker : DeviceUsageBacked(txn[v])'
  <2>1. ASSUME NEW v \in Worker, NEW d \in Date, txn[v].op = "sync"
        PROVE  txn[v].counted[d] <= Used(d, stored \cup {u} \cup txn[v].batch)
    <3>1. txn[v].counted[d] <= Used(d, stored \cup txn[v].batch)
      BY <2>1 DEF DeviceUsageInv, DeviceUsageBacked
    <3>2. stored \cup txn[v].batch \subseteq stored \cup {u} \cup txn[v].batch
          /\ stored \cup {u} \cup txn[v].batch \subseteq Usage
      BY <1>1, <2>1, SyncHolds
    <3>3. /\ Used(d, stored \cup txn[v].batch) \in Nat
          /\ Used(d, stored \cup {u} \cup txn[v].batch) \in Nat
          /\ Used(d, stored \cup txn[v].batch) <= Used(d, stored \cup {u} \cup txn[v].batch)
      BY <3>2, UsedMore
    <3>4. txn[v].counted[d] \in Nat
      BY <1>1, <2>1, SyncHolds, DeviceUsageAssumption, FS_CardinalityType DEF Open, Minutes
    <3> QED
      BY <3>1, <3>3, <3>4
  <2> QED
    BY <1>2, <2>1 DEF DeviceUsageBacked, Used, On
<1>7. ~overlap' => \A v \in Worker : DeviceUsageCurrent(txn[v])'
    BY <1>2, <1>3, IdleOp DEF DeviceUsageCurrent
<1> QED
    BY <1>4, <1>5, <1>6, <1>7 DEF DeviceUsageInv

LEMMA SyncReadStep ==
    ASSUME DeviceUsageInv, NEW w \in Worker, NEW batch \in SUBSET Usage, SyncRead(w, batch)
    PROVE  DeviceUsageInv'
<1> DEFINE counted == [d \in Date |-> Cardinality(On(d, ToCount(batch)))]
           t == [op |-> "sync", batch |-> batch, read |-> summary, counted |-> counted]
<1>1. /\ DeviceUsageTypeOK /\ OneOpen /\ txn \in [Worker -> DeviceUsageTxn]
      /\ stored \subseteq Usage /\ summary \in [Date -> Summary]
    BY DEF DeviceUsageInv, DeviceUsageTypeOK
<1>2. /\ Begin(w, t) /\ stored' = stored /\ summary' = summary /\ behind' = behind
    BY DEF SyncRead, deviceUsageTables
<1>3. \A d \in Date : counted[d] = Used(d, stored \cup batch) /\ counted[d] \in Minutes
                      /\ counted[d] \in Nat
    BY <1>1, UsedMore DEF Used, ToCount
<1>4. counted \in [Date -> Minutes]
    BY <1>3
<1>5. t \in DeviceUsageTxn
    BY <1>1, <1>4 DEF DeviceUsageTxn
<1>6. t.op = "sync" /\ t.batch = batch /\ t.read = summary /\ t.counted = counted
    OBVIOUS
<1> HIDE DEF t, counted
<1>7. DeviceUsageBacked(t) /\ DeviceUsageCurrent(t)
    BY <1>3, <1>6 DEF DeviceUsageBacked, DeviceUsageCurrent
<1>8. /\ txn' \in [Worker -> DeviceUsageTxn] /\ overlap' = overlap
      /\ \A v \in Worker : txn'[v] = IF v = w THEN t ELSE txn[v]
    BY <1>1, <1>2, <1>5 DEF Begin
<1>9. OneOpen'
    BY <1>1, <1>2, BeginKeepsOne
<1>10. DeviceUsageTypeOK' /\ SummaryFollowsRecords'
    BY <1>1, <1>2, <1>8 DEF DeviceUsageInv, DeviceUsageTypeOK, SummaryFollowsRecords, On
<1>11. \A v \in Worker : DeviceUsageBacked(txn[v])'
    BY <1>2, <1>7, <1>8 DEF DeviceUsageInv, DeviceUsageBacked, Used, On
<1>12. ~overlap' => \A v \in Worker : DeviceUsageCurrent(txn[v])'
    BY <1>2, <1>7, <1>8 DEF DeviceUsageInv, DeviceUsageCurrent, Used, On
<1> QED
    BY <1>9, <1>10, <1>11, <1>12 DEF DeviceUsageInv

(* A session that ends and writes nothing. *)
LEMMA UsageSessionEnds ==
    ASSUME DeviceUsageInv, NEW w \in Worker, txn[w] # Idle, End(w), UNCHANGED deviceUsageTables
    PROVE  DeviceUsageInv'
<1>1. /\ OneOpen /\ txn \in [Worker -> DeviceUsageTxn] /\ Idle \in DeviceUsageTxn
    BY DEF DeviceUsageInv, DeviceUsageTypeOK, DeviceUsageTxn
<1>2. /\ overlap' = overlap
      /\ txn' \in [Worker -> DeviceUsageTxn]
      /\ \A v \in Worker : txn'[v] = Idle \/ (txn'[v] = txn[v] /\ overlap)
    BY <1>1, EndLeaves
<1>3. stored' = stored /\ summary' = summary /\ behind' = behind
    BY DEF deviceUsageTables
<1>4. DeviceUsageTypeOK' /\ SummaryFollowsRecords'
    BY <1>2, <1>3 DEF DeviceUsageInv, DeviceUsageTypeOK, SummaryFollowsRecords, On
<1>5. \A v \in Worker : DeviceUsageBacked(txn[v])'
    BY <1>2, <1>3, IdleOp DEF DeviceUsageInv, DeviceUsageBacked, Used, On
<1>6. ~overlap' => \A v \in Worker : DeviceUsageCurrent(txn[v])'
    BY <1>2, IdleOp DEF DeviceUsageCurrent
<1>7. OneOpen'
    BY <1>2 DEF OneOpen
<1> QED
    BY <1>4, <1>5, <1>6, <1>7 DEF DeviceUsageInv

LEMMA SyncWriteStep ==
    ASSUME DeviceUsageInv, NEW w \in Worker, SyncWrite(w)
    PROVE  DeviceUsageInv'
<1> DEFINE clash(t) == \E d \in SyncedDays(t.batch) : t.read[d] = NoRow /\ summary[d] # NoRow
<1>1. /\ DeviceUsageTypeOK /\ OneOpen /\ txn \in [Worker -> DeviceUsageTxn]
      /\ Idle \in DeviceUsageTxn
      /\ stored \subseteq Usage /\ summary \in [Date -> Summary] /\ behind \subseteq Date
    BY DEF DeviceUsageInv, DeviceUsageTypeOK, DeviceUsageTxn
<1>2. Open(w, "sync") /\ End(w) /\ txn[w] # Idle
    BY OpenIsNotIdle DEF SyncWrite
<1>3. PICK t \in DeviceUsageTxn : t = txn[w]
    BY <1>1
<1>4. /\ t.op = "sync" /\ t.batch \subseteq Usage
      /\ t.read \in [Date -> Summary] /\ t.counted \in [Date -> Minutes]
    BY <1>1, <1>2, <1>3, SyncHolds DEF Open
<1>5. /\ \A d \in Date : t.counted[d] <= Used(d, stored \cup t.batch)
      /\ ~overlap => t.read = summary
      /\ ~overlap => \A d \in Date : t.counted[d] = Used(d, stored \cup t.batch)
    BY <1>3, <1>4 DEF DeviceUsageInv, DeviceUsageBacked, DeviceUsageCurrent
<1>6. CASE clash(t)
  <2>1. UNCHANGED deviceUsageTables
    BY <1>3, <1>6 DEF SyncWrite
  <2> QED
    BY <1>2, <2>1, UsageSessionEnds
<1>7. CASE ~clash(t)
  <2>1. /\ stored' = stored \cup t.batch
        /\ summary' = [d \in Date |-> IF d \in SyncedDays(t.batch) /\ t.counted[d] # t.read[d]
                                      THEN t.counted[d] ELSE summary[d]]
        /\ behind' = (behind \cup {UtcDay[u] : u \in t.batch}) \ SyncedDays(t.batch)
    BY <1>3, <1>7 DEF SyncWrite
  <2>2. /\ overlap' = overlap
        /\ txn' \in [Worker -> DeviceUsageTxn]
        /\ \A v \in Worker : txn'[v] = Idle \/ (txn'[v] = txn[v] /\ overlap)
    BY <1>1, <1>2, EndLeaves
  <2>3. summary' \in [Date -> Summary]
    BY <1>1, <1>4, <2>1 DEF Summary
  <2>4. stored' \subseteq Usage /\ behind' \subseteq Date
    BY <1>1, <1>4, <2>1, DeviceUsageAssumption
  <2>5. DeviceUsageTypeOK' /\ OneOpen'
    BY <2>2, <2>3, <2>4 DEF DeviceUsageTypeOK, OneOpen
  <2>6. ASSUME NEW d \in Date
        PROVE  \A now : now = summary'[d] =>
                 LET minutes == IF now = NoRow THEN 0 ELSE now IN
                   /\ minutes <= Used(d, stored')
                   /\ ~overlap /\ d \notin behind' => minutes = Used(d, stored')
    <3>1. /\ Used(d, stored) \in Nat /\ Used(d, stored') \in Nat
          /\ Used(d, stored) <= Used(d, stored')
      BY <1>1, <2>1, <2>4, UsedMore
    <3>2. /\ MinutesOf(d) <= Used(d, stored) /\ MinutesOf(d) \in Nat
          /\ ~overlap /\ d \notin behind => MinutesOf(d) = Used(d, stored)
      <4>1. MinutesOf(d) \in Nat
        BY <1>1, DeviceUsageAssumption, FS_CardinalityType DEF MinutesOf, Summary, Minutes
      <4> QED
        BY <4>1 DEF DeviceUsageInv, SummaryFollowsRecords, MinutesOf, Used
    <3>3. /\ t.counted[d] \in Nat /\ t.counted[d] <= Used(d, stored') /\ t.counted[d] # NoRow
          /\ ~overlap => t.counted[d] = Used(d, stored')
      <4>1. t.counted[d] \in Nat /\ t.counted[d] # NoRow
        BY <1>4, DeviceUsageAssumption, FS_CardinalityType DEF Minutes
      <4>2. stored' = stored \cup t.batch
        BY <2>1
      <4> QED
        BY <1>5, <4>1, <4>2
    <3>4. CASE d \in SyncedDays(t.batch) /\ t.counted[d] # t.read[d]
      <4>1. summary'[d] = t.counted[d]
        BY <2>1, <3>4
      <4> QED
        BY <3>3, <4>1
    <3>5. CASE d \in SyncedDays(t.batch) /\ t.counted[d] = t.read[d]
      <4>1. summary'[d] = summary[d]
        BY <2>1, <3>5
      <4>2. MinutesOf(d) <= Used(d, stored')
        BY <3>1, <3>2
      <4>3. ~overlap => MinutesOf(d) = Used(d, stored')
        BY <1>5, <3>3, <3>5 DEF MinutesOf
      <4> QED
        BY <4>1, <4>2, <4>3 DEF MinutesOf
    <3>6. CASE d \notin SyncedDays(t.batch)
      <4>1. summary'[d] = summary[d]
        BY <2>1, <3>6
      <4>2. MinutesOf(d) <= Used(d, stored')
        BY <3>1, <3>2
      <4>3. ~overlap /\ d \notin behind' => MinutesOf(d) = Used(d, stored')
        <5>1. d \notin behind' => d \notin behind /\ \A u \in t.batch : UtcDay[u] # d
          BY <2>1, <3>6
        <5>2. d \notin behind' => On(d, stored') = On(d, stored)
          BY <2>1, <5>1 DEF On
        <5> QED
          BY <3>2, <5>1, <5>2 DEF Used
      <4> QED
        BY <4>1, <4>2, <4>3 DEF MinutesOf
    <3> QED
      BY <3>4, <3>5, <3>6
  <2>7. SummaryFollowsRecords'
    BY <2>2, <2>6 DEF SummaryFollowsRecords, Used, On
  <2>8. ASSUME NEW v \in Worker, NEW d \in Date, txn[v].op = "sync"
        PROVE  txn[v].counted[d] <= Used(d, stored' \cup txn[v].batch)
    <3>1. txn[v].counted[d] <= Used(d, stored \cup txn[v].batch)
      BY <2>8 DEF DeviceUsageInv, DeviceUsageBacked
    <3>2. stored \cup txn[v].batch \subseteq stored' \cup txn[v].batch
          /\ stored' \cup txn[v].batch \subseteq Usage
      BY <1>1, <2>1, <2>4, <2>8, SyncHolds
    <3>3. /\ Used(d, stored \cup txn[v].batch) \in Nat
          /\ Used(d, stored' \cup txn[v].batch) \in Nat
          /\ Used(d, stored \cup txn[v].batch) <= Used(d, stored' \cup txn[v].batch)
      BY <3>2, UsedMore
    <3>4. txn[v].counted[d] \in Nat
      BY <1>1, <2>8, SyncHolds, DeviceUsageAssumption, FS_CardinalityType DEF Open, Minutes
    <3> QED
      BY <3>1, <3>3, <3>4
  <2>9. \A v \in Worker : DeviceUsageBacked(txn[v])'
    BY <2>2, <2>8, IdleOp DEF DeviceUsageBacked, Used, On
  <2>10. ~overlap' => \A v \in Worker : DeviceUsageCurrent(txn[v])'
    BY <2>2, IdleOp DEF DeviceUsageCurrent
  <2> QED
    BY <2>5, <2>7, <2>9, <2>10 DEF DeviceUsageInv
<1> QED
    BY <1>6, <1>7

LEMMA DeviceUsageInvStep == DeviceUsageInv /\ DeviceUsageNext => DeviceUsageInv'
BY RecordedStep, SyncReadStep, SyncWriteStep, UsageSessionEnds DEF DeviceUsageNext, Abandon

LEMMA DeviceUsageInvStutter == DeviceUsageInv /\ UNCHANGED deviceUsageVars => DeviceUsageInv'
<1> SUFFICES ASSUME DeviceUsageInv, UNCHANGED deviceUsageVars PROVE DeviceUsageInv'
    OBVIOUS
<1>1. /\ stored' = stored /\ summary' = summary /\ behind' = behind
      /\ txn' = txn /\ overlap' = overlap
    BY DEF deviceUsageVars
<1>2. DeviceUsageTypeOK' /\ OneOpen' /\ SummaryFollowsRecords'
    BY <1>1 DEF DeviceUsageInv, DeviceUsageTypeOK, OneOpen, SummaryFollowsRecords, On
<1>3. \A v \in Worker : DeviceUsageBacked(txn[v])'
    BY <1>1 DEF DeviceUsageInv, DeviceUsageBacked, Used, On
<1>4. ~overlap' => \A v \in Worker : DeviceUsageCurrent(txn[v])'
    BY <1>1 DEF DeviceUsageInv, DeviceUsageCurrent, Used, On
<1> QED
    BY <1>2, <1>3, <1>4 DEF DeviceUsageInv

(* The summary of a day never says more than the records of the day, whatever
   overlaps, and where no two syncs do it says all of them, unless one came in
   without a count of its day. *)
THEOREM SummariesFollow == DeviceUsageSpec => []SummaryFollowsRecords
<1>1. DeviceUsageInit => DeviceUsageInv
    BY DeviceUsageInitially DEF DeviceUsageInit
<1>2. DeviceUsageInv => SummaryFollowsRecords
    BY DEF DeviceUsageInv
<1> QED
    BY <1>1, <1>2, DeviceUsageInvStep, DeviceUsageInvStutter, PTL DEF DeviceUsageSpec

-----------------------------------------------------------------------------
(***************************************************************************)
(* Cases.  What a session has read was answered, and it closes a case by   *)
(* resolving it (CasesBacked); as long as sessions do not overlap it has   *)
(* read what the case still says (CasesCurrent).                           *)
(***************************************************************************)
CasesBacked(t) ==
    /\ t.op \in {"advance", "close"} => t.read \subseteq answered
    /\ t.op = "close" => t.step = Resolve

CasesCurrent(t) == t.op \in {"advance", "close"} => t.read = steps

CasesInv ==
    /\ CasesTypeOK
    /\ OneOpen
    /\ StepsAreKept
    /\ \A w \in Worker : CasesBacked(txn[w])
    /\ ~overlap => \A w \in Worker : CasesCurrent(txn[w])

LEMMA CasesIdle == CasesBacked(Idle) /\ CasesCurrent(Idle)
BY IdleOp DEF CasesBacked, CasesCurrent

LEMMA CasesInitially == CasesTablesInit /\ SessionsInit => CasesInv
<1> SUFFICES ASSUME CasesTablesInit, SessionsInit PROVE CasesInv
    OBVIOUS
<1> USE DEF CasesTablesInit, SessionsInit
<1>1. CasesTypeOK
    BY CasesAssumption DEF CasesTypeOK, CasesTxn
<1>2. StepsAreKept
    BY DEF StepsAreKept
<1> QED
    BY <1>1, <1>2, NoneOpen, CasesIdle DEF CasesInv

(* What a session is open for tells what it has read. *)
LEMMA CasesReads ==
    ASSUME CasesInv, NEW w \in Worker, NEW t \in CasesTxn, CasesBacked(t), CasesCurrent(t),
           Begin(w, t), UNCHANGED casesTables
    PROVE  CasesInv'
<1>1. CasesTypeOK /\ OneOpen /\ txn \in [Worker -> CasesTxn]
    BY DEF CasesInv, CasesTypeOK
<1>2. steps' = steps /\ answered' = answered /\ closed' = closed /\ overlap' = overlap
    BY DEF casesTables, Begin
<1>3. /\ txn' \in [Worker -> CasesTxn]
      /\ \A v \in Worker : txn'[v] = IF v = w THEN t ELSE txn[v]
    BY <1>1 DEF Begin
<1>4. OneOpen'
    BY <1>1, BeginKeepsOne
<1>5. CasesTypeOK' /\ StepsAreKept'
    BY <1>1, <1>2, <1>3 DEF CasesInv, CasesTypeOK, StepsAreKept
<1>6. \A v \in Worker : CasesBacked(txn[v])'
    BY <1>2, <1>3 DEF CasesInv, CasesBacked
<1>7. ~overlap' => \A v \in Worker : CasesCurrent(txn[v])'
    BY <1>2, <1>3 DEF CasesInv, CasesCurrent
<1> QED
    BY <1>4, <1>5, <1>6, <1>7 DEF CasesInv

LEMMA CaseWriteStep ==
    ASSUME CasesInv, NEW w \in Worker, CaseWrite(w)
    PROVE  CasesInv'
<1>1. CasesTypeOK /\ OneOpen /\ txn \in [Worker -> CasesTxn] /\ Idle \in CasesTxn
    BY DEF CasesInv, CasesTypeOK, CasesTxn
<1>2. PICK t \in CasesTxn : t = txn[w]
    BY <1>1
<1>3. /\ t # Idle /\ End(w)
      /\ steps' = t.read \cup {t.step}
      /\ closed' = (closed \/ t.op = "close")
      /\ answered' = answered \cup {t.step}
    BY <1>2 DEF CaseWrite, Completing, Open
<1>4. /\ t.op \in {"advance", "close"}
      /\ t.step \in WorkflowStep /\ t.read \subseteq WorkflowStep
    BY <1>2, <1>3 DEF CasesTxn
<1>5. /\ overlap' = overlap
      /\ txn' \in [Worker -> CasesTxn]
      /\ \A v \in Worker : txn'[v] = Idle \/ (txn'[v] = txn[v] /\ overlap)
    BY <1>1, <1>2, <1>3, EndLeaves
<1>6. t.read \subseteq answered /\ (t.op = "close" => t.step = Resolve)
    BY <1>2, <1>4 DEF CasesInv, CasesBacked
<1>7. ~overlap => t.read = steps
    BY <1>2, <1>4 DEF CasesInv, CasesCurrent
<1>8. CasesTypeOK'
    BY <1>1, <1>3, <1>4, <1>5 DEF CasesTypeOK
<1>9. StepsAreKept'
  <2>1. steps' \subseteq answered'
    BY <1>3, <1>6
  <2>2. ~overlap => steps' = answered'
    BY <1>3, <1>7 DEF CasesInv, StepsAreKept
  <2>3. ~overlap /\ closed' => Resolve \in steps'
    BY <1>3, <1>6, <1>7 DEF CasesInv, StepsAreKept
  <2> QED
    BY <1>5, <2>1, <2>2, <2>3 DEF StepsAreKept
<1>10. \A v \in Worker : CasesBacked(txn[v])'
    BY <1>3, <1>5, CasesIdle, IdleOp DEF CasesInv, CasesBacked
<1>11. ~overlap' => \A v \in Worker : CasesCurrent(txn[v])'
    BY <1>5, IdleOp DEF CasesCurrent
<1>12. OneOpen'
    BY <1>5 DEF OneOpen
<1> QED
    BY <1>8, <1>9, <1>10, <1>11, <1>12 DEF CasesInv

LEMMA CasesAbandonStep ==
    ASSUME CasesInv, NEW w \in Worker, Abandon(w), UNCHANGED casesTables
    PROVE  CasesInv'
<1>1. CasesTypeOK /\ OneOpen /\ txn \in [Worker -> CasesTxn] /\ Idle \in CasesTxn
    BY DEF CasesInv, CasesTypeOK, CasesTxn
<1>2. /\ overlap' = overlap
      /\ txn' \in [Worker -> CasesTxn]
      /\ \A v \in Worker : txn'[v] = Idle \/ (txn'[v] = txn[v] /\ overlap)
    BY <1>1, EndLeaves DEF Abandon
<1>3. steps' = steps /\ answered' = answered /\ closed' = closed
    BY DEF casesTables
<1>4. CasesTypeOK' /\ StepsAreKept'
    BY <1>1, <1>2, <1>3 DEF CasesInv, CasesTypeOK, StepsAreKept
<1>5. \A v \in Worker : CasesBacked(txn[v])'
    BY <1>2, <1>3, IdleOp DEF CasesInv, CasesBacked
<1>6. ~overlap' => \A v \in Worker : CasesCurrent(txn[v])'
    BY <1>2, IdleOp DEF CasesCurrent
<1>7. OneOpen'
    BY <1>2 DEF OneOpen
<1> QED
    BY <1>4, <1>5, <1>6, <1>7 DEF CasesInv

LEMMA CasesInvStep == CasesInv /\ CasesNext => CasesInv'
<1> SUFFICES ASSUME CasesInv, NEW w \in Worker,
                    \/ \E step \in WorkflowStep : AdvanceRead(w, step)
                    \/ CloseRead(w) \/ CaseWrite(w)
                    \/ Abandon(w) /\ UNCHANGED casesTables
             PROVE  CasesInv'
    BY DEF CasesNext
<1>1. steps \subseteq answered /\ steps \subseteq WorkflowStep
    BY DEF CasesInv, CasesTypeOK, StepsAreKept
<1>2. ASSUME NEW step \in WorkflowStep, AdvanceRead(w, step)
      PROVE  CasesInv'
  <2> DEFINE t == [op |-> "advance", step |-> step, read |-> steps]
  <2>1. t \in CasesTxn /\ CasesBacked(t) /\ CasesCurrent(t)
    BY <1>1 DEF CasesTxn, CasesBacked, CasesCurrent
  <2>2. Begin(w, t) /\ UNCHANGED casesTables
    BY <1>2 DEF AdvanceRead
  <2> HIDE DEF t
  <2> QED
    BY <2>1, <2>2, CasesReads
<1>3. CASE CloseRead(w)
  <2> DEFINE t == [op |-> "close", step |-> Resolve, read |-> steps]
  <2>1. t \in CasesTxn /\ CasesBacked(t) /\ CasesCurrent(t)
    BY <1>1, CasesAssumption DEF CasesTxn, CasesBacked, CasesCurrent
  <2>2. Begin(w, t) /\ UNCHANGED casesTables
    BY <1>3 DEF CloseRead
  <2> HIDE DEF t
  <2> QED
    BY <2>1, <2>2, CasesReads
<1> QED
    BY <1>2, <1>3, CaseWriteStep, CasesAbandonStep

LEMMA CasesInvStutter == CasesInv /\ UNCHANGED casesVars => CasesInv'
<1> SUFFICES ASSUME CasesInv, UNCHANGED casesVars PROVE CasesInv'
    OBVIOUS
<1>1. /\ steps' = steps /\ closed' = closed /\ answered' = answered
      /\ txn' = txn /\ overlap' = overlap
    BY DEF casesVars
<1>2. CasesTypeOK' /\ StepsAreKept' /\ OneOpen'
    BY <1>1 DEF CasesInv, CasesTypeOK, StepsAreKept, OneOpen
<1>3. \A w \in Worker : CasesBacked(txn[w])'
    BY <1>1 DEF CasesInv, CasesBacked
<1>4. ~overlap' => \A w \in Worker : CasesCurrent(txn[w])'
    BY <1>1 DEF CasesInv, CasesCurrent
<1> QED
    BY <1>2, <1>3, <1>4 DEF CasesInv

(* Whatever steps of a case its callers complete, and in whatever order, none is
   recorded that nobody completed; and where no two sessions overlap, each is, and a
   closed case is resolved. *)
THEOREM StepsKept == CasesSpec => []StepsAreKept
<1>1. CasesInit => CasesInv
    BY CasesInitially DEF CasesInit
<1>2. CasesInv => StepsAreKept
    BY DEF CasesInv
<1> QED
    BY <1>1, <1>2, CasesInvStep, CasesInvStutter, PTL DEF CasesSpec

-----------------------------------------------------------------------------
(***************************************************************************)
(* GroupSettings.  A reminder that was mailed is on its way to the record, *)
(* is excused, or there is a record of one (MailedIsKnown): only then can  *)
(* it be mailed anew.                                                      *)
(***************************************************************************)
MailedIsKnown == \A d \in ReminderDays : mailed[d] > 0 =>
    \/ d \in excused \/ settings.reminded # {}
    \/ \E w \in Worker : Open(w, "remind") /\ txn[w].days = d

GroupSettingsInv ==
    /\ GroupSettingsTypeOK
    /\ ~overlap
    /\ OneOpen
    /\ SettingsStand
    /\ MailedIsKnown

LEMMA GroupSettingsInitially == GroupSettingsTablesInit /\ SessionsInit /\ ~overlap => GroupSettingsInv
<1> SUFFICES ASSUME GroupSettingsTablesInit, SessionsInit, ~overlap PROVE GroupSettingsInv
    OBVIOUS
<1> USE DEF GroupSettingsTablesInit, SessionsInit
<1>1. NothingSet \in GroupColumn /\ NothingChosen \in ParentsChoice
    BY DEF NothingSet, NothingChosen, GroupColumn, ParentsChoice, Setting
<1>2. GroupSettingsTypeOK
    BY <1>1 DEF GroupSettingsTypeOK
<1>3. \A d \in ReminderDays : ~(mailed[d] > 0) /\ ~(mailed[d] > 1)
    OBVIOUS
<1>4. SettingsStand /\ MailedIsKnown
    BY <1>3 DEF SettingsStand, MailedIsKnown, NothingSet, NothingChosen
<1> QED
    BY <1>2, <1>4, NoneOpen DEF GroupSettingsInv

LEMMA GroupSettingsTypes ==
    ASSUME GroupSettingsInv
    PROVE  /\ settings \in GroupColumn /\ chosen \in ParentsChoice
           /\ txn \in [Worker -> {Idle} \cup [op: {"remind"}, days: ReminderDays]]
           /\ \A w \in Worker : txn[w] # Idle => Open(w, "remind") /\ txn[w].days \in ReminderDays
           /\ \A d \in ReminderDays : mailed[d] \in 0..2
BY IdleOp DEF GroupSettingsInv, GroupSettingsTypeOK, Open

-----------------------------------------------------------------------------
(* A page that writes the column while no session is open: what it keeps of the
   record of reminders, or excuses. *)
LEMMA ColumnStep ==
    ASSUME GroupSettingsInv, NEW w \in Worker, Free(w),
           settings' \in GroupColumn, chosen' \in ParentsChoice,
           UNCHANGED <<daysLeft, mailed, sessions>>,
           \/ settings'.reminded = settings.reminded /\ excused' = excused
           \/ excused' = ReminderDays,
           settings'.level = chosen'.level /\ settings'.reviewed = chosen'.reviewed,
           chosen'.alone \/ settings'.notifications = chosen'.notifications
    PROVE  GroupSettingsInv'
<1>1. /\ daysLeft' = daysLeft /\ mailed' = mailed /\ txn' = txn /\ overlap' = overlap
    BY DEF sessions
<1>2. GroupSettingsTypeOK'
    BY <1>1 DEF GroupSettingsInv, GroupSettingsTypeOK
<1>3. OneOpen' /\ ~overlap'
    BY <1>1 DEF GroupSettingsInv, OneOpen
<1>4. \A d \in ReminderDays : mailed'[d] > 1 => d \in excused' \/ settings'.reminded \ {d} # {}
    BY <1>1 DEF GroupSettingsInv, SettingsStand
<1>5. SettingsStand'
    BY <1>4 DEF SettingsStand
<1>6. MailedIsKnown'
    BY <1>1 DEF GroupSettingsInv, MailedIsKnown, Open
<1> QED
    BY <1>2, <1>3, <1>5, <1>6 DEF GroupSettingsInv

LEMMA SettingsSavedStep ==
    ASSUME GroupSettingsInv, NEW w \in Worker, NEW level \in Setting, NEW notifications \in Setting,
           SettingsSaved(w, level, notifications)
    PROVE  GroupSettingsInv'
<1> DEFINE inPlace == notifications # Unset /\ settings.notifications # Unset
           row == IF inPlace THEN [settings EXCEPT !.notifications = notifications] ELSE settings
           copy == [settings EXCEPT !.level = OrElse(level, @),
                                    !.notifications = OrElse(notifications, @)]
           choice == [chosen EXCEPT
             !.level = OrElse(level, @),
             !.notifications = OrElse(notifications, @),
             !.alone = IF notifications = Unset THEN @ ELSE inPlace /\ copy = row]
<1>1. settings \in GroupColumn /\ chosen \in ParentsChoice
    BY GroupSettingsTypes
<1>2. Free(w) /\ settings' = Flushed(row, copy) /\ chosen' = choice
      /\ UNCHANGED <<daysLeft, mailed, excused, sessions>>
    BY DEF SettingsSaved
<1>3. /\ OrElse(level, settings.level) \in Setting
      /\ OrElse(notifications, settings.notifications) \in Setting
      /\ OrElse(level, chosen.level) \in Setting
      /\ OrElse(notifications, chosen.notifications) \in Setting
    BY <1>1 DEF OrElse, GroupColumn, ParentsChoice
<1>4. /\ copy \in GroupColumn
      /\ copy.level = OrElse(level, settings.level)
      /\ copy.notifications = OrElse(notifications, settings.notifications)
      /\ copy.reminded = settings.reminded /\ copy.reviewed = settings.reviewed
    BY <1>1, <1>3 DEF GroupColumn
<1>5. /\ row \in GroupColumn
      /\ row.level = settings.level
      /\ row.notifications = IF inPlace THEN notifications ELSE settings.notifications
      /\ row.reminded = settings.reminded /\ row.reviewed = settings.reviewed
    BY <1>1 DEF GroupColumn
<1>6. /\ choice.level = OrElse(level, chosen.level)
      /\ choice.notifications = OrElse(notifications, chosen.notifications)
      /\ choice.reviewed = chosen.reviewed
    BY <1>1 DEF ParentsChoice
<1>7. choice.alone = IF notifications = Unset THEN chosen.alone ELSE inPlace /\ copy = row
    BY <1>1 DEF ParentsChoice
<1>8. chosen.alone \in BOOLEAN /\ chosen.reviewed \in BOOLEAN
    BY <1>1 DEF ParentsChoice
<1>9. choice.alone \in BOOLEAN
    BY <1>7, <1>8, Zenon
<1>10. choice \in ParentsChoice
  <2>1. \A a, b \in Setting, x \in BOOLEAN :
          [chosen EXCEPT !.level = a, !.notifications = b, !.alone = x] \in ParentsChoice
    BY <1>1 DEF ParentsChoice
  <2>2. (IF notifications = Unset THEN chosen.alone ELSE inPlace /\ copy = row) \in BOOLEAN
    BY <1>8, Zenon
  <2> HIDE DEF copy, row, inPlace
  <2> QED
    BY <1>3, <2>1, <2>2
<1>11. /\ settings.level = chosen.level /\ settings.reviewed = chosen.reviewed
       /\ chosen.alone \/ settings.notifications = chosen.notifications
    BY DEF GroupSettingsInv, SettingsStand
<1> HIDE DEF copy, row, choice
<1>12. settings' = IF copy = row THEN settings ELSE copy
    BY <1>2 DEF Flushed
<1>13. /\ settings' \in GroupColumn
       /\ settings'.reminded = settings.reminded /\ settings'.reviewed = settings.reviewed
    BY <1>1, <1>4, <1>12
<1>14. settings'.level = OrElse(level, settings.level)
    BY <1>4, <1>5, <1>12
<1>15. choice.alone \/ settings'.notifications = choice.notifications
  <2>1. CASE notifications = Unset
    <3>1. /\ copy.notifications = settings.notifications
          /\ choice.notifications = chosen.notifications /\ (choice.alone <=> chosen.alone)
      BY <1>4, <1>6, <1>7, <2>1 DEF OrElse
    <3> QED
      BY <1>11, <1>12, <3>1
  <2>2. CASE notifications # Unset /\ copy = row
    <3>1. copy.notifications = notifications
      BY <1>4, <2>2 DEF OrElse
    <3>2. row.notifications = IF settings.notifications # Unset THEN notifications
                              ELSE settings.notifications
      BY <1>5, <2>2
    <3>3. inPlace
      BY <2>2, <3>1, <3>2
    <3> QED
      BY <1>7, <2>2, <3>3, Zenon
  <2>3. CASE notifications # Unset /\ copy # row
    BY <1>4, <1>6, <1>12, <2>3 DEF OrElse
  <2> QED
    BY <2>1, <2>2, <2>3
<1>16. excused' = excused /\ UNCHANGED <<daysLeft, mailed, sessions>> /\ Free(w)
    BY <1>2
<1>17. chosen' = choice
    BY <1>2
<1>18. /\ chosen' \in ParentsChoice
       /\ settings'.level = chosen'.level /\ settings'.reviewed = chosen'.reviewed
    BY <1>6, <1>10, <1>11, <1>13, <1>14, <1>17
<1>19. chosen'.alone \/ settings'.notifications = chosen'.notifications
    BY <1>15, <1>17
<1> QED
    BY <1>13, <1>16, <1>18, <1>19, ColumnStep

LEMMA SettingsReplacedStep ==
    ASSUME GroupSettingsInv, NEW w \in Worker, NEW level \in Choice, SettingsReplaced(w, level)
    PROVE  GroupSettingsInv'
<1> DEFINE copy == [NothingSet EXCEPT !.level = level]
<1>1. settings \in GroupColumn
    BY GroupSettingsTypes
<1>2. /\ Free(w) /\ settings' = Flushed(settings, copy)
      /\ chosen' = [NothingChosen EXCEPT !.level = level]
      /\ excused' = ReminderDays
      /\ UNCHANGED <<daysLeft, mailed, sessions>>
    BY DEF SettingsReplaced
<1>3. copy \in GroupColumn
    BY DEF NothingSet, GroupColumn, Setting
<1>4. copy.level = level /\ copy.notifications = Unset /\ copy.reviewed = FALSE
    BY DEF NothingSet
<1>5. chosen' \in ParentsChoice
    BY <1>2 DEF NothingChosen, ParentsChoice, Setting
<1>6. chosen'.level = level /\ chosen'.notifications = Unset /\ chosen'.reviewed = FALSE
    BY <1>2 DEF NothingChosen
<1>7. settings' = copy
    BY <1>2 DEF Flushed
<1> HIDE DEF copy
<1> QED
    BY <1>2, <1>3, <1>4, <1>5, <1>6, <1>7, ColumnStep

LEMMA ReviewMarkedStep ==
    ASSUME GroupSettingsInv, NEW w \in Worker, ReviewMarked(w)
    PROVE  GroupSettingsInv'
<1>1. settings \in GroupColumn /\ chosen \in ParentsChoice
    BY GroupSettingsTypes
<1>2. /\ settings.level = chosen.level
      /\ chosen.alone \/ settings.notifications = chosen.notifications
    BY DEF GroupSettingsInv, SettingsStand
<1>3. /\ Free(w) /\ UNCHANGED <<daysLeft, mailed, sessions>> /\ excused' = excused
      /\ settings' = [settings EXCEPT !.reviewed = TRUE]
      /\ chosen' = [chosen EXCEPT !.reviewed = TRUE]
    BY DEF ReviewMarked
<1>4. settings' \in GroupColumn /\ chosen' \in ParentsChoice
    BY <1>1, <1>3 DEF GroupColumn, ParentsChoice
<1>5. /\ settings'.level = settings.level /\ settings'.notifications = settings.notifications
      /\ settings'.reminded = settings.reminded /\ settings'.reviewed = TRUE
    BY <1>1, <1>3 DEF GroupColumn
<1>6. /\ chosen'.level = chosen.level /\ chosen'.notifications = chosen.notifications
      /\ chosen'.reviewed = TRUE /\ chosen'.alone = chosen.alone
    BY <1>1, <1>3 DEF ParentsChoice
<1>7. chosen'.alone \/ settings'.notifications = chosen'.notifications
    BY <1>2, <1>5, <1>6
<1> QED
    BY <1>2, <1>3, <1>4, <1>5, <1>6, <1>7, ColumnStep

-----------------------------------------------------------------------------
LEMMA RemindMailStep ==
    ASSUME GroupSettingsInv, NEW w \in Worker, RemindMail(w)
    PROVE  GroupSettingsInv'
<1> DEFINE t == [op |-> "remind", days |-> daysLeft]
<1>1. /\ daysLeft \in ReminderDays
      /\ txn \in [Worker -> {Idle} \cup [op: {"remind"}, days: ReminderDays]]
      /\ mailed \in [ReminderDays -> 0..2]
      /\ ~overlap /\ OneOpen
    BY DEF GroupSettingsInv, GroupSettingsTypeOK
<1>2. /\ daysLeft \notin settings.reminded /\ mailed[daysLeft] < 2
      /\ mailed' = [mailed EXCEPT ![daysLeft] = @ + 1]
      /\ Begin(w, t)
      /\ settings' = settings /\ daysLeft' = daysLeft /\ chosen' = chosen /\ excused' = excused
    BY DEF RemindMail, NotReminded
<1>3. t \in [op: {"remind"}, days: ReminderDays] /\ t.op = "remind" /\ t.days = daysLeft
    BY <1>1
<1> HIDE DEF t
<1>4. /\ txn' \in [Worker -> {Idle} \cup [op: {"remind"}, days: ReminderDays]]
      /\ \A v \in Worker : txn'[v] = IF v = w THEN t ELSE txn[v]
      /\ overlap' = overlap /\ \A v \in Worker : txn[v] = Idle
    BY <1>1, <1>2, <1>3 DEF Begin, Free
<1>5. OneOpen'
    BY <1>1, <1>2, BeginKeepsOne
<1>6. /\ mailed' \in [ReminderDays -> 0..2]
      /\ \A d \in ReminderDays : d # daysLeft => mailed'[d] = mailed[d]
      /\ mailed'[daysLeft] = mailed[daysLeft] + 1
    BY <1>1, <1>2
<1>7. GroupSettingsTypeOK'
    BY <1>2, <1>4, <1>6 DEF GroupSettingsInv, GroupSettingsTypeOK
<1>8. \A d \in ReminderDays : mailed[d] > 0 => d \in excused \/ settings.reminded # {}
    BY <1>4, IdleOp DEF GroupSettingsInv, MailedIsKnown, Open
<1>9. mailed'[daysLeft] > 1 => daysLeft \in excused \/ settings.reminded \ {daysLeft} # {}
  <2>1. mailed'[daysLeft] > 1 => mailed[daysLeft] > 0
    BY <1>1, <1>6
  <2> QED
    BY <1>1, <1>2, <1>8, <2>1
<1>10. SettingsStand'
    BY <1>2, <1>6, <1>9 DEF GroupSettingsInv, SettingsStand
<1>11. MailedIsKnown'
  <2>1. ASSUME NEW d \in ReminderDays, mailed'[d] > 0
        PROVE  \/ d \in excused' \/ settings'.reminded # {}
               \/ \E v \in Worker : txn'[v].op = "remind" /\ txn'[v].days = d
    <3>1. CASE d = daysLeft
      BY <1>3, <1>4, <3>1
    <3>2. CASE d # daysLeft
      BY <1>2, <1>6, <1>8, <2>1, <3>2
    <3> QED
      BY <3>1, <3>2
  <2> QED
    BY <2>1 DEF MailedIsKnown, Open
<1> QED
    BY <1>1, <1>4, <1>5, <1>7, <1>10, <1>11 DEF GroupSettingsInv

(* The job's session ends, with the record of its reminder or without. *)
LEMMA RemindEnds ==
    ASSUME GroupSettingsInv, NEW w \in Worker, txn[w] # Idle, End(w),
           settings' \in GroupColumn, UNCHANGED <<daysLeft, chosen, mailed>>,
           settings'.level = settings.level /\ settings'.reviewed = settings.reviewed,
           settings'.notifications = settings.notifications,
           settings.reminded \subseteq settings'.reminded,
           excused \subseteq excused' /\ excused' \subseteq ReminderDays,
           settings'.reminded # {} \/ txn[w].days \in excused'
    PROVE  GroupSettingsInv'
<1>1. /\ txn \in [Worker -> {Idle} \cup [op: {"remind"}, days: ReminderDays]]
      /\ OneOpen /\ ~overlap
    BY DEF GroupSettingsInv, GroupSettingsTypeOK
<1>2. /\ overlap' = overlap
      /\ txn' \in [Worker -> {Idle} \cup [op: {"remind"}, days: ReminderDays]]
      /\ \A v \in Worker : txn'[v] = Idle \/ (txn'[v] = txn[v] /\ overlap)
    BY <1>1, EndLeaves
<1>3. \A v \in Worker : txn[v] # Idle => v = w
    BY <1>1 DEF OneOpen
<1>4. mailed' = mailed /\ chosen' = chosen /\ daysLeft' = daysLeft
    OBVIOUS
<1>5. GroupSettingsTypeOK'
    BY <1>2, <1>4 DEF GroupSettingsInv, GroupSettingsTypeOK
<1>6. SettingsStand'
  <2>1. \A d \in ReminderDays : mailed'[d] > 1 => d \in excused' \/ settings'.reminded \ {d} # {}
    BY <1>4 DEF GroupSettingsInv, SettingsStand
  <2>2. /\ settings'.level = chosen'.level /\ settings'.reviewed = chosen'.reviewed
        /\ chosen'.alone \/ settings'.notifications = chosen'.notifications
    BY <1>4 DEF GroupSettingsInv, SettingsStand
  <2> QED
    BY <2>1, <2>2 DEF SettingsStand
<1>7. MailedIsKnown'
  <2>1. ASSUME NEW d \in ReminderDays, mailed[d] > 0
        PROVE  d \in excused' \/ settings'.reminded # {}
    <3>1. \/ d \in excused \/ settings.reminded # {}
          \/ \E v \in Worker : Open(v, "remind") /\ txn[v].days = d
      BY <2>1 DEF GroupSettingsInv, MailedIsKnown
    <3> QED
      BY <1>3, <3>1, OpenIsNotIdle
  <2> QED
    BY <1>4, <2>1 DEF MailedIsKnown
<1>8. OneOpen' /\ ~overlap'
    BY <1>1, <1>2 DEF OneOpen
<1> QED
    BY <1>5, <1>6, <1>7, <1>8 DEF GroupSettingsInv

LEMMA RemindWriteStep ==
    ASSUME GroupSettingsInv, NEW w \in Worker, RemindWrite(w)
    PROVE  GroupSettingsInv'
<1> DEFINE copy == [settings EXCEPT !.reminded = @ \cup {txn[w].days}]
           row == IF settings.reminded = {} THEN settings ELSE copy
<1>1. Open(w, "remind") /\ txn[w] # Idle
    BY OpenIsNotIdle DEF RemindWrite
<1>2. settings \in GroupColumn /\ txn[w].days \in ReminderDays
    BY <1>1, GroupSettingsTypes
<1>3. /\ settings' = Flushed(row, copy)
      /\ End(w) /\ UNCHANGED <<daysLeft, chosen, mailed>> /\ excused' = excused
    BY DEF RemindWrite
<1>4. /\ copy \in GroupColumn /\ copy.reminded = settings.reminded \cup {txn[w].days}
      /\ copy.level = settings.level /\ copy.notifications = settings.notifications
      /\ copy.reviewed = settings.reviewed
    BY <1>2 DEF GroupColumn
<1>5. settings' = settings \/ settings' = copy
    BY <1>3 DEF Flushed
<1>6. settings'.reminded # {}
  <2>1. CASE settings.reminded # {}
    BY <1>4, <1>5, <2>1
  <2>2. CASE settings.reminded = {}
    <3>1. row = settings
      BY <2>2
    <3> HIDE DEF row, copy
    <3>2. copy # row
      BY <1>4, <2>2, <3>1
    <3> QED
      BY <1>3, <1>4, <3>2 DEF Flushed
  <2> QED
    BY <2>1, <2>2
<1>7. excused \subseteq ReminderDays
    BY DEF GroupSettingsInv, GroupSettingsTypeOK
<1> HIDE DEF copy, row
<1>8. /\ settings' \in GroupColumn
      /\ settings'.level = settings.level /\ settings'.reviewed = settings.reviewed
      /\ settings'.notifications = settings.notifications
      /\ settings.reminded \subseteq settings'.reminded
    BY <1>2, <1>4, <1>5
<1> QED
    BY <1>1, <1>3, <1>6, <1>7, <1>8, RemindEnds

LEMMA RemindLostStep ==
    ASSUME GroupSettingsInv, NEW w \in Worker, RemindLost(w)
    PROVE  GroupSettingsInv'
<1>1. /\ txn[w] # Idle /\ End(w) /\ excused' = excused \cup {txn[w].days}
      /\ settings' = settings /\ UNCHANGED <<daysLeft, chosen, mailed>>
    BY DEF RemindLost, Abandon
<1>2. settings \in GroupColumn /\ txn[w].days \in ReminderDays
    BY <1>1, GroupSettingsTypes
<1>3. excused \subseteq ReminderDays
    BY DEF GroupSettingsInv, GroupSettingsTypeOK
<1> QED
    BY <1>1, <1>2, <1>3, RemindEnds

-----------------------------------------------------------------------------
LEMMA GroupSettingsKeep ==
    ASSUME GroupSettingsInv, daysLeft' \in ReminderDays,
           UNCHANGED <<settings, chosen, mailed, excused, txn, overlap>>
    PROVE  GroupSettingsInv'
<1>1. /\ settings' = settings /\ chosen' = chosen /\ mailed' = mailed
      /\ excused' = excused /\ txn' = txn /\ overlap' = overlap
    OBVIOUS
<1>2. GroupSettingsTypeOK' /\ OneOpen'
    BY <1>1 DEF GroupSettingsInv, GroupSettingsTypeOK, OneOpen
<1>3. SettingsStand' /\ MailedIsKnown'
    BY <1>1 DEF GroupSettingsInv, SettingsStand, MailedIsKnown, Open
<1> QED
    BY <1>1, <1>2, <1>3 DEF GroupSettingsInv

LEMMA GroupSettingsInvStep == GroupSettingsInv /\ GroupSettingsNext => GroupSettingsInv'
<1> SUFFICES ASSUME GroupSettingsInv, GroupSettingsNext PROVE GroupSettingsInv'
    OBVIOUS
<1>1. CASE TrialRunsDown
    BY <1>1, GroupSettingsKeep DEF TrialRunsDown, sessions
<1> QED
    BY <1>1, SettingsSavedStep, SettingsReplacedStep, ReviewMarkedStep, RemindMailStep,
       RemindWriteStep, RemindLostStep
    DEF GroupSettingsNext, Setting

LEMMA GroupSettingsInvStutter ==
    GroupSettingsInv /\ UNCHANGED groupSettingsVars => GroupSettingsInv'
<1> SUFFICES ASSUME GroupSettingsInv, UNCHANGED groupSettingsVars PROVE GroupSettingsInv'
    OBVIOUS
<1>1. daysLeft' \in ReminderDays
    BY DEF GroupSettingsInv, GroupSettingsTypeOK, groupSettingsVars
<1> QED
    BY <1>1, GroupSettingsKeep DEF groupSettingsVars

(* Where sessions do not overlap, a setting stands as it was saved last, but for
   notification preferences that were saved by themselves; and a reminder of the
   trial's end is mailed twice only if its record was lost, replaced, or written in
   place. *)
THEOREM SettingsAreKept == GroupSettingsSpec => []SettingsStand
<1>1. GroupSettingsInit => GroupSettingsInv
    BY GroupSettingsInitially DEF GroupSettingsInit
<1>2. GroupSettingsInv => SettingsStand
    BY DEF GroupSettingsInv
<1> QED
    BY <1>1, <1>2, GroupSettingsInvStep, GroupSettingsInvStutter, PTL DEF GroupSettingsSpec
=============================================================================

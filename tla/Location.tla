------------------------------ MODULE Location ------------------------------
(***************************************************************************)
(* Positions, the kill switch, geofences, and check-ins at school with the *)
(* parent's consent (src/src/location/service.py, router.py).              *)
(*                                                                         *)
(* Coordinates are left out, and with them the boundary check and the      *)
(* queries; so is the audit log, to which every query appends and which    *)
(* nothing but its own listing reads.  purge_expired_locations and         *)
(* check_geofence are called by nothing.                                   *)
(***************************************************************************)
EXTENDS FiniteSets, Naturals, Sessions

CONSTANTS
    School,        \* groups that own geofences
    PositionId,    \* primary keys of location_records (bounds the rows)
    FenceId,       \* primary keys of geofences
    CheckInId,     \* primary keys of school_checkins (bounds the rows)
    MaxGeofences   \* MAX_GEOFENCES_PER_MEMBER

ASSUME MaxGeofencesAssumption == MaxGeofences \in Nat

VARIABLES
    switch,      \* table location_kill_switches: one row a member, active or not
    positions,   \* table location_records: the member of each row
    fences,      \* table geofences
    consents,    \* table location_sharing_consents: one row a member and school
    attendance   \* table school_checkins

locationTables == <<switch, positions, fences, consents, attendance>>
locationVars == <<switch, positions, fences, consents, attendance, txn, overlap>>

Flag == {"unset", "on", "off"}   \* no row, active, deactivated or revoked
Fence == [member: Member, school: School]
CheckIn == [member: Member, fence: FenceId, open: BOOLEAN]

ASSUME LocationAssumption == NoRow \notin Member \cup CheckIn

LocationTxn ==
    {Idle}
    \cup [op: {"activate", "deactivate"}, member: Member, seen: Flag]
    \cup [op: {"report"}, member: Member]
    \cup [op: {"fence"}, member: Member, school: School]
    \cup [op: {"grant", "revoke"}, member: Member, school: School, seen: Flag]
    \cup [op: {"check in"}, member: Member, fence: FenceId]
    \cup [op: {"check out"}, checkin: CheckInId]

LocationTypeOK ==
    /\ switch \in [Member -> Flag]
    /\ positions \in [PositionId -> Member \cup {NoRow}]
    /\ fences \in [FenceId -> Fence \cup {NoRow}]
    /\ consents \in [Member \X School -> Flag]
    /\ attendance \in [CheckInId -> CheckIn \cup {NoRow}]
    /\ txn \in [Worker -> LocationTxn] /\ overlap \in BOOLEAN

LocationTablesInit ==
    /\ switch = [m \in Member |-> "unset"]
    /\ positions = [p \in PositionId |-> NoRow]
    /\ fences = [f \in FenceId |-> NoRow]
    /\ consents = [pair \in Member \X School |-> "unset"]
    /\ attendance = [k \in CheckInId |-> NoRow]

LocationInit == LocationTablesInit /\ SessionsInit

-----------------------------------------------------------------------------
(* The kill switch.  A row that is read as active is re-activated without a
   write to deactivated_at, for the column keeps its value. *)

SwitchRead(w, op, m) ==
    /\ op = "deactivate" => switch[m] # "unset"
    /\ Begin(w, [op |-> op, member |-> m, seen |-> switch[m]])
    /\ UNCHANGED locationTables

Activated(m, seen) == IF seen = "on" THEN switch[m] ELSE "on"

ActivateWrite(w) ==
    /\ Open(w, "activate")
    /\ LET m == txn[w].member IN
         /\ txn[w].seen = "unset" => switch[m] = "unset"   \* unique index on member_id
         /\ switch' = [switch EXCEPT ![m] = Activated(m, txn[w].seen)]
    /\ End(w)
    /\ UNCHANGED <<positions, fences, consents, attendance>>

DeactivateWrite(w) ==
    /\ Open(w, "deactivate")
    /\ switch' = [switch EXCEPT ![txn[w].member] = "off"]
    /\ End(w)
    /\ UNCHANGED <<positions, fences, consents, attendance>>

-----------------------------------------------------------------------------
(* report_location: a report under an active switch is dropped. *)

Reports(m) == switch[m] # "on"

ReportRead(w, m) ==
    /\ Reports(m)
    /\ Begin(w, [op |-> "report", member |-> m])
    /\ UNCHANGED locationTables

ReportInsert(w) ==
    /\ Open(w, "report")
    /\ Room(positions)
    /\ positions' = Inserted(positions, txn[w].member)
    /\ End(w)
    /\ UNCHANGED <<switch, fences, consents, attendance>>

(* delete_location_history: positions, check-ins and geofence events go. *)
EraseHistory(w, m) ==
    /\ Free(w)
    /\ positions' = [p \in PositionId |-> IF positions[p] = m THEN NoRow ELSE positions[p]]
    /\ attendance' = [k \in CheckInId |->
         IF attendance[k] # NoRow /\ attendance[k].member = m THEN NoRow ELSE attendance[k]]
    /\ UNCHANGED <<switch, fences, consents, sessions>>

-----------------------------------------------------------------------------
(* create_geofence counts, then inserts; delete_geofence takes the attendance
   at that fence with it (ON DELETE CASCADE). *)

FencesOf(m, s) == {f \in FenceId : fences[f] = [member |-> m, school |-> s]}

FenceRoom(m, s) == Cardinality(FencesOf(m, s)) < MaxGeofences

FenceCount(w, m, s) ==
    /\ FenceRoom(m, s)
    /\ Begin(w, [op |-> "fence", member |-> m, school |-> s])
    /\ UNCHANGED locationTables

FenceInsert(w) ==
    /\ Open(w, "fence")
    /\ Room(fences)
    /\ fences' = Inserted(fences, [member |-> txn[w].member, school |-> txn[w].school])
    /\ End(w)
    /\ UNCHANGED <<switch, positions, consents, attendance>>

FenceDelete(w, f) ==
    /\ Free(w) /\ fences[f] # NoRow
    /\ fences' = [fences EXCEPT ![f] = NoRow]
    /\ attendance' = [k \in CheckInId |->
         IF attendance[k] # NoRow /\ attendance[k].fence = f THEN NoRow ELSE attendance[k]]
    /\ UNCHANGED <<switch, positions, consents, sessions>>

-----------------------------------------------------------------------------
(* create_school_consent and revoke_school_consent; what is as it should be
   already is returned without a write. *)

GrantRead(w, m, s) ==
    /\ consents[m, s] # "on"
    /\ Begin(w, [op |-> "grant", member |-> m, school |-> s, seen |-> consents[m, s]])
    /\ UNCHANGED locationTables

GrantWrite(w) ==
    /\ Open(w, "grant")
    /\ LET pair == <<txn[w].member, txn[w].school>> IN
         /\ txn[w].seen = "unset" => consents[pair] = "unset"   \* unique index
         /\ consents' = [consents EXCEPT ![pair] = "on"]
    /\ End(w)
    /\ UNCHANGED <<switch, positions, fences, attendance>>

RevokeRead(w, m, s) ==
    /\ consents[m, s] = "on"
    /\ Begin(w, [op |-> "revoke", member |-> m, school |-> s, seen |-> "on"])
    /\ UNCHANGED locationTables

RevokeWrite(w) ==
    /\ Open(w, "revoke")
    /\ consents' = [consents EXCEPT ![<<txn[w].member, txn[w].school>>] = "off"]
    /\ End(w)
    /\ UNCHANGED <<switch, positions, fences, attendance>>

-----------------------------------------------------------------------------
(* record_check_in and record_check_out.  The fence of a check-in may be one of
   another child; the consent asked for is that of its school.  The latest open
   check-in is closed; the model keeps no order and takes any open one. *)

(* Seeded fault: a consent that was revoked still counts. *)
ConsentedOnce(m, f) == fences[f] # NoRow /\ consents[m, fences[f].school] # "unset"

Consented(m, f) == fences[f] # NoRow /\ consents[m, fences[f].school] = "on"

CheckInRead(w, m, f) ==
    /\ Consented(m, f)
    /\ Begin(w, [op |-> "check in", member |-> m, fence |-> f])
    /\ UNCHANGED locationTables

CheckInInsert(w) ==
    /\ Open(w, "check in")
    /\ fences[txn[w].fence] # NoRow   \* foreign key
    /\ Room(attendance)
    /\ attendance' = Inserted(attendance,
         [member |-> txn[w].member, fence |-> txn[w].fence, open |-> TRUE])
    /\ End(w)
    /\ UNCHANGED <<switch, positions, fences, consents>>

CheckOutRead(w, k) ==
    /\ attendance[k] # NoRow /\ attendance[k].open
    /\ Begin(w, [op |-> "check out", checkin |-> k])
    /\ UNCHANGED locationTables

CheckOutWrite(w) ==
    /\ Open(w, "check out")
    /\ attendance[txn[w].checkin] # NoRow
    /\ attendance' = [attendance EXCEPT ![txn[w].checkin].open = FALSE]
    /\ End(w)
    /\ UNCHANGED <<switch, positions, fences, consents>>

LocationStep(w) ==
    \/ \E m \in Member :
         \/ SwitchRead(w, "activate", m) \/ SwitchRead(w, "deactivate", m)
         \/ ReportRead(w, m) \/ EraseHistory(w, m)
         \/ \E s \in School : FenceCount(w, m, s) \/ GrantRead(w, m, s) \/ RevokeRead(w, m, s)
         \/ \E f \in FenceId : CheckInRead(w, m, f)
    \/ ActivateWrite(w) \/ DeactivateWrite(w) \/ ReportInsert(w)
    \/ FenceInsert(w) \/ GrantWrite(w) \/ RevokeWrite(w)
    \/ \E f \in FenceId : FenceDelete(w, f)
    \/ CheckInInsert(w) \/ CheckOutWrite(w)
    \/ \E k \in CheckInId : CheckOutRead(w, k)
    \/ Abandon(w) /\ UNCHANGED locationTables

LocationNext == \E w \in Worker : LocationStep(w)

LocationSpec == LocationInit /\ [][LocationNext]_locationVars

-----------------------------------------------------------------------------
(* "Immediately disable all location tracking for a child", "Requires active
   parental consent for the school that owns the geofence": from the commit of an
   activation to that of a deactivation no position is stored, also when the
   switch is used for a second time, and an attendance record is made only while
   the parent's consent for the school of its fence is in force, whatever became
   of fences and consents before.  A report that overlaps the activation is
   stored after it, a check-in that overlaps the revocation too. *)
TrackedAsAllowed == [][~overlap =>
    /\ \A m \in Member : switch[m] = "on" =>
         \A p \in PositionId : positions'[p] = m => positions[p] = m
    /\ \A k \in CheckInId : attendance[k] = NoRow /\ attendance'[k] # NoRow =>
         LET f == attendance'[k].fence IN
           fences[f] # NoRow /\ consents[attendance'[k].member, fences[f].school] = "on"]_locationVars
=============================================================================

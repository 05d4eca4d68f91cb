----------------------------- MODULE DeviceUsage -----------------------------
(***************************************************************************)
(* What the agent on a child's device reports (src/src/device_agent): the  *)
(* records of use and the summary of each day, which a sync counts anew.   *)
(* Every record stands for a minute; sessions are left out, nothing reads  *)
(* them here.                                                              *)
(*                                                                         *)
(* A record names its time with an offset.  The sync takes the day from    *)
(* that, the summary goes by UTC, so the two days may differ.              *)
(***************************************************************************)
EXTENDS FiniteSets, Naturals, Sessions

CONSTANTS
    Usage,     \* records that the agent sends
    Date,
    UtcDay,    \* of each record, the day it belongs to
    LocalDay,  \* and the day of its own offset
    LastSecond \* records that begin in the last second of their day

ASSUME DeviceUsageAssumption ==
    /\ IsFiniteSet(Usage)
    /\ UtcDay \in [Usage -> Date] /\ LocalDay \in [Usage -> Date]
    /\ LastSecond \subseteq Usage
    /\ NoRow \notin 0..Cardinality(Usage)

VARIABLES
    stored,  \* table app_usage_records
    summary,  \* table screen_time_records, (member, date) unique: total_minutes
    behind    \* days that got a record after their last count (history)

deviceUsageTables == <<stored, summary, behind>>
deviceUsageVars == <<stored, summary, behind, txn, overlap>>

Minutes == 0..Cardinality(Usage)
Summary == Minutes \cup {NoRow}

DeviceUsageTxn ==
    {Idle}
    \cup [op: {"sync"}, batch: SUBSET Usage,
          read: [Date -> Summary], counted: [Date -> Minutes]]

DeviceUsageTypeOK ==
    /\ stored \subseteq Usage
    /\ summary \in [Date -> Summary]
    /\ behind \subseteq Date
    /\ txn \in [Worker -> DeviceUsageTxn]

DeviceUsageTablesInit ==
    /\ stored = {}
    /\ summary = [d \in Date |-> NoRow]
    /\ behind = {}

DeviceUsageInit == DeviceUsageTablesInit /\ SessionsInit

(* What the query of update_screen_time finds of a day, which it ends at 23:59:59. *)
On(d, rows) == {u \in rows \ LastSecond : UtcDay[u] = d}
BatchOf(w) == IF txn[w] = Idle THEN {} ELSE txn[w].batch
Unsent == Usage \ (stored \cup UNION {BatchOf(w) : w \in Worker})

-----------------------------------------------------------------------------
(* record_app_usage by itself does not touch the summary. *)
Recorded(w, u) ==
    /\ Free(w) /\ u \in Unsent
    /\ stored' = stored \cup {u}
    /\ behind' = behind \cup {UtcDay[u]}
    /\ UNCHANGED <<summary, sessions>>

(* Seeded fault: the records of the batch are not yet there to be counted. *)
ToCountWithout(batch) == stored

ToCount(batch) == stored \cup batch

(* sync_device_data, with update_screen_time for the days of the batch *)
SyncRead(w, batch) ==
    /\ batch # {} /\ batch \subseteq Unsent
    /\ Begin(w, [op |-> "sync", batch |-> batch, read |-> summary,
                 counted |-> [d \in Date |-> Cardinality(On(d, ToCount(batch)))]])
    /\ UNCHANGED deviceUsageTables

SyncedDays(batch) == {LocalDay[u] : u \in batch}

(* The unique index turns down the second summary of a day, and with it the sync. *)
SyncWrite(w) ==
    /\ Open(w, "sync")
    /\ LET s == txn[w]  days == SyncedDays(s.batch) IN
         IF \E d \in days : s.read[d] = NoRow /\ summary[d] # NoRow
         THEN UNCHANGED deviceUsageTables
         ELSE /\ stored' = stored \cup s.batch
              /\ summary' = [d \in Date |-> IF d \in days /\ s.counted[d] # s.read[d]
                                            THEN s.counted[d] ELSE summary[d]]
              /\ behind' = (behind \cup {UtcDay[u] : u \in s.batch}) \ days
    /\ End(w)

DeviceUsageNext ==
    \E w \in Worker :
      \/ \E u \in Usage : Recorded(w, u)
      \/ \E batch \in SUBSET Usage : SyncRead(w, batch)
      \/ SyncWrite(w)
      \/ Abandon(w) /\ UNCHANGED deviceUsageTables

DeviceUsageSpec == DeviceUsageInit /\ [][DeviceUsageNext]_deviceUsageVars

-----------------------------------------------------------------------------
(* "Recalculate and update screen time summary from app usage records": a day's
   summary never says more than its records but those of its last second,
   whatever overlaps, and says all of these unless one came in without a count of
   its day (sent by itself, or filed under another day by its offset) or two syncs
   overlapped, of which neither counts the other's records. *)
SummaryFollowsRecords == \A d \in Date :
    LET minutes == IF summary[d] = NoRow THEN 0 ELSE summary[d] IN
      /\ minutes <= Cardinality(On(d, stored))
      /\ ~overlap /\ d \notin behind => minutes = Cardinality(On(d, stored))
=============================================================================

----------------------------- MODULE Retention -----------------------------
(***************************************************************************)
(* What is kept of one family's captures and for how long: the policies,   *)
(* and the daily jobs that delete expired excerpts and what is older than  *)
(* its policy allows (src/src/compliance/retention.py,                     *)
(* src/src/risk/cleanup.py, src/src/jobs/runner.py), and the requests that *)
(* add rows which refer to a capture or to its risk event                  *)
(* (src/src/capture/summarizer.py, src/src/compliance/eu_ai_act.py).       *)
(*                                                                         *)
(* Each row that stems from a capture gets old by itself, when the period  *)
(* of its policy is over or an excerpt its expiry; the periods themselves  *)
(* are left out.  So are alerts and the audit log, whose deletion no       *)
(* foreign key stops.                                                      *)
(***************************************************************************)
EXTENDS Sessions

CONSTANT RecordId   \* captures (bounds their number)

VARIABLES
    policies,  \* table retention_policies: no row, auto_delete or not
    records    \* per capture, which of its rows there are and which are old

retentionTables == <<policies, records>>
retentionVars == <<policies, records, txn, overlap>>

DataType == {"capture event", "risk event", "content excerpt", "summary"}

(* A human review or an appeal, for which there is no policy, is a review here. *)
Part == DataType \cup {"review"}
Record == [parts: SUBSET Part, old: SUBSET DataType]

RetentionTypeOK ==
    /\ policies \in [DataType -> {"none", "auto", "keep"}]
    /\ records \in [RecordId -> Record \cup {NoRow}]
    /\ txn \in [Worker -> {Idle}] /\ overlap \in BOOLEAN

RetentionTablesInit ==
    /\ policies = [p \in DataType |-> "none"]
    /\ records = [r \in RecordId |-> NoRow]

RetentionInit == RetentionTablesInit /\ SessionsInit

AutoDelete == {p \in DataType : policies[p] = "auto"}
Has(r, p) == records[r] # NoRow /\ p \in records[r].parts

RecordMade(w, parts) ==
    /\ Free(w) /\ Room(records)
    /\ records' = Inserted(records, [parts |-> parts, old |-> {}])
    /\ UNCHANGED <<policies, sessions>>

Added(w, r, p) ==
    /\ Free(w)
    /\ records' = [records EXCEPT ![r].parts = @ \cup {p}]
    /\ UNCHANGED <<policies, sessions>>

(* The daily job or POST /capture/summarize; a content that has a summary gets none. *)
Summarized(w, r) == Has(r, "capture event") /\ ~Has(r, "summary") /\ Added(w, r, "summary")

(* request_human_review, submit_appeal *)
Appealed(w, r) == Has(r, "risk event") /\ Added(w, r, "review")

RowAges(r, p) ==
    /\ Has(r, p) /\ p \notin records[r].old
    /\ records' = [records EXCEPT ![r].old = @ \cup {p}]
    /\ UNCHANGED <<policies, sessions>>

(* get_retention_policies makes the default ones when the group has none. *)
PoliciesViewed(w) ==
    /\ Free(w) /\ \A p \in DataType : policies[p] = "none"
    /\ policies' = [p \in DataType |-> "auto"]
    /\ UNCHANGED <<records, sessions>>

PolicyUpdated(w, p, auto) ==
    /\ Free(w)
    /\ policies' = [policies EXCEPT ![p] = IF auto THEN "auto" ELSE "keep"]
    /\ UNCHANGED <<records, sessions>>

-----------------------------------------------------------------------------
(* The jobs.  Each statement sees the rows as they are, so a job is one step.  *)

Without(table, types) == [r \in RecordId |->
    IF table[r] = NoRow THEN NoRow
    ELSE [parts |-> table[r].parts \ (types \cap table[r].old), old |-> table[r].old \ types]]

(* cleanup_expired_excerpts *)
Cleaned(table) == Without(table, {"content excerpt"})

(* Foreign keys: the rows that refer to a row of the type. *)
Refers == [p \in DataType |->
    CASE p = "capture event" -> {"risk event", "summary"}
      [] p = "risk event" -> {"content excerpt", "review"}
      [] OTHER -> {}]

Deletable(table, p) == \A r \in RecordId :
    table[r] # NoRow /\ p \in table[r].old => table[r].parts \cap Refers[p] = {}

(* run_retention_cleanup.  Its DELETE asks for a column group_id, which
   content_excerpts has not: with a policy for excerpts it always fails, and a
   failed statement aborts the transaction of the whole run.  The policies come
   in no order: before are those whose DELETE has run when it comes to captures.
   Nothing that refers to a risk event is deleted by a run that succeeds. *)
Succeeds(table, before) ==
    /\ "content excerpt" \notin AutoDelete
    /\ "risk event" \in AutoDelete => Deletable(table, "risk event")
    /\ "capture event" \in AutoDelete => Deletable(Without(table, before), "capture event")

Orders == SUBSET (AutoDelete \cap Refers["capture event"])

(* Seeded fault: what is as old as the policies allow is kept for another run. *)
RetainedAll(table) == table

Retained(table) == Without(table, AutoDelete)

RetentionJob(w) ==
    /\ Free(w) /\ \E before \in Orders : Succeeds(records, before)
    /\ records' = Retained(records)
    /\ UNCHANGED <<policies, sessions>>

ExcerptJob(w) ==
    /\ Free(w)
    /\ records' = Cleaned(records)
    /\ UNCHANGED <<policies, sessions>>

(* The run of the cron at midnight: both jobs in one transaction. *)
DailyRun(w) ==
    /\ Free(w)
    /\ \E before \in Orders : Succeeds(Cleaned(records), before)
    /\ records' = Retained(Cleaned(records))
    /\ UNCHANGED <<policies, sessions>>

RetentionStep(w) ==
    \/ RecordMade(w, {"capture event"})
    \/ RecordMade(w, {"capture event", "risk event", "content excerpt"})
    \/ \E r \in RecordId : Summarized(w, r) \/ Appealed(w, r)
    \/ PoliciesViewed(w)
    \/ \E p \in DataType, auto \in BOOLEAN : PolicyUpdated(w, p, auto)
    \/ RetentionJob(w) \/ ExcerptJob(w) \/ DailyRun(w)

RetentionNext ==
    \/ \E w \in Worker : RetentionStep(w)
    \/ \E r \in RecordId, p \in DataType : RowAges(r, p)

(* The cron runs every day. *)
RetentionFairness == \A w \in Worker : SF_retentionVars(DailyRun(w))

RetentionSpec == RetentionInit /\ [][RetentionNext]_retentionVars /\ RetentionFairness

-----------------------------------------------------------------------------
Expired(r, p) == Has(r, p) /\ p \in records[r].old /\ p \in AutoDelete

(* "Data is automatically and permanently deleted after the retention period
   expires": an old row under a policy to delete it goes, unless the policy is
   changed.  Once a parent has looked at the policies of a group no row goes. *)
RetentionDeletes == \A r \in RecordId, p \in DataType : Expired(r, p) ~> ~Expired(r, p)

(* What is left of it: the row goes unless a policy to delete excerpts stops the
   job, or an old risk event does that a review or an excerpt not yet expired
   refers to, or an old capture that a risk event or a summary refers to. *)
UnexpiredExcerpt(r) == Has(r, "content excerpt") /\ "content excerpt" \notin records[r].old

Obstructed ==
    \/ "content excerpt" \in AutoDelete
    \/ \E r \in RecordId :
         /\ Expired(r, "risk event")
         /\ Has(r, "review") \/ UnexpiredExcerpt(r)
    \/ \E r \in RecordId :
         /\ Expired(r, "capture event")
         /\ Has(r, "risk event") \/ Has(r, "summary")

UnobstructedIsDeleted == \A r \in RecordId, p \in DataType :
    Expired(r, p) ~> (Obstructed \/ ~Expired(r, p))
=============================================================================

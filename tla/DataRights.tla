----------------------------- MODULE DataRights -----------------------------
(***************************************************************************)
(* Requests to erase or export a user's data and the two workers of the    *)
(* cron that serve them, in one session (src/src/compliance/service.py,    *)
(* deletion_worker.py, export_worker.py, src/src/jobs/runner.py).          *)
(*                                                                         *)
(* Each user here has one membership.  Rows of the other tables count only *)
(* by whose member they refer to and whether the deletion worker knows     *)
(* their table: it deletes captures, risks, alerts, devices and consents,  *)
(* not the setup codes, block rules or summaries.  AuditGroupChecked says  *)
(* whether the database enforces the foreign key of audit_entries.group_id *)
(* that create_data_request gives an id of no group; where it does, as on  *)
(* PostgreSQL, no request is ever filed.                                   *)
(***************************************************************************)
EXTENDS Naturals, Sessions

CONSTANTS
    RowId,             \* primary keys of rows that refer to a member
    DataRequestId,     \* primary keys of data_deletion_requests
    AuditGroupChecked

ASSUME AuditGroupCheckedAssumption == AuditGroupChecked \in BOOLEAN

VARIABLES
    memberships,   \* table group_members
    accounts,      \* table users: the members whose user is not erased
    referring,     \* rows of other tables that refer to a member
    dataRequests   \* table data_deletion_requests

dataRightsTables == <<memberships, accounts, referring, dataRequests>>
dataRightsVars == <<memberships, accounts, referring, dataRequests, txn, overlap>>

Referring == [member: Member, erasable: BOOLEAN]
DataRequest == [member: Member, type: {"full_deletion", "data_export"},
                status: {"pending", "processing", "completed"}]
Job == {"deletion", "export"}

ASSUME DataRequestAssumption == NoRow \notin DataRequest

DataRightsTxn ==
    {Idle}
    \cup [op: {"cron"}, jobs: SUBSET Job, asked: SUBSET DataRequestId,
          leave: SUBSET Member, rows: SUBSET RowId]

DataRightsTypeOK ==
    /\ memberships \subseteq Member /\ accounts \subseteq Member
    /\ referring \in [RowId -> Referring \cup {NoRow}]
    /\ dataRequests \in [DataRequestId -> DataRequest \cup {NoRow}]
    /\ txn \in [Worker -> DataRightsTxn] /\ overlap \in BOOLEAN

DataRightsTablesInit ==
    /\ memberships = Member /\ accounts = Member
    /\ referring = [k \in RowId |-> NoRow]
    /\ dataRequests = [q \in DataRequestId |-> NoRow]

DataRightsInit == DataRightsTablesInit /\ SessionsInit

RowsOf(members) == {k \in RowId : referring[k] # NoRow /\ referring[k].member \in members}

Asking(type) == {q \in DataRequestId :
    /\ dataRequests[q] # NoRow
    /\ dataRequests[q].type = type /\ dataRequests[q].status = "pending"}

-----------------------------------------------------------------------------
(* A row of another service, whose foreign key asks for the member. *)
RowStored(w, m, erasable) ==
    /\ Free(w) /\ m \in memberships
    /\ Room(referring)
    /\ referring' = Inserted(referring, [member |-> m, erasable |-> erasable])
    /\ UNCHANGED <<memberships, accounts, dataRequests, sessions>>

(* remove_member, which the database refuses while a row refers to the member. *)
MemberRemoved(w, m) ==
    /\ Free(w) /\ m \in memberships /\ RowsOf({m}) = {}
    /\ memberships' = memberships \ {m}
    /\ UNCHANGED <<accounts, referring, dataRequests, sessions>>

(* create_data_request *)
RequestFiled(w, m, type) ==
    /\ ~AuditGroupChecked
    /\ Free(w) /\ m \in accounts
    /\ Room(dataRequests)
    /\ dataRequests' = Inserted(dataRequests,
         [member |-> m, type |-> type, status |-> "pending"])
    /\ UNCHANGED <<memberships, accounts, referring, sessions>>

-----------------------------------------------------------------------------
(* The cron, or POST /jobs/run with one job: process_pending_deletions reads
   the requests, the memberships of their users and the rows of those; then
   process_pending_exports reads its requests. *)

CronRead(w, jobs) ==
    LET deletions == IF "deletion" \in jobs THEN Asking("full_deletion") ELSE {}
        exports == IF "export" \in jobs THEN Asking("data_export") ELSE {}
        leave == {dataRequests[q].member : q \in deletions} \cap memberships
    IN /\ Begin(w, [op |-> "cron", jobs |-> jobs, asked |-> deletions \cup exports,
                    leave |-> leave, rows |-> {k \in RowsOf(leave) : referring[k].erasable}])
       /\ UNCHANGED dataRightsTables

(* Seeded fault: the row of the user is erased and the membership kept. *)
MembershipsKept(w) == memberships

MembershipsLeft(w) == memberships \ txn[w].leave

(* Seeded faults: a status that the table does not know; and a deletion that stays
   pending, for another run. *)
CompletedMisnamed(q) == "done"

CompletedExports(q) == IF dataRequests[q].type = "data_export" THEN "completed" ELSE "pending"

Completed(q) == "completed"

(* The flush of a deletion fails while any row it has not deleted refers to the
   member; the error is swallowed, but the session is dead and its commit fails,
   and with it the whole run.  An export that cannot write its file leaves its
   request "processing", and that is committed. *)
CronWrite(w) ==
    /\ Open(w, "cron")
    /\ RowsOf(txn[w].leave) \subseteq txn[w].rows
    /\ \E failed \in SUBSET {q \in txn[w].asked : dataRequests[q].type = "data_export"} :
         dataRequests' = [q \in DataRequestId |->
           IF q \in failed THEN [dataRequests[q] EXCEPT !.status = "processing"]
           ELSE IF q \in txn[w].asked THEN [dataRequests[q] EXCEPT !.status = Completed(q)]
           ELSE dataRequests[q]]
    /\ referring' = [k \in RowId |-> IF k \in txn[w].rows \cap RowsOf(txn[w].leave)
                                       THEN NoRow ELSE referring[k]]
    /\ memberships' = MembershipsLeft(w)
    /\ accounts' = accounts \
         {dataRequests[q].member : q \in {r \in txn[w].asked :
                                            dataRequests[r].type = "full_deletion"}}
    /\ End(w)

CronEnds(w) == CronWrite(w) \/ (Abandon(w) /\ UNCHANGED dataRightsTables)

DataRightsStep(w) ==
    \/ \E m \in Member :
         \/ \E erasable \in BOOLEAN : RowStored(w, m, erasable)
         \/ MemberRemoved(w, m)
         \/ \E type \in {"full_deletion", "data_export"} : RequestFiled(w, m, type)
    \/ \E jobs \in SUBSET Job \ {{}} : CronRead(w, jobs)
    \/ CronEnds(w)

DataRightsNext == \E w \in Worker : DataRightsStep(w)

(* No session stays open; the cron runs every hour whatever requests are under
   way, and not every run of it is cut off. *)
DataRightsFairness == \A w \in Worker :
    /\ WF_dataRightsVars(CronEnds(w))
    /\ SF_dataRightsVars(CronRead(w, Job))
    /\ SF_dataRightsVars(CronWrite(w) /\ txn[w].jobs = Job)

DataRightsSpec == DataRightsInit /\ [][DataRightsNext]_dataRightsVars /\ DataRightsFairness

-----------------------------------------------------------------------------
(* "Cascade soft-deletes across all user-related tables": once a user is erased,
   the membership and everything that refers to it are gone, also what was stored
   while the worker ran. *)
ErasedIsGone == \A m \in Member \ accounts : m \notin memberships /\ RowsOf({m}) = {}

(* "Processes pending GDPR deletion requests": each is completed in the end, and
   each export request at least attempted, unless a deletion waits that the rows
   of a table the worker does not know keep from succeeding, run after run: that
   one stops all others. *)
Stuck == \E q \in Asking("full_deletion") :
    \E k \in RowsOf({dataRequests[q].member}) : ~referring[k].erasable

Waiting(q) == q \in Asking("full_deletion") \cup Asking("data_export")

RequestsAreServed == \A q \in DataRequestId :
    (~overlap /\ Waiting(q)) ~> (Stuck \/ ~Waiting(q))
=============================================================================

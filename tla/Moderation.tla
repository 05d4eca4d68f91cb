----------------------------- MODULE Moderation -----------------------------
(***************************************************************************)
(* The moderation queue: src/src/moderation/service.py and                 *)
(* dashboard_service.py, with the content that is submitted to it          *)
(* (social/service.py create_post and add_comment, messaging/service.py    *)
(* send_message) and the listings that show it to other users.             *)
(*                                                                         *)
(* Sessions are those of Contacts: reads, then one commit of the columns   *)
(* that changed.  The classifiers are external: a submission takes any     *)
(* combination of their answers.                                           *)
(***************************************************************************)
EXTENDS FiniteSets, Naturals

CONSTANTS
    Content,       \* posts, comments and messages
    Kind,          \* Kind[c]: "post", "comment" or "message"
    Tier,          \* Tier[c]: age tier of c's author
    EntryId,       \* primary keys of moderation_queue (bounds the entries)
    AppealId,      \* primary keys of moderation_appeals
    AssignmentId,  \* primary keys of moderator_assignments
    Appellant,     \* users that appeal
    Worker,        \* concurrent sessions
    Background,    \* TRUE if something calls run_post_publish_moderation; nothing in src/ does
    NoRow

AgeTier == {"young", "preteen", "teen", "none"}

ASSUME KindAssumption == Kind \in [Content -> {"post", "comment", "message"}]
ASSUME TierAssumption == Tier \in [Content -> AgeTier]
ASSUME BackgroundAssumption == Background \in BOOLEAN

VARIABLES
    shown,        \* moderation_status of the post, comment or message itself
    queue,        \* table moderation_queue
    decisions,    \* table moderation_decisions, equal rows collapsed
    appeals,      \* table moderation_appeals
    assignments,  \* table moderator_assignments
    txn           \* what each worker's open session has read

tables == <<shown, queue, decisions, appeals, assignments>>
vars == <<shown, queue, decisions, appeals, assignments, txn>>

Keyword == {"allow", "uncertain", "block"}
EntryStatus == {"pending", "approved", "rejected", "escalated", "published",
                "flagged", "taken_down"}
Action == {"approve", "reject", "escalate"}
Entry == [content: Content, status: EntryStatus, keyword: Keyword \cup {"none"},
          severe: BOOLEAN, reviewed: BOOLEAN]
Decision == [entry: EntryId, action: Action, by: {"filter", "review", "moderator", "takedown"}]
Appeal == [entry: EntryId, by: Appellant, status: {"pending", "accepted", "denied"}]
Assignment == [entry: EntryId, status: {"assigned", "reassigned", "completed"}]

ASSUME RowAssumption == NoRow \notin Entry \cup Appeal \cup Assignment
                                     \cup EntryStatus \cup AssignmentId

Idle == [op |-> "idle"]
EntrySnapshot == [entry: EntryId, seen: EntryStatus, assignment: AssignmentId \cup {NoRow}]
Txn ==
    {Idle}
    \cup [op: {"decide"}, action: Action, bulk: BOOLEAN, todo: SUBSET EntryId,
          read: SUBSET EntrySnapshot]
    \cup [op: {"takedown_update"}, entry: EntryId, seen: EntryStatus]
    \cup [op: {"takedown_insert"}, content: Content]
    \cup [op: {"appeal"}, entry: EntryId, by: Appellant]
    \cup [op: {"decide_appeal"}, appeal: AppealId, seen: EntryStatus \cup {NoRow}]
    \cup [op: {"assign"}, entry: EntryId, old: AssignmentId \cup {NoRow}]
    \cup [op: {"review"}, entry: EntryId]

TypeOK ==
    /\ shown \in [Content -> EntryStatus \cup {NoRow}]
    /\ queue \in [EntryId -> Entry \cup {NoRow}]
    /\ decisions \subseteq Decision
    /\ appeals \in [AppealId -> Appeal \cup {NoRow}]
    /\ assignments \in [AssignmentId -> Assignment \cup {NoRow}]
    /\ txn \in [Worker -> Txn]

Init ==
    /\ shown = [c \in Content |-> NoRow]
    /\ queue = [e \in EntryId |-> NoRow]
    /\ decisions = {}
    /\ appeals = [a \in AppealId |-> NoRow]
    /\ assignments = [a \in AssignmentId |-> NoRow]
    /\ txn = [w \in Worker |-> Idle]

-----------------------------------------------------------------------------
Entries == {e \in EntryId : queue[e] # NoRow}
EntriesOf(c) == {e \in Entries : queue[e].content = c}
Open(e) == {a \in AssignmentId : /\ assignments[a] # NoRow
                                 /\ assignments[a].entry = e
                                 /\ assignments[a].status = "assigned"}

(* The listings (list_posts, get_feed, list_comments, list_messages) show what
   is approved in the row of the content itself. *)
Listed(c) == shown[c] = "approved"

Begin(w, t) == txn[w] = Idle /\ txn' = [txn EXCEPT ![w] = t] /\ UNCHANGED tables
End(w) == txn' = [txn EXCEPT ![w] = Idle]
Rollback(w) == txn[w] # Idle /\ End(w) /\ UNCHANGED tables
Changes(status, e) == queue' = [queue EXCEPT ![e].status = status]
Records(e, action, by) ==
    decisions' = decisions \cup {[entry |-> e, action |-> action, by |-> by]}

-----------------------------------------------------------------------------
(* submit_for_moderation.  It reads no table, so a submission is one commit. *)

PrePublish(tier) == tier \in {"young", "preteen"}

(* Seeded fault: a clean keyword result approves before the risk is known. *)
OutcomeApprovingEarly(tier, keyword, severe) ==
    CASE keyword = "block" -> "rejected"
      [] keyword = "allow" /\ PrePublish(tier) -> "approved"
      [] severe -> "escalated"
      [] tier = "teen" -> "published"
      [] OTHER -> "pending"

Outcome(tier, keyword, severe) ==
    CASE keyword = "block" -> "rejected"
      [] keyword # "block" /\ severe -> "escalated"
      [] keyword = "allow" /\ ~severe /\ PrePublish(tier) -> "approved"
      [] keyword # "block" /\ ~severe /\ tier = "teen" -> "published"
      [] OTHER -> "pending"

(* The entry and, where the outcome is automatic, its decision. *)
Submit(c, tier, keyword, severe) ==
    LET status == Outcome(tier, keyword, severe)
        action == IF status = "rejected" THEN "reject" ELSE "approve"
    IN  \E e \in EntryId \ Entries :
          /\ queue' = [queue EXCEPT ![e] =
                [content |-> c, status |-> status, keyword |-> keyword,
                 severe |-> severe, reviewed |-> FALSE]]
          /\ IF status \in {"rejected", "approved", "published"}
               THEN Records(e, action, "filter")
               ELSE UNCHANGED decisions

(* create_post, add_comment: the status is copied into the row.  send_message:
   the row stays "pending", whatever the moderation says. *)
Create(w, c, keyword, severe) ==
    /\ txn[w] = Idle
    /\ shown[c] = NoRow
    /\ Submit(c, Tier[c], keyword, severe)
    /\ shown' = [shown EXCEPT ![c] =
                   IF Kind[c] = "message" THEN "pending" ELSE Outcome(Tier[c], keyword, severe)]
    /\ UNCHANGED <<appeals, assignments, txn>>

(* A message is sent even if its submission to the queue fails. *)
SendUnmoderated(w, c) ==
    /\ txn[w] = Idle
    /\ shown[c] = NoRow
    /\ Kind[c] = "message"
    /\ shown' = [shown EXCEPT ![c] = "pending"]
    /\ UNCHANGED <<queue, decisions, appeals, assignments, txn>>

(* POST /queue: the caller names the content, which nobody looks up, and the age
   tier of its author; without a text nothing is classified. *)
Resubmit(w, c, tier, keyword, severe) ==
    /\ txn[w] = Idle
    /\ keyword = "none" => ~severe
    /\ Submit(c, tier, keyword, severe)
    /\ UNCHANGED <<shown, appeals, assignments, txn>>

-----------------------------------------------------------------------------
(* process_queue_entry (one entry) and bulk_action (a list, which also
   completes the assignment it finds).  An entry that is settled is refused. *)

(* Seeded fault: only approved entries count as settled. *)
SettledIfApproved(e) == queue[e].status = "approved"

Settled(e) == queue[e].status \in {"approved", "rejected"}

DecideStart(w, es, action, bulk) ==
    /\ es # {} /\ (bulk \/ Cardinality(es) = 1)
    /\ Begin(w, [op |-> "decide", action |-> action, bulk |-> bulk, todo |-> es,
                 read |-> {}])

(* Two open assignments of one entry raise: the whole bulk action fails. *)
DecideRead(w) ==
    /\ txn[w].op = "decide"
    /\ \E e \in txn[w].todo :
         LET found == IF txn[w].bulk THEN Open(e) ELSE {}
             next(read) == [txn EXCEPT ![w].todo = @ \ {e}, ![w].read = read]
         IN  txn' = IF Settled(e) THEN next(txn[w].read)
                    ELSE IF Cardinality(found) > 1 THEN [txn EXCEPT ![w] = Idle]
                    ELSE next(txn[w].read \cup
                              {[entry |-> e, seen |-> queue[e].status,
                                assignment |-> IF found = {} THEN NoRow
                                               ELSE CHOOSE a \in found : TRUE]})
    /\ UNCHANGED tables

(* Seeded fault: the action itself is stored. *)
StatusOfVerbatim(action) == action

StatusOf(action) ==
    CASE action = "approve" -> "approved"
      [] action = "reject" -> "rejected"
      [] action = "escalate" -> "escalated"

Decided(w) == {s.entry : s \in txn[w].read}

(* The status column is written only where it differs from the one read. *)
DecidedQueue(w) ==
    LET status == StatusOf(txn[w].action)
    IN  [e \in EntryId |->
           IF \E s \in txn[w].read : s.entry = e /\ s.seen # status
             THEN [queue[e] EXCEPT !.status = status] ELSE queue[e]]

(* Seeded fault: the decision row is written for bulk actions only. *)
DecideCommitUnrecorded(w) ==
    /\ txn[w].op = "decide"
    /\ txn[w].todo = {}
    /\ queue' = DecidedQueue(w)
    /\ decisions' = decisions \cup (IF txn[w].bulk
         THEN [entry: Decided(w), action: {txn[w].action}, by: {"moderator"}] ELSE {})
    /\ End(w)
    /\ UNCHANGED <<shown, appeals, assignments>>

DecideCommit(w) ==
    /\ txn[w].op = "decide"
    /\ txn[w].todo = {}
    /\ queue' = DecidedQueue(w)
    /\ decisions' = decisions \cup
         [entry: Decided(w), action: {txn[w].action}, by: {"moderator"}]
    /\ assignments' = [a \in AssignmentId |->
                         IF \E s \in txn[w].read : s.assignment = a
                           THEN [assignments[a] EXCEPT !.status = "completed"]
                           ELSE assignments[a]]
    /\ End(w)
    /\ UNCHANGED <<shown, appeals>>

-----------------------------------------------------------------------------
(* takedown_content: find the entry of the content or make one.  Two entries
   raise.  The row of the content is not touched. *)

TakedownRead(w, c) ==
    \/ /\ EntriesOf(c) = {}
       /\ Begin(w, [op |-> "takedown_insert", content |-> c])
    \/ \E e \in EntriesOf(c) :
         /\ EntriesOf(c) = {e}
         /\ Begin(w, [op |-> "takedown_update", entry |-> e, seen |-> queue[e].status])

TakedownUpdate(w) ==
    /\ txn[w].op = "takedown_update"
    /\ IF txn[w].seen = "rejected" THEN UNCHANGED queue
                                   ELSE Changes("rejected", txn[w].entry)
    /\ Records(txn[w].entry, "reject", "takedown")
    /\ End(w)
    /\ UNCHANGED <<shown, appeals, assignments>>

TakedownInsert(w) ==
    /\ txn[w].op = "takedown_insert"
    /\ \E e \in EntryId \ Entries :
         /\ queue' = [queue EXCEPT ![e] =
               [content |-> txn[w].content, status |-> "rejected", keyword |-> "none",
                severe |-> FALSE, reviewed |-> FALSE]]
         /\ Records(e, "reject", "takedown")
    /\ End(w)
    /\ UNCHANGED <<shown, appeals, assignments>>

-----------------------------------------------------------------------------
(* create_appeal and decide_appeal. *)

AppealsOf(e, u) == {a \in AppealId : /\ appeals[a] # NoRow
                                     /\ appeals[a].entry = e
                                     /\ appeals[a].by = u}

(* Seeded fault: any entry that is not approved may be appealed. *)
AppealableUnlessApproved(e) == e \in Entries /\ queue[e].status # "approved"

Appealable(e) == e \in Entries /\ queue[e].status = "rejected"

MayAppeal(e, u) == AppealsOf(e, u) = {}

AppealRead(w, e, u) ==
    /\ Appealable(e)
    /\ MayAppeal(e, u)
    /\ Begin(w, [op |-> "appeal", entry |-> e, by |-> u])

AppealWrite(w) ==
    /\ txn[w].op = "appeal"
    /\ \E a \in AppealId :
         /\ appeals[a] = NoRow
         /\ appeals' = [appeals EXCEPT ![a] =
               [entry |-> txn[w].entry, by |-> txn[w].by, status |-> "pending"]]
    /\ Changes("escalated", txn[w].entry)
    /\ End(w)
    /\ UNCHANGED <<shown, decisions, assignments>>

DecideAppealRead(w, a) ==
    /\ appeals[a] # NoRow
    /\ appeals[a].status = "pending"
    /\ Begin(w, [op |-> "decide_appeal", appeal |-> a, seen |-> NoRow])

DecideAppealReadEntry(w) ==
    /\ txn[w].op = "decide_appeal"
    /\ txn[w].seen = NoRow
    /\ txn' = [txn EXCEPT ![w].seen = queue[appeals[txn[w].appeal].entry].status]
    /\ UNCHANGED tables

(* The entry is written only if its status differs from the one that was read. *)
DecideAppealWrite(w, ruling) ==
    LET a == txn[w].appeal
        status == IF ruling = "accepted" THEN "approved" ELSE "rejected"
    IN  /\ txn[w].op = "decide_appeal"
        /\ txn[w].seen # NoRow
        /\ appeals' = [appeals EXCEPT ![a].status = ruling]
        /\ IF status = txn[w].seen THEN UNCHANGED queue
                                   ELSE Changes(status, appeals[a].entry)
        /\ End(w)
        /\ UNCHANGED <<shown, decisions, assignments>>

-----------------------------------------------------------------------------
(* assign_moderator: the open assignment found becomes "reassigned". *)

AssignRead(w, e) ==
    /\ e \in Entries
    /\ ~Settled(e)
    /\ Cardinality(Open(e)) <= 1
    /\ Begin(w, [op |-> "assign", entry |-> e,
                 old |-> IF Open(e) = {} THEN NoRow ELSE CHOOSE a \in Open(e) : TRUE])

(* Seeded fault: the assignment it replaces stays open. *)
AssignBeside(w) ==
    /\ txn[w].op = "assign"
    /\ \E a \in AssignmentId :
         /\ assignments[a] = NoRow
         /\ assignments' = [assignments EXCEPT ![a] =
               [entry |-> txn[w].entry, status |-> "assigned"]]
    /\ End(w)
    /\ UNCHANGED <<shown, queue, decisions, appeals>>

AssignWrite(w) ==
    /\ txn[w].op = "assign"
    /\ \E a \in AssignmentId :
         /\ assignments[a] = NoRow
         /\ assignments' = [x \in AssignmentId |->
               IF x = a THEN [entry |-> txn[w].entry, status |-> "assigned"]
               ELSE IF x = txn[w].old THEN [assignments[x] EXCEPT !.status = "reassigned"]
               ELSE assignments[x]]
    /\ End(w)
    /\ UNCHANGED <<shown, queue, decisions, appeals>>

-----------------------------------------------------------------------------
(* run_post_publish_moderation, where something calls it. *)

ReviewRead(w, e) ==
    /\ Background
    /\ e \in Entries
    /\ queue[e].status \in {"published", "escalated"}
    /\ Begin(w, [op |-> "review", entry |-> e])

ReviewWrite(w, finding) ==
    LET e == txn[w].entry
    IN  /\ txn[w].op = "review"
        /\ queue' = [queue EXCEPT
              ![e].reviewed = TRUE,
              ![e].status = CASE finding = "clean" -> @
                              [] finding = "medium" -> "flagged"
                              [] finding = "high" -> "taken_down"]
        /\ IF finding = "clean" THEN UNCHANGED decisions
           ELSE Records(e, IF finding = "high" THEN "reject" ELSE "escalate", "review")
        /\ End(w)
        /\ UNCHANGED <<shown, appeals, assignments>>

-----------------------------------------------------------------------------
WorkerStep(w) ==
    \/ \E c \in Content, keyword \in Keyword, severe \in BOOLEAN :
         Create(w, c, keyword, severe)
    \/ \E c \in Content, tier \in AgeTier, keyword \in Keyword \cup {"none"},
          severe \in BOOLEAN : Resubmit(w, c, tier, keyword, severe)
    \/ \E c \in Content : SendUnmoderated(w, c) \/ TakedownRead(w, c)
    \/ \E es \in SUBSET Entries, action \in Action, bulk \in BOOLEAN :
         DecideStart(w, es, action, bulk)
    \/ DecideRead(w) \/ DecideCommit(w)
    \/ TakedownUpdate(w) \/ TakedownInsert(w)
    \/ \E e \in EntryId, u \in Appellant : AppealRead(w, e, u)
    \/ AppealWrite(w)
    \/ \E a \in AppealId : DecideAppealRead(w, a)
    \/ DecideAppealReadEntry(w)
    \/ \E ruling \in {"accepted", "denied"} : DecideAppealWrite(w, ruling)
    \/ \E e \in EntryId : AssignRead(w, e) \/ ReviewRead(w, e)
    \/ AssignWrite(w)
    \/ \E finding \in {"clean", "medium", "high"} : ReviewWrite(w, finding)
    \/ Rollback(w)

Next == \E w \in Worker : WorkerStep(w)

Spec == Init /\ [][Next]_vars

-----------------------------------------------------------------------------
DecidedBy(e, action) == \E d \in decisions : d.entry = e /\ d.action = action
RuledOn(e, ruling) ==
    \E a \in AppealId : /\ appeals[a] # NoRow
                        /\ appeals[a].entry = e
                        /\ appeals[a].status = ruling

(* Under-13 content is held (service.py submit_for_moderation, step 3 before the
   automatic approval): what other users can list was found clean by the keyword
   filter and free of severe social risk when it was submitted, and nothing that
   moderators, appeals or resubmissions do later lists anything else. *)
ListedWasClean ==
    \A c \in Content : Listed(c) =>
        /\ PrePublish(Tier[c])
        /\ \E e \in EntriesOf(c) : /\ queue[e].keyword = "allow" /\ ~queue[e].severe
                                   /\ DecidedBy(e, "approve")

(* One session at a time: every outcome has its author (ModerationDecision,
   ModerationAppeal), for the status of an entry is explained by a recorded decision
   or a ruled appeal. *)
OutcomeOnRecord ==
    \A e \in Entries :
        /\ queue[e].status = "approved"
             => DecidedBy(e, "approve") \/ RuledOn(e, "accepted")
        /\ queue[e].status = "rejected"
             => DecidedBy(e, "reject") \/ RuledOn(e, "denied")
        /\ queue[e].status = "taken_down" => DecidedBy(e, "reject")

(* create_appeal: "Queue entry must be in 'rejected' status": an appeal is always
   against a rejection that is on record, also when it races the moderators. *)
AppealOfRejection ==
    \A a \in AppealId : appeals[a] # NoRow => DecidedBy(appeals[a].entry, "reject")

(* One session at a time: what a moderator approved or rejected changes only
   through an emergency takedown, an appeal, or the ruling on one. *)
SettledStays ==
    [][\A e \in Entries :
          queue[e].status \in {"approved", "rejected"} /\ queue'[e].status # queue[e].status =>
         \E w \in Worker : txn[w].op \in {"takedown_update", "appeal", "decide_appeal"}]_vars

(* One session at a time: an entry has one open assignment at most
   (assign_moderator "marks old assignment as 'reassigned'"), and "Only one appeal
   per queue item per user". *)
OneOfEach ==
    /\ \A e \in EntryId : Cardinality(Open(e)) <= 1
    /\ \A e \in EntryId, u \in Appellant : Cardinality(AppealsOf(e, u)) <= 1

(* takedown_content "mark content as removed": content that was taken down in an
   emergency, and whose entry still says so, is not listed. *)
TakedownUnlists ==
    \A c \in Content : \A e \in EntriesOf(c) :
        (\E d \in decisions : d.entry = e /\ d.by = "takedown") /\ queue[e].status = "rejected"
            => ~Listed(c)
=============================================================================

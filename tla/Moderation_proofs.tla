------------------------- MODULE Moderation_proofs -------------------------
(***************************************************************************)
(* What is listed was found clean, and what is appealed was rejected, for  *)
(* every number of contents, entries, appeals and concurrent sessions.     *)
(* Neither is inductive: a session acts on the entry it has read, so IInv  *)
(* says that such rows stay (Backed), and that every rejection, which an   *)
(* appeal may follow, is on record (RejectionsOnRecord).                   *)
(*                                                                         *)
(* The last section is about one session at a time, where every outcome    *)
(* has its author and what is settled stays so.                            *)
(***************************************************************************)
EXTENDS Moderation, FiniteSetTheorems, TLAPS

DecideTxn == [op: {"decide"}, action: Action, bulk: BOOLEAN, todo: SUBSET EntryId,
              read: SUBSET EntrySnapshot]

(* What session t has established about the rows it has read. *)
Backed(t) ==
    /\ t.op = "decide" =>
         /\ t.todo \subseteq Entries
         /\ \A s \in t.read : /\ s.entry \in Entries
                              /\ s.assignment # NoRow => assignments[s.assignment] # NoRow
    /\ t.op \in {"takedown_update", "appeal", "review"} => t.entry \in Entries
    /\ t.op = "appeal" => DecidedBy(t.entry, "reject")
    /\ t.op = "decide_appeal" => appeals[t.appeal] # NoRow
    /\ t.op = "assign" /\ t.old # NoRow => assignments[t.old] # NoRow

SessionsBacked == \A w \in Worker : Backed(txn[w])

AppealsHaveEntry == \A a \in AppealId : appeals[a] # NoRow => appeals[a].entry \in Entries

RejectionsOnRecord ==
    \A e \in Entries : queue[e].status = "rejected" => DecidedBy(e, "reject")

(* ListedWasClean says this of all content that is listed. *)
CleanOnRecord(c) ==
    /\ PrePublish(Tier[c])
    /\ \E e \in EntriesOf(c) : /\ queue[e].keyword = "allow" /\ ~queue[e].severe
                               /\ DecidedBy(e, "approve")

IInv ==
    /\ TypeOK
    /\ SessionsBacked
    /\ AppealsHaveEntry
    /\ RejectionsOnRecord
    /\ AppealOfRejection
    /\ ListedWasClean

(* Rows stay, and keep what identifies them; decisions are only added. *)
EntriesKept ==
    \A e \in Entries : /\ queue'[e] # NoRow
                       /\ queue'[e].content = queue[e].content
                       /\ queue'[e].keyword = queue[e].keyword
                       /\ queue'[e].severe = queue[e].severe

RowsKept ==
    /\ EntriesKept
    /\ decisions \subseteq decisions'
    /\ \A a \in AppealId : appeals[a] # NoRow =>
         appeals'[a] # NoRow /\ appeals'[a].entry = appeals[a].entry
    /\ \A a \in AssignmentId : assignments[a] # NoRow => assignments'[a] # NoRow

(* What a commit rejects, lets appeal and lists is on record. *)
RejectsOnRecord ==
    \A e \in Entries' : queue'[e].status = "rejected" =>
        \/ e \in Entries /\ queue[e].status = "rejected"
        \/ DecidedBy(e, "reject")'

AppealsOnRecord ==
    \A a \in AppealId : appeals'[a] # NoRow =>
        \/ appeals[a] # NoRow
        \/ appeals'[a].entry \in Entries /\ DecidedBy(appeals'[a].entry, "reject")

ListsClean ==
    \A c \in Content : shown'[c] = "approved" => shown[c] = "approved" \/ CleanOnRecord(c)'

-----------------------------------------------------------------------------
(* The empty tables satisfy the invariant. *)
LEMMA InitIInv == Init => IInv
<1> SUFFICES ASSUME Init PROVE IInv
  OBVIOUS
<1>1. Idle \in Txn /\ Backed(Idle)
  BY DEF Txn, Idle, Backed
<1>2. TypeOK /\ SessionsBacked
  BY <1>1 DEF Init, TypeOK, SessionsBacked
<1>3. Entries = {}
  BY DEF Init, Entries
<1>4. \A c \in Content : ~Listed(c)
  BY RowAssumption DEF Init, Listed, EntryStatus
<1> QED BY <1>2, <1>3, <1>4 DEF Init, IInv, AppealsHaveEntry, RejectionsOnRecord,
                                AppealOfRejection, ListedWasClean

(* The record of an open session, by the kind of the session. *)
LEMMA TxnShape ==
    ASSUME NEW t \in Txn
    PROVE  /\ t.op = "decide" => t \in DecideTxn
           /\ t.op \in {"takedown_update", "appeal", "review", "assign"} => t.entry \in EntryId
           /\ t.op = "takedown_insert" => t.content \in Content
           /\ t.op = "appeal" => t.by \in Appellant
           /\ t.op = "decide_appeal" => t.appeal \in AppealId
           /\ t.op = "assign" => t.old \in AssignmentId \cup {NoRow}
BY DEF Txn, Idle, DecideTxn

(* What a session has established stays true of rows that are kept. *)
LEMMA StaysBacked ==
    ASSUME NEW t \in Txn, Backed(t), RowsKept
    PROVE  Backed(t)'
<1>1. Entries \subseteq Entries'
  BY DEF Entries, EntriesKept, RowsKept
<1>2. \A e \in EntryId : DecidedBy(e, "reject") => DecidedBy(e, "reject")'
  BY DEF DecidedBy, EntriesKept, RowsKept
<1>3. t.op = "decide" => \A s \in t.read : s.assignment \in AssignmentId \cup {NoRow}
  BY TxnShape DEF DecideTxn, EntrySnapshot
<1> QED BY <1>1, <1>2, <1>3, TxnShape DEF Backed, EntriesKept, RowsKept

(* A step that reads, or gives up, keeps the invariant if what it has read backs
   what it goes on with. *)
LEMMA ReadStep ==
    ASSUME IInv, NEW w \in Worker, NEW t \in Txn, Backed(t), UNCHANGED tables,
           txn' = [txn EXCEPT ![w] = t]
    PROVE  IInv'
<1>1. txn' \in [Worker -> Txn] /\ \A v \in Worker : Backed(txn'[v])
  BY DEF IInv, TypeOK, SessionsBacked
<1>2. RowsKept
  BY DEF EntriesKept, RowsKept, tables, Entries
<1>3. SessionsBacked'
  BY <1>1, <1>2, StaysBacked DEF SessionsBacked
<1>4. TypeOK'
  BY <1>1 DEF IInv, TypeOK, tables
<1>5. AppealsHaveEntry' /\ RejectionsOnRecord' /\ AppealOfRejection' /\ ListedWasClean'
  BY DEF IInv, tables, AppealsHaveEntry, RejectionsOnRecord, AppealOfRejection, ListedWasClean,
         Entries, EntriesOf, DecidedBy, Listed
<1> QED BY <1>3, <1>4, <1>5 DEF IInv

(* A commit keeps the invariant if it keeps rows, and records what it rejects, what
   may be appealed and what it lists. *)
LEMMA WriteStep ==
    ASSUME IInv, NEW w \in Worker, txn' = [txn EXCEPT ![w] = Idle],
           shown' \in [Content -> EntryStatus \cup {NoRow}],
           queue' \in [EntryId -> Entry \cup {NoRow}],
           decisions' \subseteq Decision,
           appeals' \in [AppealId -> Appeal \cup {NoRow}],
           assignments' \in [AssignmentId -> Assignment \cup {NoRow}],
           RowsKept, RejectsOnRecord, AppealsOnRecord, ListsClean
    PROVE  IInv'
<1>1. Idle \in Txn /\ Backed(Idle)
  BY DEF Txn, Idle, Backed
<1>2. txn' \in [Worker -> Txn] /\ \A v \in Worker : Backed(txn'[v])
  BY <1>1 DEF IInv, TypeOK, SessionsBacked
<1>3. SessionsBacked'
  BY <1>2, StaysBacked DEF SessionsBacked
<1>4. TypeOK'
  BY <1>2 DEF TypeOK
<1>5. /\ \A e, x : DecidedBy(e, x) => DecidedBy(e, x)'
      /\ Entries \subseteq Entries'
  BY DEF DecidedBy, EntriesKept, RowsKept, Entries
<1>6. AppealsHaveEntry' /\ AppealOfRejection'
  BY <1>5 DEF IInv, AppealsHaveEntry, AppealOfRejection, AppealsOnRecord, EntriesKept, RowsKept
<1>7. RejectionsOnRecord'
  BY <1>5 DEF IInv, RejectionsOnRecord, RejectsOnRecord
<1>8. ListedWasClean'
  <2>1. ASSUME NEW c \in Content, CleanOnRecord(c)  PROVE CleanOnRecord(c)'
    <3>1. PICK e \in EntriesOf(c) : /\ queue[e].keyword = "allow" /\ ~queue[e].severe
                                    /\ DecidedBy(e, "approve")
      BY <2>1 DEF CleanOnRecord
    <3>2. e \in EntriesOf(c)' /\ queue'[e].keyword = "allow" /\ ~queue'[e].severe
      BY <3>1 DEF EntriesOf, Entries, EntriesKept, RowsKept
    <3> QED BY <2>1, <3>1, <3>2, <1>5 DEF CleanOnRecord, PrePublish
  <2>2. \A c \in Content : shown'[c] = "approved" => CleanOnRecord(c)'
    BY <2>1 DEF IInv, ListedWasClean, Listed, CleanOnRecord, ListsClean
  <2> QED BY <2>2 DEF ListedWasClean, Listed, CleanOnRecord
<1> QED BY <1>3, <1>4, <1>6, <1>7, <1>8 DEF IInv

-----------------------------------------------------------------------------
(* Sessions that begin, read on or give up. *)
LEMMA BeginStep ==
    ASSUME IInv, NEW w \in Worker, NEW t \in Txn, Backed(t), Begin(w, t)  PROVE IInv'
BY ReadStep DEF Begin

LEMMA RollbackStep ==
    ASSUME IInv, NEW w \in Worker, Rollback(w)  PROVE IInv'
<1>1. Idle \in Txn /\ Backed(Idle)
  BY DEF Txn, Idle, Backed
<1> QED BY <1>1, ReadStep DEF Rollback, End

LEMMA DecideStartStep ==
    ASSUME IInv, NEW w \in Worker, NEW es \in SUBSET Entries, NEW action \in Action,
           NEW bulk \in BOOLEAN, DecideStart(w, es, action, bulk)
    PROVE  IInv'
<1> DEFINE t == [op |-> "decide", action |-> action, bulk |-> bulk, todo |-> es, read |-> {}]
<1>1. t \in Txn /\ Backed(t)
  BY DEF Txn, Backed, Entries
<1>2. Begin(w, t)
  BY DEF DecideStart
<1> HIDE DEF t
<1> QED BY <1>1, <1>2, BeginStep

LEMMA DecideReadStep ==
    ASSUME IInv, NEW w \in Worker, DecideRead(w)  PROVE IInv'
<1>1. txn[w] \in DecideTxn /\ Backed(txn[w]) /\ txn[w].op = "decide" /\ UNCHANGED tables
  BY TxnShape DEF DecideRead, IInv, TypeOK, SessionsBacked
<1>2. PICK e \in txn[w].todo :
        LET found == IF txn[w].bulk THEN Open(e) ELSE {}
            next(read) == [txn EXCEPT ![w].todo = @ \ {e}, ![w].read = read]
        IN  txn' = IF Settled(e) THEN next(txn[w].read)
                   ELSE IF Cardinality(found) > 1 THEN [txn EXCEPT ![w] = Idle]
                   ELSE next(txn[w].read \cup
                             {[entry |-> e, seen |-> queue[e].status,
                               assignment |-> IF found = {} THEN NoRow
                                              ELSE CHOOSE a \in found : TRUE]})
  BY DEF DecideRead
<1> DEFINE found == IF txn[w].bulk THEN Open(e) ELSE {}
           first == IF found = {} THEN NoRow ELSE CHOOSE a \in found : TRUE
           snap == [entry |-> e, seen |-> queue[e].status, assignment |-> first]
           next(read) == [txn[w] EXCEPT !.todo = @ \ {e}, !.read = read]
<1>3. e \in Entries /\ e \in EntryId /\ queue[e].status \in EntryStatus
  BY <1>1 DEF Backed, IInv, TypeOK, Entries, Entry
<1>4. first = NoRow \/ (first \in AssignmentId /\ assignments[first] # NoRow)
  BY DEF Open
<1>5. snap \in EntrySnapshot /\ snap.entry = e /\ snap.assignment = first
  BY <1>3, <1>4 DEF EntrySnapshot
<1>6. \/ txn' = [txn EXCEPT ![w] = Idle]
      \/ \E read \in {txn[w].read, txn[w].read \cup {snap}} :
           txn' = [txn EXCEPT ![w] = next(read)]
  BY <1>2 DEF IInv, TypeOK
<1>7. CASE txn' = [txn EXCEPT ![w] = Idle]
  <2>1. Idle \in Txn /\ Backed(Idle)
    BY DEF Txn, Idle, Backed
  <2> QED BY <1>1, <1>7, <2>1, ReadStep
<1>8. ASSUME NEW read \in {txn[w].read, txn[w].read \cup {snap}},
             txn' = [txn EXCEPT ![w] = next(read)]
      PROVE  IInv'
  <2> DEFINE t == next(read)
  <2> HIDE DEF snap, first
  <2>1. /\ read \subseteq EntrySnapshot
        /\ \A s \in read : /\ s.entry \in Entries
                           /\ s.assignment # NoRow => assignments[s.assignment] # NoRow
    BY <1>1, <1>3, <1>4, <1>5 DEF Backed, DecideTxn
  <2>2. /\ t \in DecideTxn /\ t.op = "decide" /\ t.read = read
        /\ t.todo \subseteq txn[w].todo
    BY <1>1, <2>1 DEF DecideTxn
  <2> HIDE DEF t
  <2>3. t \in Txn /\ Backed(t)
    BY <1>1, <2>1, <2>2 DEF Txn, DecideTxn, Backed
  <2>4. txn' = [txn EXCEPT ![w] = t]
    BY <1>8 DEF t
  <2> QED BY <1>1, <2>3, <2>4, ReadStep
<1> QED BY <1>6, <1>7, <1>8

LEMMA TakedownReadStep ==
    ASSUME IInv, NEW w \in Worker, NEW c \in Content, TakedownRead(w, c)  PROVE IInv'
<1>1. [op |-> "takedown_insert", content |-> c] \in Txn
      /\ Backed([op |-> "takedown_insert", content |-> c])
  BY DEF Txn, Backed
<1>2. ASSUME NEW e \in EntriesOf(c)
      PROVE  LET t == [op |-> "takedown_update", entry |-> e, seen |-> queue[e].status]
             IN  t \in Txn /\ Backed(t)
  BY DEF EntriesOf, Entries, Txn, Backed, IInv, TypeOK, Entry
<1> QED BY <1>1, <1>2, BeginStep DEF TakedownRead

LEMMA AppealReadStep ==
    ASSUME IInv, NEW w \in Worker, NEW e \in EntryId, NEW u \in Appellant, AppealRead(w, e, u)
    PROVE  IInv'
<1> DEFINE t == [op |-> "appeal", entry |-> e, by |-> u]
<1>1. e \in Entries /\ DecidedBy(e, "reject")
  BY DEF AppealRead, Appealable, IInv, RejectionsOnRecord
<1>2. t \in Txn /\ Backed(t)
  BY <1>1 DEF Txn, Backed
<1>3. Begin(w, t)
  BY DEF AppealRead
<1> HIDE DEF t
<1> QED BY <1>2, <1>3, BeginStep

LEMMA DecideAppealReadStep ==
    ASSUME IInv, NEW w \in Worker, NEW a \in AppealId, DecideAppealRead(w, a)  PROVE IInv'
<1> DEFINE t == [op |-> "decide_appeal", appeal |-> a, seen |-> NoRow]
<1>1. t \in Txn /\ Backed(t) /\ Begin(w, t)
  BY DEF Txn, Backed, DecideAppealRead
<1> HIDE DEF t
<1> QED BY <1>1, BeginStep

LEMMA DecideAppealReadEntryStep ==
    ASSUME IInv, NEW w \in Worker, DecideAppealReadEntry(w)  PROVE IInv'
<1> DEFINE e == appeals[txn[w].appeal].entry
           t == [txn[w] EXCEPT !.seen = queue[e].status]
<1>1. txn[w] \in [op: {"decide_appeal"}, appeal: AppealId, seen: EntryStatus \cup {NoRow}]
  BY DEF DecideAppealReadEntry, IInv, TypeOK, Txn, Idle
<1>2. queue[e].status \in EntryStatus
  BY <1>1 DEF IInv, SessionsBacked, Backed, AppealsHaveEntry, Entries, TypeOK, Entry
<1>3. /\ t \in [op: {"decide_appeal"}, appeal: AppealId, seen: EntryStatus \cup {NoRow}]
      /\ t.appeal = txn[w].appeal /\ t.op = "decide_appeal"
  BY <1>1, <1>2
<1>4. txn' = [txn EXCEPT ![w] = t] /\ UNCHANGED tables
  BY DEF DecideAppealReadEntry, IInv, TypeOK
<1> HIDE DEF t
<1>5. t \in Txn /\ Backed(t)
  BY <1>1, <1>3 DEF Txn, Backed, IInv, SessionsBacked
<1> QED BY <1>4, <1>5, ReadStep

LEMMA AssignReadStep ==
    ASSUME IInv, NEW w \in Worker, NEW e \in EntryId, AssignRead(w, e)  PROVE IInv'
<1> DEFINE old == IF Open(e) = {} THEN NoRow ELSE CHOOSE a \in Open(e) : TRUE
           t == [op |-> "assign", entry |-> e, old |-> old]
<1>1. old = NoRow \/ (old \in AssignmentId /\ assignments[old] # NoRow)
  BY DEF Open
<1>2. Begin(w, t)
  BY DEF AssignRead
<1> HIDE DEF old
<1>3. t \in Txn /\ Backed(t)
  BY <1>1 DEF Txn, Backed
<1> HIDE DEF t
<1> QED BY <1>2, <1>3, BeginStep

LEMMA ReviewReadStep ==
    ASSUME IInv, NEW w \in Worker, NEW e \in EntryId, ReviewRead(w, e)  PROVE IInv'
<1> DEFINE t == [op |-> "review", entry |-> e]
<1>1. t \in Txn /\ Backed(t) /\ Begin(w, t)
  BY DEF Txn, Backed, ReviewRead
<1> HIDE DEF t
<1> QED BY <1>1, BeginStep

-----------------------------------------------------------------------------
(* Commits.  A new entry leaves the others alone. *)
LEMMA EntryAdded ==
    ASSUME TypeOK, NEW e \in EntryId \ Entries, NEW row \in Entry,
           queue' = [queue EXCEPT ![e] = row]
    PROVE  /\ queue' \in [EntryId -> Entry \cup {NoRow}]
           /\ EntriesKept
           /\ e \in Entries' /\ queue'[e] = row
           /\ \A x \in Entries' : x # e => x \in Entries /\ queue'[x] = queue[x]
BY RowAssumption DEF TypeOK, Entries, EntriesKept

(* The status of an entry is all that changes of it. *)
LEMMA StatusWritten ==
    ASSUME TypeOK, NEW e \in Entries, NEW status \in EntryStatus, Changes(status, e)
    PROVE  /\ queue' \in [EntryId -> Entry \cup {NoRow}]
           /\ EntriesKept
           /\ Entries' = Entries
           /\ queue'[e].status = status
           /\ \A x \in Entries : x # e => queue'[x] = queue[x]
<1>1. queue[e] \in Entry /\ e \in EntryId
  BY DEF TypeOK, Entries
<1>2. /\ queue'[e] = [queue[e] EXCEPT !.status = status]
      /\ \A x \in EntryId : x # e => queue'[x] = queue[x]
  BY <1>1 DEF Changes, TypeOK
<1>3. /\ queue'[e] \in Entry
      /\ queue'[e].status = status
      /\ queue'[e].content = queue[e].content
      /\ queue'[e].keyword = queue[e].keyword
      /\ queue'[e].severe = queue[e].severe
  BY <1>1, <1>2 DEF Entry
<1>4. queue' \in [EntryId -> Entry \cup {NoRow}]
  BY <1>3 DEF Changes, TypeOK
<1>5. Entries' = Entries
  BY <1>1, <1>2, <1>3, RowAssumption DEF Entries
<1> QED BY <1>2, <1>3, <1>4, <1>5, RowAssumption DEF EntriesKept, Entries

(* Decisions are only added. *)
LEMMA DecisionRecorded ==
    ASSUME TypeOK, NEW e \in EntryId, NEW action \in Action,
           NEW by \in {"filter", "review", "moderator", "takedown"}, Records(e, action, by)
    PROVE  /\ decisions' \subseteq Decision
           /\ decisions \subseteq decisions'
           /\ DecidedBy(e, action)'
<1> DEFINE d == [entry |-> e, action |-> action, by |-> by]
<1>1. d \in Decision /\ d.entry = e /\ d.action = action /\ decisions' = decisions \cup {d}
  BY DEF Decision, Records
<1> HIDE DEF d
<1> QED BY <1>1 DEF TypeOK, DecidedBy

(* What a submission adds: an entry whose rejection is recorded and whose approval
   is that of clean content held before it is shown. *)
LEMMA Submitted ==
    ASSUME IInv, NEW c \in Content, NEW tier, NEW keyword \in Keyword \cup {"none"},
           NEW severe \in BOOLEAN, Submit(c, tier, keyword, severe)
    PROVE  /\ Outcome(tier, keyword, severe) \in EntryStatus
           /\ queue' \in [EntryId -> Entry \cup {NoRow}]
           /\ EntriesKept
           /\ decisions' \subseteq Decision
           /\ decisions \subseteq decisions'
           /\ RejectsOnRecord
           /\ Outcome(tier, keyword, severe) = "approved" /\ tier = Tier[c]
                => CleanOnRecord(c)'
<1> DEFINE status == Outcome(tier, keyword, severe)
           action == IF status = "rejected" THEN "reject" ELSE "approve"
<1>1. /\ status \in EntryStatus
      /\ status = "approved" => PrePublish(tier) /\ keyword = "allow" /\ ~severe
  BY DEF Outcome, EntryStatus, Keyword
<1>2. PICK e \in EntryId \ Entries :
        /\ queue' = [queue EXCEPT ![e] =
              [content |-> c, status |-> status, keyword |-> keyword,
               severe |-> severe, reviewed |-> FALSE]]
        /\ IF status \in {"rejected", "approved", "published"}
             THEN Records(e, action, "filter") ELSE UNCHANGED decisions
  BY DEF Submit
<1> HIDE DEF status
<1> DEFINE row == [content |-> c, status |-> status, keyword |-> keyword,
                   severe |-> severe, reviewed |-> FALSE]
<1>3. /\ row \in Entry /\ row.content = c /\ row.status = status
      /\ row.keyword = keyword /\ row.severe = severe
  BY <1>1 DEF Entry
<1>4. queue' = [queue EXCEPT ![e] = row]
  BY <1>2
<1> HIDE DEF row
<1>5. /\ queue' \in [EntryId -> Entry \cup {NoRow}]
      /\ EntriesKept
      /\ e \in Entries' /\ queue'[e] = row
      /\ \A x \in Entries' : x # e => x \in Entries /\ queue'[x] = queue[x]
  BY <1>3, <1>4, EntryAdded DEF IInv
<1>6. /\ decisions' \subseteq Decision
      /\ decisions \subseteq decisions'
      /\ status = "rejected" => DecidedBy(e, "reject")'
      /\ status = "approved" => DecidedBy(e, "approve")'
  <2>1. CASE status \in {"rejected", "approved", "published"}
    <3>1. action \in Action /\ Records(e, action, "filter")
      BY <1>2, <2>1 DEF Action
    <3>2. /\ decisions' \subseteq Decision
          /\ decisions \subseteq decisions'
          /\ DecidedBy(e, action)'
      <4> HIDE DEF action
      <4> QED BY <3>1, DecisionRecorded DEF IInv
    <3>3. /\ status = "rejected" => action = "reject"
          /\ status = "approved" => action = "approve"
      OBVIOUS
    <3> QED BY <3>2, <3>3
  <2>2. CASE status \notin {"rejected", "approved", "published"}
    BY <1>2, <2>2 DEF IInv, TypeOK
  <2> QED BY <2>1, <2>2
<1>7. e \in EntriesOf(c)'
  BY <1>3, <1>5 DEF EntriesOf
<1>8. RejectsOnRecord
  BY <1>3, <1>5, <1>6 DEF RejectsOnRecord
<1>9. status = "approved" /\ tier = Tier[c] => CleanOnRecord(c)'
  BY <1>1, <1>3, <1>5, <1>6, <1>7 DEF CleanOnRecord, PrePublish
<1> QED BY <1>1, <1>5, <1>6, <1>8, <1>9 DEF status

LEMMA CreateStep ==
    ASSUME IInv, NEW w \in Worker, NEW c \in Content, NEW keyword \in Keyword,
           NEW severe \in BOOLEAN, Create(w, c, keyword, severe)
    PROVE  IInv'
<1> DEFINE status == IF Kind[c] = "message" THEN "pending" ELSE Outcome(Tier[c], keyword, severe)
<1>1. shown' = [shown EXCEPT ![c] = status]
  BY DEF Create
<1>2. status \in EntryStatus /\ (status = "approved" => Outcome(Tier[c], keyword, severe) = "approved")
  BY Submitted DEF Create, EntryStatus
<1> HIDE DEF status
<1>3. /\ shown' \in [Content -> EntryStatus \cup {NoRow}]
      /\ \A x \in Content : shown'[x] = "approved" =>
           shown[x] = "approved" \/ (x = c /\ status = "approved")
  BY <1>1, <1>2 DEF IInv, TypeOK
<1>4. RowsKept
  BY Submitted DEF Create, RowsKept
<1>5. txn' = [txn EXCEPT ![w] = Idle]
  BY DEF Create, IInv, TypeOK
<1>6. ListsClean
  BY <1>2, <1>3, Submitted DEF Create, ListsClean
<1>7. AppealsOnRecord
  BY DEF Create, AppealsOnRecord
<1>8. /\ queue' \in [EntryId -> Entry \cup {NoRow}]
      /\ decisions' \subseteq Decision
      /\ RejectsOnRecord
      /\ appeals' \in [AppealId -> Appeal \cup {NoRow}]
      /\ assignments' \in [AssignmentId -> Assignment \cup {NoRow}]
  <2>1. Submit(c, Tier[c], keyword, severe) /\ keyword \in Keyword \cup {"none"}
    BY DEF Create
  <2>2. UNCHANGED <<appeals, assignments>>
    BY DEF Create
  <2> QED BY <2>1, <2>2, Submitted DEF IInv, TypeOK
<1> QED BY <1>3, <1>4, <1>5, <1>6, <1>7, <1>8, WriteStep

LEMMA ResubmitStep ==
    ASSUME IInv, NEW w \in Worker, NEW c \in Content, NEW tier \in AgeTier,
           NEW keyword \in Keyword \cup {"none"}, NEW severe \in BOOLEAN,
           Resubmit(w, c, tier, keyword, severe)
    PROVE  IInv'
<1>1. RowsKept
  BY Submitted DEF Resubmit, RowsKept
<1>2. txn' = [txn EXCEPT ![w] = Idle]
  BY DEF Resubmit, IInv, TypeOK
<1>3. ListsClean /\ AppealsOnRecord
  BY DEF Resubmit, ListsClean, AppealsOnRecord
<1>4. /\ shown' \in [Content -> EntryStatus \cup {NoRow}]
      /\ queue' \in [EntryId -> Entry \cup {NoRow}]
      /\ decisions' \subseteq Decision
      /\ RejectsOnRecord
      /\ appeals' \in [AppealId -> Appeal \cup {NoRow}]
      /\ assignments' \in [AssignmentId -> Assignment \cup {NoRow}]
  BY Submitted DEF Resubmit, IInv, TypeOK
<1> QED BY <1>1, <1>2, <1>3, <1>4, WriteStep

LEMMA SendUnmoderatedStep ==
    ASSUME IInv, NEW w \in Worker, NEW c \in Content, SendUnmoderated(w, c)  PROVE IInv'
<1>1. RowsKept
  BY DEF SendUnmoderated, RowsKept, EntriesKept, Entries
<1>2. txn' = [txn EXCEPT ![w] = Idle]
  BY DEF SendUnmoderated, IInv, TypeOK
<1>3. /\ shown' \in [Content -> EntryStatus \cup {NoRow}]
      /\ \A x \in Content : shown'[x] = "approved" => shown[x] = "approved"
  BY DEF SendUnmoderated, IInv, TypeOK, EntryStatus
<1>4. RejectsOnRecord /\ AppealsOnRecord /\ ListsClean
  BY <1>3 DEF SendUnmoderated, RejectsOnRecord, AppealsOnRecord, ListsClean, Entries
<1> QED BY <1>1, <1>2, <1>3, <1>4, WriteStep DEF SendUnmoderated, IInv, TypeOK

(* The commits below touch no listing. *)
LEMMA QueueWriteStep ==
    ASSUME IInv, NEW w \in Worker, End(w), UNCHANGED shown,
           queue' \in [EntryId -> Entry \cup {NoRow}], EntriesKept,
           decisions' \subseteq Decision, decisions \subseteq decisions',
           RejectsOnRecord,
           \/ UNCHANGED appeals
           \/ /\ appeals' \in [AppealId -> Appeal \cup {NoRow}]
              /\ \A a \in AppealId : appeals[a] # NoRow =>
                   appeals'[a] # NoRow /\ appeals'[a].entry = appeals[a].entry
              /\ AppealsOnRecord,
           \/ UNCHANGED assignments
           \/ /\ assignments' \in [AssignmentId -> Assignment \cup {NoRow}]
              /\ \A a \in AssignmentId : assignments[a] # NoRow => assignments'[a] # NoRow
    PROVE  IInv'
<1>1. /\ shown' \in [Content -> EntryStatus \cup {NoRow}]
      /\ appeals' \in [AppealId -> Appeal \cup {NoRow}]
      /\ assignments' \in [AssignmentId -> Assignment \cup {NoRow}]
      /\ txn' = [txn EXCEPT ![w] = Idle]
  BY DEF IInv, TypeOK, End
<1>2. RowsKept /\ AppealsOnRecord /\ ListsClean
  BY DEF RowsKept, AppealsOnRecord, ListsClean
<1> QED BY <1>1, <1>2, WriteStep

LEMMA TakedownUpdateStep ==
    ASSUME IInv, NEW w \in Worker, TakedownUpdate(w)  PROVE IInv'
<1>1. PICK e \in Entries : e = txn[w].entry /\ e \in EntryId
  BY TxnShape DEF TakedownUpdate, IInv, TypeOK, SessionsBacked, Backed, Entries
<1>2. UNCHANGED queue \/ Changes("rejected", e)
  BY <1>1 DEF TakedownUpdate
<1>3. Records(e, "reject", "takedown")
      /\ End(w) /\ UNCHANGED <<shown, appeals, assignments>>
  BY <1>1 DEF TakedownUpdate
<1>4. /\ decisions' \subseteq Decision
      /\ decisions \subseteq decisions'
      /\ DecidedBy(e, "reject")'
  BY <1>1, <1>3, DecisionRecorded DEF IInv, Action
<1>5. /\ queue' \in [EntryId -> Entry \cup {NoRow}]
      /\ EntriesKept
      /\ Entries' = Entries
      /\ \A x \in Entries : x # e => queue'[x] = queue[x]
  <2>1. CASE UNCHANGED queue
    BY <2>1 DEF IInv, TypeOK, EntriesKept, Entries
  <2>2. CASE Changes("rejected", e)
    BY <1>1, <2>2, StatusWritten DEF IInv, EntryStatus
  <2> QED BY <1>2, <2>1, <2>2
<1>6. RejectsOnRecord
  BY <1>4, <1>5 DEF RejectsOnRecord
<1> QED BY <1>3, <1>4, <1>5, <1>6, QueueWriteStep

LEMMA TakedownInsertStep ==
    ASSUME IInv, NEW w \in Worker, TakedownInsert(w)  PROVE IInv'
<1> DEFINE row == [content |-> txn[w].content, status |-> "rejected", keyword |-> "none",
                   severe |-> FALSE, reviewed |-> FALSE]
<1>1. PICK e \in EntryId \ Entries :
        queue' = [queue EXCEPT ![e] = row] /\ Records(e, "reject", "takedown")
  BY DEF TakedownInsert
<1>2. row \in Entry
  BY TxnShape DEF TakedownInsert, IInv, TypeOK, Entry, EntryStatus
<1> HIDE DEF row
<1>3. /\ queue' \in [EntryId -> Entry \cup {NoRow}]
      /\ EntriesKept
      /\ \A x \in Entries' : x # e => x \in Entries /\ queue'[x] = queue[x]
  BY <1>1, <1>2, EntryAdded DEF IInv
<1>4. /\ decisions' \subseteq Decision
      /\ decisions \subseteq decisions'
      /\ DecidedBy(e, "reject")'
  BY <1>1, DecisionRecorded DEF IInv, Action
<1>5. RejectsOnRecord
  BY <1>3, <1>4 DEF RejectsOnRecord
<1>6. End(w) /\ UNCHANGED <<shown, appeals, assignments>>
  BY DEF TakedownInsert
<1> QED BY <1>3, <1>4, <1>5, <1>6, QueueWriteStep

LEMMA AppealWriteStep ==
    ASSUME IInv, NEW w \in Worker, AppealWrite(w)  PROVE IInv'
<1> DEFINE e == txn[w].entry
           row == [entry |-> e, by |-> txn[w].by, status |-> "pending"]
<1>1. e \in Entries /\ e \in EntryId /\ DecidedBy(e, "reject")
  BY TxnShape DEF AppealWrite, IInv, TypeOK, SessionsBacked, Backed, Entries
<1>2. row \in Appeal /\ row.entry = e
  BY TxnShape DEF AppealWrite, IInv, TypeOK, Appeal
<1>3. PICK a \in AppealId : appeals[a] = NoRow /\ appeals' = [appeals EXCEPT ![a] = row]
  BY DEF AppealWrite
<1>4. Changes("escalated", e) /\ End(w) /\ UNCHANGED <<shown, decisions, assignments>>
  BY DEF AppealWrite
<1> HIDE DEF e, row
<1>5. /\ queue' \in [EntryId -> Entry \cup {NoRow}]
      /\ EntriesKept
      /\ Entries' = Entries
      /\ queue'[e].status = "escalated"
      /\ \A x \in Entries : x # e => queue'[x] = queue[x]
  BY <1>1, <1>4, StatusWritten DEF IInv, EntryStatus
<1>6. RejectsOnRecord
  BY <1>5 DEF RejectsOnRecord
<1>7. /\ appeals' \in [AppealId -> Appeal \cup {NoRow}]
      /\ \A x \in AppealId : x # a => appeals'[x] = appeals[x]
      /\ appeals'[a] = row
  BY <1>2, <1>3 DEF IInv, TypeOK
<1>8. AppealsOnRecord
  BY <1>1, <1>2, <1>7 DEF AppealsOnRecord
<1>9. decisions' \subseteq Decision /\ decisions \subseteq decisions'
  BY <1>4 DEF IInv, TypeOK
<1>10. \A x \in AppealId : appeals[x] # NoRow =>
         appeals'[x] # NoRow /\ appeals'[x].entry = appeals[x].entry
  BY <1>3, <1>7
<1> QED BY <1>4, <1>5, <1>6, <1>7, <1>8, <1>9, <1>10, QueueWriteStep

LEMMA DecideAppealWriteStep ==
    ASSUME IInv, NEW w \in Worker, NEW ruling \in {"accepted", "denied"},
           DecideAppealWrite(w, ruling)
    PROVE  IInv'
<1> DEFINE a == txn[w].appeal
           e == appeals[a].entry
           status == IF ruling = "accepted" THEN "approved" ELSE "rejected"
<1>1. a \in AppealId /\ appeals[a] # NoRow
  BY TxnShape DEF DecideAppealWrite, IInv, TypeOK, SessionsBacked, Backed
<1>2. appeals[a] \in Appeal /\ e \in Entries /\ DecidedBy(e, "reject")
  BY <1>1 DEF IInv, TypeOK, AppealsHaveEntry, AppealOfRejection
<1>3. /\ UNCHANGED queue \/ Changes(status, e)
      /\ appeals' = [appeals EXCEPT ![a].status = ruling]
      /\ End(w) /\ UNCHANGED <<shown, decisions, assignments>>
  BY DEF DecideAppealWrite
<1>4. /\ \A x \in AppealId : x # a => appeals'[x] = appeals[x]
      /\ appeals'[a] = [appeals[a] EXCEPT !.status = ruling]
  BY <1>1, <1>3 DEF IInv, TypeOK
<1>5. appeals'[a] \in Appeal /\ appeals'[a].entry = e
  BY <1>2, <1>4 DEF Appeal
<1>6. status \in EntryStatus
  BY DEF EntryStatus
<1> HIDE DEF a, e, status
<1>7. /\ queue' \in [EntryId -> Entry \cup {NoRow}]
      /\ EntriesKept
      /\ Entries' = Entries
      /\ \A x \in Entries : x # e => queue'[x] = queue[x]
  <2>1. CASE UNCHANGED queue
    BY <2>1 DEF IInv, TypeOK, EntriesKept, Entries
  <2>2. CASE Changes(status, e)
    BY <1>2, <1>6, <2>2, StatusWritten DEF IInv
  <2> QED BY <1>3, <2>1, <2>2
<1>8. RejectsOnRecord
  BY <1>2, <1>3, <1>7 DEF RejectsOnRecord, DecidedBy
<1>9. appeals' \in [AppealId -> Appeal \cup {NoRow}]
  BY <1>3, <1>4, <1>5 DEF IInv, TypeOK
<1>10. AppealsOnRecord
  BY <1>1, <1>4 DEF AppealsOnRecord
<1>11. \A x \in AppealId : appeals[x] # NoRow =>
         appeals'[x] # NoRow /\ appeals'[x].entry = appeals[x].entry
  BY <1>4, <1>5, RowAssumption DEF e
<1>12. decisions' \subseteq Decision /\ decisions \subseteq decisions'
  BY <1>3 DEF IInv, TypeOK
<1> QED BY <1>3, <1>7, <1>8, <1>9, <1>10, <1>11, <1>12, QueueWriteStep

LEMMA DecideCommitStep ==
    ASSUME IInv, NEW w \in Worker, DecideCommit(w)  PROVE IInv'
<1> DEFINE status == StatusOf(txn[w].action)
<1>1. txn[w] \in DecideTxn /\ Backed(txn[w]) /\ txn[w].op = "decide"
  BY TxnShape DEF DecideCommit, IInv, TypeOK, SessionsBacked
<1>2. /\ txn[w].action \in Action
      /\ status \in EntryStatus /\ (status = "rejected" => txn[w].action = "reject")
  BY <1>1 DEF DecideTxn, StatusOf, Action, EntryStatus
<1>3. Decided(w) \subseteq Entries /\ Decided(w) \subseteq EntryId
  BY <1>1 DEF Decided, Backed, Entries
<1>4. queue' = DecidedQueue(w) /\ End(w) /\ UNCHANGED <<shown, appeals>>
  BY DEF DecideCommit
<1>5. \A x \in EntryId :
        queue'[x] = queue[x] \/ (x \in Decided(w) /\ queue'[x] = [queue[x] EXCEPT !.status = status])
  BY <1>4 DEF DecidedQueue, Decided
<1> HIDE DEF status
<1>6. ASSUME NEW x \in Entries
      PROVE  /\ queue[x] \in Entry
             /\ queue'[x] \in Entry
             /\ queue'[x].content = queue[x].content
             /\ queue'[x].keyword = queue[x].keyword
             /\ queue'[x].severe = queue[x].severe
             /\ queue'[x].status = queue[x].status
                  \/ (x \in Decided(w) /\ queue'[x].status = status)
  <2>1. queue[x] \in Entry /\ x \in EntryId
    BY DEF IInv, TypeOK, Entries
  <2> QED BY <1>2, <1>5, <2>1 DEF Entry
<1>7. \A x \in EntryId \ Entries : queue'[x] = queue[x]
  BY <1>3, <1>5
<1>8. queue' \in [EntryId -> Entry \cup {NoRow}]
  <2>1. queue' = [x \in EntryId |-> queue'[x]]
    BY <1>4 DEF DecidedQueue
  <2> QED BY <1>6, <1>7, <2>1 DEF IInv, TypeOK
<1>9. EntriesKept /\ Entries' = Entries
  BY <1>6, <1>7, RowAssumption DEF EntriesKept, Entries
<1>10. /\ decisions' \subseteq Decision
       /\ decisions \subseteq decisions'
       /\ \A x \in Decided(w) : \E d \in decisions' : d.entry = x /\ d.action = txn[w].action
  <2> DEFINE new == [entry: Decided(w), action: {txn[w].action}, by: {"moderator"}]
  <2>1. decisions' = decisions \cup new
    BY DEF DecideCommit
  <2>2. new \subseteq Decision
    BY <1>2, <1>3 DEF Decision
  <2>3. \A x \in Decided(w) :
          LET d == [entry |-> x, action |-> txn[w].action, by |-> "moderator"]
          IN  d \in new /\ d.entry = x /\ d.action = txn[w].action
    OBVIOUS
  <2> HIDE DEF new
  <2> QED BY <2>1, <2>2, <2>3 DEF IInv, TypeOK
<1>11. RejectsOnRecord
  BY <1>2, <1>6, <1>9, <1>10 DEF RejectsOnRecord, DecidedBy
<1>12. /\ assignments' \in [AssignmentId -> Assignment \cup {NoRow}]
       /\ \A a \in AssignmentId : assignments[a] # NoRow => assignments'[a] # NoRow
  <2>1. ASSUME NEW a \in AssignmentId
        PROVE  /\ assignments'[a] \in Assignment \cup {NoRow}
               /\ assignments[a] # NoRow => assignments'[a] # NoRow
    <3>1. \/ assignments'[a] = assignments[a]
          \/ /\ assignments[a] # NoRow
             /\ assignments'[a] = [assignments[a] EXCEPT !.status = "completed"]
      BY <1>1, RowAssumption DEF DecideCommit, Backed
    <3> QED BY <3>1, RowAssumption DEF IInv, TypeOK, Assignment
  <2>2. assignments' = [a \in AssignmentId |-> assignments'[a]]
    BY DEF DecideCommit
  <2> QED BY <2>1, <2>2
<1> QED BY <1>4, <1>8, <1>9, <1>10, <1>11, <1>12, QueueWriteStep

LEMMA AssignWriteStep ==
    ASSUME IInv, NEW w \in Worker, AssignWrite(w)  PROVE IInv'
<1> DEFINE row == [entry |-> txn[w].entry, status |-> "assigned"]
<1>1. PICK b \in AssignmentId :
        /\ assignments[b] = NoRow
        /\ assignments' = [x \in AssignmentId |->
             IF x = b THEN row
             ELSE IF x = txn[w].old THEN [assignments[x] EXCEPT !.status = "reassigned"]
             ELSE assignments[x]]
  BY DEF AssignWrite
<1>2. /\ row \in Assignment
      /\ txn[w].old # NoRow => assignments[txn[w].old] # NoRow
  BY TxnShape DEF AssignWrite, IInv, TypeOK, SessionsBacked, Backed, Assignment
<1> HIDE DEF row
<1>3. ASSUME NEW a \in AssignmentId
      PROVE  /\ assignments'[a] \in Assignment \cup {NoRow}
             /\ assignments[a] # NoRow => assignments'[a] # NoRow
  <2>1. \/ assignments'[a] = row
        \/ assignments'[a] = assignments[a]
        \/ /\ assignments[a] # NoRow
           /\ assignments'[a] = [assignments[a] EXCEPT !.status = "reassigned"]
    BY <1>1, <1>2, RowAssumption
  <2> QED BY <1>2, <2>1, RowAssumption DEF IInv, TypeOK, Assignment
<1>4. assignments' = [a \in AssignmentId |-> assignments'[a]]
  BY <1>1
<1>5. assignments' \in [AssignmentId -> Assignment \cup {NoRow}]
  BY <1>3, <1>4
<1>6. End(w) /\ UNCHANGED <<shown, queue, decisions, appeals>>
  BY DEF AssignWrite
<1>7. /\ queue' \in [EntryId -> Entry \cup {NoRow}]
      /\ EntriesKept /\ RejectsOnRecord
      /\ decisions' \subseteq Decision /\ decisions \subseteq decisions'
  BY <1>6 DEF IInv, TypeOK, EntriesKept, RejectsOnRecord, Entries
<1> QED BY <1>3, <1>5, <1>6, <1>7, QueueWriteStep

LEMMA ReviewWriteStep ==
    ASSUME IInv, NEW w \in Worker, NEW finding \in {"clean", "medium", "high"},
           ReviewWrite(w, finding)
    PROVE  IInv'
<1>1. PICK e \in Entries : e = txn[w].entry /\ e \in EntryId
  BY TxnShape DEF ReviewWrite, IInv, TypeOK, SessionsBacked, Backed, Entries
<1> DEFINE status == CASE finding = "clean" -> queue[e].status
                       [] finding = "medium" -> "flagged"
                       [] finding = "high" -> "taken_down"
           row == [queue[e] EXCEPT !.reviewed = TRUE, !.status = status]
<1>2. End(w) /\ UNCHANGED <<shown, appeals, assignments>>
  BY DEF ReviewWrite
<1>3. queue[e] \in Entry
  BY DEF IInv, TypeOK, Entries
<1>4. /\ queue'[e] = row
      /\ \A x \in EntryId : x # e => queue'[x] = queue[x]
      /\ queue' = [x \in EntryId |-> queue'[x]]
  BY <1>1, <1>3 DEF ReviewWrite, IInv, TypeOK, Entry
<1>5. status \in EntryStatus /\ (status = "rejected" => queue[e].status = "rejected")
  BY <1>3 DEF Entry, EntryStatus
<1> HIDE DEF status
<1>6. /\ queue'[e] \in Entry
      /\ queue'[e].status = status
      /\ queue'[e].content = queue[e].content
      /\ queue'[e].keyword = queue[e].keyword
      /\ queue'[e].severe = queue[e].severe
  BY <1>3, <1>4, <1>5 DEF Entry
<1>7. queue' \in [EntryId -> Entry \cup {NoRow}]
  BY <1>4, <1>6 DEF IInv, TypeOK
<1>8. EntriesKept /\ Entries' = Entries
  <2>1. queue'[e] # NoRow
    BY <1>6, RowAssumption
  <2>2. \A x \in EntryId : x # e => queue'[x] = queue[x]
    BY <1>4
  <2>3. Entries' = Entries
    BY <1>1, <2>1, <2>2 DEF Entries
  <2> HIDE DEF row
  <2> QED BY <1>1, <1>6, <2>1, <2>2, <2>3 DEF EntriesKept, Entries
<1>9. RejectsOnRecord
  BY <1>4, <1>5, <1>6, <1>8 DEF RejectsOnRecord, Entries
<1>10. decisions' \subseteq Decision /\ decisions \subseteq decisions'
  <2>1. CASE finding = "clean"
    BY <2>1 DEF ReviewWrite, IInv, TypeOK
  <2>2. CASE finding # "clean"
    <3> DEFINE action == IF finding = "high" THEN "reject" ELSE "escalate"
    <3>1. action \in Action /\ Records(e, action, "review")
      BY <1>1, <2>2 DEF ReviewWrite, Action
    <3> HIDE DEF action
    <3> QED BY <1>1, <3>1, DecisionRecorded DEF IInv
  <2> QED BY <2>1, <2>2
<1> QED BY <1>2, <1>7, <1>8, <1>9, <1>10, QueueWriteStep

-----------------------------------------------------------------------------
LEMMA NextIInv == IInv /\ [Next]_vars => IInv'
<1> SUFFICES ASSUME IInv, [Next]_vars  PROVE IInv'
  OBVIOUS
<1>1. CASE UNCHANGED vars
  BY <1>1 DEF vars, IInv, TypeOK, SessionsBacked, Backed, AppealsHaveEntry, RejectionsOnRecord,
              AppealOfRejection, ListedWasClean, Listed, Entries, EntriesOf, DecidedBy
<1>2. ASSUME NEW w \in Worker, WorkerStep(w)  PROVE IInv'
  BY <1>2, CreateStep, ResubmitStep, SendUnmoderatedStep, TakedownReadStep, DecideStartStep,
     DecideReadStep, DecideCommitStep, TakedownUpdateStep, TakedownInsertStep, AppealReadStep,
     AppealWriteStep, DecideAppealReadStep, DecideAppealReadEntryStep, DecideAppealWriteStep,
     AssignReadStep, ReviewReadStep, AssignWriteStep, ReviewWriteStep, RollbackStep
     DEF WorkerStep
<1> QED BY <1>1, <1>2 DEF Next

THEOREM AlwaysIInv == Spec => []IInv
BY InitIInv, NextIInv, PTL DEF Spec

(* Rows and sessions are what the code makes them, for any number of sessions. *)
THEOREM TypeCorrect == Spec => []TypeOK
BY AlwaysIInv, PTL DEF IInv

(* Content of an under-13 author that is listed was found clean when it was
   submitted, and content of others is never listed: for every number of contents,
   entries, appeals and sessions, whatever they interleave. *)
THEOREM OnlyCleanIsListed == Spec => []ListedWasClean
BY AlwaysIInv, PTL DEF IInv

(* An appeal is against a rejection on record, for any number of sessions. *)
THEOREM AppealsAreOfRejections == Spec => []AppealOfRejection
BY AlwaysIInv, PTL DEF IInv

-----------------------------------------------------------------------------
(* One session at a time.  What a moderator is about to settle is still open, what
   is about to be appealed is appealed by nobody twice, and a ruling is the first. *)
OneSession == \A v, w \in Worker : v = w

Current(t) ==
    /\ t.op = "decide" => \A s \in t.read : ~Settled(s.entry)
    /\ t.op = "appeal" => AppealsOf(t.entry, t.by) = {}
    /\ t.op = "decide_appeal" => appeals[t.appeal].status = "pending"
    /\ t.op = "assign" => Open(t.entry) \subseteq {t.old}
    /\ t.op = "review" => ~Settled(t.entry)

SessionsCurrent == \A w \in Worker : Current(txn[w])

ApprovalsOnRecord ==
    \A e \in Entries : queue[e].status = "approved"
        => DecidedBy(e, "approve") \/ RuledOn(e, "accepted")

TakedownsOnRecord ==
    \A e \in Entries : queue[e].status = "taken_down" => DecidedBy(e, "reject")

OneAssignmentEach == \A e \in EntryId : \A a, b \in Open(e) : a = b
OneAppealEach == \A e \in EntryId, u \in Appellant : \A a, b \in AppealsOf(e, u) : a = b

SeqInv ==
    /\ SessionsCurrent
    /\ ApprovalsOnRecord
    /\ TakedownsOnRecord
    /\ OneAssignmentEach
    /\ OneAppealEach

(* What SettledStays says of one step. *)
SettledKept ==
    \A e \in Entries :
        queue[e].status \in {"approved", "rejected"} /\ queue'[e].status # queue[e].status =>
         \E w \in Worker : txn[w].op \in {"takedown_update", "appeal", "decide_appeal"}

LEMMA InitSeqInv == Init => SeqInv
BY DEF Init, SeqInv, SessionsCurrent, Current, Idle, ApprovalsOnRecord, TakedownsOnRecord,
       Entries, OneAssignmentEach, Open, OneAppealEach, AppealsOf

(* A step that reads, or gives up. *)
LEMMA SeqReadStep ==
    ASSUME IInv, SeqInv, NEW w \in Worker, NEW t, Current(t),
           txn' = [txn EXCEPT ![w] = t], UNCHANGED tables
    PROVE  SeqInv' /\ SettledKept
<1>1. \A x : Current(x) => Current(x)'
  BY DEF tables, Current, Settled, AppealsOf, Open
<1>2. \A v \in Worker : txn'[v] = t \/ txn'[v] = txn[v]
  BY DEF IInv, TypeOK
<1>3. SessionsCurrent'
  BY <1>1, <1>2 DEF SeqInv, SessionsCurrent
<1>4. /\ ApprovalsOnRecord' /\ TakedownsOnRecord'
      /\ OneAssignmentEach' /\ OneAppealEach' /\ SettledKept
  BY DEF tables, SeqInv, ApprovalsOnRecord, TakedownsOnRecord, OneAssignmentEach, OneAppealEach,
         Entries, DecidedBy, RuledOn, Open, AppealsOf, SettledKept
<1> QED BY <1>3, <1>4 DEF SeqInv

(* What a commit approves or takes down has its author. *)
Explained ==
    /\ decisions \subseteq decisions'
    /\ \A e \in Entries : RuledOn(e, "accepted") => RuledOn(e, "accepted")'
    /\ \A e \in Entries' : queue'[e].status = "approved" =>
         \/ e \in Entries /\ queue[e].status = "approved"
         \/ DecidedBy(e, "approve")' \/ RuledOn(e, "accepted")'
    /\ \A e \in Entries' : queue'[e].status = "taken_down" =>
         \/ e \in Entries /\ queue[e].status = "taken_down"
         \/ DecidedBy(e, "reject")'

(* A commit leaves no session that has read anything. *)
LEMMA SeqWriteStep ==
    ASSUME OneSession, IInv, SeqInv, NEW w \in Worker, txn' = [txn EXCEPT ![w] = Idle],
           Explained, OneAssignmentEach', OneAppealEach'
    PROVE  SeqInv'
<1>1. \A v \in Worker : txn'[v] = Idle
  BY DEF OneSession, IInv, TypeOK
<1>2. SessionsCurrent'
  BY <1>1 DEF SessionsCurrent, Current, Idle
<1>3. \A e, x : DecidedBy(e, x) => DecidedBy(e, x)'
  BY DEF Explained, DecidedBy
<1>4. ApprovalsOnRecord' /\ TakedownsOnRecord'
  BY <1>3 DEF Explained, SeqInv, ApprovalsOnRecord, TakedownsOnRecord
<1> QED BY <1>2, <1>4 DEF SeqInv

LEMMA AssignmentsStay == ASSUME SeqInv, UNCHANGED assignments  PROVE OneAssignmentEach'
BY DEF SeqInv, OneAssignmentEach, Open

LEMMA AppealsStay ==
    ASSUME SeqInv, UNCHANGED appeals
    PROVE  OneAppealEach' /\ \A e \in Entries : RuledOn(e, "accepted") => RuledOn(e, "accepted")'
BY DEF SeqInv, OneAppealEach, AppealsOf, RuledOn

(* A commit that changes the status of one entry, at most. *)
LEMMA StatusExplained ==
    ASSUME IInv, SeqInv, NEW e \in Entries, NEW status \in EntryStatus,
           UNCHANGED queue \/ Changes(status, e), decisions \subseteq decisions',
           \A x \in Entries : RuledOn(x, "accepted") => RuledOn(x, "accepted")',
           status = "approved" => DecidedBy(e, "approve")' \/ RuledOn(e, "accepted")',
           status = "taken_down" => DecidedBy(e, "reject")'
    PROVE  Explained
<1>1. CASE UNCHANGED queue
  BY <1>1 DEF Explained, Entries
<1>2. CASE Changes(status, e)
  <2>1. /\ Entries' = Entries
        /\ queue'[e].status = status
        /\ \A x \in Entries : x # e => queue'[x] = queue[x]
    BY <1>2, StatusWritten DEF IInv
  <2> QED BY <2>1 DEF Explained
<1> QED BY <1>1, <1>2

-----------------------------------------------------------------------------
(* A submission adds an entry: an approval of the filter is on record. *)
LEMMA SubmittedExplained ==
    ASSUME IInv, SeqInv, NEW c \in Content, NEW tier, NEW keyword \in Keyword \cup {"none"},
           NEW severe \in BOOLEAN, Submit(c, tier, keyword, severe), UNCHANGED appeals
    PROVE  Explained /\ SettledKept
<1> DEFINE status == Outcome(tier, keyword, severe)
           action == IF status = "rejected" THEN "reject" ELSE "approve"
<1>1. status \in EntryStatus /\ status # "taken_down"
  BY DEF Outcome, EntryStatus, Keyword
<1>2. PICK e \in EntryId \ Entries :
        /\ queue' = [queue EXCEPT ![e] =
              [content |-> c, status |-> status, keyword |-> keyword,
               severe |-> severe, reviewed |-> FALSE]]
        /\ IF status \in {"rejected", "approved", "published"}
             THEN Records(e, action, "filter") ELSE UNCHANGED decisions
  BY DEF Submit
<1> HIDE DEF status
<1> DEFINE row == [content |-> c, status |-> status, keyword |-> keyword,
                   severe |-> severe, reviewed |-> FALSE]
<1>3. row \in Entry /\ row.status = status /\ queue' = [queue EXCEPT ![e] = row]
  BY <1>1, <1>2 DEF Entry
<1> HIDE DEF row
<1>4. /\ queue'[e] = row
      /\ \A x \in Entries' : x # e => x \in Entries /\ queue'[x] = queue[x]
  BY <1>3, EntryAdded DEF IInv
<1>5. decisions \subseteq decisions' /\ (status = "approved" => DecidedBy(e, "approve")')
  <2>1. CASE status = "approved"
    BY <1>2, <2>1, DecisionRecorded DEF IInv, Action
  <2>2. CASE status # "approved"
    BY <1>2, <2>2 DEF Records
  <2> QED BY <2>1, <2>2
<1>6. \A x \in Entries : queue'[x] = queue[x]
  BY <1>3 DEF Entries, IInv, TypeOK
<1> QED BY <1>1, <1>3, <1>4, <1>5, <1>6, AppealsStay DEF Explained, SettledKept

LEMMA SeqSubmissions ==
    ASSUME OneSession, IInv, SeqInv, NEW w \in Worker, NEW c \in Content,
           \/ \E keyword \in Keyword, severe \in BOOLEAN : Create(w, c, keyword, severe)
           \/ \E tier \in AgeTier, keyword \in Keyword \cup {"none"}, severe \in BOOLEAN :
                Resubmit(w, c, tier, keyword, severe)
           \/ SendUnmoderated(w, c)
    PROVE  SeqInv' /\ SettledKept
<1>1. txn' = [txn EXCEPT ![w] = Idle] /\ UNCHANGED <<appeals, assignments>>
  BY DEF Create, Resubmit, SendUnmoderated, IInv, TypeOK
<1>2. Explained /\ SettledKept
  <2>1. CASE SendUnmoderated(w, c)
    BY <2>1, AppealsStay DEF SendUnmoderated, Explained, SettledKept, Entries
  <2>2. ASSUME NEW keyword \in Keyword, NEW severe \in BOOLEAN, Create(w, c, keyword, severe)
        PROVE  Explained /\ SettledKept
    BY <1>1, <2>2, SubmittedExplained DEF Create
  <2>3. ASSUME NEW tier \in AgeTier, NEW keyword \in Keyword \cup {"none"},
               NEW severe \in BOOLEAN, Resubmit(w, c, tier, keyword, severe)
        PROVE  Explained /\ SettledKept
    BY <1>1, <2>3, SubmittedExplained DEF Resubmit
  <2> QED BY <2>1, <2>2, <2>3
<1> QED BY <1>1, <1>2, AssignmentsStay, AppealsStay, SeqWriteStep

-----------------------------------------------------------------------------
(* A decision is on record, and settles only what was not. *)
LEMMA SeqDecideCommitStep ==
    ASSUME OneSession, IInv, SeqInv, NEW w \in Worker, DecideCommit(w)
    PROVE  SeqInv' /\ SettledKept
<1>1. txn[w] \in DecideTxn /\ Backed(txn[w]) /\ Current(txn[w]) /\ txn[w].op = "decide"
  BY TxnShape DEF DecideCommit, IInv, TypeOK, SessionsBacked, SeqInv, SessionsCurrent
<1>2. PICK action \in Action : action = txn[w].action
  BY <1>1 DEF DecideTxn
<1> DEFINE status == StatusOf(action)
<1>3. /\ status # "taken_down"
      /\ status = "approved" => action = "approve"
  BY DEF StatusOf, Action
<1>4. /\ queue' = DecidedQueue(w)
      /\ decisions' = decisions \cup
           [entry: Decided(w), action: {txn[w].action}, by: {"moderator"}]
      /\ txn' = [txn EXCEPT ![w] = Idle] /\ UNCHANGED <<shown, appeals>>
  BY DEF DecideCommit, End
<1>5. \A x \in EntryId :
        \/ queue'[x] = queue[x]
        \/ /\ x \in Decided(w) /\ x \in Entries /\ ~Settled(x)
           /\ queue'[x] = [queue[x] EXCEPT !.status = status]
  BY <1>1, <1>2, <1>4 DEF DecidedQueue, Decided, Backed, Current
<1> HIDE DEF status
<1>6. ASSUME NEW x \in EntryId
      PROVE  \/ queue'[x] = queue[x]
             \/ /\ x \in Decided(w) /\ x \in Entries /\ ~Settled(x)
                /\ queue'[x].status = status
  <2>1. x \in Entries => queue[x] \in Entry
    BY DEF IInv, TypeOK, Entries
  <2> QED BY <1>5, <2>1 DEF Entry
<1>7. \A x \in Decided(w) : DecidedBy(x, action)'
  <2> DEFINE new == [entry: Decided(w), action: {action}, by: {"moderator"}]
  <2>1. \A x \in Decided(w) :
          LET d == [entry |-> x, action |-> action, by |-> "moderator"]
          IN  d \in new /\ d.entry = x /\ d.action = action
    OBVIOUS
  <2>2. decisions' = decisions \cup new
    BY <1>2, <1>4
  <2> HIDE DEF new
  <2>3. \A x \in Decided(w) : \E d \in decisions' : d.entry = x /\ d.action = action
    BY <2>1, <2>2
  <2> QED BY <2>3 DEF DecidedBy
<1>8. Explained
  <2>1. decisions \subseteq decisions'
    BY <1>4
  <2>2. \A x \in Entries' : queue'[x] = queue[x] => x \in Entries
    BY DEF Entries
  <2>3. Entries' \subseteq EntryId
    BY DEF Entries
  <2>4. \A x \in Entries' : queue'[x].status = "approved" =>
          (x \in Entries /\ queue[x].status = "approved") \/ DecidedBy(x, "approve")'
    BY <1>3, <1>6, <1>7, <2>2, <2>3
  <2>5. ASSUME NEW x \in Entries', queue'[x].status = "taken_down"
        PROVE  x \in Entries /\ queue[x].status = "taken_down"
    <3>1. x \in EntryId
      BY <2>3
    <3>2. queue'[x].status # status
      BY <1>3, <2>5
    <3>3. queue'[x] = queue[x]
      BY <1>6, <3>1, <3>2
    <3> QED BY <2>2, <2>5, <3>3
  <2> QED BY <1>4, <2>1, <2>4, <2>5, AppealsStay DEF Explained
<1>9. SettledKept
  BY <1>6 DEF SettledKept, Settled, Entries
<1>10. ASSUME NEW e \in EntryId, NEW a \in Open(e)'  PROVE a \in Open(e)
  <2>1. a \in AssignmentId /\ assignments'[a].status = "assigned"
        /\ assignments'[a] # NoRow /\ assignments'[a].entry = e
    BY DEF Open
  <2>2. \/ assignments'[a] = assignments[a]
        \/ /\ assignments[a] # NoRow
           /\ assignments'[a] = [assignments[a] EXCEPT !.status = "completed"]
    BY <1>1, <2>1, RowAssumption DEF DecideCommit, Backed
  <2> QED BY <2>1, <2>2 DEF Open, IInv, TypeOK, Assignment
<1>11. OneAssignmentEach'
  BY <1>10 DEF SeqInv, OneAssignmentEach
<1> QED BY <1>4, <1>8, <1>9, <1>11, AppealsStay, SeqWriteStep

(* A takedown, an appeal and a ruling may change what is settled. *)
LEMMA SeqTakedownUpdateStep ==
    ASSUME OneSession, IInv, SeqInv, NEW w \in Worker, TakedownUpdate(w)
    PROVE  SeqInv' /\ SettledKept
<1>1. PICK e \in Entries : e = txn[w].entry /\ e \in EntryId
  BY TxnShape DEF TakedownUpdate, IInv, TypeOK, SessionsBacked, Backed, Entries
<1>2. /\ UNCHANGED queue \/ Changes("rejected", e)
      /\ decisions \subseteq decisions'
      /\ txn' = [txn EXCEPT ![w] = Idle] /\ UNCHANGED <<appeals, assignments>>
  BY <1>1 DEF TakedownUpdate, End, Records
<1>3. Explained
  BY <1>2, AppealsStay, StatusExplained DEF EntryStatus
<1>4. SettledKept
  BY DEF TakedownUpdate, SettledKept
<1> QED BY <1>2, <1>3, <1>4, AssignmentsStay, AppealsStay, SeqWriteStep

LEMMA SeqTakedownInsertStep ==
    ASSUME OneSession, IInv, SeqInv, NEW w \in Worker, TakedownInsert(w)
    PROVE  SeqInv' /\ SettledKept
<1> DEFINE row == [content |-> txn[w].content, status |-> "rejected", keyword |-> "none",
                   severe |-> FALSE, reviewed |-> FALSE]
<1>1. PICK e \in EntryId \ Entries :
        queue' = [queue EXCEPT ![e] = row] /\ Records(e, "reject", "takedown")
  BY DEF TakedownInsert
<1>2. row \in Entry /\ row.status = "rejected"
  BY TxnShape DEF TakedownInsert, IInv, TypeOK, Entry, EntryStatus
<1> HIDE DEF row
<1>3. /\ queue'[e] = row
      /\ \A x \in Entries' : x # e => x \in Entries /\ queue'[x] = queue[x]
  BY <1>1, <1>2, EntryAdded DEF IInv
<1>4. \A x \in Entries : queue'[x] = queue[x]
  BY <1>1 DEF Entries, IInv, TypeOK
<1>5. /\ decisions \subseteq decisions'
      /\ txn' = [txn EXCEPT ![w] = Idle] /\ UNCHANGED <<appeals, assignments>>
  BY <1>1 DEF TakedownInsert, End, Records
<1>6. Explained /\ SettledKept
  BY <1>2, <1>3, <1>4, <1>5, AppealsStay DEF Explained, SettledKept
<1> QED BY <1>5, <1>6, AssignmentsStay, AppealsStay, SeqWriteStep

(* The appeal is the only one of its user against the entry. *)
LEMMA SeqAppealWriteStep ==
    ASSUME OneSession, IInv, SeqInv, NEW w \in Worker, AppealWrite(w)
    PROVE  SeqInv' /\ SettledKept
<1>1. PICK e \in Entries, u \in Appellant : e = txn[w].entry /\ u = txn[w].by /\ e \in EntryId
  BY TxnShape DEF AppealWrite, IInv, TypeOK, SessionsBacked, Backed, Entries
<1>2. AppealsOf(e, u) = {}
  BY <1>1 DEF AppealWrite, SeqInv, SessionsCurrent, Current
<1> DEFINE row == [entry |-> e, by |-> u, status |-> "pending"]
<1>3. PICK a \in AppealId : appeals[a] = NoRow /\ appeals' = [appeals EXCEPT ![a] = row]
  BY <1>1 DEF AppealWrite
<1>4. /\ Changes("escalated", e) /\ UNCHANGED <<decisions, assignments>>
      /\ txn' = [txn EXCEPT ![w] = Idle]
  BY <1>1 DEF AppealWrite, End
<1>5. row.entry = e /\ row.by = u
  OBVIOUS
<1> HIDE DEF row
<1>6. appeals'[a] = row /\ \A x \in AppealId : x # a => appeals'[x] = appeals[x]
  BY <1>3 DEF IInv, TypeOK
<1>7. \A f \in EntryId, v \in Appellant : \A x \in AppealsOf(f, v)' :
        IF f = e /\ v = u THEN x = a ELSE x \in AppealsOf(f, v)
  BY <1>2, <1>5, <1>6 DEF AppealsOf
<1>8. OneAppealEach'
  BY <1>7 DEF SeqInv, OneAppealEach
<1>9. \A x \in Entries : RuledOn(x, "accepted") => RuledOn(x, "accepted")'
  BY <1>3, <1>6 DEF RuledOn
<1>10. Explained
  BY <1>4, <1>9, StatusExplained DEF EntryStatus
<1>11. SettledKept
  BY DEF AppealWrite, SettledKept
<1> QED BY <1>4, <1>8, <1>10, <1>11, AssignmentsStay, SeqWriteStep

(* A ruling is the author of the status it gives the entry; the appeal was pending,
   so that no earlier ruling is lost. *)
LEMMA SeqDecideAppealWriteStep ==
    ASSUME OneSession, IInv, SeqInv, NEW w \in Worker, NEW ruling \in {"accepted", "denied"},
           DecideAppealWrite(w, ruling)
    PROVE  SeqInv' /\ SettledKept
<1>1. PICK a \in AppealId : /\ a = txn[w].appeal /\ appeals[a] # NoRow
                            /\ appeals[a].status = "pending"
  BY TxnShape DEF DecideAppealWrite, IInv, TypeOK, SessionsBacked, Backed, SeqInv,
                  SessionsCurrent, Current
<1>2. PICK e \in Entries : e = appeals[a].entry
  BY <1>1 DEF IInv, AppealsHaveEntry
<1> DEFINE status == IF ruling = "accepted" THEN "approved" ELSE "rejected"
<1>3. /\ UNCHANGED queue \/ Changes(status, e)
      /\ appeals' = [appeals EXCEPT ![a].status = ruling]
      /\ UNCHANGED <<decisions, assignments>>
      /\ txn' = [txn EXCEPT ![w] = Idle]
  BY <1>1, <1>2 DEF DecideAppealWrite, End
<1>4. /\ \A x \in AppealId : x # a => appeals'[x] = appeals[x]
      /\ appeals'[a] = [appeals[a] EXCEPT !.status = ruling]
      /\ appeals[a] \in Appeal
  BY <1>1, <1>3 DEF IInv, TypeOK
<1>5. /\ appeals'[a] \in Appeal /\ appeals'[a].entry = e /\ appeals'[a].status = ruling
      /\ appeals'[a].by = appeals[a].by
  BY <1>2, <1>4 DEF Appeal
<1>6. status \in EntryStatus /\ status # "taken_down"
      /\ (status = "approved" => ruling = "accepted")
  BY DEF EntryStatus
<1> HIDE DEF status
<1>7. ruling = "accepted" => RuledOn(e, "accepted")'
  BY <1>5, RowAssumption DEF RuledOn
<1>8. \A x \in Entries : RuledOn(x, "accepted") => RuledOn(x, "accepted")'
  BY <1>1, <1>4 DEF RuledOn
<1>9. Explained
  BY <1>3, <1>6, <1>7, <1>8, StatusExplained
<1>10. ASSUME NEW f, NEW v, NEW x \in AppealsOf(f, v)'  PROVE x \in AppealsOf(f, v)
  <2>1. x \in AppealId /\ appeals'[x] # NoRow /\ appeals'[x].entry = f /\ appeals'[x].by = v
    BY DEF AppealsOf
  <2>2. appeals[x] # NoRow /\ appeals[x].entry = f /\ appeals[x].by = v
    BY <1>1, <1>2, <1>4, <1>5, <2>1
  <2> QED BY <2>1, <2>2 DEF AppealsOf
<1>11. OneAppealEach'
  BY <1>10 DEF SeqInv, OneAppealEach
<1>12. SettledKept
  BY DEF DecideAppealWrite, SettledKept
<1> QED BY <1>3, <1>9, <1>11, <1>12, AssignmentsStay, SeqWriteStep

(* The new assignment takes the place of the one that was found. *)
LEMMA SeqAssignWriteStep ==
    ASSUME OneSession, IInv, SeqInv, NEW w \in Worker, AssignWrite(w)
    PROVE  SeqInv' /\ SettledKept
<1>1. PICK e \in EntryId, old \in AssignmentId \cup {NoRow} :
        e = txn[w].entry /\ old = txn[w].old
  BY TxnShape DEF AssignWrite, IInv, TypeOK
<1>2. Open(e) \subseteq {old} /\ (old # NoRow => assignments[old] # NoRow)
  BY <1>1 DEF AssignWrite, SeqInv, SessionsCurrent, Current, IInv, SessionsBacked, Backed
<1>3. PICK b \in AssignmentId :
        /\ assignments[b] = NoRow
        /\ assignments' = [x \in AssignmentId |->
             IF x = b THEN [entry |-> e, status |-> "assigned"]
             ELSE IF x = old THEN [assignments[x] EXCEPT !.status = "reassigned"]
             ELSE assignments[x]]
  BY <1>1 DEF AssignWrite
<1>4. UNCHANGED <<queue, decisions, appeals>> /\ txn' = [txn EXCEPT ![w] = Idle]
  BY DEF AssignWrite, End
<1>5. ASSUME NEW f \in EntryId, NEW x \in Open(f)'
      PROVE  IF f = e THEN x = b ELSE x \in Open(f)
  <2>1. x \in AssignmentId /\ assignments'[x] # NoRow /\ assignments'[x].entry = f
        /\ assignments'[x].status = "assigned"
    BY DEF Open
  <2>2. CASE x = b
    BY <1>3, <2>1, <2>2
  <2>3. CASE x # b /\ x = old
    <3>1. assignments[x] \in Assignment
      BY <1>2, <2>1, <2>3, RowAssumption DEF IInv, TypeOK
    <3>2. assignments'[x] = [assignments[x] EXCEPT !.status = "reassigned"]
      BY <1>3, <2>1, <2>3
    <3> QED BY <2>1, <3>1, <3>2 DEF Assignment
  <2>4. CASE x # b /\ x # old
    <3>1. x \in Open(f)
      BY <1>3, <2>1, <2>4 DEF Open
    <3> QED BY <1>2, <2>4, <3>1
  <2> QED BY <2>2, <2>3, <2>4
<1>6. OneAssignmentEach'
  BY <1>5 DEF SeqInv, OneAssignmentEach
<1>7. Explained /\ SettledKept
  BY <1>4, AppealsStay DEF Explained, SettledKept, Entries
<1> QED BY <1>4, <1>6, <1>7, AppealsStay, SeqWriteStep

(* A review looks at what is not settled, and records what it takes down. *)
LEMMA SeqReviewWriteStep ==
    ASSUME OneSession, IInv, SeqInv, NEW w \in Worker,
           NEW finding \in {"clean", "medium", "high"}, ReviewWrite(w, finding)
    PROVE  SeqInv' /\ SettledKept
<1>1. PICK e \in Entries : e = txn[w].entry /\ e \in EntryId
  BY TxnShape DEF ReviewWrite, IInv, TypeOK, SessionsBacked, Backed, Entries
<1>2. ~Settled(e)
  BY <1>1 DEF ReviewWrite, SeqInv, SessionsCurrent, Current
<1> DEFINE status == CASE finding = "clean" -> queue[e].status
                       [] finding = "medium" -> "flagged"
                       [] finding = "high" -> "taken_down"
           row == [queue[e] EXCEPT !.reviewed = TRUE, !.status = status]
<1>3. queue[e] \in Entry
  BY DEF IInv, TypeOK, Entries
<1>4. /\ queue'[e] = row
      /\ \A x \in EntryId : x # e => queue'[x] = queue[x]
  BY <1>1, <1>3 DEF ReviewWrite, IInv, TypeOK, Entry
<1>5. /\ status \in EntryStatus
      /\ status = "approved" => queue[e].status = "approved"
      /\ status = "taken_down" => queue[e].status = "taken_down" \/ finding = "high"
  BY <1>3 DEF Entry, EntryStatus
<1> HIDE DEF status
<1>6. queue'[e].status = status
  BY <1>3, <1>4, <1>5 DEF Entry
<1>7. /\ decisions \subseteq decisions'
      /\ finding = "high" => DecidedBy(e, "reject")'
  <2>1. decisions \subseteq decisions'
    BY DEF ReviewWrite, Records
  <2>2. finding = "high" => Records(e, "reject", "review")
    BY <1>1 DEF ReviewWrite
  <2>3. finding = "high" => DecidedBy(e, "reject")'
    BY <1>1, <2>2, DecisionRecorded DEF IInv, Action
  <2> QED BY <2>1, <2>3
<1>8. UNCHANGED <<appeals, assignments>> /\ txn' = [txn EXCEPT ![w] = Idle]
  BY DEF ReviewWrite, End
<1>9. \A x \in Entries' : x # e => x \in Entries /\ queue'[x] = queue[x]
  BY <1>4 DEF Entries
<1>10. Explained
  BY <1>5, <1>6, <1>7, <1>8, <1>9, AppealsStay DEF Explained
<1>11. SettledKept
  BY <1>2, <1>4 DEF SettledKept, Settled, Entries
<1> QED BY <1>8, <1>10, <1>11, AssignmentsStay, AppealsStay, SeqWriteStep

-----------------------------------------------------------------------------
(* A decision goes on with what is not settled. *)
LEMMA SeqDecideReadStep ==
    ASSUME IInv, SeqInv, NEW w \in Worker, DecideRead(w)  PROVE SeqInv' /\ SettledKept
<1>1. txn[w] \in DecideTxn /\ Current(txn[w]) /\ txn[w].op = "decide" /\ UNCHANGED tables
  BY TxnShape DEF DecideRead, IInv, TypeOK, SeqInv, SessionsCurrent
<1>2. PICK e \in txn[w].todo :
        LET found == IF txn[w].bulk THEN Open(e) ELSE {}
            next(read) == [txn EXCEPT ![w].todo = @ \ {e}, ![w].read = read]
        IN  txn' = IF Settled(e) THEN next(txn[w].read)
                   ELSE IF Cardinality(found) > 1 THEN [txn EXCEPT ![w] = Idle]
                   ELSE next(txn[w].read \cup
                             {[entry |-> e, seen |-> queue[e].status,
                               assignment |-> IF found = {} THEN NoRow
                                              ELSE CHOOSE a \in found : TRUE]})
  BY DEF DecideRead
<1> DEFINE found == IF txn[w].bulk THEN Open(e) ELSE {}
           snap == [entry |-> e, seen |-> queue[e].status,
                    assignment |-> IF found = {} THEN NoRow ELSE CHOOSE a \in found : TRUE]
           next(read) == [txn[w] EXCEPT !.todo = @ \ {e}, !.read = read]
<1>3. snap.entry = e
  OBVIOUS
<1>4. \/ txn' = [txn EXCEPT ![w] = Idle]
      \/ \E read : /\ read = txn[w].read \/ (~Settled(e) /\ read = txn[w].read \cup {snap})
                   /\ txn' = [txn EXCEPT ![w] = next(read)]
  BY <1>2 DEF IInv, TypeOK
<1>5. CASE txn' = [txn EXCEPT ![w] = Idle]
  <2>1. Current(Idle)
    BY DEF Current, Idle
  <2> QED BY <1>1, <1>5, <2>1, SeqReadStep
<1> HIDE DEF snap
<1>6. ASSUME NEW read,
             read = txn[w].read \/ (~Settled(e) /\ read = txn[w].read \cup {snap}),
             txn' = [txn EXCEPT ![w] = next(read)]
      PROVE  SeqInv' /\ SettledKept
  <2> DEFINE t == next(read)
  <2>1. t.op = "decide" /\ t.read = read
    BY <1>1 DEF DecideTxn
  <2>2. \A s \in read : ~Settled(s.entry)
    BY <1>1, <1>3, <1>6 DEF Current
  <2>3. txn' = [txn EXCEPT ![w] = t]
    BY <1>6
  <2> HIDE DEF t
  <2>4. Current(t)
    BY <2>1, <2>2 DEF Current
  <2> QED BY <1>1, <2>3, <2>4, SeqReadStep
<1> QED BY <1>4, <1>5, <1>6

LEMMA SeqDecideAppealReadEntryStep ==
    ASSUME IInv, SeqInv, NEW w \in Worker, DecideAppealReadEntry(w)
    PROVE  SeqInv' /\ SettledKept
<1>1. txn[w] \in [op: {"decide_appeal"}, appeal: AppealId, seen: EntryStatus \cup {NoRow}]
  BY DEF DecideAppealReadEntry, IInv, TypeOK, Txn, Idle
<1>2. Current(txn[w])
  BY DEF SeqInv, SessionsCurrent
<1> DEFINE t == [txn[w] EXCEPT !.seen = queue[appeals[txn[w].appeal].entry].status]
<1>3. t.appeal = txn[w].appeal /\ t.op = "decide_appeal"
  BY <1>1
<1>4. txn' = [txn EXCEPT ![w] = t] /\ UNCHANGED tables
  BY DEF DecideAppealReadEntry, IInv, TypeOK
<1> HIDE DEF t
<1>5. Current(t)
  BY <1>1, <1>2, <1>3 DEF Current
<1> QED BY <1>4, <1>5, SeqReadStep

(* The other selects. *)
LEMMA SeqReads ==
    ASSUME IInv, SeqInv, NEW w \in Worker,
           \/ \E c \in Content : TakedownRead(w, c)
           \/ \E es \in SUBSET Entries, action \in Action, bulk \in BOOLEAN :
                DecideStart(w, es, action, bulk)
           \/ \E e \in EntryId, u \in Appellant : AppealRead(w, e, u)
           \/ \E a \in AppealId : DecideAppealRead(w, a)
           \/ \E e \in EntryId : ReviewRead(w, e)
           \/ Rollback(w)
    PROVE  SeqInv' /\ SettledKept
<1> SUFFICES \E t : Current(t) /\ txn' = [txn EXCEPT ![w] = t] /\ UNCHANGED tables
  BY SeqReadStep
<1>1. ASSUME NEW es, NEW action, NEW bulk
      PROVE  Current([op |-> "decide", action |-> action, bulk |-> bulk, todo |-> es,
                      read |-> {}])
  BY DEF Current
<1>2. ASSUME NEW c  PROVE Current([op |-> "takedown_insert", content |-> c])
  BY DEF Current
<1>3. ASSUME NEW e, NEW seen
      PROVE  Current([op |-> "takedown_update", entry |-> e, seen |-> seen])
  BY DEF Current
<1>4. ASSUME NEW e, NEW u, AppealsOf(e, u) = {}
      PROVE  Current([op |-> "appeal", entry |-> e, by |-> u])
  BY <1>4 DEF Current
<1>5. ASSUME NEW a, appeals[a].status = "pending"
      PROVE  Current([op |-> "decide_appeal", appeal |-> a, seen |-> NoRow])
  BY <1>5 DEF Current
<1>6. ASSUME NEW e, ~Settled(e)  PROVE Current([op |-> "review", entry |-> e])
  BY <1>6 DEF Current
<1>7. Current(Idle)
  BY DEF Current, Idle
<1>8. ASSUME NEW e \in EntryId, ReviewRead(w, e)  PROVE ~Settled(e)
  BY <1>8 DEF ReviewRead, Settled
<1> QED BY <1>1, <1>2, <1>3, <1>4, <1>5, <1>6, <1>7, <1>8
        DEF Begin, End, TakedownRead, DecideStart, AppealRead, MayAppeal, DecideAppealRead,
            ReviewRead, Rollback

(* What is replaced is the only assignment that is open. *)
LEMMA SeqAssignReadStep ==
    ASSUME IInv, SeqInv, NEW w \in Worker, NEW e \in EntryId, AssignRead(w, e)
    PROVE  SeqInv' /\ SettledKept
<1> DEFINE old == IF Open(e) = {} THEN NoRow ELSE CHOOSE a \in Open(e) : TRUE
           t == [op |-> "assign", entry |-> e, old |-> old]
<1>1. Open(e) \subseteq {old}
  BY DEF SeqInv, OneAssignmentEach
<1>2. txn' = [txn EXCEPT ![w] = t] /\ UNCHANGED tables
  BY DEF AssignRead, Begin
<1> HIDE DEF old
<1>3. Current(t)
  BY <1>1 DEF Current
<1> HIDE DEF t
<1> QED BY <1>2, <1>3, SeqReadStep

LEMMA NextSeqInv == ASSUME OneSession, IInv, SeqInv, Next  PROVE SeqInv' /\ SettledKept
<1> SUFFICES ASSUME NEW w \in Worker, WorkerStep(w)  PROVE SeqInv' /\ SettledKept
  BY DEF Next
<1> QED BY SeqSubmissions, SeqDecideReadStep, SeqDecideCommitStep, SeqTakedownUpdateStep,
           SeqTakedownInsertStep, SeqAppealWriteStep, SeqDecideAppealReadEntryStep,
           SeqDecideAppealWriteStep, SeqAssignReadStep, SeqAssignWriteStep,
           SeqReviewWriteStep, SeqReads
        DEF WorkerStep

THEOREM AlwaysSeqInv == ASSUME OneSession  PROVE Spec => []SeqInv
<1>1. IInv /\ SeqInv /\ [Next]_vars => SeqInv'
  <2>1. SeqInv /\ UNCHANGED vars => SeqInv'
    BY DEF vars, SeqInv, SessionsCurrent, Current, Settled, AppealsOf, Open, ApprovalsOnRecord,
           TakedownsOnRecord, Entries, DecidedBy, RuledOn, OneAssignmentEach, OneAppealEach
  <2> QED BY <2>1, NextSeqInv
<1> QED BY <1>1, InitSeqInv, AlwaysIInv, PTL DEF Spec

(* Every outcome has its author: with one session at a time no sequence of
   submissions, decisions, takedowns, appeals, rulings and reviews leaves an entry
   approved, rejected or taken down by nobody. *)
THEOREM OutcomesHaveAuthors == ASSUME OneSession  PROVE Spec => []OutcomeOnRecord
<1>1. IInv /\ SeqInv => OutcomeOnRecord
  BY DEF IInv, RejectionsOnRecord, SeqInv, ApprovalsOnRecord, TakedownsOnRecord, OutcomeOnRecord
<1> QED BY <1>1, AlwaysIInv, AlwaysSeqInv, PTL

LEMMA AtMostOne ==
    ASSUME NEW S, \A x, y \in S : x = y
    PROVE  Cardinality(S) <= 1
<1>1. CASE S = {}
  BY <1>1, FS_EmptySet
<1>2. CASE S # {}
  <2>1. PICK x \in S : S = {x}
    BY <1>2
  <2> QED BY <2>1, FS_Singleton
<1> QED BY <1>1, <1>2

(* assign_moderator and create_appeal: with one session at a time, neither ever adds
   a second open assignment of an entry, or a second appeal of a user. *)
THEOREM NoSecondRow == ASSUME OneSession  PROVE Spec => []OneOfEach
<1>1. SeqInv => OneOfEach
  BY AtMostOne DEF SeqInv, OneAssignmentEach, OneAppealEach, OneOfEach
<1> QED BY <1>1, AlwaysSeqInv, PTL

(* What a moderator settled, only a takedown, an appeal or a ruling changes: neither
   a decision that skips settled entries nor a background review does. *)
THEOREM SettledStaysSettled == ASSUME OneSession  PROVE Spec => SettledStays
<1>1. IInv /\ SeqInv /\ [Next]_vars =>
        [\A e \in Entries :
          queue[e].status \in {"approved", "rejected"} /\ queue'[e].status # queue[e].status =>
         \E w \in Worker : txn[w].op \in {"takedown_update", "appeal", "decide_appeal"}]_vars
  BY NextSeqInv DEF SettledKept
<1> QED BY <1>1, AlwaysIInv, AlwaysSeqInv, PTL DEF Spec, SettledStays
=============================================================================

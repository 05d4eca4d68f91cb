------------------------------ MODULE Learning ------------------------------
(***************************************************************************)
(* The courses of one child (src/src/literacy/service.py), the progress    *)
(* that is counted from their assessments, and the reward for them         *)
(* (src/src/groups/rewards.py), which a daily job and the parents' pages   *)
(* ask for.  The other rewards are granted in the same way for what a      *)
(* week of risk events or captures shows.                                  *)
(*                                                                         *)
(* No table has a unique constraint.  Nothing here calls redeem_reward.    *)
(***************************************************************************)
EXTENDS FiniteSets, Integers, Sessions

CONSTANTS
    Course,        \* literacy_modules
    AssessmentId,  \* primary keys of literacy_assessments (bounds the rows)
    ProgressId,    \* of literacy_progress
    RewardId,      \* of rewards
    Week,          \* seven days
    LastDay        \* bounds the days

ASSUME LearningAssumption == Week \in Nat /\ LastDay \in Nat /\ IsFiniteSet(Course)

VARIABLES
    today,
    assessments,  \* table literacy_assessments
    progress,     \* table literacy_progress: modules_completed
    rewards       \* table rewards: earned_at

learningTables == <<today, assessments, progress, rewards>>
learningVars == <<today, assessments, progress, rewards, txn, overlap>>

Day == 0..LastDay
Assessment == [course: Course, completed: Day]
CourseCount == 1..Cardinality(Course)

ASSUME ProgressAssumption == NoRow \notin ProgressId \cup Assessment \cup Day \cup CourseCount

LearningTxn ==
    {Idle}
    \cup [op: {"submit"}, course: Course, day: Day, counted: CourseCount,
          found: ProgressId \cup {NoRow}, read: CourseCount \cup {NoRow}]
    \cup [op: {"award"}, day: Day]

LearningTypeOK ==
    /\ today \in Day
    /\ assessments \in [AssessmentId -> Assessment \cup {NoRow}]
    /\ progress \in [ProgressId -> CourseCount \cup {NoRow}]
    /\ rewards \in [RewardId -> Day \cup {NoRow}]
    /\ txn \in [Worker -> LearningTxn]

LearningTablesInit ==
    /\ today = 0
    /\ assessments = [a \in AssessmentId |-> NoRow]
    /\ progress = [p \in ProgressId |-> NoRow]
    /\ rewards = [r \in RewardId |-> NoRow]

LearningInit == LearningTablesInit /\ SessionsInit

RowsIn(table) == {k \in DOMAIN table : table[k] # NoRow}
Assessed == {assessments[a].course : a \in RowsIn(assessments)}

-----------------------------------------------------------------------------
(* submit_assessment inserts the assessment and, with it, counts the courses. *)

(* Seeded fault: counted before the assessment is inserted. *)
CountedWithout(course) == IF Assessed = {} THEN 1 ELSE Cardinality(Assessed)

CountedWith(course) == Cardinality(Assessed \cup {course})

SubmitRead(w, course) ==
    /\ Cardinality(RowsIn(progress)) <= 1    \* scalar_one_or_none
    /\ LET p == IF RowsIn(progress) = {} THEN NoRow ELSE CHOOSE q \in RowsIn(progress) : TRUE
       IN Begin(w, [op |-> "submit", course |-> course, day |-> today,
                    counted |-> CountedWith(course), found |-> p,
                    read |-> IF p = NoRow THEN NoRow ELSE progress[p]])
    /\ UNCHANGED learningTables

SubmitWrite(w) ==
    /\ Open(w, "submit") /\ Room(assessments)
    /\ LET s == txn[w] IN
         /\ assessments' = Inserted(assessments, [course |-> s.course, completed |-> s.day])
         /\ \/ s.found = NoRow /\ Room(progress) /\ progress' = Inserted(progress, s.counted)
            \/ s.found # NoRow /\ s.counted = s.read /\ UNCHANGED progress
            \/ /\ s.found # NoRow /\ s.counted # s.read
               /\ progress' = [progress EXCEPT ![s.found] = s.counted]
    /\ End(w)
    /\ UNCHANGED <<today, rewards>>

-----------------------------------------------------------------------------
(* check_and_award_rewards *)

(* Seeded fault: the seventh day counts for the assessment, not for the reward. *)
AwardedWithin(days) == \E r \in RowsIn(rewards) : rewards[r] > today - days

AwardedSince(days) == \E r \in RowsIn(rewards) : rewards[r] >= today - days

AssessedSince(days) == \E a \in RowsIn(assessments) : assessments[a].completed >= today - days

AwardRead(w) ==
    /\ ~AwardedSince(Week) /\ AssessedSince(Week)
    /\ Begin(w, [op |-> "award", day |-> today])
    /\ UNCHANGED learningTables

AwardWrite(w) ==
    /\ Open(w, "award") /\ Room(rewards)
    /\ rewards' = Inserted(rewards, txn[w].day)
    /\ End(w)
    /\ UNCHANGED <<today, assessments, progress>>

DayPasses ==
    /\ today < LastDay /\ \A w \in Worker : txn[w] = Idle   \* sessions take seconds
    /\ today' = today + 1
    /\ UNCHANGED <<assessments, progress, rewards, sessions>>

LearningNext ==
    \/ \E w \in Worker :
         \/ \E course \in Course : SubmitRead(w, course)
         \/ SubmitWrite(w) \/ AwardRead(w) \/ AwardWrite(w)
         \/ Abandon(w) /\ UNCHANGED learningTables
    \/ DayPasses

LearningSpec == LearningInit /\ [][LearningNext]_learningVars

-----------------------------------------------------------------------------
(* "The same trigger hasn't already been awarded this week": along any sequence of
   assessments, days and checks, each reward has an assessment of its own within
   the week before it, so that no assessment is paid for twice, unless two checks
   overlap. *)
PaidBy(r) == {a \in RowsIn(assessments) : assessments[a].completed \in rewards[r] - Week..rewards[r]}
RewardsAreEarned == \A r \in RowsIn(rewards) :
    /\ PaidBy(r) # {}
    /\ ~overlap => \A q \in RowsIn(rewards) : q # r => PaidBy(q) \cap PaidBy(r) = {}

(* "Recalculate and upsert progress": the progress is that of the courses assessed
   as long as sessions do not overlap.  Where they do, two first assessments leave
   two rows, after which no assessment is accepted any more, and two assessments
   at once leave a count that misses one; it never counts one too many. *)
ProgressCounts == \A p \in RowsIn(progress) :
    /\ progress[p] <= Cardinality(Assessed)
    /\ ~overlap => progress[p] = Cardinality(Assessed) /\ RowsIn(progress) = {p}
=============================================================================

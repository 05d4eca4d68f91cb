----------------------------- MODULE AutoBlocks -----------------------------
(***************************************************************************)
(* Automatic rules, bedtime among them, and the blocks a job makes and     *)
(* lifts for them (src/src/blocking/service.py).  Blocks are counted, by   *)
(* rule and member, up to MaxBlocks; their other properties are left out.  *)
(***************************************************************************)
EXTENDS FiniteSetsExt, Naturals, Sessions

CONSTANTS
    Pupil,       \* members the rules are about
    Everyone,    \* a rule without member_id: all members
    AutoRuleId,  \* primary keys of auto_block_rules
    MaxBlocks    \* bound on the active blocks of one rule and member

ASSUME MaxBlocksAssumption == MaxBlocks \in Nat \ {0}

VARIABLES
    autoRules,   \* table auto_block_rules
    due,         \* rules whose threshold is reached or whose time window is open
    blocks,      \* active rows of block_rules with auto_rule_id, by rule and member
    unlinked     \* rules no row of block_rules, active or not, refers to

autoBlocksTables == <<autoRules, due, blocks, unlinked>>
autoBlocksVars == <<autoRules, due, blocks, unlinked, txn, overlap>>

AutoRule == [target: Pupil \cup {Everyone}, scheduled: BOOLEAN, active: BOOLEAN]

AutoBlocksTxn ==
    {Idle}
    \cup [op: {"evaluate"}, fired: SUBSET AutoRuleId, lifted: SUBSET AutoRuleId]

AutoBlocksTypeOK ==
    /\ autoRules \in [AutoRuleId -> AutoRule \cup {NoRow}]
    /\ due \subseteq AutoRuleId /\ unlinked \subseteq AutoRuleId
    /\ blocks \in [AutoRuleId -> [Pupil -> 0..MaxBlocks]]
    /\ txn \in [Worker -> AutoBlocksTxn] /\ overlap \in BOOLEAN

AutoBlocksTablesInit ==
    /\ autoRules = [r \in AutoRuleId |-> NoRow]
    /\ due = {} /\ unlinked = AutoRuleId
    /\ blocks = [r \in AutoRuleId |-> [m \in Pupil |-> 0]]

AutoBlocksInit == AutoBlocksTablesInit /\ SessionsInit

Rules == {r \in AutoRuleId : autoRules[r] # NoRow}
Count(r) == MapThenSumSet(LAMBDA m : blocks[r][m], Pupil)

-----------------------------------------------------------------------------
(* The parent's actions.  set_bedtime_mode makes or updates a scheduled rule;
   delete_auto_block_rule fails while a block, active or not, refers to the rule,
   delete_bedtime_mode unlinks them first. *)

RuleCreated(w, target, scheduled) ==
    /\ Free(w) /\ Room(autoRules)
    /\ autoRules' = Inserted(autoRules,
         [target |-> target, scheduled |-> scheduled, active |-> TRUE])
    /\ UNCHANGED <<due, blocks, unlinked, sessions>>

RuleUpdated(w, r, active) ==
    /\ Free(w) /\ r \in Rules
    /\ autoRules' = [autoRules EXCEPT ![r].active = active]
    /\ UNCHANGED <<due, blocks, unlinked, sessions>>

RuleDeleted(w, r) ==
    /\ Free(w) /\ r \in Rules \cap unlinked
    /\ autoRules' = [autoRules EXCEPT ![r] = NoRow]
    /\ UNCHANGED <<due, blocks, unlinked, sessions>>

BedtimeDeleted(w, r) ==
    /\ Free(w) /\ r \in Rules
    /\ autoRules[r].scheduled /\ autoRules[r].target # Everyone
    /\ autoRules' = [autoRules EXCEPT ![r] = NoRow]
    /\ blocks' = [blocks EXCEPT ![r] = [m \in Pupil |-> 0]]
    /\ unlinked' = unlinked \cup {r}
    /\ UNCHANGED <<due, sessions>>

BlockRevoked(w, r, m) ==
    /\ Free(w) /\ blocks[r][m] > 0
    /\ blocks' = [blocks EXCEPT ![r][m] = @ - 1]
    /\ UNCHANGED <<autoRules, due, unlinked, sessions>>

(* The world: events pile up and fall out of the window, the clock enters and
   leaves a schedule. *)
DueChanges(r) ==
    /\ due' = IF r \in due THEN due \ {r} ELSE due \cup {r}
    /\ UNCHANGED <<autoRules, blocks, unlinked, sessions>>

-----------------------------------------------------------------------------
(* evaluate_auto_block_rules.  The query for a block of the rule raises on a
   second one; the rules evaluated before, in any order, keep their effect. *)

Asked(r) == autoRules[r].scheduled \/ r \in due
Evaluated == {r \in Rules : autoRules[r].active}
Raising == {r \in Evaluated : Asked(r) /\ Count(r) > 1}

Fires(r) == r \in due /\ Count(r) = 0

(* Seeded fault: the block of a schedule outlives it. *)
LiftsNever(r) == FALSE

Lifts(r) == autoRules[r].scheduled /\ r \notin due /\ Count(r) = 1

EvaluateRead(w) ==
    /\ \E reached \in IF Raising = {} THEN {Evaluated} ELSE SUBSET (Evaluated \ Raising) :
         Begin(w, [op |-> "evaluate", fired |-> {r \in reached : Fires(r)},
                   lifted |-> {r \in reached : Lifts(r)}])
    /\ UNCHANGED autoBlocksTables

(* The members a rule blocks as it fires: for a number of risk events those who
   have any. *)
Hit(r) ==
    IF autoRules[r].target # Everyone THEN {{autoRules[r].target}}
    ELSE IF autoRules[r].scheduled THEN {Pupil} ELSE SUBSET Pupil \ {{}}

(* A block to lift that another session has revoked meanwhile stays so. *)
Evaluation(w, r) ==
    IF r \in txn[w].fired
    THEN {[m \in Pupil |-> IF m \in hit THEN blocks[r][m] + 1 ELSE blocks[r][m]] : hit \in Hit(r)}
    ELSE IF r \in txn[w].lifted
    THEN {[blocks[r] EXCEPT ![m] = @ - 1] : m \in {n \in Pupil : blocks[r][n] > 0}}
           \cup (IF overlap THEN {blocks[r]} ELSE {})
    ELSE {blocks[r]}

EvaluateWrite(w) ==
    /\ Open(w, "evaluate")
    /\ txn[w].fired \subseteq Rules   \* foreign key
    /\ blocks' \in [AutoRuleId -> [Pupil -> 0..MaxBlocks]]
    /\ \A r \in AutoRuleId : blocks'[r] \in Evaluation(w, r)
    /\ unlinked' = unlinked \ txn[w].fired
    /\ End(w)
    /\ UNCHANGED <<autoRules, due>>

EvaluateEnds(w) ==
    \/ EvaluateWrite(w)
    \/ Abandon(w) /\ UNCHANGED autoBlocksTables

AutoBlocksStep(w) ==
    \/ \E target \in Pupil \cup {Everyone}, scheduled \in BOOLEAN : RuleCreated(w, target, scheduled)
    \/ \E r \in AutoRuleId :
         \/ \E active \in BOOLEAN : RuleUpdated(w, r, active)
         \/ RuleDeleted(w, r) \/ BedtimeDeleted(w, r)
         \/ \E m \in Pupil : BlockRevoked(w, r, m)
    \/ EvaluateRead(w) \/ EvaluateEnds(w)

AutoBlocksNext ==
    \/ \E w \in Worker : AutoBlocksStep(w)
    \/ \E r \in AutoRuleId : DueChanges(r)

(* No session stays open; the cron evaluates the rules every five minutes, and
   not every run of it is cut off. *)
AutoBlocksFairness == \A w \in Worker :
    /\ WF_autoBlocksVars(EvaluateEnds(w))
    /\ SF_autoBlocksVars(EvaluateRead(w))
    /\ SF_autoBlocksVars(EvaluateWrite(w))

AutoBlocksSpec == AutoBlocksInit /\ [][AutoBlocksNext]_autoBlocksVars /\ AutoBlocksFairness

-----------------------------------------------------------------------------
(* "Evaluate all active auto block rules": what an active rule asks for is done
   in the end, a member within a schedule blocked and outside it freed, unless
   a rule for everyone has blocked several members at once: it raises then, and
   which other rules the run still reaches depends on their order. *)
Asks(r) == \/ r \in due /\ Count(r) = 0
           \/ r \notin due /\ Count(r) = 1 /\ autoRules[r].scheduled

RulesTakeEffect == \A r \in AutoRuleId :
    (~overlap /\ r \in Evaluated /\ Asks(r))
      ~> (Raising # {} \/ r \notin Evaluated \/ ~Asks(r))
=============================================================================

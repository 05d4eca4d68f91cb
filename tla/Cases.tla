-------------------------------- MODULE Cases --------------------------------
(***************************************************************************)
(* One case of cyberbullying and its workflow                              *)
(* (src/src/compliance/australian.py).  The steps are one JSON column,     *)
(* read, changed and written whole.                                        *)
(***************************************************************************)
EXTENDS Sessions

CONSTANTS
    WorkflowStep,  \* CYBERBULLYING_WORKFLOW_STEPS
    Detect,        \* the one that is completed from the start
    Resolve        \* the one that closing completes

ASSUME CasesAssumption == {Detect, Resolve} \subseteq WorkflowStep /\ Detect # Resolve

VARIABLES
    steps,     \* workflow_steps: those completed
    closed,    \* status
    answered   \* steps whose completion was answered to a caller (history)

casesTables == <<steps, closed, answered>>
casesVars == <<steps, closed, answered, txn, overlap>>

CasesTxn ==
    {Idle}
    \cup [op: {"advance", "close"}, step: WorkflowStep, read: SUBSET WorkflowStep]

CasesTypeOK ==
    /\ steps \subseteq WorkflowStep
    /\ closed \in BOOLEAN
    /\ answered \subseteq WorkflowStep
    /\ txn \in [Worker -> CasesTxn]

CasesTablesInit == steps = {Detect} /\ closed = FALSE /\ answered = {Detect}

CasesInit == CasesTablesInit /\ SessionsInit

-----------------------------------------------------------------------------
(* advance_cyberbullying_workflow: any step, in any order, of a closed case too. *)
AdvanceRead(w, step) ==
    /\ Begin(w, [op |-> "advance", step |-> step, read |-> steps])
    /\ UNCHANGED casesTables

CloseRead(w) ==
    /\ ~closed
    /\ Begin(w, [op |-> "close", step |-> Resolve, read |-> steps])
    /\ UNCHANGED casesTables

(* Seeded fault: the steps are those of the workflow up to this one alone. *)
OnlyThisStep(read, step) == {Detect, step}

Completing(read, step) == read \cup {step}

CaseWrite(w) ==
    /\ txn[w] # Idle
    /\ steps' = Completing(txn[w].read, txn[w].step)
    /\ closed' = (closed \/ Open(w, "close"))
    /\ answered' = answered \cup {txn[w].step}
    /\ End(w)

CasesNext == \E w \in Worker :
    \/ \E step \in WorkflowStep : AdvanceRead(w, step)
    \/ CloseRead(w) \/ CaseWrite(w)
    \/ Abandon(w) /\ UNCHANGED casesTables

CasesSpec == CasesInit /\ [][CasesNext]_casesVars

-----------------------------------------------------------------------------
(* A case keeps a record of every step that a caller was told is completed, and a
   closed one is resolved, as long as no two sessions overlap; where they do, the
   later write takes back the step of the earlier, but never adds one that nobody
   completed. *)
StepsAreKept ==
    /\ steps \subseteq answered
    /\ ~overlap => steps = answered /\ (closed => Resolve \in steps)
=============================================================================

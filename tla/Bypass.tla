------------------------------- MODULE Bypass -------------------------------
(***************************************************************************)
(* Attempts to get around the monitoring and the block that the third one  *)
(* within the hour brings (src/src/blocking/vpn_detection.py, service.py). *)
(* A repeated report of one attempt is coalesced and changes nothing, and  *)
(* the alert that goes with an attempt is left out.                        *)
(***************************************************************************)
EXTENDS Naturals, Sessions

CONSTANTS
    BypassThreshold,  \* AUTO_BLOCK_THRESHOLD
    MaxBypassBlocks   \* bound on the active blocks of one member

ASSUME BypassAssumption == BypassThreshold \in Nat \ {0} /\ MaxBypassBlocks \in Nat \ {0}

VARIABLES
    attempts,  \* rows of bypass_attempts of the last hour, by member; a fifth is not
               \* counted, for one beyond the threshold behaves as the next
    bypass     \* active rows of block_rules for bypassing: in force, expired

bypassTables == <<attempts, bypass>>
bypassVars == <<attempts, bypass, txn, overlap>>

BypassTypeOK ==
    /\ attempts \in [Member -> 0..BypassThreshold + 1]
    /\ bypass \in [Member -> [live: 0..MaxBypassBlocks, expired: 0..MaxBypassBlocks]]
    /\ txn \in [Worker -> {Idle} \cup [op: {"attempt"}, member: Member, block: BOOLEAN]]
    /\ overlap \in BOOLEAN

BypassTablesInit ==
    /\ attempts = [m \in Member |-> 0]
    /\ bypass = [m \in Member |-> [live |-> 0, expired |-> 0]]

BypassInit == BypassTablesInit /\ SessionsInit

-----------------------------------------------------------------------------
(* record_bypass_attempt and maybe_auto_block, whose query for the block raises
   on a second one.  An expired block counts until get_active_blocks, which the
   extension polls, has deactivated it. *)

(* Seeded fault: the block that is there already is not looked for. *)
BlocksAgain(m) == attempts[m] + 1 >= BypassThreshold

BlocksNow(m) == attempts[m] + 1 >= BypassThreshold /\ bypass[m] = [live |-> 0, expired |-> 0]

AttemptRead(w, m) ==
    /\ attempts[m] + 1 >= BypassThreshold => bypass[m].live + bypass[m].expired <= 1
    /\ Begin(w, [op |-> "attempt", member |-> m, block |-> BlocksNow(m)])
    /\ UNCHANGED bypassTables

AttemptWrite(w) ==
    /\ Open(w, "attempt")
    /\ LET m == txn[w].member IN
         /\ txn[w].block => bypass[m].live < MaxBypassBlocks
         /\ attempts' = [attempts EXCEPT ![m] = IF @ <= BypassThreshold THEN @ + 1 ELSE @]
         /\ bypass' = [bypass EXCEPT ![m].live = IF txn[w].block THEN @ + 1 ELSE @]
    /\ End(w)

AttemptsAge(m) ==
    /\ attempts[m] > 0
    /\ attempts' = [attempts EXCEPT ![m] = @ - 1]
    /\ UNCHANGED <<bypass, sessions>>

BypassExpires(m) ==
    /\ bypass[m].live > 0 /\ bypass[m].expired < MaxBypassBlocks
    /\ bypass' = [bypass EXCEPT ![m] = [live |-> @.live - 1, expired |-> @.expired + 1]]
    /\ UNCHANGED <<attempts, sessions>>

Polled(w, m) ==
    /\ Free(w) /\ bypass[m].expired > 0
    /\ bypass' = [bypass EXCEPT ![m].expired = 0]
    /\ UNCHANGED <<attempts, sessions>>

BypassRevoked(w, m) ==
    /\ Free(w)
    /\ \/ bypass[m].live > 0 /\ bypass' = [bypass EXCEPT ![m].live = @ - 1]
       \/ bypass[m].expired > 0 /\ bypass' = [bypass EXCEPT ![m].expired = @ - 1]
    /\ UNCHANGED <<attempts, sessions>>

BypassStep(w) ==
    \/ \E m \in Member : AttemptRead(w, m) \/ Polled(w, m) \/ BypassRevoked(w, m)
    \/ AttemptWrite(w)
    \/ Abandon(w) /\ UNCHANGED bypassTables

BypassNext ==
    \/ \E w \in Worker : BypassStep(w)
    \/ \E m \in Member : AttemptsAge(m) \/ BypassExpires(m)

BypassSpec == BypassInit /\ [][BypassNext]_bypassVars

-----------------------------------------------------------------------------
(* "Auto-blocks the member when 3+ attempts ... are recorded within a 60-minute
   rolling window": after every attempt from the third on, the member has one
   active block for it, expired or not: never none, whatever was revoked, and never
   two, on which every later attempt raises.  Devices that report at once miss the third
   attempt, or block twice. *)
BypassIsBlocked == [][~overlap => \A m \in Member :
    (attempts'[m] >= BypassThreshold /\ \E w \in Worker :
        txn[w].op = "attempt" /\ txn[w].member = m /\ txn'[w] = Idle /\ attempts'[m] > attempts[m])
      => bypass'[m].live + bypass'[m].expired = 1]_bypassVars
=============================================================================

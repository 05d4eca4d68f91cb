------------------------------ MODULE Sessions ------------------------------
(***************************************************************************)
(* The sessions of src/src/database.py (get_db, get_db_context), as the    *)
(* modules of the smaller services share them: a worker has at most one    *)
(* session open, txn[w] is what it has read and not yet written, other     *)
(* sessions commit between its steps, and nothing it writes is seen before *)
(* its last step.  Each behaviour either lets sessions overlap or has one  *)
(* open at a time: a property that starts with ~overlap is one the code    *)
(* keeps only as long as no two sessions overlap.                          *)
(***************************************************************************)
CONSTANTS
    Worker,  \* sessions that may overlap
    Member,  \* members of a group whom the services are about
    NoRow    \* no row in a table

VARIABLES txn, overlap

sessions == <<txn, overlap>>

Idle == [op |-> "idle"]

SessionsInit ==
    /\ txn = [w \in Worker |-> Idle]
    /\ overlap \in BOOLEAN

Open(w, op) == txn[w].op = op

(* A worker may open a session, or do in one step what takes a whole one. *)
Free(w) == \A v \in Worker : v = w \/ ~overlap => txn[v] = Idle

Begin(w, t) == Free(w) /\ txn' = [txn EXCEPT ![w] = t] /\ UNCHANGED overlap

Continue(w, t) == txn' = [txn EXCEPT ![w] = t] /\ UNCHANGED overlap

End(w) == txn' = [txn EXCEPT ![w] = Idle] /\ UNCHANGED overlap

(* An exception, a lost connection or a crash: the session ends, unwritten. *)
Abandon(w) == txn[w] # Idle /\ End(w)

(* A new row: any free key does, for the database's uuids are all alike.  A key
   that was freed may be taken again: a session that read the old row then writes
   to the new one, a behaviour the database has not, and so one more to check. *)
Room(table) == \E k \in DOMAIN table : table[k] = NoRow
Inserted(table, row) ==
    [table EXCEPT ![CHOOSE k \in DOMAIN table : table[k] = NoRow] = row]
=============================================================================

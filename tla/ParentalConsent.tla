-------------------------- MODULE ParentalConsent --------------------------
(***************************************************************************)
(* What the contacts service promises to a parent, without sessions,       *)
(* statuses or reads: a request of a child connects two people only after  *)
(* the child's parent consented to that request, and a consent once given  *)
(* stays on record.  Contacts implements this specification.               *)
(***************************************************************************)
CONSTANT Request

VARIABLES
    filed,      \* filed[r]: not yet, by a child, or by somebody free to decide
    consent,    \* requests a parent has consented to
    connected   \* requests whose two people are connected now

Kind == {"none", "child", "free"}

TypeOK ==
    /\ filed \in [Request -> Kind]
    /\ consent \subseteq Request
    /\ connected \subseteq Request

Init ==
    /\ filed = [r \in Request |-> "none"]
    /\ consent = {}
    /\ connected = {}

(* Whose request it is never changes. *)
File(r, kind) ==
    /\ filed[r] = "none"
    /\ filed' = [filed EXCEPT ![r] = kind]
    /\ UNCHANGED <<consent, connected>>

(* A parent consents to several requests at once; only a child's needs it. *)
Consent(rs) ==
    /\ \A r \in rs : filed[r] = "child"
    /\ consent' = consent \cup rs
    /\ UNCHANGED <<filed, connected>>

(* People are connected one request at a time. *)
Connect(r) ==
    /\ filed[r] = "free" \/ r \in consent
    /\ connected' = connected \cup {r}
    /\ UNCHANGED <<filed, consent>>

(* A refusal, a denial or a block. *)
Disconnect(rs) ==
    /\ connected' = connected \ rs
    /\ UNCHANGED <<filed, consent>>

Next ==
    \/ \E r \in Request : File(r, "child") \/ File(r, "free") \/ Connect(r)
    \/ \E rs \in SUBSET Request : Consent(rs) \/ Disconnect(rs)

Spec == Init /\ [][Next]_<<filed, consent, connected>>
=============================================================================

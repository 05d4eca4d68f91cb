------------------------------ MODULE Capture ------------------------------
(***************************************************************************)
(* Captured events of the members of one family: the guardian's consent    *)
(* and the signed agreement a child under 13 needs first, and the risk     *)
(* pipeline that runs with the insert (src/src/capture/service.py,         *)
(* src/src/risk/pipeline.py, src/src/groups/service.py, agreement.py,      *)
(* src/src/compliance/service.py).                                         *)
(*                                                                         *)
(* Content is left out: the classifiers either find a risk in an event or  *)
(* none, and one classification stands for all that are found.             *)
(***************************************************************************)
EXTENDS FiniteSets, Naturals, Sessions

CONSTANTS
    Young,        \* members under 13, by their date of birth
    EventId,      \* primary keys of capture_events (bounds the events)
    ConsentId,    \* primary keys of consent_records (bounds the records)
    AgreementId   \* primary keys of family_agreements (bounds the agreements)

ASSUME YoungAssumption == Young \subseteq Member

VARIABLES
    given,       \* table consent_records: the member and whether it is in force
    agreements,  \* table family_agreements
    events       \* table capture_events, with what the pipeline made of each row

captureTables == <<given, agreements, events>>
captureVars == <<given, agreements, events, txn, overlap>>

Consent == [member: Member, inForce: BOOLEAN]
Agreement == [active: BOOLEAN, signed: SUBSET Member]
ASSUME AgreementAssumption == NoRow \notin AgreementId \cup Agreement

Trace == {"risk event", "excerpt", "alert"}
Event == [member: Member, processed: BOOLEAN, trace: SUBSET Trace]

CaptureTxn ==
    {Idle}
    \cup [op: {"withdraw"}, records: SUBSET ConsentId]
    \cup [op: {"agree"}, replaces: AgreementId \cup {NoRow}]
    \cup [op: {"sign"}, agreement: AgreementId, signed: SUBSET Member]
    \cup [op: {"ingest", "capture content"}, member: Member]

CaptureTypeOK ==
    /\ given \in [ConsentId -> Consent \cup {NoRow}]
    /\ agreements \in [AgreementId -> Agreement \cup {NoRow}]
    /\ events \in [EventId -> Event \cup {NoRow}]
    /\ txn \in [Worker -> CaptureTxn] /\ overlap \in BOOLEAN

CaptureTablesInit ==
    /\ given = [c \in ConsentId |-> NoRow]
    /\ agreements = [a \in AgreementId |-> NoRow]
    /\ events = [e \in EventId |-> NoRow]

CaptureInit == CaptureTablesInit /\ SessionsInit

-----------------------------------------------------------------------------
(* Consent: record_consent inserts, withdraw_consent writes withdrawn_at to the
   active records it has read, all of them or those of one type. *)

InForce(m) == {c \in ConsentId : given[c] = [member |-> m, inForce |-> TRUE]}

ConsentRecorded(w, m) ==
    /\ Free(w) /\ Room(given)
    /\ given' = Inserted(given, [member |-> m, inForce |-> TRUE])
    /\ UNCHANGED <<agreements, events, sessions>>

WithdrawRead(w, m) ==
    /\ \E records \in SUBSET InForce(m) \ {{}} :
         Begin(w, [op |-> "withdraw", records |-> records])
    /\ UNCHANGED captureTables

WithdrawWrite(w) ==
    /\ Open(w, "withdraw")
    /\ given' = [c \in ConsentId |-> IF c \in txn[w].records
                                     THEN [given[c] EXCEPT !.inForce = FALSE] ELSE given[c]]
    /\ End(w)
    /\ UNCHANGED <<agreements, events>>

-----------------------------------------------------------------------------
(* The family agreement: the parent's new one replaces the active one, and the
   members sign again.  get_active_agreement raises when it finds two. *)

Active == {a \in AgreementId : agreements[a] # NoRow /\ agreements[a].active}

AgreementRead(w) ==
    /\ Cardinality(Active) <= 1
    /\ \E old \in IF Active = {} THEN {NoRow} ELSE Active :
         Begin(w, [op |-> "agree", replaces |-> old])
    /\ UNCHANGED captureTables

(* Seeded fault: the agreement that is replaced stays active. *)
ReplacedKept(old) == agreements

Replaced(old) == [a \in AgreementId |->
    IF a = old THEN [agreements[a] EXCEPT !.active = FALSE] ELSE agreements[a]]

AgreementWrite(w) ==
    /\ Open(w, "agree")
    /\ Room(agreements)
    /\ agreements' = Inserted(Replaced(txn[w].replaces), [active |-> TRUE, signed |-> {}])
    /\ End(w)
    /\ UNCHANGED <<given, events>>

SignRead(w, a, m) ==
    /\ agreements[a] # NoRow /\ m \notin agreements[a].signed
    /\ Begin(w, [op |-> "sign", agreement |-> a, signed |-> agreements[a].signed \cup {m}])
    /\ UNCHANGED captureTables

SignWrite(w) ==
    /\ Open(w, "sign")
    /\ agreements' = [agreements EXCEPT ![txn[w].agreement].signed = txn[w].signed]
    /\ End(w)
    /\ UNCHANGED <<given, events>>

-----------------------------------------------------------------------------
(* ingest_event: consent, agreement, insert, pipeline. *)

(* Seeded fault: a consent counts also after it was withdrawn. *)
HasConsentOnce(m) == m \in Young => \E c \in ConsentId : given[c] # NoRow /\ given[c].member = m

HasConsent(m) == m \in Young => InForce(m) # {}

HasSigned(m) == m \in Young =>
    /\ Cardinality(Active) = 1
    /\ \A a \in Active : m \in agreements[a].signed

IngestRead(w, m) ==
    /\ HasConsent(m) /\ HasSigned(m)
    /\ Begin(w, [op |-> "ingest", member |-> m])
    /\ UNCHANGED captureTables

(* What process_capture_event leaves behind: no risk or all of one; or, where it
   raises, what it had flushed by then, for the exception is swallowed.  An event
   without content is not put through it. *)
Outcome ==
    [processed: {TRUE}, trace: {{}, Trace}]
    \cup [processed: {FALSE},
          trace: {{}, {"risk event"}, {"risk event", "excerpt"}, Trace}]

Stored(m, outcome) ==
    /\ Room(events)
    /\ events' = Inserted(events, [member |-> m, processed |-> outcome.processed,
                                   trace |-> outcome.trace])

IngestWrite(w) ==
    /\ Open(w, "ingest")
    /\ \E outcome \in Outcome : Stored(txn[w].member, outcome)
    /\ End(w)
    /\ UNCHANGED <<given, agreements>>

(* create_content_capture looks for no consent and runs no pipeline. *)
ContentRead(w, m) ==
    /\ Begin(w, [op |-> "capture content", member |-> m])
    /\ UNCHANGED captureTables

ContentWrite(w) ==
    /\ Open(w, "capture content")
    /\ Stored(txn[w].member, [processed |-> FALSE, trace |-> {}])
    /\ End(w)
    /\ UNCHANGED <<given, agreements>>

CaptureStep(w) ==
    \/ \E m \in Member :
         \/ ConsentRecorded(w, m) \/ WithdrawRead(w, m)
         \/ IngestRead(w, m) \/ ContentRead(w, m)
         \/ \E a \in AgreementId : SignRead(w, a, m)
    \/ WithdrawWrite(w) \/ AgreementRead(w) \/ AgreementWrite(w) \/ SignWrite(w)
    \/ IngestWrite(w) \/ ContentWrite(w)
    \/ Abandon(w) /\ UNCHANGED captureTables

CaptureNext == \E w \in Worker : CaptureStep(w)

CaptureSpec == CaptureInit /\ [][CaptureNext]_captureVars

-----------------------------------------------------------------------------
(* "Blocks events for members who require consent", "require signed family
   agreement for children <13": an event that is analysed for a child under 13,
   or that leaves a risk event, is stored only while a consent is in force and
   the child has signed the one active agreement, whatever was withdrawn,
   replaced and signed before.  An ingest that overlaps the withdrawal is stored
   after it; what create_content_capture stores is outside the property. *)
StoredAsConsented == ~overlap => \A e \in EventId :
    (/\ events[e] = NoRow /\ events'[e] # NoRow
     /\ events'[e].processed \/ events'[e].trace # {}
     /\ events'[e].member \in Young) =>
       /\ \E c \in ConsentId : given[c] = [member |-> events'[e].member, inForce |-> TRUE]
       /\ \E a \in AgreementId : /\ agreements[a] # NoRow /\ agreements[a].active
                                 /\ events'[e].member \in agreements[a].signed

CaptureIsConsented == [][StoredAsConsented]_captureVars

(* "Deactivate any existing active agreement": there is never a second active
   agreement, for with two of them every capture of a child under 13 fails, and
   so does every attempt to replace them.  Two parents at once can make it so. *)
OneActiveAgreement == ~overlap => Cardinality(Active) <= 1
=============================================================================

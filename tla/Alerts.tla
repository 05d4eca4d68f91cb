------------------------------- MODULE Alerts -------------------------------
(***************************************************************************)
(* Alerts to the parents: their creation and first email                   *)
(* (src/src/alerts/service.py create_alert, delivery.py), their            *)
(* acknowledgement (service.py, router.py), the digests (digest.py) and    *)
(* the re-notification of what nobody acknowledges (scheduler.py).         *)
(*                                                                         *)
(* Sessions are those of Contacts; an email leaves before the commit of    *)
(* the session that sends it.  The mail service, the consent checks and    *)
(* the recipients' preferences are external: any mail may fail.  Snoozing  *)
(* writes a column that nothing here reads and is left out.                *)
(***************************************************************************)
EXTENDS FiniteSets, Naturals

CONSTANTS
    AlertId,            \* primary keys of alerts (bounds the alerts)
    MaxRenotifications, \* MAX_RENOTIFICATIONS
    Worker,             \* concurrent sessions, of requests and of job runs
    Scheduled,          \* TRUE if something calls schedule_renotification;
                        \* nothing in src/ does
    NoRow

ASSUME MaxAssumption == MaxRenotifications \in Nat
ASSUME ScheduledAssumption == Scheduled \in BOOLEAN

VARIABLES
    alerts,  \* table alerts
    notices, \* history: mails re-sent of each alert, at most MaxRenotifications counted
    txn      \* what each worker's open session has read and done

vars == <<alerts, notices, txn>>

Severity == {"urgent", "medium", "low"}   \* urgent: critical or high
Status == {"pending", "sent", "acknowledged"}
Channel == {"portal", "email"}            \* email once a mail of the alert went out
When == {"never", "later", "due"}         \* re_notify_at: null, ahead, passed
Alert == [severity: Severity, status: Status, channel: Channel,
          acknowledged: BOOLEAN, recent: BOOLEAN,
          renotify: When, count: 0..MaxRenotifications]

ASSUME RowAssumption == NoRow \notin Alert

Idle == [op |-> "idle"]
CreateTxn == [op: {"create"}, severity: Severity, sent: BOOLEAN]
AcknowledgeTxn == [op: {"acknowledge"}, alert: AlertId, seen: Status]
DigestTxn == [op: {"digest"}, pending: SUBSET AlertId]
Notice == [alert: AlertId, seen: Alert]   \* an alert of a run, as the run read it
RenotifyTxn == [op: {"renotify"}, todo: SUBSET Notice, resent: SUBSET Notice,
                stopped: SUBSET AlertId]
Txn == {Idle} \cup CreateTxn \cup AcknowledgeTxn \cup DigestTxn \cup RenotifyTxn

TypeOK ==
    /\ alerts \in [AlertId -> Alert \cup {NoRow}]
    /\ notices \in [AlertId -> 0..MaxRenotifications]
    /\ txn \in [Worker -> Txn]

Init ==
    /\ alerts = [a \in AlertId |-> NoRow]
    /\ notices = [a \in AlertId |-> 0]
    /\ txn = [w \in Worker |-> Idle]

Rows == {a \in AlertId : alerts[a] # NoRow}

Begin(w, t) == txn[w] = Idle /\ txn' = [txn EXCEPT ![w] = t] /\ UNCHANGED <<alerts, notices>>
End(w) == txn' = [txn EXCEPT ![w] = Idle]
Rollback(w) == txn[w] # Idle /\ End(w) /\ UNCHANGED <<alerts, notices>>

-----------------------------------------------------------------------------
(* create_alert and deliver_risk_alert: a low alert waits for the digest, a
   medium one is mailed to those who asked for it. *)

CreateMail(w, severity, sent) ==
    /\ sent => severity # "low"
    /\ Begin(w, [op |-> "create", severity |-> severity, sent |-> sent])

FirstDue(severity, sent) ==
    IF Scheduled /\ sent /\ severity = "urgent" THEN "later" ELSE "never"

(* Seeded fault: the delivery forgets the status. *)
FirstStatusForgotten(sent) == "pending"

FirstStatus(sent) == IF sent THEN "sent" ELSE "pending"

CreateCommit(w) ==
    /\ txn[w].op = "create"
    /\ \E a \in AlertId \ Rows :
         alerts' = [alerts EXCEPT ![a] =
           [severity |-> txn[w].severity,
            status |-> FirstStatus(txn[w].sent),
            channel |-> IF txn[w].sent THEN "email" ELSE "portal",
            acknowledged |-> FALSE,
            renotify |-> FirstDue(txn[w].severity, txn[w].sent),
            count |-> 0, recent |-> TRUE]]
    /\ End(w)
    /\ UNCHANGED notices

(* acknowledge_alert, and PATCH /alerts/{id} with read or actioned. *)
AcknowledgeRead(w, a) ==
    /\ a \in Rows
    /\ Begin(w, [op |-> "acknowledge", alert |-> a, seen |-> alerts[a].status])

AcknowledgeWrite(w) ==
    /\ txn[w].op = "acknowledge"
    /\ alerts' = [alerts EXCEPT
         ![txn[w].alert].acknowledged = TRUE,
         ![txn[w].alert].status =
             IF txn[w].seen = "acknowledged" THEN @ ELSE "acknowledged"]
    /\ End(w)
    /\ UNCHANGED notices

-----------------------------------------------------------------------------
(* _run_digest: the open alerts of the window, all of which count as sent
   afterwards, whether a mail went out or not. *)

Unacknowledged(a) == alerts[a].status \in {"pending", "sent"}

DigestRead(w) ==
    Begin(w, [op |-> "digest",
              pending |-> {a \in Rows : alerts[a].recent /\ alerts[a].status = "pending"}])

DigestCommit(w) ==
    /\ txn[w].op = "digest"
    /\ alerts' = [a \in AlertId |-> IF a \in txn[w].pending
                                      THEN [alerts[a] EXCEPT !.status = "sent"]
                                      ELSE alerts[a]]
    /\ End(w)
    /\ UNCHANGED notices

-----------------------------------------------------------------------------
(* run_renotification_check, a job of every five minutes. *)

(* Seeded fault: acknowledged alerts are due as well. *)
DueAnyStatus(a) == alerts[a].severity = "urgent" /\ alerts[a].renotify = "due"

Due(a) == alerts[a].severity = "urgent" /\ alerts[a].renotify = "due" /\ Unacknowledged(a)

RenotifyRead(w) ==
    Begin(w, [op |-> "renotify", resent |-> {}, stopped |-> {},
              todo |-> {[alert |-> a, seen |-> alerts[a]] : a \in {x \in Rows : Due(x)}}])

(* Seeded fault: an alert is given up one notice too late. *)
SpentLate(seen) == seen.count > MaxRenotifications

Spent(seen) == seen.count >= MaxRenotifications

GiveUp(w) ==
    /\ txn[w].op = "renotify"
    /\ \E t \in txn[w].todo :
         /\ Spent(t.seen)
         /\ txn' = [txn EXCEPT ![w].todo = @ \ {t}, ![w].stopped = @ \cup {t.alert}]
    /\ UNCHANGED <<alerts, notices>>

Resend(w) ==
    /\ txn[w].op = "renotify"
    /\ \E t \in txn[w].todo :
         /\ ~Spent(t.seen)
         /\ txn' = [txn EXCEPT ![w].todo = @ \ {t}, ![w].resent = @ \cup {t}]
         /\ notices' = [notices EXCEPT ![t.alert] = IF @ < MaxRenotifications THEN @ + 1 ELSE @]
    /\ UNCHANGED alerts

(* A mail that fails or raises leaves the alert due. *)
ResendFails(w) ==
    /\ txn[w].op = "renotify"
    /\ \E t \in txn[w].todo : ~Spent(t.seen) /\ txn' = [txn EXCEPT ![w].todo = @ \ {t}]
    /\ UNCHANGED <<alerts, notices>>

(* The columns of a re-sent alert that differ from those read. *)
Resent(row, seen) ==
    [row EXCEPT !.count = seen.count + 1, !.renotify = "later",
                !.channel = "email",
                !.status = IF seen.status = "sent" THEN @ ELSE "sent"]

RenotifyCommit(w) ==
    /\ txn[w].op = "renotify"
    /\ txn[w].todo = {}
    /\ alerts' = [a \in AlertId |->
         IF a \in txn[w].stopped THEN [alerts[a] EXCEPT !.renotify = "never"]
         ELSE IF \E t \in txn[w].resent : t.alert = a
           THEN Resent(alerts[a], (CHOOSE t \in txn[w].resent : t.alert = a).seen)
         ELSE alerts[a]]
    /\ End(w)
    /\ UNCHANGED notices

-----------------------------------------------------------------------------
(* Time: an interval of RENOTIFY_INTERVALS ends, a digest window passes. *)
IntervalEnds(a) ==
    /\ a \in Rows /\ alerts[a].renotify = "later"
    /\ alerts' = [alerts EXCEPT ![a].renotify = "due"]
    /\ UNCHANGED <<notices, txn>>

WindowPasses(a) ==
    /\ a \in Rows /\ alerts[a].recent
    /\ alerts' = [alerts EXCEPT ![a].recent = FALSE]
    /\ UNCHANGED <<notices, txn>>

WorkerStep(w) ==
    \/ \E severity \in Severity, sent \in BOOLEAN : CreateMail(w, severity, sent)
    \/ CreateCommit(w)
    \/ \E a \in AlertId : AcknowledgeRead(w, a)
    \/ AcknowledgeWrite(w)
    \/ DigestRead(w) \/ DigestCommit(w)
    \/ RenotifyRead(w) \/ GiveUp(w) \/ Resend(w) \/ ResendFails(w) \/ RenotifyCommit(w)
    \/ Rollback(w)

Next ==
    \/ \E w \in Worker : WorkerStep(w)
    \/ \E a \in AlertId : IntervalEnds(a) \/ WindowPasses(a)

Spec == Init /\ [][Next]_vars

-----------------------------------------------------------------------------
(* scheduler.py "Re-sends email for unacknowledged critical/high alerts": no run
   picks an alert that was acknowledged when it started, although it goes by the
   status, which a digest may have written back to sent in the meantime. *)
AcknowledgedIsQuiet == \A w \in Worker :
    txn[w].op = "renotify" => \A t \in txn[w].todo : ~t.seen.acknowledged

(* The acknowledgement of an alert that was mailed is not undone: no digest or
   notice that read the alert before writes its status back after it. *)
AcknowledgementStands ==
    \A a \in Rows : (alerts[a].acknowledged /\ alerts[a].channel = "email")
                      => alerts[a].status = "acknowledged"
=============================================================================

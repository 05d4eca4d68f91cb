--------------------------- MODULE Alerts_proofs ---------------------------
(***************************************************************************)
(* Acknowledgements and notices for every number of alerts and of          *)
(* concurrent sessions.  Neither property is inductive: a digest that is   *)
(* about to write a status must be one that read alerts nobody was mailed  *)
(* about, and a run of the job one that read mailed alerts as open.  IInv  *)
(* says this of the rows and of every open session.                        *)
(***************************************************************************)
EXTENDS Alerts, TLAPS

(* A mailed alert waits for no digest, only a mailed alert is scheduled, and
   the acknowledgement of a mailed alert shows. *)
RowGood(r) ==
    /\ r.channel = "email" => r.status # "pending"
    /\ r.renotify # "never" => r.channel = "email"
    /\ r.acknowledged /\ r.channel = "email" => r.status = "acknowledged"

Mailed(a) == alerts[a] # NoRow /\ alerts[a].channel = "email"

(* What an open session has established about the rows it will write. *)
DigestBacked(t) ==
    \A a \in t.pending : alerts[a] # NoRow /\ alerts[a].channel = "portal"
AcknowledgeBacked(t) ==
    /\ alerts[t.alert] # NoRow
    /\ t.seen = "acknowledged" /\ alerts[t.alert].channel = "email"
         => alerts[t.alert].status = "acknowledged"
RenotifyBacked(t) ==
    /\ \A n \in t.todo \cup t.resent :
         Mailed(n.alert) /\ n.seen.status = "sent" /\ ~n.seen.acknowledged
    /\ \A n \in t.resent : ~Spent(n.seen)
    /\ \A a \in t.stopped : Mailed(a)
Backed(t) ==
    /\ t.op = "digest" => DigestBacked(t)
    /\ t.op = "acknowledge" => AcknowledgeBacked(t)
    /\ t.op = "renotify" => RenotifyBacked(t)

IInv ==
    /\ TypeOK
    /\ \A a \in Rows : RowGood(alerts[a])
    /\ \A w \in Worker : Backed(txn[w])

(* What the open sessions rely on survives a write that keeps this of a row. *)
RowKept(a) ==
    /\ alerts'[a] # NoRow
    /\ alerts'[a].channel = alerts[a].channel
    /\ alerts[a].channel = "email" /\ alerts[a].status = "acknowledged"
         => alerts'[a].status = "acknowledged"

-----------------------------------------------------------------------------
(* The empty table satisfies the invariant. *)
LEMMA InitIInv == Init => IInv
BY MaxAssumption
   DEF Init, IInv, TypeOK, Txn, Rows, Backed, Idle

(* A session that is not idle is of one of the four kinds. *)
LEMMA TxnShape ==
    ASSUME TypeOK, NEW w \in Worker
    PROVE  /\ txn[w].op = "create" => txn[w] \in CreateTxn
           /\ txn[w].op = "acknowledge" => txn[w] \in AcknowledgeTxn
           /\ txn[w].op = "digest" => txn[w] \in DigestTxn
           /\ txn[w].op = "renotify" => txn[w] \in RenotifyTxn
BY DEF TypeOK, Txn, Idle, CreateTxn, AcknowledgeTxn, DigestTxn, RenotifyTxn

(* A read opens or continues a session with t: the invariant holds afterwards
   if what t will rely on holds now. *)
LEMMA SessionStep ==
    ASSUME IInv, NEW w \in Worker, NEW t \in Txn, UNCHANGED alerts,
           notices' \in [AlertId -> 0..MaxRenotifications],
           txn' = [txn EXCEPT ![w] = t], Backed(t)
    PROVE  IInv'
<1>1. txn' \in [Worker -> Txn] /\ \A v \in Worker : txn'[v] = IF v = w THEN t ELSE txn[v]
  BY DEF IInv, TypeOK
<1>2. TypeOK' /\ (\A a \in Rows : RowGood(alerts[a]))'
  BY <1>1 DEF IInv, TypeOK, Rows, RowGood
<1>3. \A v \in Worker : Backed(txn'[v])
  BY <1>1 DEF IInv
<1>4. \A v \in Worker : Backed(txn[v])'
  BY <1>3 DEF Backed, DigestBacked, AcknowledgeBacked, RenotifyBacked, Mailed, Spent
<1> QED BY <1>2, <1>4 DEF IInv

(* A write of the table that ends the session of w, or leaves all of them as
   they are, keeps what the other sessions rely on. *)
LEMMA TableStep ==
    ASSUME IInv, alerts' \in [AlertId -> Alert \cup {NoRow}], UNCHANGED notices,
           txn' \in [Worker -> Txn], \A v \in Worker : txn'[v] \in {txn[v], Idle},
           \A a \in AlertId : alerts'[a] = NoRow \/ RowGood(alerts'[a]),
           \A a \in Rows : RowKept(a)
    PROVE  IInv'
<1>1. TypeOK' /\ (\A a \in Rows : RowGood(alerts[a]))'
  BY DEF IInv, TypeOK, Rows, RowGood
<1>2. ASSUME NEW v \in Worker PROVE Backed(txn[v])'
  <2>1. CASE txn'[v] = Idle
    BY <2>1 DEF Idle, Backed
  <2>2. CASE txn'[v] = txn[v]
    <3>1. Backed(txn[v])
      BY DEF IInv
    <3>2. txn[v].op = "digest" => DigestBacked(txn[v])'
      <4> SUFFICES ASSUME txn[v].op = "digest", NEW a \in txn'[v].pending
                   PROVE  alerts'[a] # NoRow /\ alerts'[a].channel = "portal"
        BY DEF DigestBacked
      <4>1. a \in Rows /\ alerts[a].channel = "portal"
        BY <2>2, <3>1, TxnShape DEF Backed, DigestBacked, Rows, DigestTxn, IInv
      <4> QED BY <4>1 DEF RowKept
    <3>3. txn[v].op = "acknowledge" => AcknowledgeBacked(txn[v])'
      <4> SUFFICES ASSUME txn[v].op = "acknowledge" PROVE AcknowledgeBacked(txn[v])'
        OBVIOUS
      <4>1. txn[v].alert \in Rows /\ AcknowledgeBacked(txn[v])
        BY <3>1, TxnShape DEF Backed, AcknowledgeBacked, Rows, AcknowledgeTxn, IInv
      <4> QED BY <2>2, <4>1 DEF RowKept, AcknowledgeBacked
    <3>4. txn[v].op = "renotify" => RenotifyBacked(txn[v])'
      <4> SUFFICES ASSUME txn[v].op = "renotify" PROVE RenotifyBacked(txn[v])'
        OBVIOUS
      <4>1. txn[v] \in RenotifyTxn /\ RenotifyBacked(txn[v])
        BY <3>1, TxnShape DEF Backed, IInv
      <4>2. \A a \in AlertId : Mailed(a) => Mailed(a)'
        BY DEF Mailed, RowKept, Rows
      <4>3. \A n \in txn[v].todo \cup txn[v].resent : n.alert \in AlertId
        BY <4>1 DEF RenotifyTxn, Notice
      <4>4. \A a \in txn[v].stopped : a \in AlertId
        BY <4>1 DEF RenotifyTxn
      <4> QED BY <2>2, <4>1, <4>2, <4>3, <4>4 DEF RenotifyBacked, Spent
    <3> QED BY <2>2, <3>2, <3>3, <3>4 DEF Backed
  <2> QED BY <2>1, <2>2
<1> QED BY <1>1, <1>2 DEF IInv

-----------------------------------------------------------------------------
(* The end of a session, on its own or with a write. *)
LEMMA EndIsIdle ==
    ASSUME TypeOK, NEW w \in Worker, End(w)
    PROVE  txn' \in [Worker -> Txn] /\ \A v \in Worker : txn'[v] \in {txn[v], Idle}
BY DEF TypeOK, End, Txn

LEMMA RollbackStep ==
    ASSUME IInv, NEW w \in Worker, Rollback(w)
    PROVE  IInv'
<1>1. Idle \in Txn /\ Backed(Idle)
  BY DEF Idle, Txn, Backed
<1> QED BY <1>1, SessionStep DEF Rollback, End, IInv, TypeOK

LEMMA CreateStep ==
    ASSUME IInv, NEW w \in Worker,
           \/ \E severity \in Severity, sent \in BOOLEAN : CreateMail(w, severity, sent)
           \/ CreateCommit(w)
    PROVE  IInv'
<1>1. ASSUME NEW severity \in Severity, NEW sent \in BOOLEAN, CreateMail(w, severity, sent)
      PROVE  IInv'
  <2> DEFINE t == [op |-> "create", severity |-> severity, sent |-> sent]
  <2>1. t \in Txn /\ Backed(t)
    BY DEF Txn, CreateTxn, Backed
  <2> HIDE DEF t
  <2> QED BY <1>1, <2>1, SessionStep DEF CreateMail, Begin, t, IInv, TypeOK
<1>2. ASSUME CreateCommit(w) PROVE IInv'
  <2>1. txn[w] \in CreateTxn
    BY <1>2, TxnShape DEF CreateCommit, IInv
  <2> DEFINE row == [severity |-> txn[w].severity,
                     status |-> FirstStatus(txn[w].sent),
                     channel |-> IF txn[w].sent THEN "email" ELSE "portal",
                     acknowledged |-> FALSE,
                     renotify |-> FirstDue(txn[w].severity, txn[w].sent),
                     count |-> 0, recent |-> TRUE]
  <2>2. row \in Alert /\ RowGood(row)
    BY <2>1, MaxAssumption
       DEF CreateTxn, Alert, Status, Channel, When, RowGood, FirstStatus, FirstDue
  <2> HIDE DEF row
  <2>3. PICK a \in AlertId \ Rows : alerts' = [alerts EXCEPT ![a] = row]
    BY <1>2 DEF CreateCommit, row
  <2>4. \A b \in AlertId : alerts'[b] = IF b = a THEN row ELSE alerts[b]
    BY <2>3 DEF IInv, TypeOK
  <2>5. alerts' \in [AlertId -> Alert \cup {NoRow}]
    BY <2>2, <2>3 DEF IInv, TypeOK
  <2>6. \A b \in AlertId : alerts'[b] = NoRow \/ RowGood(alerts'[b])
    BY <2>2, <2>4 DEF IInv, Rows
  <2>7. \A b \in Rows : RowKept(b)
    BY <2>4 DEF Rows, RowKept
  <2> QED BY <1>2, <2>5, <2>6, <2>7, TableStep, EndIsIdle DEF CreateCommit, IInv
<1> QED BY <1>1, <1>2

LEMMA AcknowledgeStep ==
    ASSUME IInv, NEW w \in Worker,
           (\E a \in AlertId : AcknowledgeRead(w, a)) \/ AcknowledgeWrite(w)
    PROVE  IInv'
<1>1. ASSUME NEW a \in AlertId, AcknowledgeRead(w, a) PROVE IInv'
  <2> DEFINE t == [op |-> "acknowledge", alert |-> a, seen |-> alerts[a].status]
  <2>1. alerts[a] # NoRow /\ alerts[a] \in Alert
    BY <1>1 DEF AcknowledgeRead, Rows, IInv, TypeOK
  <2>2. t \in Txn /\ Backed(t)
    BY <2>1 DEF Txn, AcknowledgeTxn, Alert, Backed, AcknowledgeBacked
  <2> HIDE DEF t
  <2> QED BY <1>1, <2>2, SessionStep DEF AcknowledgeRead, Begin, t, IInv, TypeOK
<1>2. ASSUME AcknowledgeWrite(w) PROVE IInv'
  <2>1. txn[w] \in AcknowledgeTxn /\ AcknowledgeBacked(txn[w])
    BY <1>2, TxnShape DEF AcknowledgeWrite, IInv, Backed
  <2> DEFINE a == txn[w].alert
             row == [alerts[a] EXCEPT
                       !.acknowledged = TRUE,
                       !.status = IF txn[w].seen = "acknowledged" THEN @ ELSE "acknowledged"]
  <2>2. a \in Rows /\ alerts[a] \in Alert
    BY <2>1 DEF AcknowledgeTxn, AcknowledgeBacked, Rows, IInv, TypeOK
  <2>3. row \in Alert
    BY <2>2 DEF Alert, Status
  <2>4. RowGood(row)
    BY <2>1, <2>2 DEF IInv, RowGood, AcknowledgeBacked, Alert
  <2>5. alerts' \in [AlertId -> Alert \cup {NoRow}]
        /\ \A b \in AlertId : alerts'[b] = IF b = a THEN row ELSE alerts[b]
    BY <1>2, <2>2, <2>3 DEF AcknowledgeWrite, IInv, TypeOK, Rows
  <2>6. row.channel = alerts[a].channel
        /\ (alerts[a].status = "acknowledged" => row.status = "acknowledged")
    BY <2>2 DEF Alert
  <2>7. row # NoRow
    BY <2>3, RowAssumption
  <2> HIDE DEF a, row
  <2>8. \A b \in AlertId : alerts'[b] = NoRow \/ RowGood(alerts'[b])
    BY <2>4, <2>5 DEF IInv, Rows
  <2>9. \A b \in Rows : RowKept(b)
    BY <2>5, <2>6, <2>7 DEF Rows, RowKept
  <2> QED BY <1>2, <2>5, <2>8, <2>9, TableStep, EndIsIdle DEF AcknowledgeWrite, IInv
<1> QED BY <1>1, <1>2

LEMMA DigestStep ==
    ASSUME IInv, NEW w \in Worker, DigestRead(w) \/ DigestCommit(w)
    PROVE  IInv'
<1>1. ASSUME DigestRead(w) PROVE IInv'
  <2> DEFINE t == [op |-> "digest",
                   pending |-> {a \in Rows : alerts[a].recent /\ alerts[a].status = "pending"}]
  <2>1. \A a \in t.pending : a \in Rows /\ alerts[a] \in Alert /\ alerts[a].status = "pending"
    BY DEF Rows, IInv, TypeOK
  <2>2. \A a \in t.pending : alerts[a] # NoRow /\ alerts[a].channel = "portal"
    BY <2>1 DEF Rows, IInv, RowGood, Alert, Channel
  <2>3. t \in Txn /\ Backed(t)
    BY <2>2 DEF Txn, DigestTxn, Backed, DigestBacked, Rows
  <2> HIDE DEF t
  <2> QED BY <1>1, <2>3, SessionStep DEF DigestRead, Begin, t, IInv, TypeOK
<1>2. ASSUME DigestCommit(w) PROVE IInv'
  <2>1. txn[w] \in DigestTxn /\ DigestBacked(txn[w])
    BY <1>2, TxnShape DEF DigestCommit, IInv, Backed
  <2>2. \A a \in AlertId : alerts'[a] = IF a \in txn[w].pending
                                         THEN [alerts[a] EXCEPT !.status = "sent"] ELSE alerts[a]
    BY <1>2 DEF DigestCommit
  <2>3. ASSUME NEW a \in txn[w].pending
        PROVE  /\ alerts'[a] \in Alert /\ RowGood(alerts'[a]) /\ RowKept(a)
    <3>1. a \in Rows /\ alerts[a] \in Alert /\ alerts[a].channel = "portal"
      BY <2>1 DEF DigestTxn, DigestBacked, Rows, IInv, TypeOK
    <3>2. alerts'[a] = [alerts[a] EXCEPT !.status = "sent"] /\ alerts'[a] \in Alert
      BY <2>2, <3>1 DEF Rows, Alert, Status
    <3>3. RowGood(alerts[a])
      BY <3>1 DEF IInv
    <3>4. alerts'[a].channel = "portal" /\ alerts'[a].renotify = alerts[a].renotify
      BY <3>1, <3>2 DEF Alert
    <3> QED BY <3>1, <3>2, <3>3, <3>4, RowAssumption DEF RowGood, RowKept
  <2>4. alerts' \in [AlertId -> Alert \cup {NoRow}]
    BY <1>2, <2>2, <2>3 DEF DigestCommit, IInv, TypeOK
  <2>5. \A a \in AlertId : alerts'[a] = NoRow \/ RowGood(alerts'[a])
    BY <2>2, <2>3 DEF IInv, Rows
  <2>6. \A a \in Rows : RowKept(a)
    BY <2>2, <2>3 DEF Rows, RowKept
  <2> QED BY <1>2, <2>4, <2>5, <2>6, TableStep, EndIsIdle DEF DigestCommit, IInv
<1> QED BY <1>1, <1>2

(* A run of the job reads open alerts that were mailed, and goes through them. *)
LEMMA RenotifyReadStep ==
    ASSUME IInv, NEW w \in Worker, RenotifyRead(w)
    PROVE  IInv'
<1> DEFINE todo == {[alert |-> a, seen |-> alerts[a]] : a \in {x \in Rows : Due(x)}}
           t == [op |-> "renotify", resent |-> {}, stopped |-> {}, todo |-> todo]
<1>1. ASSUME NEW a \in Rows, Due(a)
      PROVE  /\ Mailed(a) /\ alerts[a].status = "sent" /\ ~alerts[a].acknowledged
             /\ a \in AlertId /\ alerts[a] \in Alert
  <2>1. a \in AlertId /\ alerts[a] # NoRow /\ alerts[a] \in Alert /\ RowGood(alerts[a])
    BY DEF Rows, IInv, TypeOK
  <2>2. alerts[a].channel = "email" /\ alerts[a].status = "sent"
    BY <1>1, <2>1 DEF Due, Unacknowledged, RowGood
  <2>3. ~alerts[a].acknowledged
    BY <2>1, <2>2 DEF RowGood
  <2> QED BY <2>1, <2>2, <2>3 DEF Mailed
<1>2. todo \in SUBSET Notice
  BY <1>1 DEF Notice
<1>3. t \in Txn
  BY <1>2 DEF Txn, RenotifyTxn
<1>4. RenotifyBacked(t)
  <2>1. \A n \in todo : Mailed(n.alert) /\ n.seen.status = "sent" /\ ~n.seen.acknowledged
    BY <1>1
  <2> QED BY <2>1 DEF RenotifyBacked
<1>5. Backed(t)
  BY <1>4 DEF Backed
<1> HIDE DEF t
<1> QED BY <1>3, <1>5, SessionStep DEF RenotifyRead, Begin, t, IInv, TypeOK

LEMMA RunStep ==
    ASSUME IInv, NEW w \in Worker, GiveUp(w) \/ Resend(w) \/ ResendFails(w)
    PROVE  IInv'
<1>1. txn[w] \in RenotifyTxn /\ RenotifyBacked(txn[w])
  BY TxnShape DEF GiveUp, Resend, ResendFails, IInv, Backed
<1>2. ASSUME NEW n \in txn[w].todo, NEW t \in RenotifyTxn,
             t.todo = txn[w].todo \ {n},
             t.resent = txn[w].resent \/ (t.resent = txn[w].resent \cup {n} /\ ~Spent(n.seen)),
             t.stopped = txn[w].stopped \/ t.stopped = txn[w].stopped \cup {n.alert},
             txn' = [txn EXCEPT ![w] = t], UNCHANGED alerts,
             notices' \in [AlertId -> 0..MaxRenotifications]
      PROVE  IInv'
  <2>1. RenotifyBacked(t)
    BY <1>1, <1>2 DEF RenotifyBacked
  <2>2. t \in Txn /\ Backed(t)
    BY <2>1 DEF Txn, Backed, RenotifyTxn
  <2> QED BY <1>2, <2>2, SessionStep
<1>3. CASE GiveUp(w)
  <2>1. PICK n \in txn[w].todo :
          txn' = [txn EXCEPT ![w].todo = @ \ {n}, ![w].stopped = @ \cup {n.alert}]
    BY <1>3 DEF GiveUp
  <2> DEFINE t == [txn[w] EXCEPT !.todo = @ \ {n}, !.stopped = @ \cup {n.alert}]
  <2>2. t \in RenotifyTxn /\ t.todo = txn[w].todo \ {n} /\ t.resent = txn[w].resent
        /\ t.stopped = txn[w].stopped \cup {n.alert}
    BY <1>1 DEF RenotifyTxn, Notice
  <2>3. txn' = [txn EXCEPT ![w] = t]
    BY <2>1
  <2> HIDE DEF t
  <2> QED BY <1>2, <1>3, <2>2, <2>3 DEF GiveUp, IInv, TypeOK
<1>4. CASE Resend(w)
  <2>1. PICK n \in txn[w].todo :
          /\ ~Spent(n.seen)
          /\ txn' = [txn EXCEPT ![w].todo = @ \ {n}, ![w].resent = @ \cup {n}]
          /\ notices' = [notices EXCEPT ![n.alert] = IF @ < MaxRenotifications THEN @ + 1 ELSE @]
    BY <1>4 DEF Resend
  <2> DEFINE t == [txn[w] EXCEPT !.todo = @ \ {n}, !.resent = @ \cup {n}]
  <2>2. t \in RenotifyTxn /\ t.todo = txn[w].todo \ {n} /\ t.resent = txn[w].resent \cup {n}
        /\ t.stopped = txn[w].stopped
    BY <1>1 DEF RenotifyTxn, Notice
  <2>3. txn' = [txn EXCEPT ![w] = t]
    BY <2>1
  <2>4. notices' \in [AlertId -> 0..MaxRenotifications]
    <3>1. notices \in [AlertId -> 0..MaxRenotifications]
      BY DEF IInv, TypeOK
    <3>2. n.alert \in AlertId
      BY <1>1 DEF RenotifyTxn, Notice
    <3>3. (IF notices[n.alert] < MaxRenotifications THEN notices[n.alert] + 1
             ELSE notices[n.alert]) \in 0..MaxRenotifications
      BY <3>1, <3>2, MaxAssumption
    <3> QED BY <2>1, <3>1, <3>3
  <2> HIDE DEF t
  <2> QED BY <1>2, <1>4, <2>1, <2>2, <2>3, <2>4 DEF Resend
<1>5. CASE ResendFails(w)
  <2>1. PICK n \in txn[w].todo : txn' = [txn EXCEPT ![w].todo = @ \ {n}]
    BY <1>5 DEF ResendFails
  <2> DEFINE t == [txn[w] EXCEPT !.todo = @ \ {n}]
  <2>2. t \in RenotifyTxn /\ t.todo = txn[w].todo \ {n} /\ t.resent = txn[w].resent
        /\ t.stopped = txn[w].stopped
    BY <1>1 DEF RenotifyTxn
  <2>3. txn' = [txn EXCEPT ![w] = t]
    BY <2>1
  <2> HIDE DEF t
  <2> QED BY <1>2, <1>5, <2>2, <2>3 DEF ResendFails, IInv, TypeOK
<1> QED BY <1>3, <1>4, <1>5

(* The commit of a run writes no status: every alert it mails was read as sent. *)
LEMMA RenotifyCommitStep ==
    ASSUME IInv, NEW w \in Worker, RenotifyCommit(w)
    PROVE  IInv'
<1>1. txn[w] \in RenotifyTxn /\ RenotifyBacked(txn[w])
  BY TxnShape DEF RenotifyCommit, IInv, Backed
<1>2. ASSUME NEW a \in AlertId
      PROVE  \/ alerts'[a] = alerts[a]
             \/ Mailed(a) /\ alerts'[a] = [alerts[a] EXCEPT !.renotify = "never"]
             \/ Mailed(a) /\ \E n \in txn[w].resent : alerts'[a] = Resent(alerts[a], n.seen)
  <2>1. CASE a \in txn[w].stopped
    BY <1>1, <2>1 DEF RenotifyCommit, RenotifyBacked
  <2>2. CASE a \notin txn[w].stopped /\ \E n \in txn[w].resent : n.alert = a
    <3> DEFINE n == CHOOSE t \in txn[w].resent : t.alert = a
    <3>1. n \in txn[w].resent /\ n.alert = a
      BY <2>2
    <3>2. alerts'[a] = Resent(alerts[a], n.seen)
      BY <2>2 DEF RenotifyCommit
    <3> HIDE DEF n
    <3> QED BY <1>1, <3>1, <3>2 DEF RenotifyBacked
  <2>3. CASE a \notin txn[w].stopped /\ ~\E n \in txn[w].resent : n.alert = a
    BY <2>3 DEF RenotifyCommit
  <2> QED BY <2>1, <2>2, <2>3
<1>3. ASSUME NEW a \in AlertId, Mailed(a),
             \/ alerts'[a] = [alerts[a] EXCEPT !.renotify = "never"]
             \/ \E n \in txn[w].resent : alerts'[a] = Resent(alerts[a], n.seen)
      PROVE  alerts'[a] \in Alert /\ RowGood(alerts'[a]) /\ RowKept(a)
  <2>1. alerts[a] \in Alert /\ alerts[a] # NoRow /\ alerts[a].channel = "email"
        /\ RowGood(alerts[a])
    BY <1>3 DEF Mailed, IInv, TypeOK, Rows
  <2>2. /\ alerts'[a] \in Alert
        /\ alerts'[a].channel = "email" /\ alerts'[a].status = alerts[a].status
        /\ alerts'[a].acknowledged = alerts[a].acknowledged
    <3>1. CASE alerts'[a] = [alerts[a] EXCEPT !.renotify = "never"]
      BY <2>1, <3>1 DEF Alert, When
    <3>2. CASE \E n \in txn[w].resent : alerts'[a] = Resent(alerts[a], n.seen)
      <4>1. PICK n \in txn[w].resent : alerts'[a] = Resent(alerts[a], n.seen)
        BY <3>2
      <4>2. n.seen \in Alert /\ n.seen.status = "sent" /\ ~Spent(n.seen)
        BY <1>1 DEF RenotifyBacked, RenotifyTxn, Notice
      <4>3. n.seen.count + 1 \in 0..MaxRenotifications
        BY <4>2, MaxAssumption DEF Spent, Alert
      <4> QED BY <2>1, <4>1, <4>2, <4>3 DEF Resent, Alert, When, Channel
    <3> QED BY <1>3, <3>1, <3>2
  <2> QED BY <2>1, <2>2, RowAssumption DEF RowGood, RowKept
<1>4. alerts' \in [AlertId -> Alert \cup {NoRow}]
  BY <1>2, <1>3 DEF RenotifyCommit, IInv, TypeOK
<1>5. \A a \in AlertId : alerts'[a] = NoRow \/ RowGood(alerts'[a])
  BY <1>2, <1>3 DEF IInv, Rows
<1>6. \A a \in Rows : RowKept(a)
  BY <1>2, <1>3 DEF Rows, RowKept
<1> QED BY <1>4, <1>5, <1>6, TableStep, EndIsIdle DEF RenotifyCommit, IInv

(* Only mailed alerts are scheduled, so only they become due. *)
LEMMA TimeStep ==
    ASSUME IInv, NEW a \in AlertId, IntervalEnds(a) \/ WindowPasses(a)
    PROVE  IInv'
<1>1. a \in Rows /\ alerts[a] \in Alert /\ RowGood(alerts[a])
  BY DEF IntervalEnds, WindowPasses, Rows, IInv, TypeOK
<1>2. /\ alerts'[a] \in Alert /\ RowGood(alerts'[a])
      /\ alerts'[a].channel = alerts[a].channel /\ alerts'[a].status = alerts[a].status
      /\ \A b \in AlertId : b # a => alerts'[b] = alerts[b]
      /\ alerts' \in [AlertId -> Alert \cup {NoRow}]
  <2>1. CASE IntervalEnds(a)
    <3>1. alerts' = [alerts EXCEPT ![a] = [alerts[a] EXCEPT !.renotify = "due"]]
      BY <2>1 DEF IntervalEnds
    <3>2. [alerts[a] EXCEPT !.renotify = "due"] \in Alert
      BY <1>1 DEF Alert, When
    <3>3. alerts[a].channel = "email"
      BY <1>1, <2>1 DEF IntervalEnds, RowGood
    <3> QED BY <1>1, <3>1, <3>2, <3>3 DEF IInv, TypeOK, RowGood, Alert
  <2>2. CASE WindowPasses(a)
    <3>1. alerts' = [alerts EXCEPT ![a] = [alerts[a] EXCEPT !.recent = FALSE]]
      BY <2>2 DEF WindowPasses
    <3>2. [alerts[a] EXCEPT !.recent = FALSE] \in Alert
      BY <1>1 DEF Alert
    <3> QED BY <1>1, <3>1, <3>2 DEF IInv, TypeOK, RowGood, Alert
  <2> QED BY <2>1, <2>2
<1>3. \A b \in AlertId : alerts'[b] = NoRow \/ RowGood(alerts'[b])
  BY <1>2 DEF IInv, Rows
<1>4. \A b \in Rows : RowKept(b)
  BY <1>2, RowAssumption DEF Rows, RowKept
<1> QED BY <1>2, <1>3, <1>4, TableStep DEF IntervalEnds, WindowPasses, IInv, TypeOK

-----------------------------------------------------------------------------
(* Every step preserves the invariant. *)
LEMMA NextIInv == IInv /\ [Next]_vars => IInv'
<1> SUFFICES ASSUME IInv, [Next]_vars PROVE IInv'
  OBVIOUS
<1>1. ASSUME NEW w \in Worker, WorkerStep(w) PROVE IInv'
  BY <1>1, CreateStep, AcknowledgeStep, DigestStep, RenotifyReadStep, RunStep,
     RenotifyCommitStep, RollbackStep DEF WorkerStep
<1>2. ASSUME NEW a \in AlertId, IntervalEnds(a) \/ WindowPasses(a) PROVE IInv'
  BY <1>2, TimeStep
<1>3. CASE UNCHANGED vars
  BY <1>3 DEF vars, IInv, TypeOK, Rows, RowGood, Backed, DigestBacked,
              AcknowledgeBacked, RenotifyBacked, Mailed, Spent
<1> QED BY <1>1, <1>2, <1>3 DEF Next

LEMMA Inductive == Spec => []IInv
<1> QED BY InitIInv, NextIInv, PTL DEF Spec

(* The tables and sessions keep their types: the stored count of notices never
   exceeds MAX_RENOTIFICATIONS, whatever runs of the job overlap. *)
THEOREM TypeCorrect == Spec => []TypeOK
<1>1. IInv => TypeOK
  BY DEF IInv
<1> QED BY <1>1, Inductive, PTL

(* No run of the job picks an alert acknowledged before it started. *)
THEOREM Quiet == Spec => []AcknowledgedIsQuiet
<1>1. IInv => AcknowledgedIsQuiet
  BY DEF IInv, Backed, RenotifyBacked, AcknowledgedIsQuiet
<1> QED BY <1>1, Inductive, PTL

(* The acknowledgement of a mailed alert stands, however sessions interleave. *)
THEOREM Acknowledgement == Spec => []AcknowledgementStands
<1>1. IInv => AcknowledgementStands
  BY DEF IInv, RowGood, AcknowledgementStands
<1> QED BY <1>1, Inductive, PTL
=============================================================================

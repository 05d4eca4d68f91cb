-------------------------- MODULE Sessions_proofs --------------------------
(***************************************************************************)
(* What the proofs about the smaller services have in common: one session  *)
(* at a time stays one at a time, and what an insert does to a table.      *)
(***************************************************************************)
EXTENDS FiniteSets, Integers, Sessions, FiniteSetTheorems, TLAPS

(* Where sessions do not overlap, at most one is open. *)
OneOpen == ~overlap =>
    \A v, w \in Worker : v = w \/ txn[v] = Idle \/ txn[w] = Idle

(* At the start none is. *)
LEMMA NoneOpen == SessionsInit => OneOpen
BY DEF SessionsInit, OneOpen

(* A session that begins, goes on or ends leaves it so. *)
LEMMA BeginKeepsOne ==
    ASSUME NEW S, txn \in [Worker -> S], OneOpen,
           NEW w \in Worker, NEW t, Begin(w, t)
    PROVE  OneOpen'
BY DEF OneOpen, Begin, Free

LEMMA ContinueKeepsOne ==
    ASSUME NEW S, txn \in [Worker -> S], OneOpen,
           NEW w \in Worker, txn[w] # Idle, NEW t, Continue(w, t)
    PROVE  OneOpen'
BY DEF OneOpen, Continue

LEMMA EndKeepsOne ==
    ASSUME NEW S, txn \in [Worker -> S], OneOpen, NEW w \in Worker, End(w)
    PROVE  OneOpen'
BY DEF OneOpen, End

(* While one session is open, no other acts. *)
LEMMA OnlyOne ==
    ASSUME OneOpen, ~overlap, NEW v \in Worker, NEW w \in Worker,
           txn[w] # Idle, txn[v] # Idle \/ Free(v)
    PROVE  v = w
BY DEF OneOpen, Free

(* Whoever ends a session, or does in one step what takes one, leaves none
   behind where sessions do not overlap. *)
LEMMA EndLeaves ==
    ASSUME NEW S, txn \in [Worker -> S], Idle \in S, OneOpen,
           NEW w \in Worker, txn[w] # Idle, End(w)
    PROVE  /\ overlap' = overlap
           /\ txn' \in [Worker -> S]
           /\ \A v \in Worker : txn'[v] = Idle \/ (txn'[v] = txn[v] /\ overlap)
BY DEF End, OneOpen

LEMMA FreeLeaves ==
    ASSUME NEW S, txn \in [Worker -> S], NEW w \in Worker, Free(w), UNCHANGED sessions
    PROVE  /\ overlap' = overlap
           /\ txn' \in [Worker -> S]
           /\ \A v \in Worker : txn'[v] = Idle \/ (txn'[v] = txn[v] /\ overlap)
BY DEF Free, sessions

(* A session that is open for something is not idle. *)
LEMMA IdleOp == Idle.op = "idle"
BY DEF Idle

LEMMA OpenIsNotIdle ==
    ASSUME NEW w \in Worker, NEW op, Open(w, op), op # "idle"
    PROVE  txn[w] # Idle
BY IdleOp DEF Open

(* An insert fills one free key. *)
LEMMA InsertFillsOne ==
    ASSUME NEW table, Room(table), NEW row
    PROVE  \E k \in DOMAIN table : /\ table[k] = NoRow
                                   /\ Inserted(table, row) = [table EXCEPT ![k] = row]
BY DEF Room, Inserted

(* What was in the table stays, and what is new is the row. *)
LEMMA InsertedTable ==
    ASSUME NEW K, NEW V, NEW table \in [K -> V \cup {NoRow}], Room(table), NEW row \in V
    PROVE  /\ Inserted(table, row) \in [K -> V \cup {NoRow}]
           /\ \E k \in K :
                /\ table[k] = NoRow
                /\ Inserted(table, row)[k] = row
                /\ \A j \in K : j # k => Inserted(table, row)[j] = table[j]
BY InsertFillsOne

LEMMA AfterInsert ==
    ASSUME NEW K, NEW V, NEW table, NEW after, NEW row,
           table \in [K -> V \cup {NoRow}], Room(table), row \in V,
           after = Inserted(table, row)
    PROVE  \E k \in K : /\ table[k] = NoRow
                        /\ after[k] = row
                        /\ \A j \in K : j # k => after[j] = table[j]
BY InsertedTable

(* Counting. *)
LEMMA LessThrough ==
    ASSUME NEW a \in Nat, NEW b \in Nat, NEW c \in Nat, a <= b, b < c
    PROVE  a < c
OBVIOUS

(* A set without two different members has one at most. *)
LEMMA AtMostOne ==
    ASSUME NEW S, \A x, y \in S : x = y
    PROVE  IsFiniteSet(S) /\ Cardinality(S) <= 1 /\ Cardinality(S) \in Nat
<1>1. CASE S = {}
    BY <1>1, FS_EmptySet
<1>2. ASSUME NEW x \in S
      PROVE  IsFiniteSet(S) /\ Cardinality(S) <= 1 /\ Cardinality(S) \in Nat
  <2>1. S = {x}
    BY <1>2
  <2>2. IsFiniteSet({x}) /\ Cardinality({x}) = 1
    BY FS_Singleton
  <2> QED
    BY <2>1, <2>2
<1> QED
    BY <1>1, <1>2

LEMMA OneAtMost ==
    ASSUME NEW S, IsFiniteSet(S), Cardinality(S) <= 1
    PROVE  \A x, y \in S : x = y
<1> SUFFICES ASSUME NEW x \in S, NEW y \in S, x # y PROVE FALSE
    OBVIOUS
<1>1. /\ IsFiniteSet({x} \cup {y})
      /\ Cardinality({x} \cup {y}) = Cardinality({x}) + 1 /\ Cardinality({x}) = 1
    BY FS_Singleton, FS_AddElement
<1>2. {x} \cup {y} \subseteq S
    OBVIOUS
<1>3. Cardinality({x} \cup {y}) <= Cardinality(S) /\ Cardinality(S) \in Nat
    BY <1>2, FS_Subset, FS_CardinalityType
<1> QED
    BY <1>1, <1>3

(* A part of a finite table has no more rows, and one with a new row at most
   one more. *)
LEMMA PartCount ==
    ASSUME NEW S, IsFiniteSet(S), NEW T, T \subseteq S
    PROVE  /\ IsFiniteSet(T)
           /\ Cardinality(T) \in Nat /\ Cardinality(S) \in Nat
           /\ Cardinality(T) <= Cardinality(S)
BY FS_Subset, FS_CardinalityType

LEMMA OneMoreCount ==
    ASSUME NEW S, IsFiniteSet(S), NEW x, NEW T, T \subseteq S \cup {x}
    PROVE  /\ IsFiniteSet(T)
           /\ Cardinality(T) \in Nat /\ Cardinality(S) \in Nat
           /\ Cardinality(T) <= Cardinality(S) + 1
<1> DEFINE U == S \cup {x}
<1>1. IsFiniteSet(U) /\ Cardinality(U) = IF x \in S THEN Cardinality(S) ELSE Cardinality(S) + 1
    BY FS_AddElement
<1>2. Cardinality(S) \in Nat
    BY FS_CardinalityType
<1> HIDE DEF U
<1>3. /\ IsFiniteSet(T) /\ Cardinality(T) \in Nat /\ Cardinality(U) \in Nat
      /\ Cardinality(T) <= Cardinality(U)
    BY <1>1, PartCount DEF U
<1> QED
    BY <1>1, <1>2, <1>3
=============================================================================

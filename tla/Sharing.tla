------------------------------ MODULE Sharing ------------------------------
(***************************************************************************)
(* What the parent of one child consents to be shared with third parties,  *)
(* provider by provider, and the refusal of all sharing                    *)
(* (src/src/compliance/coppa_2026.py).                                     *)
(*                                                                         *)
(* An update writes the columns that differ from what its session has      *)
(* read, so two sessions can leave a row that neither of them wrote.       *)
(***************************************************************************)
EXTENDS FiniteSets, Naturals, Sessions

CONSTANTS
    Provider,   \* THIRD_PARTY_PROVIDERS
    Essential,  \* those that a refusal leaves alone
    ItemId      \* primary keys of third_party_consent_items (bounds the rows)

ASSUME SharingAssumption == Essential \subseteq Provider

VARIABLES
    items,     \* table third_party_consent_items
    standing   \* the last decision of the parent to be committed, for each provider (history)

sharingTables == <<items, standing>>
sharingVars == <<items, standing, txn, overlap>>

ParentDecision == {"none", "given", "refused"}
ConsentItem == [provider: Provider, consented: BOOLEAN, withdrawn: BOOLEAN]   \* withdrawn_at set or not

ASSUME ConsentItemAssumption == NoRow \notin ConsentItem

FoundItems == UNION {[found -> ConsentItem] : found \in SUBSET ItemId}   \* what a query has found

SharingTxn ==
    {Idle}
    \cup [op: {"update"}, provider: Provider, consented: BOOLEAN, read: FoundItems]
    \cup [op: {"refuse"}, refused: BOOLEAN, read: FoundItems]

SharingTypeOK ==
    /\ items \in [ItemId -> ConsentItem \cup {NoRow}]
    /\ standing \in [Provider -> ParentDecision]
    /\ txn \in [Worker -> SharingTxn]

SharingTablesInit ==
    /\ items = [i \in ItemId |-> NoRow]
    /\ standing = [t \in Provider |-> "none"]

SharingInit == SharingTablesInit /\ SessionsInit

ItemsOf(table, providers) == {i \in DOMAIN table : table[i] # NoRow /\ table[i].provider \in providers}
Found(providers) == [i \in ItemsOf(items, providers) |-> items[i]]

(* Seeded fault: withdrawn_at is not looked at, as in get_degraded_providers. *)
AllowedByColumn(t) ==
    Cardinality({i \in ItemsOf(items, {t}) : items[i].consented}) = 1

(* check_third_party_consent: a second row that says yes makes the query
   raise, and nothing is shared. *)
Allowed(t) ==
    Cardinality({i \in ItemsOf(items, {t}) : items[i].consented /\ ~items[i].withdrawn}) = 1

-----------------------------------------------------------------------------
(* update_third_party_consent; the bulk update is one after another in a session. *)

UpdateRead(w, t, consented) ==
    /\ Cardinality(ItemsOf(items, {t})) <= 1      \* scalar_one_or_none
    /\ Begin(w, [op |-> "update", provider |-> t, consented |-> consented, read |-> Found({t})])
    /\ UNCHANGED sharingTables

(* The columns of row i after a session that read row old gave them other values. *)
Written(i, old, consented, withdrawn) ==
    [items[i] EXCEPT !.consented = IF old.consented = consented THEN @ ELSE consented,
                     !.withdrawn = IF ~old.withdrawn /\ ~withdrawn THEN @ ELSE withdrawn]

UpdateWrite(w) ==
    /\ Open(w, "update")
    /\ LET t == txn[w].provider  yes == txn[w].consented  read == txn[w].read IN
         /\ IF DOMAIN read = {}
            THEN /\ Room(items)
                 /\ items' = Inserted(items, [provider |-> t, consented |-> yes,
                                              withdrawn |-> ~yes])
            ELSE items' = [i \in ItemId |->
                             IF i \in DOMAIN read THEN Written(i, read[i], yes, ~yes)
                             ELSE items[i]]
         /\ standing' = [standing EXCEPT ![t] = IF yes THEN "given" ELSE "refused"]
    /\ End(w)

-----------------------------------------------------------------------------
(* get_third_party_consents, which a refusal, the dashboard and the list begin
   with, inserts a row for every provider when it finds none. *)

RefuseRead(w, refused) ==
    /\ refused \/ ItemsOf(items, Provider) = {}   \* a look that finds rows changes nothing
    /\ Begin(w, [op |-> "refuse", refused |-> refused, read |-> Found(Provider)])
    /\ UNCHANGED sharingTables

Places(free) ==
    {at \in [Provider -> free] : \A p, q \in Provider : p # q => at[p] # at[q]}

Default(t, refused) ==
    [provider |-> t, consented |-> FALSE, withdrawn |-> refused /\ t \notin Essential]

(* Seeded fault: the refusal leaves rows alone that say no when it reads them. *)
ToRefuseOfConsented(read) ==
    {i \in ItemsOf(read, Provider \ Essential) : read[i].consented}

ToRefuse(read) == ItemsOf(read, Provider \ Essential)

(* A provider without a row is left out, unless no provider has one. *)
Covered(read, t) ==
    /\ t \in Provider \ Essential
    /\ DOMAIN read # {} => ItemsOf(read, {t}) # {}

RefuseWrite(w) ==
    /\ Open(w, "refuse")
    /\ LET read == txn[w].read  refused == txn[w].refused IN
         /\ IF DOMAIN read = {}   \* any free keys do, as in Inserted
            THEN LET free == {i \in ItemId : items[i] = NoRow}  places == Places(free) IN
                   /\ places # {}
                   /\ items' = LET at == CHOOSE a \in places : TRUE IN
                        [i \in ItemId |->
                           IF \E p \in Provider : at[p] = i
                           THEN Default(CHOOSE p \in Provider : at[p] = i, refused)
                           ELSE items[i]]
            ELSE items' = [i \in ItemId |->
                             IF refused /\ i \in ToRefuse(read)
                             THEN Written(i, read[i], FALSE, TRUE)
                             ELSE items[i]]
         /\ standing' = [t \in Provider |-> IF refused /\ Covered(read, t)
                                         THEN "refused" ELSE standing[t]]
    /\ End(w)

SharingNext == \E w \in Worker :
    \/ \E t \in Provider, consented \in BOOLEAN : UpdateRead(w, t, consented)
    \/ \E refused \in BOOLEAN : RefuseRead(w, refused)
    \/ UpdateWrite(w) \/ RefuseWrite(w)
    \/ Abandon(w) /\ UNCHANGED sharingTables

SharingSpec == SharingInit /\ [][SharingNext]_sharingVars

-----------------------------------------------------------------------------
(* "Returns False if no record exists or if withdrawn": once a refusal is committed
   nothing is shared until a consent is committed after it, whatever other session
   had read the row before and although the columns of two sessions mix.  Two
   exceptions: where two sessions created the rows, that of a consent may stand
   beside that of the refusal; and a refusal does not reach a row that was inserted
   after it looked.  Sessions that do not overlap create each row once, and a
   consent is effective. *)
RefusalStands == \A t \in Provider :
    LET once == Cardinality(ItemsOf(items, {t})) <= 1 IN
      /\ ~overlap => once
      /\ once /\ Allowed(t) => standing[t] = "given"
      /\ ~overlap /\ standing[t] = "given" => Allowed(t)
=============================================================================

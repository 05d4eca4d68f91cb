------------------------- MODULE IdentityProtection -------------------------
(***************************************************************************)
(* The accounts that subscribers have with a partner                       *)
(* (src/src/billing/partnerships.py): the link is a row of the database,   *)
(* the account is the partner's, and a session changes the one after the   *)
(* other.  A session can end in between: the process stops, the commit     *)
(* fails, or the partner's answer is lost.                                 *)
(***************************************************************************)
EXTENDS Sessions

CONSTANT AccountId   \* accounts the partner may open (bounds them)

VARIABLES
    links,            \* table identity_protection_links, user_id unique
    partnerAccounts,   \* accounts with the partner: whose, and whether open
    unsettled         \* users one of whose calls ended between the partner and the
                      \* database (history)

identityProtectionTables == <<links, partnerAccounts, unsettled>>
identityProtectionVars == <<links, partnerAccounts, unsettled, txn, overlap>>

Account == [user: Member, open: BOOLEAN]
Link == [account: AccountId, status: {"active", "cancelled"}]

ASSUME AccountAssumption == NoRow \notin Account \cup Link

IdentityProtectionTxn ==
    {Idle}
    \cup [op: {"open"}, user: Member]
    \cup [op: {"link", "close", "cancel"}, user: Member, account: AccountId]

IdentityProtectionTypeOK ==
    /\ links \in [Member -> Link \cup {NoRow}]
    /\ partnerAccounts \in [AccountId -> Account \cup {NoRow}]
    /\ unsettled \subseteq Member
    /\ txn \in [Worker -> IdentityProtectionTxn]

IdentityProtectionTablesInit ==
    /\ links = [u \in Member |-> NoRow]
    /\ partnerAccounts = [a \in AccountId |-> NoRow]
    /\ unsettled = {}

IdentityProtectionInit == IdentityProtectionTablesInit /\ SessionsInit

HasActive(u) == links[u] # NoRow /\ links[u].status = "active"

-----------------------------------------------------------------------------
(* activate_identity_protection looks for an active link, not for a link. *)

ActivateRead(w, u) ==
    /\ ~HasActive(u)
    /\ Begin(w, [op |-> "open", user |-> u])
    /\ UNCHANGED identityProtectionTables

AccountOpened(w, heard) ==
    /\ Open(w, "open") /\ Room(partnerAccounts)
    /\ LET u == txn[w].user  a == CHOOSE b \in AccountId : partnerAccounts[b] = NoRow IN
         /\ partnerAccounts' = [partnerAccounts EXCEPT ![a] = [user |-> u, open |-> TRUE]]
         /\ IF heard
            THEN /\ Continue(w, [op |-> "link", user |-> u, account |-> a])
                 /\ UNCHANGED unsettled
            ELSE End(w) /\ unsettled' = unsettled \cup {u}
    /\ UNCHANGED links

(* The unique index turns down the second row of a user. *)
LinkInserted(w) ==
    /\ Open(w, "link")
    /\ LET u == txn[w].user IN
         IF links[u] = NoRow
         THEN /\ links' = [links EXCEPT ![u] = [account |-> txn[w].account, status |-> "active"]]
              /\ UNCHANGED unsettled
         ELSE unsettled' = unsettled \cup {u} /\ UNCHANGED links
    /\ End(w)
    /\ UNCHANGED partnerAccounts

-----------------------------------------------------------------------------
(* revoke_identity_protection *)

RevocationRead(w, u) ==
    /\ HasActive(u)
    /\ Begin(w, [op |-> "close", user |-> u, account |-> links[u].account])
    /\ UNCHANGED identityProtectionTables

(* Seeded fault: an error of the partner does not stop the revocation. *)
AccountClosedOrNot(w, heard) ==
    /\ Open(w, "close")
    /\ partnerAccounts' = [partnerAccounts EXCEPT ![txn[w].account].open = ~heard]
    /\ Continue(w, [txn[w] EXCEPT !.op = "cancel"])
    /\ UNCHANGED <<links, unsettled>>

AccountClosed(w, heard) ==
    /\ Open(w, "close")
    /\ partnerAccounts' = [partnerAccounts EXCEPT ![txn[w].account].open = FALSE]
    /\ IF heard
       THEN Continue(w, [txn[w] EXCEPT !.op = "cancel"]) /\ UNCHANGED unsettled
       ELSE End(w) /\ unsettled' = unsettled \cup {txn[w].user}
    /\ UNCHANGED links

LinkCancelled(w) ==
    /\ Open(w, "cancel")
    /\ links' = [links EXCEPT ![txn[w].user].status = "cancelled"]
    /\ End(w)
    /\ UNCHANGED <<partnerAccounts, unsettled>>

-----------------------------------------------------------------------------
(* A session that ends before it has spoken to the partner has done nothing. *)
SessionLost(w) ==
    /\ Abandon(w)
    /\ unsettled' = IF Open(w, "link") \/ Open(w, "cancel")
                    THEN unsettled \cup {txn[w].user} ELSE unsettled
    /\ UNCHANGED <<links, partnerAccounts>>

IdentityProtectionNext == \E w \in Worker :
    \/ \E u \in Member : ActivateRead(w, u) \/ RevocationRead(w, u)
    \/ \E heard \in BOOLEAN : AccountOpened(w, heard) \/ AccountClosed(w, heard)
    \/ LinkInserted(w) \/ LinkCancelled(w) \/ SessionLost(w)

IdentityProtectionSpec == IdentityProtectionInit /\ [][IdentityProtectionNext]_identityProtectionVars

-----------------------------------------------------------------------------
(* "Cancellation on the Bhapi side flips status to cancelled and triggers
   revoke_identity_protection() to disable the partner account": a link that says
   cancelled has no open account, whatever interleaves and wherever a session ends,
   as the partner is told first.  As long as no call of a user ended between the
   partner and the database, and none overlap, an active link has its account and
   an account its link.  One such call needs no crash: a user who comes back after
   a revocation gets an account for which the unique index leaves no link. *)
Between(u) == \E w \in Worker : txn[w].op \in {"link", "cancel"} /\ txn[w].user = u
AccountsAreLinked == \A u \in Member :
    /\ links[u] # NoRow /\ links[u].status = "cancelled" => ~partnerAccounts[links[u].account].open
    /\ ~overlap /\ u \notin unsettled /\ ~Between(u) =>
         {a \in AccountId : partnerAccounts[a] = [user |-> u, open |-> TRUE]}
             = IF HasActive(u) THEN {links[u].account} ELSE {}
=============================================================================

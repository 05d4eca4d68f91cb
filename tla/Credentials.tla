---------------------------- MODULE Credentials ----------------------------
(***************************************************************************)
(* What a user or a partner's client is given once and trades for          *)
(* something else: a password reset link and the login sessions it ends    *)
(* (src/src/auth/service.py), the setup code of a device                   *)
(* (src/src/capture/service.py), and the authorization code and refresh    *)
(* tokens of OAuth (src/src/api_platform/oauth.py).                        *)
(*                                                                         *)
(* One user, one client.  Hashes, signatures, scopes and PKCE are left     *)
(* out; every attempt here comes with the right ones.                      *)
(***************************************************************************)
EXTENDS FiniteSets, Naturals, Sessions

CONSTANTS
    ResetId,   \* reset tokens, by their jti (bounds the resets)
    LoginId,   \* primary keys of sessions
    SetupId,   \* primary keys of setup_codes (bounds the codes)
    CodeId,    \* authorization codes (bounds the codes)
    TokenId    \* primary keys of oauth_tokens

VARIABLES
    resets,     \* reset tokens: what became of each
    resetSpent, \* Redis: the reset tokens marked as used
    password,   \* users.password_hash: the reset it stems from
    logins,     \* table sessions: the password each was opened with
    setups,     \* table setup_codes
    devices,    \* table device_registrations: rows by setup code
    codes,      \* _auth_codes, in the memory of the process
    tokens      \* table oauth_tokens

credentialsTables == <<resets, resetSpent, password, logins, setups, devices, codes, tokens>>
credentialsVars ==
    <<resets, resetSpent, password, logins, setups, devices, codes, tokens, txn, overlap>>
loginTables == <<resets, resetSpent, password, logins>>
setupTables == <<setups, devices>>
oauthTables == <<codes, tokens>>

Password == ResetId \cup {NoRow}   \* NoRow: the password of the registration
Reset == {"unsent", "sent", "expired"}
Setup == [used: BOOLEAN, fresh: BOOLEAN]
Token == [code: CodeId, revoked: BOOLEAN, fresh: BOOLEAN]

ASSUME CredentialsAssumption == NoRow \notin Setup \cup Token

CredentialsTxn ==
    {Idle}
    \cup [op: {"reset", "marked"}, reset: ResetId]
    \cup [op: {"login"}, password: Password]
    \cup [op: {"pair"}, setup: SetupId]
    \cup [op: {"exchange"}, code: CodeId]
    \cup [op: {"refresh"}, token: TokenId]

CredentialsTypeOK ==
    /\ resets \in [ResetId -> Reset] /\ resetSpent \subseteq ResetId
    /\ password \in Password /\ logins \in [LoginId -> [password: Password] \cup {NoRow}]
    /\ setups \in [SetupId -> Setup \cup {NoRow}] /\ devices \in [SetupId -> Nat]
    /\ codes \in [CodeId -> {"new", "live", "stale", "gone"}]
    /\ tokens \in [TokenId -> Token \cup {NoRow}]
    /\ txn \in [Worker -> CredentialsTxn] /\ overlap \in BOOLEAN

CredentialsTablesInit ==
    /\ resets = [r \in ResetId |-> "unsent"] /\ resetSpent = {}
    /\ password = NoRow /\ logins = [l \in LoginId |-> NoRow]
    /\ setups = [s \in SetupId |-> NoRow] /\ devices = [s \in SetupId |-> 0]
    /\ codes = [c \in CodeId |-> "new"] /\ tokens = [t \in TokenId |-> NoRow]

CredentialsInit == CredentialsTablesInit /\ SessionsInit

-----------------------------------------------------------------------------
(* Passwords and login sessions.  reset_password looks in Redis whether its token
   was used, marks it there, and ends the login sessions it finds. *)

LoginRead(w) ==
    /\ Begin(w, [op |-> "login", password |-> password])
    /\ UNCHANGED credentialsTables

LoginWrite(w) ==
    /\ Open(w, "login")
    /\ Room(logins)
    /\ logins' = Inserted(logins, [password |-> txn[w].password])
    /\ End(w)
    /\ UNCHANGED <<resets, resetSpent, password, setupTables, oauthTables>>

Logout(w, l) ==
    /\ Free(w) /\ logins[l] # NoRow
    /\ logins' = [logins EXCEPT ![l] = NoRow]
    /\ UNCHANGED <<resets, resetSpent, password, setupTables, oauthTables, sessions>>

ResetSent(r) ==
    /\ resets[r] = "unsent"
    /\ resets' = [resets EXCEPT ![r] = "sent"]
    /\ UNCHANGED <<resetSpent, password, logins, setupTables, oauthTables, sessions>>

ResetExpires(r) ==
    /\ resets[r] = "sent"
    /\ resets' = [resets EXCEPT ![r] = "expired"]
    /\ UNCHANGED <<resetSpent, password, logins, setupTables, oauthTables, sessions>>

ResetRead(w, r) ==
    /\ resets[r] = "sent" /\ r \notin resetSpent
    /\ Begin(w, [op |-> "reset", reset |-> r])
    /\ UNCHANGED credentialsTables

ResetMark(w) ==
    /\ Open(w, "reset")
    /\ resetSpent' = resetSpent \cup {txn[w].reset}
    /\ Continue(w, [op |-> "marked", reset |-> txn[w].reset])
    /\ UNCHANGED <<resets, password, logins, setupTables, oauthTables>>

(* Seeded fault: the login sessions stay. *)
LoginsKept == logins

LoginsEnded == [l \in LoginId |-> NoRow]

ResetWrite(w) ==
    /\ Open(w, "marked")
    /\ password' = txn[w].reset
    /\ logins' = LoginsEnded
    /\ End(w)
    /\ UNCHANGED <<resets, resetSpent, setupTables, oauthTables>>

-----------------------------------------------------------------------------
(* Setup codes.  Two exchanges of one code both find it unused; the unique index
   on device_registrations.setup_code refuses the second.  register_device takes
   a code from the caller, who need not have been given it: it inserts the device
   beside the exchanges, and neither reads nor marks a setup code. *)

SetupMade(w) ==
    /\ Free(w) /\ Room(setups)
    /\ setups' = Inserted(setups, [used |-> FALSE, fresh |-> TRUE])
    /\ UNCHANGED <<devices, loginTables, oauthTables, sessions>>

SetupExpires(s) ==
    /\ setups[s] # NoRow /\ setups[s].fresh
    /\ setups' = [setups EXCEPT ![s].fresh = FALSE]
    /\ UNCHANGED <<devices, loginTables, oauthTables, sessions>>

PairRead(w, s) ==
    /\ setups[s] = [used |-> FALSE, fresh |-> TRUE]
    /\ Begin(w, [op |-> "pair", setup |-> s])
    /\ UNCHANGED credentialsTables

(* Seeded fault: there is no unique index. *)
UncheckedIndex(s) == TRUE

UniqueIndex(s) == devices[s] = 0

PairWrite(w) ==
    /\ Open(w, "pair")
    /\ UniqueIndex(txn[w].setup)
    /\ setups' = [setups EXCEPT ![txn[w].setup].used = TRUE]
    /\ devices' = [devices EXCEPT ![txn[w].setup] = @ + 1]
    /\ End(w)
    /\ UNCHANGED <<loginTables, oauthTables>>

DeviceRegistered(w, s) ==
    /\ Free(w) /\ UniqueIndex(s)
    /\ devices' = [devices EXCEPT ![s] = @ + 1]
    /\ UNCHANGED <<setups, loginTables, oauthTables, sessions>>

-----------------------------------------------------------------------------
(* OAuth.  The code is taken out of the dictionary before anything else, also when
   the exchange then fails, and a restart of the process loses all codes. *)

CodeMade(c) ==
    /\ codes[c] = "new"
    /\ codes' = [codes EXCEPT ![c] = "live"]
    /\ UNCHANGED <<tokens, loginTables, setupTables, sessions>>

CodeExpires(c) ==
    /\ codes[c] = "live"
    /\ codes' = [codes EXCEPT ![c] = "stale"]
    /\ UNCHANGED <<tokens, loginTables, setupTables, sessions>>

ProcessRestarts ==
    /\ codes' = [c \in CodeId |-> IF codes[c] = "new" THEN "new" ELSE "gone"]
    /\ txn' = [w \in Worker |-> Idle]
    /\ UNCHANGED <<tokens, loginTables, setupTables, overlap>>

ExchangePop(w, c) ==
    /\ codes[c] \in {"live", "stale"}
    /\ codes' = [codes EXCEPT ![c] = "gone"]
    /\ IF codes[c] = "live" THEN Begin(w, [op |-> "exchange", code |-> c])
       ELSE Free(w) /\ UNCHANGED sessions
    /\ UNCHANGED <<tokens, loginTables, setupTables>>

ExchangeWrite(w) ==
    /\ Open(w, "exchange")
    /\ Room(tokens)
    /\ tokens' = Inserted(tokens, [code |-> txn[w].code, revoked |-> FALSE, fresh |-> TRUE])
    /\ End(w)
    /\ UNCHANGED <<codes, loginTables, setupTables>>

Refreshable(t) == tokens[t] # NoRow /\ ~tokens[t].revoked /\ tokens[t].fresh

RefreshRead(w, t) ==
    /\ Refreshable(t)
    /\ Begin(w, [op |-> "refresh", token |-> t])
    /\ UNCHANGED credentialsTables

(* Seeded fault: the token that was traded in stays valid. *)
NotRotated(t) == tokens

Rotated(t) == [tokens EXCEPT ![t].revoked = TRUE]

RefreshWrite(w) ==
    /\ Open(w, "refresh")
    /\ Room(tokens)
    /\ tokens' = Inserted(Rotated(txn[w].token),
         [code |-> tokens[txn[w].token].code, revoked |-> FALSE, fresh |-> TRUE])
    /\ End(w)
    /\ UNCHANGED <<codes, loginTables, setupTables>>

(* revoke_token, with the access token or the refresh token of the row. *)
TokenRevoked(w, t) ==
    /\ Free(w) /\ tokens[t] # NoRow /\ ~tokens[t].revoked
    /\ tokens' = [tokens EXCEPT ![t].revoked = TRUE]
    /\ UNCHANGED <<codes, loginTables, setupTables, sessions>>

TokenExpires(t) ==
    /\ tokens[t] # NoRow /\ tokens[t].fresh
    /\ tokens' = [tokens EXCEPT ![t].fresh = FALSE]
    /\ UNCHANGED <<codes, loginTables, setupTables, sessions>>

CredentialsStep(w) ==
    \/ LoginRead(w) \/ LoginWrite(w) \/ \E l \in LoginId : Logout(w, l)
    \/ \E r \in ResetId : ResetRead(w, r)
    \/ ResetMark(w) \/ ResetWrite(w)
    \/ SetupMade(w) \/ \E s \in SetupId : PairRead(w, s) \/ DeviceRegistered(w, s)
    \/ PairWrite(w)
    \/ \E c \in CodeId : ExchangePop(w, c)
    \/ ExchangeWrite(w)
    \/ \E t \in TokenId : RefreshRead(w, t) \/ TokenRevoked(w, t)
    \/ RefreshWrite(w)
    \/ Abandon(w) /\ UNCHANGED credentialsTables

CredentialsNext ==
    \/ \E w \in Worker : CredentialsStep(w)
    \/ \E r \in ResetId : ResetSent(r) \/ ResetExpires(r)
    \/ \E s \in SetupId : SetupExpires(s)
    \/ \E c \in CodeId : CodeMade(c) \/ CodeExpires(c)
    \/ \E t \in TokenId : TokenExpires(t)
    \/ ProcessRestarts

CredentialsSpec == CredentialsInit /\ [][CredentialsNext]_credentialsVars

-----------------------------------------------------------------------------
(* "One-time setup code", "token rotation", "Invalidate all existing sessions":
   a setup code stands for one device, also when two exchanges and a registration
   with that code overlap, and one that was exchanged has its device; of the tokens
   that stem from one authorization code at most one can be used, along any chain
   of refreshes and revocations, and a login session is one of the present
   password, unless two sessions read before either writes. *)
LivePairs(c) == {t \in TokenId : tokens[t] # NoRow /\ tokens[t].code = c /\ ~tokens[t].revoked}

OneGrantEach ==
    /\ \A s \in SetupId :
         /\ devices[s] <= 1
         /\ setups[s] # NoRow /\ setups[s].used => devices[s] = 1
    /\ ~overlap =>
         /\ \A c \in CodeId : Cardinality(LivePairs(c)) <= 1
         /\ \A l \in LoginId : logins[l] # NoRow => logins[l].password = password
=============================================================================

------------------------------- MODULE Spend -------------------------------
(***************************************************************************)
(* What the AI accounts of one group cost: accounts of one provider        *)
(* (src/src/billing/service.py), the hourly job that asks the provider for *)
(* what was used (scheduler.py and providers/), and the one that alerts at *)
(* the levels of a budget (threshold_checker.py).  Each hour of use costs  *)
(* one.  A provider answers for the hours it is asked for, the day of the  *)
(* end of a range included.                                                *)
(*                                                                         *)
(* connect_llm_account encrypts the key, and the job hands the provider    *)
(* the column as it is: only a key from before the encryption is accepted. *)
(***************************************************************************)
EXTENDS FiniteSetsExt, Integers, Sessions

CONSTANTS
    LlmId,        \* primary keys of llm_accounts
    LlmProvider,  \* the providers to choose from
    LastHour,     \* bound on the clock
    FirstWindow,  \* hours that the first sync looks back
    DayStart,     \* the hours in which a day begins
    MonthStart,   \* the hours in which a month begins
    MaxRecorded,  \* bound on how often an hour is recorded: no sync begins after that
    Level         \* what a level of the budget amounts to

ASSUME SpendAssumption ==
    /\ LlmProvider \subseteq {"anthropic", "google", "microsoft", "openai", "xai"}
    /\ LastHour \in Nat /\ FirstWindow \in Nat \ {0}
    /\ 0 \in MonthStart /\ MonthStart \subseteq DayStart /\ DayStart \subseteq 0..LastHour
    /\ Level \subseteq Nat \ {0}

VARIABLES
    llmProvider,  \* the provider of the accounts
    hour,         \* the clock
    llmAccounts,  \* table llm_accounts
    spendRecords, \* table spend_records: how often an hour of an account is in it,
    amounts,      \*  and what its rows amount to, by account and month of period_start
    budgeted,     \* whether the group has a row in budget_thresholds
    fired,        \* table fired_threshold_alerts: how often, by month and level
    covered,      \* by account, where its first synced window began (history)
    missed        \* hours asked for whose error was taken for no use (history)

recorded == <<spendRecords, amounts, covered, missed>>
spendTables == <<llmProvider, hour, llmAccounts, recorded, budgeted, fired>>
spendVars ==
    <<llmProvider, hour, llmAccounts, recorded, budgeted, fired, txn, overlap>>

Hour == 0..(LastHour - 1)
Never == -1

LlmAccount ==
    [status: {"active", "inactive", "error"}, key: {"encrypted", "legacy", "cleared"},
     synced: 0..LastHour \cup {Never}]

ASSUME LlmAccountAssumption == NoRow \notin LlmAccount

SpendTxn ==
    {Idle, [op |-> "connect"]}
    \cup [op: {"sync"}, now: 0..LastHour, read: UNION {[s -> LlmAccount] : s \in SUBSET LlmId}]
    \cup [op: {"check"}, month: MonthStart, due: SUBSET Level]

SpendTypeOK ==
    /\ llmProvider \in LlmProvider
    /\ hour \in 0..LastHour
    /\ llmAccounts \in [LlmId -> LlmAccount \cup {NoRow}]
    /\ spendRecords \in [LlmId -> [Hour -> Nat]]
    /\ amounts \in [LlmId -> [MonthStart -> Nat]]
    /\ budgeted \in BOOLEAN
    /\ fired \in [MonthStart -> [Level -> Nat]]
    /\ covered \in [LlmId -> 0..LastHour \cup {Never}]
    /\ missed \subseteq LlmId \X Hour
    /\ txn \in [Worker -> SpendTxn]

NewAccount(key) == [status |-> "active", key |-> key, synced |-> Never]

FirstKey == CHOOSE a \in LlmId : TRUE

SpendTablesInit ==
    /\ llmProvider \in LlmProvider
    /\ hour = 0
    /\ \E row \in {NoRow, NewAccount("legacy")} :   \* under any key
         llmAccounts = [a \in LlmId |-> IF a = FirstKey THEN row ELSE NoRow]
    /\ spendRecords = [a \in LlmId |-> [h \in Hour |-> 0]]
    /\ amounts = [a \in LlmId |-> [m \in MonthStart |-> 0]]
    /\ budgeted = FALSE
    /\ fired = [m \in MonthStart |-> [l \in Level |-> 0]]
    /\ covered = [a \in LlmId |-> Never]
    /\ missed = {}

SpendInit == SpendTablesInit /\ SessionsInit

ActiveAccounts == {a \in LlmId : llmAccounts[a] # NoRow /\ llmAccounts[a].status = "active"}

-----------------------------------------------------------------------------
(* connect_llm_account; disconnect_llm_account and revoke_llm_api_key, which clears
   the key whatever the provider answers. *)

ConnectRead(w) ==
    /\ ActiveAccounts = {}
    /\ Begin(w, [op |-> "connect"])
    /\ UNCHANGED spendTables

ConnectWrite(w) ==
    /\ Open(w, "connect") /\ Room(llmAccounts)
    /\ llmAccounts' = Inserted(llmAccounts, NewAccount("encrypted"))
    /\ End(w)
    /\ UNCHANGED <<llmProvider, hour, recorded, budgeted, fired>>

Disconnected(w, a) ==
    /\ Free(w) /\ llmAccounts[a] # NoRow
    /\ llmAccounts' = [llmAccounts EXCEPT ![a].status = "inactive", ![a].key = "cleared"]
    /\ UNCHANGED <<llmProvider, hour, recorded, budgeted, fired, sessions>>

-----------------------------------------------------------------------------
(* sync_all_accounts, which reads the active accounts first of all. *)

SyncAccountsRead(w) ==
    /\ ActiveAccounts # {}
    /\ \A a \in LlmId, h \in Hour : spendRecords[a][h] < MaxRecorded
    /\ Begin(w, [op |-> "sync", now |-> hour,
                 read |-> [a \in ActiveAccounts |-> llmAccounts[a]]])
    /\ UNCHANGED spendTables

DayOf(h) == CHOOSE d \in DayStart : d <= h /\ \A e \in DayStart : e <= h => e <= d

MonthOf(h) == CHOOSE m \in MonthStart : m <= h /\ \A n \in MonthStart : n <= h => n <= m

WindowStart(row, now) ==
    IF row.synced # Never THEN row.synced
    ELSE IF now > FirstWindow THEN now - FirstWindow ELSE 0

(* Seeded faults: the hour before is asked for too, or the first one is not. *)
SinceBefore(start, now) == {h \in Hour : h >= start - 1 /\ h < now}
SinceAfter(start, now) == {h \in Hour : h > start /\ h < now}

Since(start, now) == {h \in Hour : h >= start /\ h < now}

(* The hours that the job asks a provider for: some take a range of times, some one
   of days, and OpenAI's old endpoint, when the new one is not found, the day in
   which the range begins. *)
Windows(start, now) == {asked \in SUBSET Hour :
    \/ llmProvider \in {"google", "openai", "xai"} /\ asked = Since(start, now)
    \/ llmProvider \in {"anthropic", "microsoft"} /\ asked = Since(DayOf(start), now)
    \/ llmProvider = "openai" /\ asked = {h \in Since(0, now) : DayOf(h) = DayOf(start)}}

(* A request that fails, or is answered with a status the client does not know, is
   taken for one without entries; from Anthropic's pages those before it stay. *)
Answers(row, asked) == {got \in SUBSET asked :
    \/ got = {}
    \/ row.key = "legacy" /\ (got = asked \/ llmProvider = "anthropic")}

(* What may come of an account.  After a rate limit, another exception, or while it
   waits (retry_count, next_retry_at), an account is as before. *)
SyncOutcomes(row, now) ==
    [result: {"later", "refused"}, asked: {{}}, got: {{}}]
    \cup UNION {[result: {"answered"}, asked: {asked}, got: Answers(row, asked)] :
                asked \in Windows(WindowStart(row, now), now)}

Synced(row, now, result) ==
    [row EXCEPT !.status = IF result = "refused" THEN "error" ELSE @,
                !.synced = IF result = "answered" THEN now ELSE @]

SyncAccountsWrite(w) ==
    /\ Open(w, "sync")
    /\ LET read == txn[w].read  now == txn[w].now  synced == DOMAIN read
           start(a) == WindowStart(read[a], now) IN
       \E outcome \in [synced -> UNION {SyncOutcomes(read[a], now) : a \in synced}] :
         LET answered == {a \in synced : outcome[a].result = "answered"} IN
           /\ \A a \in synced : outcome[a] \in SyncOutcomes(read[a], now)
           /\ llmAccounts' = [a \in LlmId |->
                IF a \in synced THEN Synced(llmAccounts[a], now, outcome[a].result)
                ELSE llmAccounts[a]]
           /\ spendRecords' = [a \in LlmId |-> [h \in Hour |-> spendRecords[a][h] +
                IF a \in answered /\ h \in outcome[a].got THEN 1 ELSE 0]]
           /\ amounts' = [a \in LlmId |-> [m \in MonthStart |-> amounts[a][m] +
                IF a \in answered /\ m = MonthOf(start(a)) THEN Cardinality(outcome[a].got)
                ELSE 0]]
           /\ missed' = missed \cup {p \in answered \X Hour :
                                       p[2] \in outcome[p[1]].asked \ outcome[p[1]].got}
           /\ covered' = [a \in LlmId |->
                IF a \in answered /\ covered[a] = Never THEN start(a) ELSE covered[a]]
    /\ End(w)
    /\ UNCHANGED <<llmProvider, hour, budgeted, fired>>

-----------------------------------------------------------------------------
ThresholdCreated(w) ==
    /\ Free(w) /\ ~budgeted
    /\ budgeted' = TRUE
    /\ UNCHANGED <<llmProvider, hour, llmAccounts, recorded, fired, sessions>>

(* The records whose window began in the month or later. *)
Total(month) ==
    LET amount(a) == MapThenSumSet(LAMBDA m : amounts[a][m], {m \in MonthStart : m >= month})
    IN  MapThenSumSet(amount, LlmId)

(* Seeded fault: a level that has fired is not looked for. *)
DueAgain(month) == {l \in Level : Total(month) >= l}

DueLevels(month) == {l \in Level : Total(month) >= l /\ fired[month][l] = 0}

(* check_all_group_thresholds; a check that finds nothing due changes nothing. *)
CheckRead(w) ==
    /\ budgeted /\ DueLevels(MonthOf(hour)) # {}
    /\ Begin(w, [op |-> "check", month |-> MonthOf(hour), due |-> DueLevels(MonthOf(hour))])
    /\ UNCHANGED spendTables

CheckWrite(w) ==
    /\ Open(w, "check")
    /\ fired' = [fired EXCEPT ![txn[w].month] =
                   [l \in Level |-> @[l] + IF l \in txn[w].due THEN 1 ELSE 0]]
    /\ End(w)
    /\ UNCHANGED <<llmProvider, hour, llmAccounts, recorded, budgeted>>

HourPasses ==
    /\ hour < LastHour /\ \A w \in Worker : txn[w] = Idle   \* sessions take seconds
    /\ hour' = hour + 1
    /\ UNCHANGED <<llmProvider, llmAccounts, recorded, budgeted, fired, sessions>>

SpendNext ==
    \/ HourPasses
    \/ \E w \in Worker :
         \/ ConnectRead(w) \/ ConnectWrite(w)
         \/ \E a \in LlmId : Disconnected(w, a)
         \/ SyncAccountsRead(w) \/ SyncAccountsWrite(w)
         \/ ThresholdCreated(w) \/ CheckRead(w) \/ CheckWrite(w)
         \/ Abandon(w) /\ UNCHANGED spendTables

SpendSpec == SpendInit /\ [][SpendNext]_spendVars

-----------------------------------------------------------------------------
(* sync_account: "Fetches usage since last sync (or last 24 hours if first sync)".
   From an account's first window on no hour before its last sync is passed over but
   those of which the provider's error was taken for no use, whatever sessions overlap.
   The claim is true of every provider but OpenAI, of whose days the old endpoint
   gives the first one only (providers/openai_client.py). *)
UsageIsFetched ==
    \A a \in LlmId : covered[a] # Never => \A h \in covered[a]..(llmAccounts[a].synced - 1) :
      spendRecords[a][h] > 0 \/ <<a, h>> \in missed

(* The other half of that claim: as long as no sessions overlap, what was fetched
   before is not recorded again.  It is true of the providers that are asked for a
   range of times; of the others every sync records the day again. *)
UsageIsCountedOnce == ~overlap => \A a \in LlmId, h \in Hour : spendRecords[a][h] <= 1

(* Both claims where they are true, and "Each alert fires only once per level per
   billing period": as long as no sessions overlap, a level fires once a month, and
   one account at most is active. *)
SpendAddsUp ==
    /\ llmProvider # "openai" => UsageIsFetched
    /\ llmProvider \in {"google", "xai"} => UsageIsCountedOnce
    /\ ~overlap =>
         /\ \A m \in MonthStart, l \in Level : fired[m][l] <= 1
         /\ Cardinality(ActiveAccounts) <= 1
=============================================================================

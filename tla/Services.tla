------------------------------ MODULE Services ------------------------------
(***************************************************************************)
(* The smaller services side by side.  Each has tables of its own and      *)
(* keeps, of a table that another one writes (users, group_members,        *)
(* groups), what it needs; so a step of one never enables or changes a     *)
(* step of another, and behaviours in which they take turns add nothing to *)
(* those in which one of them runs: active is chosen at the start, from    *)
(* those that Running names.                                               *)
(***************************************************************************)
EXTENDS ScreenTime, Location, Capture, DataRights, Retention, AutoBlocks,
        Bypass, Joining, Credentials, Subscriptions, Uplink, Realtime,
        Sharing, Learning, IdentityProtection, Cases, DeviceUsage,
        GroupSettings, Spend, RateLimit, SocketClient

CONSTANT Running   \* services to choose from

VARIABLE active    \* the service that runs

Service == {"screen time", "location", "capture", "data rights", "retention",
            "automatic rules", "bypass", "joining", "credentials",
            "subscriptions", "uplink", "realtime", "sharing", "learning",
            "identity protection", "cases", "device usage", "group settings",
            "spend", "rate limit", "socket client"}

ASSUME RunningAssumption == Running \subseteq Service

servicesVars ==
    <<active, sessions, screenTimeTables, locationTables, captureTables,
      dataRightsTables, retentionTables, autoBlocksTables, bypassTables,
      joiningTables, credentialsTables, subscriptionsTables, uplinkTables,
      realtimeTables, sharingTables, learningTables, identityProtectionTables,
      casesTables, deviceUsageTables, groupSettingsTables, spendTables,
      rateLimitTables, socketClientTables>>

ServicesInit ==
    /\ active \in Running
    /\ SessionsInit
    /\ ScreenTimeTablesInit
    /\ LocationTablesInit
    /\ CaptureTablesInit
    /\ DataRightsTablesInit
    /\ RetentionTablesInit
    /\ AutoBlocksTablesInit
    /\ BypassTablesInit
    /\ JoiningTablesInit
    /\ CredentialsTablesInit
    /\ SubscriptionsTablesInit
    /\ UplinkTablesInit
    /\ RealtimeTablesInit
    /\ SharingTablesInit
    /\ LearningTablesInit
    /\ IdentityProtectionTablesInit
    /\ CasesTablesInit
    /\ DeviceUsageTablesInit
    /\ GroupSettingsTablesInit
    /\ SpendTablesInit
    /\ RateLimitTablesInit
    /\ SocketClientTablesInit
    /\ active # "uplink" => client = "extension"   \* one of the three will do
    /\ active = "group settings" => ~overlap
    /\ active # "spend" => /\ \A a \in LlmId : llmAccounts[a] = NoRow
                          /\ llmProvider = CHOOSE p \in LlmProvider : TRUE

ServicesTypeOK ==
    /\ active = "screen time" => ScreenTimeTypeOK
    /\ active = "location" => LocationTypeOK
    /\ active = "capture" => CaptureTypeOK
    /\ active = "data rights" => DataRightsTypeOK
    /\ active = "retention" => RetentionTypeOK
    /\ active = "automatic rules" => AutoBlocksTypeOK
    /\ active = "bypass" => BypassTypeOK
    /\ active = "joining" => JoiningTypeOK
    /\ active = "credentials" => CredentialsTypeOK
    /\ active = "subscriptions" => SubscriptionsTypeOK
    /\ active = "uplink" => UplinkTypeOK
    /\ active = "realtime" => RealtimeTypeOK
    /\ active = "sharing" => SharingTypeOK
    /\ active = "learning" => LearningTypeOK
    /\ active = "identity protection" => IdentityProtectionTypeOK
    /\ active = "cases" => CasesTypeOK
    /\ active = "device usage" => DeviceUsageTypeOK
    /\ active = "group settings" => GroupSettingsTypeOK
    /\ active = "spend" => SpendTypeOK
    /\ active = "rate limit" => RateLimitTypeOK
    /\ active = "socket client" => SocketClientTypeOK

-----------------------------------------------------------------------------
(* What the other services leave alone. *)
OthersUnchanged ==
    /\ UNCHANGED active
    /\ IF active = "screen time" THEN TRUE ELSE UNCHANGED screenTimeTables
    /\ IF active = "location" THEN TRUE ELSE UNCHANGED locationTables
    /\ IF active = "capture" THEN TRUE ELSE UNCHANGED captureTables
    /\ IF active = "data rights" THEN TRUE ELSE UNCHANGED dataRightsTables
    /\ IF active = "retention" THEN TRUE ELSE UNCHANGED retentionTables
    /\ IF active = "automatic rules" THEN TRUE ELSE UNCHANGED autoBlocksTables
    /\ IF active = "bypass" THEN TRUE ELSE UNCHANGED bypassTables
    /\ IF active = "joining" THEN TRUE ELSE UNCHANGED joiningTables
    /\ IF active = "credentials" THEN TRUE ELSE UNCHANGED credentialsTables
    /\ IF active = "subscriptions" THEN TRUE ELSE UNCHANGED subscriptionsTables
    /\ IF active = "uplink" THEN TRUE ELSE UNCHANGED uplinkTables
    /\ IF active = "realtime" THEN TRUE ELSE UNCHANGED realtimeTables
    /\ IF active = "sharing" THEN TRUE ELSE UNCHANGED sharingTables
    /\ IF active = "learning" THEN TRUE ELSE UNCHANGED learningTables
    /\ IF active = "identity protection" THEN TRUE ELSE UNCHANGED identityProtectionTables
    /\ IF active = "cases" THEN TRUE ELSE UNCHANGED casesTables
    /\ IF active = "device usage" THEN TRUE ELSE UNCHANGED deviceUsageTables
    /\ IF active = "group settings" THEN TRUE ELSE UNCHANGED groupSettingsTables
    /\ IF active = "spend" THEN TRUE ELSE UNCHANGED spendTables
    /\ IF active = "rate limit" THEN TRUE ELSE UNCHANGED rateLimitTables
    /\ IF active = "socket client" THEN TRUE ELSE UNCHANGED socketClientTables

ServicesNext ==
    /\ \/ active = "screen time" /\ ScreenTimeNext
       \/ active = "location" /\ LocationNext
       \/ active = "capture" /\ CaptureNext
       \/ active = "data rights" /\ DataRightsNext
       \/ active = "retention" /\ RetentionNext
       \/ active = "automatic rules" /\ AutoBlocksNext
       \/ active = "bypass" /\ BypassNext
       \/ active = "joining" /\ JoiningNext
       \/ active = "credentials" /\ CredentialsNext
       \/ active = "subscriptions" /\ SubscriptionsNext
       \/ active = "uplink" /\ UplinkNext
       \/ active = "realtime" /\ RealtimeNext
       \/ active = "sharing" /\ SharingNext
       \/ active = "learning" /\ LearningNext
       \/ active = "identity protection" /\ IdentityProtectionNext
       \/ active = "cases" /\ CasesNext
       \/ active = "device usage" /\ DeviceUsageNext
       \/ active = "group settings" /\ GroupSettingsNext
       \/ active = "spend" /\ SpendNext
       \/ active = "rate limit" /\ RateLimitNext
       \/ active = "socket client" /\ SocketClientNext
    /\ OthersUnchanged

(* The fairness of the services that jobs or alarms drive, when it is they who run. *)
Runs(service, action) == active = service /\ action

ServicesFairness == \A w \in Worker :
    /\ WF_dataRightsVars(Runs("data rights", CronEnds(w)))
    /\ SF_dataRightsVars(Runs("data rights", CronRead(w, Job)))
    /\ SF_dataRightsVars(Runs("data rights", CronWrite(w) /\ txn[w].jobs = Job))
    /\ SF_retentionVars(Runs("retention", DailyRun(w)))
    /\ WF_autoBlocksVars(Runs("automatic rules", EvaluateEnds(w)))
    /\ SF_autoBlocksVars(Runs("automatic rules", EvaluateRead(w)))
    /\ SF_autoBlocksVars(Runs("automatic rules", EvaluateWrite(w)))
    /\ WF_uplinkVars(Runs("uplink", SendEnds(w)))
    /\ WF_uplinkVars(Runs("uplink", FlushBegins(w)))
    /\ SF_uplinkVars(Runs("uplink", FlushSent(w, TRUE, TRUE)))

ServicesSpec == ServicesInit /\ [][ServicesNext]_servicesVars

ServicesFairSpec == ServicesSpec /\ ServicesFairness

-----------------------------------------------------------------------------
(* What is counted, summed up, granted or saved from other rows or from several
   sides agrees with them.  The rate limit has its say where it runs, for it speaks
   of requests that are being refused, which are its own sessions. *)
RecordsAddUp ==
    /\ RewardsAreEarned /\ ProgressCounts /\ SummaryFollowsRecords /\ StepsAreKept
    /\ SettingsStand /\ SpendAddsUp
    /\ active = "rate limit" => RequestsAreCounted

(* What a parent or a subscriber has withdrawn stays withdrawn until they give it
   anew, here and with third parties; and so does a connection that an application
   has closed. *)
WithdrawalsStand == RefusalStands /\ AccountsAreLinked /\ DisconnectedStays

(* What is left to a job is done in the end: requests for erasure and export, the
   clean-up of old rows, and the rules that block and unblock by themselves. *)
JobsTakeEffect == RequestsAreServed /\ UnobstructedIsDeleted /\ RulesTakeEffect
=============================================================================

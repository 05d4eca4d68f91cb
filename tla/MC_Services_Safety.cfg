SPECIFICATION ServicesSpec
CONSTANTS
    Running <- Service
    Worker = {w1, w2}
    Member = {m1}
    NoRow = NoRow
    RuleId = {r1, r2}
    RequestId = {q1, q2}
    ExtensionLimit <- MCExtensionLimit
    School = {s1}
    PositionId = {p1}
    FenceId = {f1, f2}
    CheckInId = {k1}
    MaxGeofences = 1
    Young = {m1}
    EventId = {e1}
    ConsentId = {c1, c2}
    AgreementId = {a1, a2}
    RowId = {row1, row2}
    DataRequestId = {d1, d2}
    AuditGroupChecked = FALSE
    RecordId = {rec1}
    Pupil = {m1, m2}
    Everyone = Everyone
    AutoRuleId = {ar1}
    MaxBlocks = 2
    BypassThreshold = 3
    MaxBypassBlocks = 2
    Owner = Owner
    MembershipId = {g1, g2, g3}
    PassId = {pass1}
    Cap = 2
    ResetId = {reset1}
    LoginId = {l1}
    SetupId = {setup1}
    CodeId = {code1}
    TokenId = {t1, t2}
    SubscriptionId = {b1, b2}
    StripeId = {z1, z2}
    Report = {v1, v2, v3}
    Refused = {v1}
    MaxQueue = 2
    MaxRetries = 1
    Socket = {ws1, ws2, ws3}
    Chat = {chat1}
    GroupRoom = GroupRoom
    Provider = {pv1, pv2}
    Essential = {pv2}
    ItemId = {i1, i2, i3}
    Course = {course1, course2}
    AssessmentId = {as1, as2, as3}
    ProgressId = {pr1, pr2}
    RewardId = {rw1, rw2}
    Week = 1
    LastDay = 3
    AccountId = {acc1, acc2, acc3}
    WorkflowStep = {Detect, Support, Resolve}
    Detect = Detect
    Resolve = Resolve
    Usage = {1, 2, 3}
    Date = {1, 2}
    UtcDay <- MCUtcDay
    LocalDay <- MCLocalDay
    LastSecond = {3}
    Choice = {x1, x2}
    Unset = Unset
    ReminderDays = {0, 1}
    LlmId = {llm1, llm2}
    LlmProvider = {"anthropic", "google"}
    LastHour = 2
    FirstWindow = 1
    DayStart = {0, 1}
    MonthStart = {0, 1}
    MaxRecorded = 2
    Level = {1}
    MaxRequests = 1
    WindowLength = 2
    LastInstant = 4
    WebSocketId = {dial1, dial2, dial3}
    MaxReconnectAttempts = 2
INVARIANTS
    ServicesTypeOK
    WithinExtensionLimit
    OneActiveAgreement
    ErasedIsGone
    JoinedAsAllowed
    OneGrantEach
    RowsFollowStripe
    QueueIsFaithful
    SocketsAreTracked
    WithdrawalsStand
    RecordsAddUp
PROPERTIES
    TrackedAsAllowed
    CaptureIsConsented
    BypassIsBlocked
SYMMETRY Symmetry
CHECK_DEADLOCK FALSE

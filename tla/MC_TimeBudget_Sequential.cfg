\* One session at a time, one member; the job is fair.
CONSTANTS
    Member = {m1}
    Day <- MCDay
    Weekend <- MCWeekend
    Settings <- MCSettings
    Length = {1}
    MaxReported = 2
    RuleId = {r1, r2, r3}
    ApprovalId = {a1, a2}
    Worker = {w1}
    NoRow = NoRow
SPECIFICATION FairSpec
INVARIANTS OneOfEach MinutesCounted
PROPERTIES BlockFollowsBudget

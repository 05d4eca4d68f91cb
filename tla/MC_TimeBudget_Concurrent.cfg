\* Two sessions interleaving on the budget of one member.
CONSTANTS
    Member = {m1}
    Day <- MCDay
    Weekend <- MCWeekend
    Settings <- MCSettings
    Length = {1}
    MaxReported = 2
    RuleId = {r1, r2, r3}
    ApprovalId = {a1}
    Worker = {w1, w2}
    NoRow = NoRow
SPECIFICATION Spec
INVARIANTS TypeOK NeverOvercharged ApprovedIsLifted
SYMMETRY Symmetry

\* One session at a time: the entry of a teen's message, its appeals and
\* assignments, and its review wherever something called it.
CONSTANTS
    KidPost = KidPost
    TeenMessage = TeenMessage
    Content = {TeenMessage}
    Kind <- MCKind
    Tier <- MCTier
    EntryId = {e1}
    AppealId = {a1, a2}
    AssignmentId = {m1, m2}
    Appellant = {u1}
    Worker = {w1}
    Background = TRUE
    NoRow = NoRow
SPECIFICATION Spec
INVARIANTS OutcomeOnRecord OneOfEach
PROPERTY SettledStays
\* Every entry may be settled with no handler left that would change it.
CHECK_DEADLOCK FALSE

\* A child's approved post is taken down.
CONSTANTS
    KidPost = KidPost
    TeenMessage = TeenMessage
    Content = {KidPost}
    Kind <- MCKind
    Tier <- MCTier
    EntryId = {e1}
    AppealId = {}
    AssignmentId = {}
    Appellant = {}
    Worker = {w1}
    Background = FALSE
    NoRow = NoRow
SPECIFICATION Spec
INVARIANTS TakedownUnlists
SYMMETRY Symmetry
\* Every entry may be settled with no handler left that would change it.
CHECK_DEADLOCK FALSE

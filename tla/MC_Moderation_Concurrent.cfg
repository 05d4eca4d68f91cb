\* Two sessions interleaving on one entry of a child's post.
CONSTANTS
    KidPost = KidPost
    TeenMessage = TeenMessage
    Content = {KidPost}
    Kind <- MCKind
    Tier <- MCTier
    EntryId = {e1}
    AppealId = {a1}
    AssignmentId = {}
    Appellant = {u1}
    Worker = {w1, w2}
    Background = FALSE
    NoRow = NoRow
SPECIFICATION Spec
INVARIANTS TypeOK ListedWasClean AppealOfRejection
SYMMETRY Symmetry
\* Every entry may be settled with no handler left that would change it.
CHECK_DEADLOCK FALSE

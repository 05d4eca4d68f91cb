\* Two sessions interleaving; both directions of one pair.
CONSTANTS
    Kid = Kid
    Teen = Teen
    Adult = Adult
    Parent = Parent
    User = {Kid, Teen}
    Guardian = {Parent}
    ContactId = {c1, c2}
    Worker = {w1, w2}
    Tier <- MCTier
    MaxContacts <- MCLimit
    ParentOf <- MCParentOf
    NoUser = NoUser
    NoRow = NoRow
SPECIFICATION Spec
INVARIANTS TypeOK ConsentBeforeContact DecisionOnRecord
PROPERTIES DecisionNeverReopened KeepsPromise
SYMMETRY RowAndWorkerSymmetry
\* Every row may be settled with no handler left that would change it.
CHECK_DEADLOCK FALSE

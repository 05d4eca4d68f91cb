\* One session at a time over three rows.
CONSTANTS
    Kid = Kid
    Teen = Teen
    Adult = Adult
    Parent = Parent
    User = {Kid, Teen, Adult}
    Guardian = {Parent}
    ContactId = {c1, c2, c3}
    Worker = {w1}
    Tier <- MCTier
    MaxContacts <- MCLimit
    ParentOf <- MCParentOf
    NoUser = NoUser
    NoRow = NoRow
SPECIFICATION Spec
INVARIANTS PairsAreConsistent
PROPERTY DecisionFinal
SYMMETRY RowSymmetry
\* Every row may be settled with no handler left that would change it.
CHECK_DEADLOCK FALSE

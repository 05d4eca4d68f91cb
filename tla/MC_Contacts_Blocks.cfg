\* One session at a time: does a block stand?
CONSTANTS
    Kid = Kid
    Teen = Teen
    Adult = Adult
    Parent = Parent
    User = {Kid, Teen}
    Guardian = {Parent}
    ContactId = {c1, c2}
    Worker = {w1}
    Tier <- MCTier
    MaxContacts <- MCLimit
    ParentOf <- MCParentOf
    NoUser = NoUser
    NoRow = NoRow
SPECIFICATION Spec
PROPERTY BlockStands
SYMMETRY RowSymmetry
\* Every row may be settled with no handler left that would change it.
CHECK_DEADLOCK FALSE

SPECIFICATION SelSpec
CONSTANTS
    Leaf <- MCLeaf
    Value <- MCValue
    MaxAmount = 20
INVARIANTS
    SelectionCorrect
    SlimLosesNothing
CHECK_DEADLOCK FALSE

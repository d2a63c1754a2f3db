SPECIFICATION FairSpec
CONSTANTS
    Kind <- MCKind
    Home = Home
    Back = Back
    MaxLinks = 2
INVARIANTS
    TypeOK
    RepliesInOrder
    ExecutedInOrder
PROPERTIES
    FailsForGood
    CommandEnds
CHECK_DEADLOCK FALSE

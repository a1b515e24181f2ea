CONSTANTS
    Groups <- MCGroups
    Sentences <- MCSentences
    BodyXor <- MCBodyXor
    Timeout = 3
    Messages <- MCMessages
    Deployments <- MCDeployments
SPECIFICATION FairSpec
INVARIANTS
    WholeMessages
    ThrowsNotIfPatient
    HandedOn
    OwnIdUnharmed
PROPERTY Drained
CHECK_DEADLOCK FALSE

CONSTANTS
    Groups <- MCGroups
    Sentences <- MCSentences
    BodyXor <- MCBodyXor
    Timeout = 3
    Messages <- MCMessages
    Deployments <- Hasty
SPECIFICATION Spec
INVARIANT NeverThrows

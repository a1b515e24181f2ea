CONSTANTS
    Groups <- MCGroups
    Sentences <- MCSentences
    BodyXor <- MCBodyXor
    Timeout = 3
    Messages <- MCMessages
    Deployments <- Lossless
SPECIFICATION Spec
INVARIANT ChecksumHolds

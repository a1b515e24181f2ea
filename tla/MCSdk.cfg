CONSTANTS
    Arrays <- MCArrays
    Wanted <- MCWanted
    List1 <- MCList1
    List2 <- MCList2
    SchemeLists <- MCSchemes
    LinkLists <- MCLinkLists
    MaxArrays = 2
SPECIFICATION SdkSpec
INVARIANTS
    FoundInLastModule
    OffsetsHold
    BlocksFreed
    ChangeNoticed
    NamesRoundTrip
CHECK_DEADLOCK FALSE

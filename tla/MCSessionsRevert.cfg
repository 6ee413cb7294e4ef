CONSTANTS
    Lots = {"old", "new"}
    LotRank <- MCLotRank
    Stock <- MCStock
    Files = {"f", "g", "h"}
    Need <- MCNeed
    Sessions = {"p1", "p2", "p3", "c1", "c2", "c3", "c4", "c5", "r1", "r2"}
    Task <- MCTask
    Nobody = Nobody
SPECIFICATION Spec
CHECK_DEADLOCK FALSE
INVARIANTS
    LotsMatchAllocations

CONSTANTS
    Batches <- MCBatches
    Nobody = Nobody
    Kind <- MCKind
    RowsOf <- MCRowsOf
    Broken = {"x"}
    ApiClients = {"i1", "e", "x"}
    Chunk = 2
    MaxOutages = 0
    Stream <- MCStream
    MaxBytes = 3
    NoFile = NoFile
    Flaky = {"big"}
SPECIFICATION StoreSpec
ACTION_CONSTRAINT InOrder
CHECK_DEADLOCK FALSE
INVARIANTS
    ConflictBlocksFile

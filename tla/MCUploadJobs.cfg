CONSTANTS
    Batches <- MCBatches
    Nobody = Nobody
    Kind <- MCKind
    RowsOf <- MCRowsOf
    Broken = {"x"}
    ApiClients = {"e", "x"}
    Chunk = 2
    MaxOutages = 1
    Stream <- MCStream
    MaxBytes = 3
    NoFile = NoFile
    Flaky = {"big"}
SPECIFICATION StoreSpec
ACTION_CONSTRAINT InOrder
CHECK_DEADLOCK FALSE
INVARIANTS
    TypeOK
    FinishedIsComplete
    
    UnsettledIsInHand
    ConfirmedWhole
    BatchesHaveTheirFile
    NoFileLeftOver
PROPERTIES
    EveryUploadSettles

CONSTANTS
    Batches <- MCBatches
    NoBatch = NoBatch
    Keys <- MCKeys
    Parts = {"p"}
    PartOf <- MCPartOf
    LotRank <- MCLotRank
    MaxRows = 2
    IdRank <- MCIdRank
    Dates <- MCDates
    AnyDate = AnyDate
    ImportFiles <- MixedImportFiles
    ExportFiles <- MixedExportFiles
SPECIFICATION Spec
ACTION_CONSTRAINT LowestFreeBatch
CHECK_DEADLOCK FALSE
INVARIANTS
    NoPhantomStock

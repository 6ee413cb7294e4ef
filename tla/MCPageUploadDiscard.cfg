CONSTANTS
    Batches <- FourBatches
    NoBatch = NoBatch
    Keys <- MCKeys
    Parts = {"p"}
    PartOf <- MCPartOf
    LotRank <- MCLotRank
    MaxRows = 2
    IdRank <- MCIdRank
    Dates <- MCDates
    AnyDate = AnyDate
    ImportFiles <- OverlappingImportFiles
    ExportFiles <- MixedExportFiles
SPECIFICATION PageSpec
ACTION_CONSTRAINT OthersImport
CHECK_DEADLOCK FALSE
INVARIANTS
    CancelledLeavesNoLots

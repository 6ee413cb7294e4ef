CONSTANTS
    Batches <- MCBatches
    NoBatch = NoBatch
    Keys <- MCKeys
    Parts = {"p"}
    PartOf <- MCPartOf
    LotRank <- MCLotRank
    MaxRows = 2
    IdRank <- MCIdRank
    Dates <- MCDates
    AnyDate = AnyDate
    ImportFiles <- CarefulImportFiles
    ExportFiles <- CarefulExportFiles
SPECIFICATION CarefulSpec
ACTION_CONSTRAINT OnePairOfRows
CHECK_DEADLOCK FALSE
INVARIANTS
    BooksBalance
    DashboardAddsUp
PROPERTIES
    OldestFirst

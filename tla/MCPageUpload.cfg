CONSTANTS
    Batches <- MCBatches
    NoBatch = NoBatch
    Keys <- MCKeys
    Parts = {"p"}
    PartOf <- MCPartOf
    LotRank <- MCLotRank
    MaxRows = 2
    IdRank <- MCIdRank
    Dates <- MCDates
    AnyDate = AnyDate
    ImportFiles <- PageImportFiles
    ExportFiles <- PageExportFiles
SPECIFICATION TidySpec
ACTION_CONSTRAINT ErrorsOnPage
CHECK_DEADLOCK FALSE
INVARIANTS
    TypeOK
    NoAllocationOnInvalidated
    StatusTellsAllocations
    ReportsAgree
    RejectedIsTakenBack
PROPERTIES
    ConfirmsWhatWasReviewed
    ShortOnlyWhenEmpty
    ActiveLotsAreNotReplaced

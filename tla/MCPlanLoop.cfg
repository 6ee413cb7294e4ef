CONSTANTS
    Demands <- MCDemands
    Lots <- MCLots
    Parts = {"p", "q"}
    Dates <- MCDates
    Needs <- MCNeeds
    Balances <- MCBalances
    Unanswered = Unanswered
SPECIFICATION Spec
CHECK_DEADLOCK FALSE
INVARIANTS
    TypeOK
    NothingPlannedTwice
    ShortageExplained
    ShortOnlyWhenEmpty
    BalanceAfterAddsUp
PROPERTIES
    ImplementsFifo

CONSTANTS
    Demands <- MCDemands
    Lots <- MCLots
    Parts = {"p", "q"}
    Dates <- MCDates
    Needs <- MCNeeds
    Balances <- MCBalances
    Matched <- MCMatched
    Unanswered = Unanswered
SPECIFICATION Spec
CHECK_DEADLOCK FALSE
INVARIANTS
    OnlyPositiveBalances

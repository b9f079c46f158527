SPECIFICATION MCSpec
CONSTANTS
    Conversations = 4
    Turn = {1, 2}
    Op = {o1, o2}
    MaxRounds = 2
    Budget = 1
CHECK_DEADLOCK FALSE
PROPERTY BudgetBites

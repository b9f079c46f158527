SPECIFICATION MCSpec
CONSTANTS
    Question = {1, 2}
    Request = {r1, r2}
    Days = 2
    Items = 6
    MaxNow = 3
    Limit = 1
    DailyBudget = 40
    Knowledge = Knowledge
    Resource = Resource
    None = None
INVARIANTS MistakesExact SerialReviewsCount SerialPlanFits
CHECK_DEADLOCK FALSE
SYMMETRY Symmetric

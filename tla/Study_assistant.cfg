SPECIFICATION AssistantSpec
CONSTANTS
    Conversations = 4
    Turn = {1, 2}
    Op = {o1, o2}
    MaxRounds = 2
    Budget = 1
    Rule = {r1}
    Member = {m1}
    Slot = {q1, q2}
    Owner <- OneOwner
    Settings <- TwoSettings
    DayLen = 2
    HourLen = 1
    SnoozeCap = 2
    MaxTime = 5
    r1 = r1
    Scenes = {"turns", "branches", "tree", "inbox", "rules"}
INVARIANTS RunsHonest QuestionsFirst SerialTreeKept SuggestionsSpaced
PROPERTIES RunsEnd SnoozedReturns SerialFinalStays
CHECK_DEADLOCK FALSE

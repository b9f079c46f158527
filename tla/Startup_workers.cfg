SPECIFICATION MCSpec
CONSTANTS
    p1 = p1
    p2 = p2
    Process = {p1, p2}
    Nobody = Nobody
    Old = Old
    New = New
    Admin = Admin
    Row = {Old, New, Admin}
    CodeHead <- MCCodeHead
    Seed <- MCSeed
    a1 = a1
    a2 = a2
    c1 = c1
    Migrator = {p1, p2}
    Run = {a1, a2}
    Conversation <- OneConversation
INVARIANTS StartsSound MigrationsSound
PROPERTY StartsEnd

SPECIFICATION MCSpec
CONSTANTS
    Member = {m1, m2}
    Req = {r1, r2}
    None = None
    Caps = {0, 1}
    Code = {c1, c2}
    Overrides = {"waitlisted"}
    MaxUse = 1
    User = {1, 2}
    Fact = {fact1}
    Mail = {mail1}
    Page = 1
    MaxTries = 3
SYMMETRY Symmetry
INVARIANTS CancelledHasTimeByMembers NoticesSound
PROPERTIES SeatsPromised NoneAfterEnd CodesStay
CHECK_DEADLOCK FALSE

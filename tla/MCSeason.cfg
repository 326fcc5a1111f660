SPECIFICATION Spec
CONSTANTS
    Games = {1, 2, 3}
    Week <- MCWeek
    Question <- MCQuestion
    Kickoffs <- MCKickoffs
    None = None
    First = {1}
    Cap = 1
    Window = 2
    Recent = 1
    Grace = 1
    Lead = 0
    Tolerance = 0
    MaxTime = 4
    MaxUpsets = 2
    MaxGen = 1
INVARIANTS
    ScoreOfThisGame
    DuplicateOnlyIfUnlinked
    BacklogTurns
PROPERTY
    WeekGate
CHECK_DEADLOCK FALSE

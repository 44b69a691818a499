SPECIFICATION Spec
CONSTANTS
    u1 = u1
    m1 = m1
    m2 = m2
    Users = {u1}
    Messages = {m1, m2}
    Missed <- MCMissed
    Periods = {1, 2}
    None = None
    MaxTime = 2
    MaxChanges = 1
    MaxFailures = 1
CHECK_DEADLOCK FALSE
SYMMETRY MCSymmetry
INVARIANTS
    TypeOK
    RowsHaveTimer
    RepeatsExplained
    NoticeAccounted
    SentTogether

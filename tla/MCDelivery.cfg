\* Two workers, crashes and restarts; pages of two events.
SPECIFICATION FairSpec
CONSTANTS
    n1 = n1
    n2 = n2
    forged = forged
    ka = ka
    kb = kb
    kc = kc
    kd = kd
    w1 = w1
    w2 = w2
    None = None
    Notice = {n1, n2, forged}
    Forged = {forged}
    Entries <- Batches
    Worker = {w1, w2}
    Page = 2
    Key = {ka, kb, kc, kd}
    Window = 2
    Margin = 1
    MaxRetained = 4
    MaxHigh = 9
    MaxMishaps = 2
    Faults = {}
CHECK_DEADLOCK FALSE
INVARIANTS
    TypeOK
    AnsweredIsStored
    OnlySignedIsStored
    CursorNeverSkips
PROPERTY EveryNoticeArrives

SPECIFICATION ReconciliationSpec
CONSTANTS
    t1 = t1  t2 = t2  u1 = u1  e1 = e1  e2 = e2   h1 = h1  h2 = h2
    w1 = w1  w2 = w2  w3 = w3  r1 = r1  r2 = r2  c1 = c1  c2 = c2
    w4 = w4  d1 = d1  d2 = d2  o1 = o1  o2 = o2
    Txns = {t1}
    Users = {u1}
    UserOf <- OneUser
    Gross <- GrossTwo
    Net <- NetOne
    Events = {e1}
    OrderOf <- SameOrder
    HookWorkers = {h1}
    Workers = {w1, w2}
    ResumeLimit = 25
    RefundIds = {r1}
    Clerks = {c1, c2}
    Cases = {d1}
    Operators = {o1}
    MaxFaults = 1
    i1 = i1  m1 = m1
    Agents = {w2}
    DeskOf <- OneDesk
    RunIds = {i1}
    ScopeChoices <- OneScope
    Admins = {m1}
    MaxAttempts = 2
    ListLimit = 100
    MaxDeliveries = 3
    MaxMishaps = 1
CHECK_DEADLOCK FALSE
INVARIANTS TypeOK RefundAfterPayout ReversedIfRefunded DisputedHasCase ReconciliationTypeOK RepairsSettled StuckIsReported ItemsCounted RunningIsWorked
PROPERTIES ResolvedStaysResolved
CONSTRAINTS PaymentsTaken TransfersMade JobsRetained ReversalsBounded ReconciledAlone RestAround

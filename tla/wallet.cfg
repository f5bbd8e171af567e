SPECIFICATION ReconciliationSpec
CONSTANTS
    t1 = t1  t2 = t2  u1 = u1  e1 = e1  e2 = e2   h1 = h1  h2 = h2
    w1 = w1  w2 = w2  w3 = w3  r1 = r1  r2 = r2  c1 = c1  c2 = c2
    w4 = w4  d1 = d1  d2 = d2  o1 = o1  o2 = o2
    Txns = {t1, t2}
    Users = {u1}
    UserOf <- OneUser
    Gross <- GrossTwo
    Net <- NetOne
    Events = {e1, e2}
    OrderOf <- OrderEach
    HookWorkers = {h1}
    Workers = {w1, w2, w3, w4}
    ResumeLimit = 1
    RefundIds = {}
    Clerks = {c1, c2}
    Cases = {}
    Operators = {}
    MaxFaults = 1
    i1 = i1  m1 = m1
    Agents = {w3, w4}
    DeskOf <- TwoDesks
    RunIds = {i1}
    ScopeChoices <- OneScope
    Admins = {}
    MaxAttempts = 2
    ListLimit = 1
    MaxDeliveries = 2
    MaxMishaps = 0
CHECK_DEADLOCK FALSE
INVARIANTS DebitNeverRefused RepairsSettled StuckIsReported ItemsCounted RunningIsWorked
CONSTRAINTS PaymentsTaken TransfersMade JobsRetained ReconciledAlone AgentsOnly
SYMMETRY PairSymmetry

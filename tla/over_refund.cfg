SPECIFICATION Spec
CONSTANTS
    t1 = t1  t2 = t2  u1 = u1  e1 = e1  e2 = e2   h1 = h1  h2 = h2
    w1 = w1  w2 = w2  w3 = w3  r1 = r1  r2 = r2  c1 = c1  c2 = c2
    d1 = d1  d2 = d2  o1 = o1  o2 = o2
    Txns = {t1}
    Users = {u1}
    UserOf <- OneUser
    Gross <- GrossTwo
    Net <- NetOne
    Events = {e1}
    OrderOf <- SameOrder
    HookWorkers = {h1}
    Workers = {w1}
    ResumeLimit = 25
    RefundIds = {r1, r2}
    Clerks = {c1, c2}
    Cases = {}
    Operators = {}
    MaxFaults = 0
CHECK_DEADLOCK FALSE
INVARIANT RefundWithinGross
CONSTRAINTS PaymentsTaken WordsKnown

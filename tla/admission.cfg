SPECIFICATION AdmissionSpec
CONSTANTS
    u1 = u1  u2 = u2  p1 = p1  p2 = p2  a1 = a1  k1 = k1
    d1 = d1  d2 = d2  c1 = c1  c2 = c2  s1 = s1  s2 = s2  o1 = o1  o2 = o2
    Users = {u1, u2}
    Pans = {p1, p2}
    Names <- SmallNames
    NameOnPan <- TheirPans
    DayLength = 1
    MaxTime = 1
    MaxFaults = 1
    Clients = {c1, c2}
    Devices = {"phone"}
    TokenLife = 1
    Sessions = {s1, s2}
    Officers = {o1, o2}
    BankAccounts = {a1}
    HolderOf <- RavisAccount
    Amounts = {2000}
    Keys = {k1}
    Desks = {d1, d2}
    MaxAmount = 200
    MaxVolume = 200
    VelocityWindow = 0
    VelocityMax = 3
    BeneficiaryLimit = 3
    FailedPayoutLimit = 1
    DeviceLimit = 2
    IsSelfTransfer <- Alike
    Blank = 0
    TokenThreshold = 80
    SimilarityThreshold = 88
CHECK_DEADLOCK FALSE
INVARIANTS AdmissionTypeOK KycNotFromAnothers ForksBounded AdmittedTransfer OneTransferPerKey OrderAwaitsPayment VolumeBounded RefundsFit
CONSTRAINTS TokensAlone VerifyingAlone NobodysAlone CreatingAlone SecondPan TransfersFew
SYMMETRY AdmissionSymmetry

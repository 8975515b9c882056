SPECIFICATION EmployeesServiceSpec
CONSTANTS
    o1 = o1  t1 = t1  u1 = u1  w1 = w1  w2 = w2  pe = pe  me = me  e1 = e1
    Orgs = {o1}
    Users = {u1}
    Engines = {e1}
    Hashes = {h1}
    Accounts <- MCAccounts
    TreasuryOf <- MCTreasuryOf
    PayrollEngine = pe
    MilestoneEngine = me
    NoTrustline = {}
    Endowment <- MCEndowment
    Payees = {w1, w2}
    Amounts = {1}
    FactoryAdmin = u1
    FactoryEngines <- MCFactoryEngines
    HomeOrg = o1
    Founder = u1
    Signers = {}
    Slots = {p1, p2}
    MaxIntents = 3
    MaxEmployees = 2
    MaxStaff = 2
    MaxFile = 2
    DiesAt = {"register", "consume"}
CHECK_DEADLOCK FALSE
SYMMETRY MCSymmetry
INVARIANTS
    EmployeesServiceTypeOK
    OwnRecord
    EligibleIsPayable

SPECIFICATION PayrollRunsSpec
CONSTANTS
    o1 = o1  t1 = t1  u1 = u1  w1 = w1  pe = pe  me = me  e1 = e1
    Orgs = {o1}
    Users = {u1}
    Engines = {e1}
    Hashes = {h1}
    Accounts <- MCAccounts
    TreasuryOf <- MCTreasuryOf
    PayrollEngine = pe
    MilestoneEngine = me
    NoTrustline = {}
    Endowment <- MCEndowment
    Payees = {w1}
    Amounts = {1}
    FactoryAdmin = u1
    FactoryEngines <- MCFactoryEngines
    MaxEmployees = 0
    RunIds = {0, 1, 2}
    Batches = {}
    Signers = {}
    Slots = {p1, p2}
    NumItems = 2
    ChunkSize = 1
    MaxIntents = 2
    Founder = u1
    HomeOrg = o1
    Wallet <- MCWallet
    Amount <- MCAmount
    DiesAt = {}
CONSTRAINT OneInterference
CHECK_DEADLOCK FALSE
SYMMETRY SlotSymmetry
INVARIANTS
    PaidOnChain
    FinishedHasNoPending

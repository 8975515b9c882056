SPECIFICATION TreasuryServiceSpec
CONSTANTS
    o1 = o1  t1 = t1  u1 = u1  w1 = w1  pe = pe  me = me  e1 = e1
    Orgs = {o1}
    Users = {u1}
    Engines = {e1}
    Hashes = {h1}
    Accounts <- MCAccounts
    TreasuryOf <- MCTreasuryOf
    PayrollEngine = pe
    MilestoneEngine = me
    NoTrustline = {}
    Endowment <- MCEndowment
    Payees = {w1}
    Amounts = {1}
    FactoryAdmin = u1
    FactoryEngines <- MCFactoryEngines
    HomeOrg = o1
    Founder = u1
    Signers = {u1}
    Slots = {p1}
    MaxIntents = 1
    DiesAt = {}
    Watched = {t1}
    Retention = 2
    MaxLedger = 4
    MaxIdle = 3
    MaxTransfers = 1
    MaxForgone = 0
    Followed = {}
CHECK_DEADLOCK FALSE
PROPERTIES
    EventuallyIndexed

SPECIFICATION MilestonesServiceSpec
CONSTANTS
    o1 = o1  t1 = t1  u1 = u1  w1 = w1  pe = pe  me = me  e1 = e1
    Orgs = {o1}
    Users = {u1}
    Engines = {e1}
    Hashes = {h1}
    Accounts <- MCAccounts
    TreasuryOf <- MCTreasuryOf
    PayrollEngine = pe
    MilestoneEngine = me
    NoTrustline = {}
    Endowment <- MCEndowment
    Payees = {w1}
    Amounts = {1}
    FactoryAdmin = u1
    FactoryEngines <- MCFactoryEngines
    HomeOrg = o1
    Founder = u1
    Signers = {u1}
    Slots = {p1}
    MaxIntents = 3
    MaxMilestones <- MCMaxMilestones
    MaxRows = 2
    MaxUnlinked = 1
    DiesAt = {"build", "send", "wait", "write"}
    Watched = {t1, me}
    Retention = 9
    MaxLedger = 4
    MaxIdle = 0
    MaxTransfers = 1
    MaxForgone = 1
    Followed = {t1}
CHECK_DEADLOCK FALSE
INVARIANTS
    MilestonesServiceTypeOK
    StatusWasReached
    CursorCovered
    TransactionsAddUp
PROPERTIES
    RowsConverge

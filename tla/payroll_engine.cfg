SPECIFICATION Spec
CONSTANTS
    o1 = o1  o2 = o2  t1 = t1  t2 = t2  u1 = u1  u2 = u2
    w1 = w1  w2 = w2  pe = pe  me = me  e1 = e1
    Orgs <- OneOrg
    Users = {u1}
    Engines = {e1}
    Hashes = {h1}
    Accounts <- MCAccounts
    TreasuryOf <- MCTreasuryOf
    PayrollEngine = pe
    MilestoneEngine = me
    NoTrustline = {w2}
    Endowment <- MCEndowment
    Payees = {w1, w2}
    Amounts = {0, 1, 2}
    FactoryAdmin = u1
    FactoryEngines <- MCFactoryEngines
    MaxEmployees = 2
    RunIds = {1, 2}
    Batches <- MCBatches
    MaxMilestones <- NoMilestones
CONSTRAINTS
    DeployedFirst
    MetadataUntouched
CHECK_DEADLOCK FALSE
INVARIANTS
    TypeOK
    BalanceFromEvents
PROPERTIES
    RunsFinal
    PayrollPaysAsReported
    BatchItemsIndependent

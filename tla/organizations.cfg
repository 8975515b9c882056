SPECIFICATION OrganizationsServiceSpec
CONSTANTS
    o1 = o1  o2 = o2  t1 = t1  t2 = t2  u1 = u1  u2 = u2  pe = pe  me = me  e1 = e1
    Orgs = {o1, o2}
    Users = {u1, u2}
    Engines = {e1}
    Hashes = {h1}
    Accounts <- MCAccounts
    TreasuryOf <- MCTreasuryOf
    PayrollEngine = pe
    MilestoneEngine = me
    NoTrustline = {}
    Endowment <- MCEndowment
    Payees = {}
    Amounts = {}
    FactoryAdmin = u1
    FactoryEngines <- MCFactoryEngines
    Slugs = {s1, s2}
    Granted = {"Owner", "Viewer"}
    Signers = {u1, u2}
    Slots = {p1, p2}
    MaxIntents = 3
    DiesAt = {"consume", "write"}
CHECK_DEADLOCK FALSE
SYMMETRY MCSymmetry
INVARIANTS
    OrganizationsServiceTypeOK
    RowsAreRegistered
    RoleWasGranted
    RowsFollowChain

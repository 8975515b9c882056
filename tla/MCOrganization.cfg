SPECIFICATION OrganizationSpec
CONSTANTS
    Orgs = {o1}
    Users = {u1, u2, u3}
    Engines = {e1, e2}
    Hashes = {h1, h2}
SYMMETRY UserSymmetry
INVARIANTS
    OrganizationTypeOK
    OwnerCountExact
    NeverOwnerless

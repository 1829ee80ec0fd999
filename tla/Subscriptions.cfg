SPECIFICATION Spec
CONSTANTS
    User = {u1, u2}
    NoUser = NoUser
    Product = {cloud}
    NoProduct = NoProduct
    Token = {t1, t2}
    Request = {r1, r2}
    Refunds = TRUE
    u1 = u1
    u2 = u2
    cloud = cloud
    t1 = t1
    t2 = t2
    r1 = r1
    r2 = r2
INVARIANTS
    BillingTypeOK
    PaidPlanBought
    SweepSparesActive
PROPERTIES
    TokenOneAccount
SYMMETRY Symmetry

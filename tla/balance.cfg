SPECIFICATION Spec
CONSTANTS
    Orders = {o1, o2}
    Users = {u1, u2}
    Merchants = {m1}
    Currencies = {SGD, USD}
    SGD = SGD
    NoCap = NoCap
    Nothing = Nothing
    ExactCents = 500
    Amounts = {10, 100, 9945}
    Rates = {0, 49995, 100000}
    Caps = {0, 994}
    MaxUpserts = 2
INVARIANTS
    TypeOK
    CreditIsFair
    BalancesAddUp
PROPERTIES
    BalanceNeverShrinks

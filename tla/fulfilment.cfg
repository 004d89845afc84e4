\* Two checkouts of one buyer under two keys, on a cart of two SKUs, and the
\* cancellation of what they commit.
SPECIFICATION FulfilmentSpec
CONSTANTS
    r1 = r1  r2 = r2  alice = alice  k1 = k1  k2 = k2  plain = plain  checked = checked  a = a  b = b
    NoOrder = NoOrder
    Requests = {r1, r2}
    Users = {alice}
    Skus = {a, b}
    Keys = {k1, k2}
    Bodies = {plain, checked}
    RowIds = {1, 2, 3}
    Quantities = {1, 2}
    Prices = {14, 16}
    Scale = 10
    UserOf <- OneBuyer
    KeyOf <- TwoKeys
    BodyOf <- OneChecked
    SnapshotOf <- BothSeen
    Stock <- Scarce
    UniqueRows = TRUE
    MaxFaults = 1
INVARIANTS
    StockConserved
    BoughtRowsAreGone
    SnapshotHonoured

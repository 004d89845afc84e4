\* The same with the two rows for one SKU that concurrent adds to the cart leave behind.
SPECIFICATION Spec
CONSTANTS
    r1 = r1  r2 = r2  r3 = r3
    alice = alice  k1 = k1  other = other  checked = checked  a = a  b = b
    NoOrder = NoOrder
    Requests = {r1}
    Users = {alice}
    Skus = {a}
    Keys = {k1}
    Bodies = {checked}
    RowIds = {1, 2}
    Quantities = {1, 2}
    Prices = {14}
    Scale = 10
    UserOf <- SameUser
    KeyOf <- SameKey
    BodyOf <- CheckedBody
    SnapshotOf <- OneSnapshot
    Stock <- ThreeEach
    UniqueRows = FALSE
    MaxFaults = 0
INVARIANTS
    SnapshotHonoured

\* Double click and key reuse: three requests of one key, two of them with a snapshot of
\* the cart, which may hold two SKUs, so that a reserve may fail in part.  When all are answered and the ids of
\* new rows are used up nothing is left to do.
SPECIFICATION FairSpec
CONSTANTS
    r1 = r1  r2 = r2  r3 = r3
    alice = alice  k1 = k1  other = other  checked = checked  a = a  b = b
    NoOrder = NoOrder
    Requests = {r1, r2, r3}
    Users = {alice}
    Skus = {a, b}
    Keys = {k1}
    Bodies = {checked, other}
    RowIds = {1, 2}
    Quantities = {1}
    Prices = {14}
    Scale = 10
    UserOf <- SameUser
    KeyOf <- SameKey
    BodyOf <- ReusedBody
    SnapshotOf <- BothSeen
    Stock <- ThreeEach
    UniqueRows = TRUE
    MaxFaults = 1
INVARIANTS
    OneOrderPerKey
    KeyReservesOnce
    AnswerIsTrue
    LoserFindsWinner
    StockAccounted
PROPERTIES
    EveryRequestAnswered
CHECK_DEADLOCK FALSE

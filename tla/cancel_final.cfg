\* Two cancels of one order race: CANCELLED is not final.
SPECIFICATION Spec
CONSTANTS
    alice = alice  bob = bob  o1 = o1  o2 = o2  o3 = o3
    NoOrder = NoOrder
    Orders = {o1}
    Users = {alice}
    OwnerOf <- AllOfAlice
    Itemless = {}
    Requests = {q1, q2}
    Workers = {w1}
    Limit = 1
    MaxFaults = 0
PROPERTIES
    CancelledIsFinal

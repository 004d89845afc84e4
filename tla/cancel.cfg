\* Cancels and retries by a request and a worker that takes one order a run, on two orders
\* with items and one without; every accepted cancellation ends.
SPECIFICATION FairSpec
CONSTANTS
    alice = alice  bob = bob  o1 = o1  o2 = o2  o3 = o3
    NoOrder = NoOrder
    Orders = {o1, o2, o3}
    Users = {alice, bob}
    OwnerOf <- AllOfAlice
    Itemless = {o3}
    Requests = {q1}
    Workers = {w1}
    Limit = 1
    MaxFaults = 2
INVARIANTS
    CancelledMeansReleased
    ReplyIsTrue
PROPERTIES
    KeepsLife
    EventuallyCancelled

\* Two requests over five queries and the page of a category, with four keys for a memo of
\* two entries.
SPECIFICATION Spec
CONSTANTS
    c1 = c1
    None = None
    Empty = Empty
    Requests = {r1, r2}
    Queries <- FiveQueries
    Categories = {c1}
    TTL = 2
    MaxEntries = 2
    ScanTime = 1
    MaxTime = 4
SYMMETRY Interchangeable
INVARIANTS
    Bounded
    CountersFitListing
    NeverStale

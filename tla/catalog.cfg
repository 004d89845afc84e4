\* Every hierarchy of up to three categories, sound or broken, with every way to put three
\* products into it; one change of B2B during a request.
SPECIFICATION Spec
CONSTANTS
    Categories = {c1, c2, c3}
    p1 = p1
    p2 = p2
    p3 = p3
    NewestFirst <- Order
    NoParent = NoParent
    Hidden = Hidden
    SkuLists <- SkuListsMC
    Limits = {1, 2, 3}
    MaxSimilar = 3
    MaxPage = 6
    PageSize = 1
    ScanLimit = 2
    MaxEdits = 1
SYMMETRY Interchangeable
INVARIANTS
    TypeOK
    PathsAreTrue
    BrokenIsRefused
    BlockIsClean
    ShopWindowIsTrue
    CountersAreTrue
PROPERTIES
    BlockIsFull

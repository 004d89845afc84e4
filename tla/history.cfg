SPECIFICATION Spec
CONSTANTS
    o1 = o1
    o2 = o2
    o3 = o3
    x1 = x1
    NoCard = NoCard
    Orders <- OrdersMC
    Mine <- MineMC
    Created <- CreatedMC
    Limits <- LimitsMC
    Filters <- FiltersMC
INVARIANTS
    TypeOK
    NoneMissed
    NoneTwice
    TotalFitsPage

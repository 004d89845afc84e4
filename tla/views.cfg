SPECIFICATION Spec
CONSTANTS
    a = a
    b = b
    Things <- ThingsMC
    Prices <- PricesMC
    Quantities <- QuantitiesMC
    Limits <- LimitsMC
    Offsets <- OffsetsMC
    Displays <- DisplaysMC
    MaxRows = 3
    MaxEdits = 2
INVARIANTS
    TypeOK
    CartViewIsTrue
    TotalIsOfRowsOnSale
    WishlistViewIsTrue
    

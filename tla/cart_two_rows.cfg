\* Two tabs add one SKU at the same time.
SPECIFICATION Spec
CONSTANTS
    tab1 = tab1  tab2 = tab2  visit = visit
    buyer = buyer  visitor = visitor  a = a  b = b
    NoSku = NoSku
    Sessions = {tab1, tab2, visit}
    Users = {buyer, visitor}
    Skus = {a}
    Guests = {visitor}
    UserOf <- OneTabEach
    Copies = {1, 2, 3}
    Quantities = {1}
    Levels = {0, 2}
INVARIANTS
    OneRowPerSku

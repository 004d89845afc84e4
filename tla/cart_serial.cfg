\* A guest and a buyer, one request at a time for each cart, with merges of the guest cart.
SPECIFICATION Spec
CONSTANTS
    tab1 = tab1  tab2 = tab2  visit = visit
    buyer = buyer  visitor = visitor  a = a  b = b
    NoSku = NoSku
    Sessions = {tab1, visit}
    Users = {buyer, visitor}
    Skus = {a, b}
    Guests = {visitor}
    UserOf <- OneTabEach
    Copies = {1, 2, 3}
    Quantities = {1, 2}
    Levels = {0, 2}
INVARIANTS
    TypeOK
    OneRowPerSku
PROPERTIES
    KeepsPromise

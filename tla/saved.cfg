\* Three clients of one buyer, on one product of the wishlist and one SKU subscribed to.
SPECIFICATION Spec
CONSTANTS
    Sessions = {c1, c2, c3}
    Wishes = {w}
    Subscriptions = {n}
    Ids = {i1, i2, i3, i4}
SYMMETRY Interchangeable
INVARIANTS
    SavedOnce
    AnswerWasTrue
    FailsOnlyIfRemoved

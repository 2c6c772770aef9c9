SPECIFICATION ImportSpec
CONSTANTS
    Title = {t1}
    Tool = {p1, p2}
    Ticket = {k1, k2}
    MaxId = 2
    Cached = TRUE
    Null = Null
SYMMETRY Symmetry
INVARIANTS ImportTypeOK Accounted TwiceOnlyUntimely SuccessMeansSettled
PROPERTIES RollbackRemovesOwn ManifestKeepsTrack

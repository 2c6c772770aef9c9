SPECIFICATION CacheSpec
CONSTANTS
    Item = {i1}
    Student = {s1}
    Clerk = {c1}
    Editor = {e1}
    Reader = {t1, t2}
    MaxRecords = 1
    Page <- WholeCatalogue
    Null = Null
SYMMETRY Symmetry
INVARIANTS CacheTypeOK StaleOnlyBy

SPECIFICATION CacheSpec
CONSTANTS
    Item = {i1}
    Student = {s1}
    Clerk = {c1}
    Editor = {}
    Reader = {t1}
    MaxRecords = 1
    Page <- WholeCatalogue
    Null = Null
INVARIANT EvictionEndsStaleness

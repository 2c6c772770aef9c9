SPECIFICATION LibrarySpec
CONSTANTS
    Item = {i1}
    Student = {s1}
    Clerk = {c1}
    Editor = {e1}
    MaxRecords = 2
    Null = Null
INVARIANT AvailabilityAgrees

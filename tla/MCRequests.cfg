SPECIFICATION LibraryFairSpec
CONSTANTS
    Item = {i1}
    Student = {s1}
    Clerk = {c1, c2}
    Editor = {e1}
    MaxRecords = 2
    Null = Null
PROPERTY LibraryRequestsEnd

SPECIFICATION Spec
CONSTANTS
    Item = {i1, i2}
    Student = {s1, s2}
    Clerk = {c1, c2, c3}
    Editor = {}
    MaxRecords = 3
    Null = Null
SYMMETRY Symmetry
INVARIANTS TypeOK AvailabilityAgrees OneActiveLoan AuditMatches NoWaitCycle
PROPERTIES RecordHistory ImplementsLoans

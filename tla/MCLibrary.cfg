SPECIFICATION LibrarySpec
CONSTANTS
    Item = {i1}
    Student = {s1}
    Clerk = {c1, c2}
    Editor = {e1, e2}
    MaxRecords = 3
    Null = Null
SYMMETRY Symmetry
INVARIANTS LibraryTypeOK ReferencesLive AuditMatches DeletionsAudited AgreesUntilEdited NoLibraryWaitCycle
PROPERTIES LibraryRecordHistory

--------------------------- MODULE LibraryProofs ---------------------------
(***************************************************************************)
(* The invariants of Library: circulation's inductive invariant survives   *)
(* the services that edit the same rows, for every set of items, students, *)
(* clerks and editors.                                                     *)
(***************************************************************************)
EXTENDS Library, CirculationProofs

\* An editor owns the lock of an item between its flush and its commit, and
\* never that of a borrow record.
EditorLocks ==
    /\ \A i \in Item, e \in Editor :
          itemLock[i] = e <=> editor[e].pc = "commitUpdate" /\ editor[e].item = i
    /\ \A r \in RecordId, e \in Editor : recordLock[r] # e

EditorArguments ==
    \A e \in Editor :
        /\ editor[e].pc \in {"flushUpdate", "commitUpdate", "removeItem"} => editor[e].item \in Item
        /\ editor[e].pc = "removeStudent" => editor[e].student \in Student

EditorsInv ==
    /\ retired \subseteq Item \cup Student
    /\ editor \in [Editor -> Edit]
    /\ EditorLocks
    /\ EditorArguments
    /\ DeletionsAudited

LInv == IInv /\ EditorsInv

LEMMA EditorsAreNotClerks ==
    /\ \A c \in Clerk, e \in Editor : c # e
    /\ Null \notin Clerk \cup Editor
BY ThreadAssumption, NullAssumption

\* What a step that runs no borrow and no return has to respect for
\* circulation's invariant to survive it.
LEMMA AsideIInv ==
    ASSUME IInv, TypeOK', LocksMatch', UNCHANGED <<record, nextId, clerk>>,
           \A r \in RecordId, a \in {"BORROW", "RETURN"} :
               [action |-> a, id |-> r] \in audit' <=> [action |-> a, id |-> r] \in audit,
           \A i \in Item : Edited(i) => Edited(i)',
           \A c \in Clerk : clerk[c].pc \in {"save", "publishBorrow", "commitBorrow"} =>
               clerk[c].item \in items' /\ available'[clerk[c].item],
           \A c \in Clerk : clerk[c].pc \in {"publishBorrow", "commitBorrow"} =>
               clerk[c].student \in students',
           \A r \in RecordId : record[r].status # "ABSENT" =>
               record[r].item \in items' /\ record[r].student \in students',
           \A i \in items' : ~Edited(i)' => (available'[i] <=> ~OnLoan(i))
    PROVE  IInv'
<1>1. ArgumentsGiven'
  BY DEF IInv, ArgumentsGiven
<1>2. Knowledge'
  BY DEF IInv, Knowledge, BorrowKnows, ReturnKnows
<1>3. FreshIds' /\ ReferencesLive' /\ AuditMatches'
  BY DEF IInv, FreshIds, ReferencesLive, AuditMatches
<1>4. FlagAgrees'
  BY DEF FlagAgrees, OnLoan, ActiveLoan
<1>5. LentOnce'
  BY DEF IInv, LentOnce, ActiveLoan
<1>6. QED
  BY <1>1, <1>2, <1>3, <1>4, <1>5 DEF IInv

\* Releasing an editor's locks takes nothing from a clerk.
LEMMA EditorReleases ==
    ASSUME NEW e \in Editor, LInv, ReleaseLocks(e), clerk' = clerk
    PROVE  /\ LocksMatch'
           /\ itemLock' \in [Item -> Clerk \cup Editor \cup {Null}]
           /\ recordLock' \in [RecordId -> Clerk \cup Editor \cup {Null}]
           /\ \A i \in Item, d \in Editor : itemLock'[i] = d <=> d # e /\ itemLock[i] = d
           /\ \A r \in RecordId, d \in Editor : recordLock'[r] # d
<1>1. itemLock' \in [Item -> Clerk \cup Editor \cup {Null}]
  BY DEF LInv, IInv, TypeOK, ReleaseLocks
<1>2. /\ recordLock' \in [RecordId -> Clerk \cup Editor \cup {Null}]
      /\ \A r \in RecordId : recordLock'[r] = recordLock[r]
  BY DEF LInv, IInv, TypeOK, EditorsInv, EditorLocks, ReleaseLocks
<1>3. \A i \in Item, d \in Clerk \cup Editor : itemLock'[i] = d <=> d # e /\ itemLock[i] = d
  BY EditorsAreNotClerks DEF ReleaseLocks
<1>4. LocksMatch'
  BY <1>2, <1>3, EditorsAreNotClerks DEF LInv, IInv, LocksMatch
<1>5. QED
  BY <1>1, <1>2, <1>3, <1>4 DEF LInv, EditorsInv, EditorLocks

\* Logging one event of an editor adds no loan and no return.
LEMMA LogIsAside ==
    ASSUME NEW a \in {"CREATE", "UPDATE", "DELETE"}, NEW x \in Item \cup Student, LInv, Log(a, x)
    PROVE  /\ audit' \subseteq AuditRow
           /\ \A r \in RecordId, b \in {"BORROW", "RETURN"} :
                 [action |-> b, id |-> r] \in audit' <=> [action |-> b, id |-> r] \in audit
           /\ \A i \in Item : Edited(i)' <=> Edited(i) \/ (a = "UPDATE" /\ i = x)
           /\ \A y \in Item \cup Student :
                 [action |-> "DELETE", id |-> y] \in audit' <=>
                     [action |-> "DELETE", id |-> y] \in audit \/ (a = "DELETE" /\ y = x)
<1>1. [action |-> a, id |-> x] \in AuditRow
  BY DEF AuditRow
<1>2. audit' = audit \cup {[action |-> a, id |-> x]} /\ audit \subseteq AuditRow
  BY DEF Log, LInv, IInv, TypeOK
<1>3. QED
  BY <1>1, <1>2 DEF Edited

\* What ends an editor's request, and what it leaves true of the editors.
LEMMA EndsEditorRequest ==
    ASSUME NEW e \in Editor, NEW pc \in {"idle", "evict"}, LInv, ReleaseLocks(e), clerk' = clerk,
           editor' = [editor EXCEPT ![e] = EditAt(pc, Null, Null, TRUE)]
    PROVE  editor' \in [Editor -> Edit] /\ EditorLocks' /\ EditorArguments'
<1>1. editor' \in [Editor -> Edit]
  BY DEF LInv, EditorsInv, Edit, EditAt, EditorPc
<1>2. EditorLocks'
  BY EditorReleases DEF LInv, EditorsInv, EditorLocks, EditAt
<1>3. EditorArguments'
  BY DEF LInv, EditorsInv, EditorArguments, EditAt
<1>4. QED
  BY <1>1, <1>2, <1>3
-----------------------------------------------------------------------------
\* Each editor action preserves the invariant.

LEMMA StartEdit ==
    ASSUME NEW e \in Editor, NEW pc \in {"flushUpdate", "removeItem"}, NEW i \in Item,
           NEW seen \in BOOLEAN, LInv, Begin(e, EditAt(pc, i, Null, seen))
    PROVE  LInv'
<1>1. IInv'
  BY StutterIInv DEF Begin, LInv
<1>2. editor' \in [Editor -> Edit]
  BY DEF Begin, LInv, EditorsInv, Edit, EditAt, EditorPc
<1>3. EditorLocks' /\ EditorArguments' /\ DeletionsAudited' /\ retired' = retired
  BY DEF Begin, LInv, EditorsInv, EditorLocks, EditorArguments, DeletionsAudited, EditAt,
         vars, tables, locks
<1>4. QED
  BY <1>1, <1>2, <1>3 DEF LInv, EditorsInv

LEMMA BeginDeleteStudentLInv ==
    ASSUME NEW e \in Editor, NEW s \in Student, LInv, BeginDeleteStudent(e, s)
    PROVE  LInv'
<1> USE DEF BeginDeleteStudent, Begin
<1>1. IInv'
  BY StutterIInv DEF LInv
<1>2. editor' \in [Editor -> Edit]
  BY DEF LInv, EditorsInv, Edit, EditAt, EditorPc
<1>3. EditorLocks' /\ EditorArguments' /\ DeletionsAudited' /\ retired' = retired
  BY DEF LInv, EditorsInv, EditorLocks, EditorArguments, DeletionsAudited, EditAt,
         vars, tables, locks
<1>4. QED
  BY <1>1, <1>2, <1>3 DEF LInv, EditorsInv

LEMMA GiveUpLInv ==
    ASSUME NEW e \in Editor, LInv, GiveUp(e)
    PROVE  LInv'
<1> USE DEF GiveUp, NoEdit, tables
<1>1. LocksMatch' /\ TypeOK'
  BY EditorReleases DEF LInv, IInv, TypeOK
<1>2. IInv'
  BY <1>1, AsideIInv DEF LInv, IInv, Edited, Knowledge, BorrowKnows, ReferencesLive, FlagAgrees
<1>3. editor' \in [Editor -> Edit] /\ EditorLocks' /\ EditorArguments'
  BY EndsEditorRequest
<1>4. QED
  BY <1>2, <1>3 DEF LInv, EditorsInv, DeletionsAudited
\* What is left to show of an action that logs an event and ends its request.
LEMMA LoggedLInv ==
    ASSUME NEW e \in Editor, NEW a \in {"CREATE", "UPDATE", "DELETE"}, NEW x \in Item \cup Student,
           NEW pc \in {"idle", "evict"}, LInv, Log(a, x), Committed(e, pc),
           UNCHANGED <<record, nextId>>,
           items' \subseteq Item, available' \in [Item -> BOOLEAN], students' \subseteq Student,
           \A c \in Clerk : clerk[c].pc \in {"save", "publishBorrow", "commitBorrow"} =>
               clerk[c].item \in items' /\ available'[clerk[c].item],
           \A c \in Clerk : clerk[c].pc \in {"publishBorrow", "commitBorrow"} =>
               clerk[c].student \in students',
           \A r \in RecordId : record[r].status # "ABSENT" =>
               record[r].item \in items' /\ record[r].student \in students',
           \A i \in items' : (a # "UPDATE" \/ i # x) /\ ~Edited(i) => (available'[i] <=> ~OnLoan(i)),
           retired' = IF a = "DELETE" THEN retired \cup {x} ELSE retired
    PROVE  LInv'
<1>1. PICK next \in {"idle", "evict"} :
          editor' = [editor EXCEPT ![e] = EditAt(next, Null, Null, TRUE)]
  BY DEF Committed
<1>2. ReleaseLocks(e) /\ clerk' = clerk
  BY DEF Committed
<1>3. LocksMatch' /\ TypeOK'
  BY <1>2, EditorReleases, LogIsAside DEF LInv, IInv, TypeOK
<1>4. IInv'
  BY <1>2, <1>3, LogIsAside, AsideIInv DEF LInv
<1>5. editor' \in [Editor -> Edit] /\ EditorLocks' /\ EditorArguments'
  BY <1>1, <1>2, EndsEditorRequest
<1>6. DeletionsAudited' /\ retired' \subseteq Item \cup Student
  BY LogIsAside DEF LInv, EditorsInv, DeletionsAudited
<1>7. QED
  BY <1>4, <1>5, <1>6 DEF LInv, EditorsInv

\* What a clerk at work and a committed loan rest on.
LEMMA RestsOn ==
    ASSUME LInv
    PROVE  /\ items \subseteq Item /\ available \in [Item -> BOOLEAN] /\ students \subseteq Student
           /\ \A c \in Clerk : clerk[c].pc \in {"save", "publishBorrow", "commitBorrow"} =>
                 /\ clerk[c].item \in items /\ clerk[c].item \in Item
                 /\ available[clerk[c].item] /\ itemLock[clerk[c].item] = c
           /\ \A c \in Clerk : clerk[c].pc \in {"publishBorrow", "commitBorrow"} =>
                 clerk[c].student \in students
           /\ \A r \in RecordId : record[r].status # "ABSENT" =>
                 record[r].item \in items /\ record[r].student \in students
           /\ \A i \in items : ~Edited(i) => (available[i] <=> ~OnLoan(i))
BY DEF LInv, IInv, TypeOK, Knowledge, BorrowKnows, LocksMatch, HoldsItem, ArgumentsGiven, BorrowPc,
       ReferencesLive, FlagAgrees

LEMMA CreateItemLInv ==
    ASSUME NEW e \in Editor, NEW i \in Item, LInv, CreateItem(e, i)
    PROVE  LInv'
<1> USE DEF CreateItem
<1>1. ~OnLoan(i)
  BY RestsOn DEF OnLoan, ActiveLoan
<1>2. items' \subseteq Item /\ available' \in [Item -> BOOLEAN]
  BY RestsOn
<1>3. \A j \in items' : ~Edited(j) => (available'[j] <=> ~OnLoan(j))
  BY <1>1, RestsOn
<1>4. \A c \in Clerk : clerk[c].pc \in {"save", "publishBorrow", "commitBorrow"} =>
          clerk[c].item \in items' /\ available'[clerk[c].item]
  BY RestsOn
<1>5. QED
  BY <1>2, <1>3, <1>4, RestsOn, LoggedLInv

LEMMA StudentLoggedLInv ==
    ASSUME NEW e \in Editor, NEW s \in Student, LInv, CreateStudent(e, s) \/ UpdateStudent(e, s)
    PROVE  LInv'
<1>1. CASE CreateStudent(e, s)
  BY <1>1, RestsOn, LoggedLInv DEF CreateStudent
<1>2. CASE UpdateStudent(e, s)
  BY <1>2, RestsOn, LoggedLInv DEF UpdateStudent
<1>3. QED
  BY <1>1, <1>2

LEMMA UpdateUnchangedLInv ==
    ASSUME NEW e \in Editor, NEW i \in Item, LInv, UpdateUnchanged(e, i)
    PROVE  LInv'
BY RestsOn, LoggedLInv DEF UpdateUnchanged

LEMMA FlushUpdateLInv ==
    ASSUME NEW e \in Editor, LInv, FlushUpdate(e)
    PROVE  LInv'
<1> DEFINE i == editor[e].item
<1> USE DEF FlushUpdate, tables
<1>1. i \in Item /\ e # Null /\ \A c \in Clerk : c # e /\ c # Null
  BY EditorsAreNotClerks DEF LInv, EditorsInv, EditorArguments
<1>2. TypeOK'
  BY <1>1 DEF LInv, IInv, TypeOK
<1>3. LocksMatch'
  BY <1>1 DEF LInv, IInv, TypeOK, LocksMatch
<1>4. IInv'
  BY <1>2, <1>3, RestsOn, AsideIInv DEF LInv, Edited
<1>5. editor' \in [Editor -> Edit]
  BY DEF LInv, EditorsInv, Edit, EditorPc
<1>6. EditorLocks'
  BY <1>1, EditorsAreNotClerks DEF LInv, IInv, TypeOK, EditorsInv, EditorLocks
<1>7. EditorArguments' /\ DeletionsAudited' /\ retired' \subseteq Item \cup Student
  BY DEF LInv, EditorsInv, EditorArguments, DeletionsAudited
<1>8. QED
  BY <1>4, <1>5, <1>6, <1>7 DEF LInv, EditorsInv

LEMMA CommitUpdateLInv ==
    ASSUME NEW e \in Editor, LInv, CommitUpdate(e)
    PROVE  LInv'
<1> DEFINE i == editor[e].item
<1> USE DEF CommitUpdate
<1>1. i \in Item /\ itemLock[i] = e /\ editor[e].seen \in BOOLEAN
  BY DEF LInv, EditorsInv, EditorLocks, EditorArguments, Edit
<1>2. \A c \in Clerk : clerk[c].pc \in {"save", "publishBorrow", "commitBorrow"} =>
          clerk[c].item \in items' /\ available'[clerk[c].item]
  BY <1>1, RestsOn, EditorsAreNotClerks
<1>3. available' \in [Item -> BOOLEAN]
  BY <1>1, RestsOn
<1>4. \A j \in items' : j # i /\ ~Edited(j) => (available'[j] <=> ~OnLoan(j))
  BY <1>1, RestsOn
<1>5. QED
  BY <1>1, <1>2, <1>3, <1>4, RestsOn, LoggedLInv

LEMMA RemoveItemLInv ==
    ASSUME NEW e \in Editor, LInv, RemoveItem(e)
    PROVE  LInv'
<1> DEFINE i == editor[e].item
<1> USE DEF RemoveItem
<1>1. i \in Item /\ itemLock[i] = Null
  BY DEF LInv, EditorsInv, EditorArguments
<1>2. \A c \in Clerk : clerk[c].pc \in {"save", "publishBorrow", "commitBorrow"} =>
          clerk[c].item \in items' /\ available'[clerk[c].item]
  BY <1>1, RestsOn, EditorsAreNotClerks
<1>3. \A r \in RecordId : record[r].status # "ABSENT" =>
          record[r].item \in items' /\ record[r].student \in students'
  BY RestsOn DEF ItemHasHistory
<1>4. QED
  BY <1>1, <1>2, <1>3, RestsOn, LoggedLInv

LEMMA RemoveStudentLInv ==
    ASSUME NEW e \in Editor, LInv, RemoveStudent(e)
    PROVE  LInv'
<1> DEFINE s == editor[e].student
<1> USE DEF RemoveStudent
<1>1. s \in Student
  BY DEF LInv, EditorsInv, EditorArguments
<1>2. \A c \in Clerk : clerk[c].pc \in {"publishBorrow", "commitBorrow"} =>
          clerk[c].student \in students'
  BY RestsOn DEF StudentPinned
<1>3. \A r \in RecordId : record[r].status # "ABSENT" =>
          record[r].item \in items' /\ record[r].student \in students'
  BY RestsOn DEF StudentHasHistory
<1>4. QED
  BY <1>1, <1>2, <1>3, RestsOn, LoggedLInv
LEMMA EditorStepLInv ==
    ASSUME NEW e \in Editor, LInv, EditorStep(e) \/ EvictEdit(e)
    PROVE  LInv'
<1>1. ASSUME NEW i \in Item,
             CreateItem(e, i) \/ BeginUpdate(e, i) \/ UpdateUnchanged(e, i) \/ BeginDelete(e, i)
      PROVE  LInv'
  <2>1. CASE CreateItem(e, i) \/ UpdateUnchanged(e, i)
    BY <2>1, CreateItemLInv, UpdateUnchangedLInv
  <2>2. CASE BeginUpdate(e, i)
    <3>1. available[i] \in BOOLEAN
      BY DEF LInv, IInv, TypeOK
    <3>2. QED
      BY <2>2, <3>1, StartEdit DEF BeginUpdate
  <2>3. CASE BeginDelete(e, i)
    BY <2>3, StartEdit DEF BeginDelete
  <2>4. QED
    BY <1>1, <2>1, <2>2, <2>3
<1>2. ASSUME NEW s \in Student,
             CreateStudent(e, s) \/ UpdateStudent(e, s) \/ BeginDeleteStudent(e, s)
      PROVE  LInv'
  BY <1>2, StudentLoggedLInv, BeginDeleteStudentLInv
<1>3. CASE Write(e)
  BY <1>3, FlushUpdateLInv, RemoveItemLInv, RemoveStudentLInv, GiveUpLInv
     DEF Write, RejectUpdate, RejectDelete, RejectDeleteStudent
<1>4. CASE CommitUpdate(e) \/ AbortEdit(e) \/ EvictEdit(e)
  BY <1>4, CommitUpdateLInv, GiveUpLInv DEF AbortEdit, EvictEdit
<1>5. QED
  BY <1>1, <1>2, <1>3, <1>4 DEF EditorStep

\* A clerk's step takes no lock of an editor's and logs no deletion.
LEMMA ClerkLeavesEditors ==
    ASSUME NEW c \in Clerk, LInv, ClerkStep(c) \/ Evict(c), UNCHANGED <<retired, editor>>
    PROVE  EditorsInv'
<1>1. ASSUME ReleaseLocks(c)
      PROVE  EditorLocks'
  BY <1>1, EditorsAreNotClerks DEF ReleaseLocks, LInv, EditorsInv, EditorLocks
<1>2. ASSUME UNCHANGED locks
      PROVE  EditorLocks'
  BY <1>2 DEF locks, LInv, EditorsInv, EditorLocks
<1>3. ASSUME LockForBorrow(c) \/ LockForReturn(c) \/ LockReturnedItem(c) \/ SaveRecord(c)
      PROVE  EditorLocks'
  BY <1>3, EditorsAreNotClerks DEF LockForBorrow, LockForReturn, LockReturnedItem, SaveRecord,
     LInv, IInv, TypeOK, EditorsInv, EditorLocks
<1>4. EditorLocks'
  BY <1>1, <1>2, <1>3 DEF ClerkStep, BeginBorrow, BeginReturn, AcquireLock, RejectBorrow,
     RejectReturn, Proceed, RejectSave, PublishBorrow, PublishReturn, Commit, CommitUnacknowledged,
     Abort, Rollback, Evict
<1>5. audit' = audit \/ WriteBorrow(c) \/ WriteReturn(c)
  BY DEF ClerkStep, BeginBorrow, BeginReturn, AcquireLock, LockForBorrow, RejectBorrow,
     LockForReturn, RejectReturn, LockReturnedItem, Proceed, SaveRecord, RejectSave,
     PublishBorrow, PublishReturn, Commit, CommitUnacknowledged, Abort, Rollback, Evict, tables
<1>6. DeletionsAudited'
  <2>1. CASE audit' = audit
    BY <2>1 DEF LInv, EditorsInv, DeletionsAudited
  <2>2. CASE WriteBorrow(c) \/ WriteReturn(c)
    <3>1. \E a \in {"BORROW", "RETURN"} : clerk[c].log = {[action |-> a, id |-> clerk[c].record]}
      BY <2>2 DEF WriteBorrow, WriteReturn, LInv, IInv, Knowledge, BorrowKnows, ReturnKnows
    <3>2. audit' = audit \cup clerk[c].log
      BY <2>2 DEF WriteBorrow, WriteReturn
    <3>3. QED
      BY <3>1, <3>2 DEF LInv, EditorsInv, DeletionsAudited
  <2>3. QED
    BY <1>5, <2>1, <2>2
<1>7. QED
  BY <1>4, <1>6 DEF LInv, EditorsInv, EditorArguments

-----------------------------------------------------------------------------

\* The invariant of the composition: circulation's, the editors' locks and
\* arguments, and the deletions the audit trail names.
THEOREM LibraryInvariant == LibrarySpec => []LInv
<1>1. LibraryInit => LInv
  BY InitIInv, EditorsAreNotClerks DEF LibraryInit, LInv, EditorsInv, EditorLocks, EditorArguments,
     DeletionsAudited, Init, NoEdit, EditAt, Edit, EditorPc
<1>2. LInv /\ [LibraryNext]_libraryVars => LInv'
  <2>1. ASSUME LInv, NEW c \in Clerk, ClerkStep(c) \/ Evict(c), UNCHANGED <<retired, editor>>
        PROVE  LInv'
    BY <2>1, ClerkStepIInv, ClerkLeavesEditors DEF LInv
  <2>2. ASSUME LInv, UNCHANGED libraryVars
        PROVE  LInv'
    BY <2>2, StutterIInv DEF libraryVars, vars, tables, locks, LInv, EditorsInv, EditorLocks,
       EditorArguments, DeletionsAudited
  <2>3. QED
    BY <2>1, <2>2, EditorStepLInv DEF LibraryNext, LibraryStep, LibraryEvict
<1>3. QED
  BY <1>1, <1>2, PTL DEF LibrarySpec

\* Composed with every editor, nothing leaves the shapes the schema gives.
THEOREM LibraryTypeCorrect == LibrarySpec => []LibraryTypeOK
<1>1. LInv => LibraryTypeOK
  BY DEF LInv, IInv, EditorsInv, LibraryTypeOK
<1>2. QED
  BY LibraryInvariant, <1>1, PTL

\* No deletion, however it races a borrow, leaves a loan without its item
\* or its student.
THEOREM DeletionKeepsReferences == LibrarySpec => []ReferencesLive
<1>1. LInv => ReferencesLive
  BY DEF LInv, IInv
<1>2. QED
  BY LibraryInvariant, <1>1, PTL

\* Editors writing audit rows beside them, loans and their rows still match.
THEOREM LibraryAuditTrailCorrect == LibrarySpec => []AuditMatches
<1>1. LInv => AuditMatches
  BY DEF LInv, IInv
<1>2. QED
  BY LibraryInvariant, <1>1, PTL

\* Every deletion that was committed is audited, and no other is.
THEOREM DeletionTrailCorrect == LibrarySpec => []DeletionsAudited
<1>1. LInv => DeletionsAudited
  BY DEF LInv, EditorsInv
<1>2. QED
  BY LibraryInvariant, <1>1, PTL

\* Without an update of the item, its flag and its loans agree and it is out
\* at most once, whatever else is created, deleted, lent and returned.
THEOREM OnlyEditsPartFlagAndLoans == LibrarySpec => []AgreesUntilEdited
<1>1. LInv => AgreesUntilEdited
  BY DEF LInv, IInv, TypeOK, FlagAgrees, LentOnce, Edited, AgreesUntilEdited
<1>2. QED
  BY LibraryInvariant, <1>1, PTL

\* No step of any service rewrites a loan's past.
THEOREM LibraryLoansNeverRewritten == LibrarySpec => LibraryRecordHistory
<1>1. ASSUME LInv, [LibraryNext]_libraryVars
      PROVE  [RecordMovesForward]_libraryVars
  <2>1. ASSUME record' = record
        PROVE  RecordMovesForward
    BY <2>1 DEF RecordMovesForward
  <2>2. ASSUME NEW e \in Editor, EditorStep(e) \/ EvictEdit(e)
        PROVE  record' = record
    BY <2>2 DEF EditorStep, CreateItem, BeginUpdate, UpdateUnchanged, BeginDelete, Begin, vars,
       CreateStudent, UpdateStudent, BeginDeleteStudent, Write, FlushUpdate, RejectUpdate,
       RemoveItem, RejectDelete, RemoveStudent, RejectDeleteStudent, CommitUpdate, AbortEdit,
       GiveUp, EvictEdit, tables
  <2>3. ASSUME NEW c \in Clerk, ClerkStep(c) \/ Evict(c)
        PROVE  RecordMovesForward
    BY <1>1, <2>1, <2>3, ClerkMovesForward DEF LInv
  <2>4. QED
    BY <1>1, <2>1, <2>2, <2>3 DEF LibraryNext, LibraryStep, LibraryEvict
<1>2. QED
  BY LibraryInvariant, <1>1, PTL DEF LibrarySpec, LibraryRecordHistory
\* Who waits behind an item's holder waits for nobody who waits: an editor
\* takes its one row lock last, a clerk its item's lock after its record's.
THEOREM NoLibraryCircularWait == LibrarySpec => []NoLibraryWaitCycle
<1>1. ASSUME LInv, NEW x \in Clerk \cup Editor, NEW y \in Editor, Behind(x, y)
      PROVE  editor[y].pc = "commitUpdate"
  <2>1. CASE x \in Clerk
    <3>1. WaitsFor(x, y)
      BY <1>1, <2>1, EditorsAreNotClerks DEF Behind
    <3>2. /\ clerk[x].pc \in {"findByIdForBorrow", "lockReturned"} => clerk[x].item \in Item
          /\ clerk[x].pc = "findByIdForReturn" => clerk[x].record \in RecordId
      BY <1>1, <2>1 DEF LInv, IInv, ArgumentsGiven, BorrowPc, ReturnPc
    <3>3. QED
      BY <1>1, <3>1, <3>2 DEF WaitsFor, LInv, EditorsInv, EditorLocks
  <2>2. CASE x \in Editor
    BY <1>1, <2>2, EditorsAreNotClerks DEF Behind, LInv, EditorsInv, EditorLocks, EditorArguments
  <2>3. QED
    BY <2>1, <2>2
<1>2. ASSUME LInv, NEW x \in Clerk \cup Editor, NEW y \in Clerk, Behind(x, y)
      PROVE  \/ clerk[y].pc \in HoldsItem
             \/ clerk[y].pc \in HoldsRecord /\ x \in Clerk /\ clerk[x].pc = "findByIdForReturn"
  <2>1. CASE x \in Clerk
    <3>1. WaitsFor(x, y)
      BY <1>2, <2>1, EditorsAreNotClerks DEF Behind
    <3>2. /\ clerk[x].pc \in {"findByIdForBorrow", "lockReturned"} => clerk[x].item \in Item
          /\ clerk[x].pc = "findByIdForReturn" => clerk[x].record \in RecordId
      BY <1>2, <2>1 DEF LInv, IInv, ArgumentsGiven, BorrowPc, ReturnPc
    <3>3. QED
      BY <1>2, <2>1, <3>1, <3>2 DEF WaitsFor, LInv, IInv, LocksMatch
  <2>2. CASE x \in Editor
    BY <1>2, <2>2, EditorsAreNotClerks
       DEF Behind, LInv, IInv, LocksMatch, EditorsInv, EditorArguments, HoldsItem
  <2>3. QED
    BY <2>1, <2>2
<1>3. ASSUME NEW x \in Clerk \cup Editor, NEW y \in Clerk \cup Editor, Behind(x, y)
      PROVE  /\ x \in Clerk => clerk[x].pc \in {"findByIdForBorrow", "lockReturned", "findByIdForReturn"}
             /\ x \in Editor => editor[x].pc # "commitUpdate"
  BY <1>3, EditorsAreNotClerks DEF Behind, WaitsFor
<1>4. LInv => NoLibraryWaitCycle
  <2>1. SUFFICES ASSUME LInv, NEW S \in SUBSET (Clerk \cup Editor), NEW x \in S,
                        \A y \in S : \E z \in S : Behind(y, z)
                 PROVE  FALSE
    BY DEF NoLibraryWaitCycle
  <2>2. PICK y \in S : Behind(x, y)
    BY <2>1
  <2>3. PICK z \in S : Behind(y, z)
    BY <2>1
  <2>4. PICK w \in S : Behind(z, w)
    BY <2>1
  <2>5. y \in Clerk /\ z \in Clerk
    BY <2>1, <2>2, <2>3, <2>4, <1>1, <1>3
  <2>6. clerk[y].pc \notin HoldsItem /\ clerk[z].pc \notin HoldsItem
    BY <2>3, <2>4, <2>5, <1>3 DEF HoldsItem
  <2>7. clerk[y].pc \in HoldsRecord /\ clerk[y].pc = "findByIdForReturn"
    BY <2>1, <2>2, <2>3, <2>5, <2>6, <1>2
  <2>8. QED
    BY <2>7 DEF HoldsRecord
<1>5. QED
  BY LibraryInvariant, <1>4, PTL
=============================================================================

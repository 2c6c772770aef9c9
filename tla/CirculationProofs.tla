------------------------- MODULE CirculationProofs -------------------------
(***************************************************************************)
(* The invariants of Circulation, proved for every set of items, students  *)
(* and clerks.  The inductive invariant is stated so that it also holds    *)
(* when other services edit the same tables: what it says of the flag and  *)
(* of open loans is said of the items no UPDATE row of the audit names.    *)
(***************************************************************************)
EXTENDS Circulation, TLAPS

Edited(i) == [action |-> "UPDATE", id |-> i] \in audit

\* A clerk owns a row lock exactly while its request is where it needs it.
LocksMatch ==
    /\ \A i \in Item, c \in Clerk :
          itemLock[i] = c <=> clerk[c].pc \in HoldsItem /\ clerk[c].item = i
    /\ \A r \in RecordId, c \in Clerk :
          recordLock[r] = c <=> clerk[c].pc \in HoldsRecord /\ clerk[c].record = r

\* A request carries the arguments its next step uses.
ArgumentsGiven ==
    \A c \in Clerk :
        /\ clerk[c].pc \in BorrowPc => clerk[c].item \in Item /\ clerk[c].student \in Student
        /\ clerk[c].pc \in ReturnPc \ {"findByIdForReturn"} => clerk[c].item \in Item
        /\ clerk[c].pc \in ReturnPc \cup {"publishBorrow", "commitBorrow"} =>
              clerk[c].record \in RecordId

\* What a request read under a lock is still so.
BorrowKnows(c) ==
    /\ clerk[c].pc \in {"save", "publishBorrow", "commitBorrow"} =>
          clerk[c].item \in items /\ available[clerk[c].item]
    /\ clerk[c].pc \in {"publishBorrow", "commitBorrow"} =>
          /\ record[clerk[c].record].status = "ABSENT"
          /\ clerk[c].record < nextId
          /\ clerk[c].student \in students
    /\ clerk[c].pc = "commitBorrow" =>
          clerk[c].log = {[action |-> "BORROW", id |-> clerk[c].record]}

ReturnKnows(c) ==
    /\ clerk[c].pc \in {"lockReturned", "publishReturn", "commitReturn"} =>
          /\ record[clerk[c].record].status = "BORROWED"
          /\ record[clerk[c].record].item = clerk[c].item
    /\ clerk[c].pc = "commitReturn" =>
          clerk[c].log = {[action |-> "RETURN", id |-> clerk[c].record]}

Knowledge == \A c \in Clerk : BorrowKnows(c) /\ ReturnKnows(c)

\* Ids not yet given out have no row.
FreshIds == \A r \in RecordId : r >= nextId => record[r].status = "ABSENT"

FlagAgrees == \A i \in items : ~Edited(i) => (available[i] <=> ~OnLoan(i))

LentOnce ==
    \A r1, r2 \in RecordId, i \in Item :
        ~Edited(i) /\ ActiveLoan(r1, i) /\ ActiveLoan(r2, i) => r1 = r2

IInv ==
    /\ TypeOK
    /\ LocksMatch
    /\ ArgumentsGiven
    /\ Knowledge
    /\ FreshIds
    /\ ReferencesLive
    /\ AuditMatches
    /\ FlagAgrees
    /\ LentOnce

LEMMA NullIsNothing ==
    /\ Null \notin Item /\ Null \notin Student
    /\ Null \notin Clerk /\ Null \notin Editor
    /\ \A r \in RecordId : r # Null /\ r \in Nat
BY NullAssumption, BoundAssumption DEF RecordId

\* A request stays one when a step moves it on and records what it did.
LEMMA RequestMovesOn ==
    ASSUME NEW q \in Request, NEW pc \in ClerkPc, NEW i \in Item \cup {Null},
           NEW r \in RecordId \cup {Null}, NEW log \in SUBSET AuditRow
    PROVE  /\ [q EXCEPT !.pc = pc, !.item = i] \in Request
           /\ [q EXCEPT !.pc = pc, !.record = r] \in Request
           /\ [q EXCEPT !.pc = pc, !.log = log] \in Request
BY DEF Request

LEMMA InitIInv == Init => IInv
<1> SUFFICES ASSUME Init PROVE IInv
  OBVIOUS
<1> USE NullIsNothing, BoundAssumption DEF Init, Idle, At, AbsentRow
<1>1. TypeOK
  BY DEF TypeOK, RecordRow, Status, Request, ClerkPc, RecordId
<1>2. LocksMatch
  BY DEF LocksMatch, HoldsItem, HoldsRecord
<1>3. ArgumentsGiven /\ Knowledge
  BY DEF ArgumentsGiven, Knowledge, BorrowKnows, ReturnKnows, BorrowPc, ReturnPc
<1>4. FreshIds /\ ReferencesLive /\ AuditMatches /\ FlagAgrees /\ LentOnce
  BY DEF FreshIds, ReferencesLive, AuditMatches, FlagAgrees, LentOnce, OnLoan, ActiveLoan
<1>5. QED
  BY <1>1, <1>2, <1>3, <1>4 DEF IInv

LEMMA BeginBorrowIInv ==
    ASSUME NEW c \in Clerk, NEW s \in Student, NEW i \in Item, IInv, BeginBorrow(c, s, i)
    PROVE  IInv'
<1> USE NullIsNothing DEF IInv, BeginBorrow, tables, locks, At
<1>1. TypeOK'
  BY DEF TypeOK, Request, ClerkPc, BorrowPc
<1>2. LocksMatch'
  BY DEF LocksMatch, HoldsItem, HoldsRecord, TypeOK
<1>3. ArgumentsGiven' /\ Knowledge'
  BY DEF ArgumentsGiven, Knowledge, BorrowKnows, ReturnKnows, BorrowPc, ReturnPc, TypeOK
<1>4. FreshIds' /\ ReferencesLive' /\ AuditMatches' /\ FlagAgrees' /\ LentOnce'
  BY DEF FreshIds, ReferencesLive, AuditMatches, FlagAgrees, LentOnce, OnLoan, ActiveLoan, Edited
<1>5. QED
  BY <1>1, <1>2, <1>3, <1>4 DEF IInv

LEMMA LockForBorrowIInv ==
    ASSUME NEW c \in Clerk, IInv, LockForBorrow(c)
    PROVE  IInv'
<1> USE NullIsNothing DEF IInv, LockForBorrow, tables
<1>1. TypeOK'
  BY DEF TypeOK, Request, ClerkPc, BorrowPc, ReturnPc
<1>2. LocksMatch'
  BY DEF LocksMatch, HoldsItem, HoldsRecord, TypeOK, ArgumentsGiven, BorrowPc, ReturnPc
<1>3. ArgumentsGiven'
  BY DEF ArgumentsGiven, BorrowPc, ReturnPc, TypeOK
<1>4. Knowledge'
  BY DEF Knowledge, BorrowKnows, ReturnKnows, BorrowPc, ReturnPc, TypeOK, LocksMatch, HoldsItem, HoldsRecord, ArgumentsGiven, FreshIds
<1>5. FreshIds' /\ ReferencesLive' /\ AuditMatches' /\ FlagAgrees' /\ LentOnce'
  BY DEF FreshIds, ReferencesLive, AuditMatches, FlagAgrees, LentOnce, OnLoan, ActiveLoan, Edited, TypeOK
<1>6. QED
  BY <1>1, <1>2, <1>3, <1>4, <1>5 DEF IInv

LEMMA RollbackIInv ==
    ASSUME NEW c \in Clerk, IInv, Rollback(c)
    PROVE  IInv'
<1> USE NullIsNothing DEF IInv, Rollback, ReleaseLocks, tables, Idle, At
<1>1. TypeOK'
  BY DEF TypeOK, Request, ClerkPc, BorrowPc, ReturnPc
<1>2. LocksMatch'
  BY DEF LocksMatch, HoldsItem, HoldsRecord, TypeOK, ArgumentsGiven, BorrowPc, ReturnPc
<1>3. ArgumentsGiven'
  BY DEF ArgumentsGiven, BorrowPc, ReturnPc, TypeOK
<1>4. Knowledge'
  BY DEF Knowledge, BorrowKnows, ReturnKnows, BorrowPc, ReturnPc, TypeOK, LocksMatch, HoldsItem, HoldsRecord, ArgumentsGiven, FreshIds
<1>5. FreshIds' /\ ReferencesLive' /\ AuditMatches' /\ FlagAgrees' /\ LentOnce'
  BY DEF FreshIds, ReferencesLive, AuditMatches, FlagAgrees, LentOnce, OnLoan, ActiveLoan, Edited, TypeOK
<1>6. QED
  BY <1>1, <1>2, <1>3, <1>4, <1>5 DEF IInv

LEMMA SaveRecordIInv ==
    ASSUME NEW c \in Clerk, IInv, SaveRecord(c)
    PROVE  IInv'
<1> USE NullIsNothing DEF IInv, SaveRecord
<1>1. TypeOK'
  <2>1. [clerk[c] EXCEPT !.pc = "publishBorrow", !.record = nextId] \in Request
    BY RequestMovesOn DEF TypeOK, ClerkPc, BorrowPc
  <2>2. nextId + 1 \in 1 .. MaxRecords + 1
    BY BoundAssumption DEF TypeOK, RecordId
  <2>3. QED
    BY <2>1, <2>2 DEF TypeOK
<1>2. LocksMatch'
  <2>1. ASSUME NEW d \in Clerk, clerk[d].pc \in HoldsRecord
        PROVE  clerk[d].record # nextId
    BY <2>1 DEF HoldsRecord, Knowledge, BorrowKnows, ReturnKnows, FreshIds, TypeOK
  <2>2. QED
    BY <2>1 DEF LocksMatch, HoldsItem, HoldsRecord, TypeOK, ArgumentsGiven, BorrowPc
<1>3. ArgumentsGiven'
  BY DEF ArgumentsGiven, BorrowPc, ReturnPc, TypeOK
<1>4. Knowledge'
  BY DEF Knowledge, BorrowKnows, ReturnKnows, BorrowPc, ReturnPc, TypeOK, LocksMatch, HoldsItem, HoldsRecord, ArgumentsGiven, FreshIds
<1>5. FreshIds' /\ ReferencesLive' /\ AuditMatches' /\ FlagAgrees' /\ LentOnce'
  BY DEF FreshIds, ReferencesLive, AuditMatches, FlagAgrees, LentOnce, OnLoan, ActiveLoan, Edited, TypeOK
<1>6. QED
  BY <1>1, <1>2, <1>3, <1>4, <1>5 DEF IInv

LEMMA PublishBorrowIInv ==
    ASSUME NEW c \in Clerk, IInv, PublishBorrow(c)
    PROVE  IInv'
<1> USE NullIsNothing DEF IInv, PublishBorrow, tables, locks
<1>1. TypeOK'
  <2>1. {[action |-> "BORROW", id |-> clerk[c].record]} \in SUBSET AuditRow
    BY DEF AuditRow, ArgumentsGiven, ReturnPc
  <2>2. [clerk[c] EXCEPT !.pc = "commitBorrow", !.log = {[action |-> "BORROW", id |-> clerk[c].record]}] \in Request
    BY <2>1, RequestMovesOn DEF TypeOK, ClerkPc, BorrowPc, ReturnPc
  <2>3. QED
    BY <2>2 DEF TypeOK
<1>2. LocksMatch'
  BY DEF LocksMatch, HoldsItem, HoldsRecord, TypeOK, ArgumentsGiven, BorrowPc, ReturnPc
<1>3. ArgumentsGiven'
  BY DEF ArgumentsGiven, BorrowPc, ReturnPc, TypeOK
<1>4. Knowledge'
  BY DEF Knowledge, BorrowKnows, ReturnKnows, BorrowPc, ReturnPc, TypeOK, LocksMatch, HoldsItem, HoldsRecord, ArgumentsGiven, FreshIds
<1>5. FreshIds' /\ ReferencesLive' /\ AuditMatches' /\ FlagAgrees' /\ LentOnce'
  BY DEF FreshIds, ReferencesLive, AuditMatches, FlagAgrees, LentOnce, OnLoan, ActiveLoan, Edited, TypeOK
<1>6. QED
  BY <1>1, <1>2, <1>3, <1>4, <1>5 DEF IInv

LEMMA BeginReturnIInv ==
    ASSUME NEW c \in Clerk, NEW r \in RecordId, IInv, BeginReturn(c, r)
    PROVE  IInv'
<1> USE NullIsNothing DEF IInv, BeginReturn, tables, locks, At
<1>1. TypeOK'
  BY DEF TypeOK, Request, ClerkPc, BorrowPc, ReturnPc
<1>2. LocksMatch'
  BY DEF LocksMatch, HoldsItem, HoldsRecord, TypeOK, ArgumentsGiven, BorrowPc, ReturnPc
<1>3. ArgumentsGiven'
  BY DEF ArgumentsGiven, BorrowPc, ReturnPc, TypeOK
<1>4. Knowledge'
  BY DEF Knowledge, BorrowKnows, ReturnKnows, BorrowPc, ReturnPc, TypeOK, LocksMatch, HoldsItem, HoldsRecord, ArgumentsGiven, FreshIds
<1>5. FreshIds' /\ ReferencesLive' /\ AuditMatches' /\ FlagAgrees' /\ LentOnce'
  BY DEF FreshIds, ReferencesLive, AuditMatches, FlagAgrees, LentOnce, OnLoan, ActiveLoan, Edited, TypeOK
<1>6. QED
  BY <1>1, <1>2, <1>3, <1>4, <1>5 DEF IInv

LEMMA LockForReturnIInv ==
    ASSUME NEW c \in Clerk, IInv, LockForReturn(c)
    PROVE  IInv'
<1> USE NullIsNothing DEF IInv, LockForReturn, tables
<1>1. TypeOK'
  <2>1. /\ clerk[c].record \in RecordId
        /\ record[clerk[c].record].item \in Item \cup {Null}
    BY DEF TypeOK, RecordRow, ArgumentsGiven, ReturnPc
  <2>2. [clerk[c] EXCEPT !.pc = "lockReturned", !.item = record[clerk[c].record].item] \in Request
    <3>1. clerk[c] \in Request /\ "lockReturned" \in ClerkPc
      BY DEF TypeOK, ClerkPc, ReturnPc
    <3>2. PICK i \in Item \cup {Null} : i = record[clerk[c].record].item
      BY ONLY <2>1
    <3>3. [clerk[c] EXCEPT !.pc = "lockReturned", !.item = i] \in Request
      <4>1. Null \in RecordId \cup {Null} /\ {} \in SUBSET AuditRow
        OBVIOUS
      <4> QED
        BY ONLY <3>1, <4>1, RequestMovesOn, i \in Item \cup {Null}
    <3> QED
      BY ONLY <3>2, <3>3
  <2>3. QED
    BY <2>1, <2>2 DEF TypeOK
<1>2. LocksMatch'
  BY DEF LocksMatch, HoldsItem, HoldsRecord, TypeOK, ArgumentsGiven, BorrowPc, ReturnPc
<1>3. ArgumentsGiven'
  BY DEF ArgumentsGiven, BorrowPc, ReturnPc, TypeOK, ReferencesLive
<1>4. Knowledge'
  BY DEF Knowledge, BorrowKnows, ReturnKnows, BorrowPc, ReturnPc, TypeOK, LocksMatch, HoldsItem, HoldsRecord, ArgumentsGiven, FreshIds
<1>5. FreshIds' /\ ReferencesLive' /\ AuditMatches' /\ FlagAgrees' /\ LentOnce'
  BY DEF FreshIds, ReferencesLive, AuditMatches, FlagAgrees, LentOnce, OnLoan, ActiveLoan, Edited, TypeOK
<1>6. QED
  BY <1>1, <1>2, <1>3, <1>4, <1>5 DEF IInv

LEMMA LockReturnedItemIInv ==
    ASSUME NEW c \in Clerk, IInv, LockReturnedItem(c)
    PROVE  IInv'
<1> USE NullIsNothing DEF IInv, LockReturnedItem, tables
<1>1. TypeOK'
  BY DEF TypeOK, Request, ClerkPc, BorrowPc, ReturnPc
<1>2. LocksMatch'
  BY DEF LocksMatch, HoldsItem, HoldsRecord, TypeOK, ArgumentsGiven, BorrowPc, ReturnPc
<1>3. ArgumentsGiven'
  BY DEF ArgumentsGiven, BorrowPc, ReturnPc, TypeOK
<1>4. Knowledge'
  BY DEF Knowledge, BorrowKnows, ReturnKnows, BorrowPc, ReturnPc, TypeOK, LocksMatch, HoldsItem, HoldsRecord, ArgumentsGiven, FreshIds
<1>5. FreshIds' /\ ReferencesLive' /\ AuditMatches' /\ FlagAgrees' /\ LentOnce'
  BY DEF FreshIds, ReferencesLive, AuditMatches, FlagAgrees, LentOnce, OnLoan, ActiveLoan, Edited, TypeOK
<1>6. QED
  BY <1>1, <1>2, <1>3, <1>4, <1>5 DEF IInv

LEMMA PublishReturnIInv ==
    ASSUME NEW c \in Clerk, IInv, PublishReturn(c)
    PROVE  IInv'
<1> USE NullIsNothing DEF IInv, PublishReturn, tables, locks
<1>1. TypeOK'
  <2>1. {[action |-> "RETURN", id |-> clerk[c].record]} \in SUBSET AuditRow
    BY DEF AuditRow, ArgumentsGiven, ReturnPc
  <2>2. [clerk[c] EXCEPT !.pc = "commitReturn", !.log = {[action |-> "RETURN", id |-> clerk[c].record]}] \in Request
    BY <2>1, RequestMovesOn DEF TypeOK, ClerkPc, BorrowPc, ReturnPc
  <2>3. QED
    BY <2>2 DEF TypeOK
<1>2. LocksMatch'
  BY DEF LocksMatch, HoldsItem, HoldsRecord, TypeOK, ArgumentsGiven, BorrowPc, ReturnPc
<1>3. ArgumentsGiven'
  BY DEF ArgumentsGiven, BorrowPc, ReturnPc, TypeOK
<1>4. Knowledge'
  BY DEF Knowledge, BorrowKnows, ReturnKnows, BorrowPc, ReturnPc, TypeOK, LocksMatch, HoldsItem, HoldsRecord, ArgumentsGiven, FreshIds
<1>5. FreshIds' /\ ReferencesLive' /\ AuditMatches' /\ FlagAgrees' /\ LentOnce'
  BY DEF FreshIds, ReferencesLive, AuditMatches, FlagAgrees, LentOnce, OnLoan, ActiveLoan, Edited, TypeOK
<1>6. QED
  BY <1>1, <1>2, <1>3, <1>4, <1>5 DEF IInv

LEMMA EvictIInv ==
    ASSUME NEW c \in Clerk, IInv, Evict(c)
    PROVE  IInv'
<1> USE NullIsNothing DEF IInv, Evict, tables, locks, Idle, At
<1>1. TypeOK'
  BY DEF TypeOK, Request, ClerkPc, BorrowPc, ReturnPc
<1>2. LocksMatch'
  BY DEF LocksMatch, HoldsItem, HoldsRecord, TypeOK, ArgumentsGiven, BorrowPc, ReturnPc
<1>3. ArgumentsGiven'
  BY DEF ArgumentsGiven, BorrowPc, ReturnPc, TypeOK
<1>4. Knowledge'
  BY DEF Knowledge, BorrowKnows, ReturnKnows, BorrowPc, ReturnPc, TypeOK, LocksMatch, HoldsItem, HoldsRecord, ArgumentsGiven, FreshIds
<1>5. FreshIds' /\ ReferencesLive' /\ AuditMatches' /\ FlagAgrees' /\ LentOnce'
  BY DEF FreshIds, ReferencesLive, AuditMatches, FlagAgrees, LentOnce, OnLoan, ActiveLoan, Edited, TypeOK
<1>6. QED
  BY <1>1, <1>2, <1>3, <1>4, <1>5 DEF IInv

LEMMA CommitBorrowIInv ==
    ASSUME NEW c \in Clerk, NEW pc \in {"idle", "evict"}, IInv, WriteBorrow(c), ReleaseLocks(c),
           clerk' = [clerk EXCEPT ![c] = At(pc, Null, Null, Null)]
    PROVE  IInv'
<1> DEFINE i == clerk[c].item  rec == clerk[c].record
<1> USE NullIsNothing DEF IInv, WriteBorrow, ReleaseLocks, At
<1>1. i \in items /\ i \in Item /\ available[i] /\ rec \in RecordId /\ clerk[c].student \in students
  BY DEF Knowledge, BorrowKnows, ArgumentsGiven, BorrowPc
<1>2. record[rec].status = "ABSENT" /\ rec < nextId /\ clerk[c].student \in Student
  BY DEF Knowledge, BorrowKnows, ArgumentsGiven, BorrowPc
<1>3. clerk[c].log = {[action |-> "BORROW", id |-> rec]}
  BY DEF Knowledge, BorrowKnows
<1>4. TypeOK'
  BY <1>1, <1>2, <1>3 DEF TypeOK, Request, ClerkPc, RecordRow, Status, AuditRow
<1>5. LocksMatch' /\ ArgumentsGiven'
  BY DEF LocksMatch, HoldsItem, HoldsRecord, TypeOK, ArgumentsGiven, BorrowPc, ReturnPc
<1>6. Knowledge'
  BY <1>1 DEF Knowledge, BorrowKnows, ReturnKnows, TypeOK, LocksMatch, HoldsItem, HoldsRecord, ArgumentsGiven, BorrowPc, ReturnPc
<1>7. FreshIds' /\ ReferencesLive' /\ AuditMatches'
  BY <1>1, <1>2, <1>3 DEF FreshIds, ReferencesLive, AuditMatches, TypeOK, RecordId
<1>8. \A j \in Item : Edited(j)' <=> Edited(j)
  BY <1>3 DEF Edited
<1>9. \A r \in RecordId, j \in Item : ActiveLoan(r, j)' <=> ActiveLoan(r, j) \/ (r = rec /\ j = i)
  BY <1>1, <1>2 DEF ActiveLoan, TypeOK
<1>10. FlagAgrees'
  BY <1>1, <1>8, <1>9 DEF FlagAgrees, OnLoan, TypeOK
<1>11. LentOnce'
  BY <1>1, <1>8, <1>9 DEF LentOnce, FlagAgrees, OnLoan
<1>12. QED
  BY <1>4, <1>5, <1>6, <1>7, <1>10, <1>11

LEMMA CommitReturnIInv ==
    ASSUME NEW c \in Clerk, NEW pc \in {"idle", "evict"}, IInv, WriteReturn(c), ReleaseLocks(c),
           clerk' = [clerk EXCEPT ![c] = At(pc, Null, Null, Null)]
    PROVE  IInv'
<1> DEFINE i == clerk[c].item  rec == clerk[c].record
<1> USE NullIsNothing DEF IInv, WriteReturn, ReleaseLocks, At
<1>1. i \in Item /\ rec \in RecordId
  BY DEF ArgumentsGiven, ReturnPc
<1>2. ActiveLoan(rec, i)
  BY DEF Knowledge, ReturnKnows, ActiveLoan
<1>3. clerk[c].log = {[action |-> "RETURN", id |-> rec]}
  BY DEF Knowledge, ReturnKnows
<1>4. TypeOK'
  BY <1>1, <1>3 DEF TypeOK, Request, ClerkPc, RecordRow, Status, AuditRow
<1>5. LocksMatch' /\ ArgumentsGiven'
  BY DEF LocksMatch, HoldsItem, HoldsRecord, TypeOK, ArgumentsGiven, BorrowPc, ReturnPc
<1>6. Knowledge'
  BY <1>1 DEF Knowledge, BorrowKnows, ReturnKnows, TypeOK, LocksMatch, HoldsItem, HoldsRecord, ArgumentsGiven, BorrowPc, ReturnPc
<1>7. FreshIds' /\ ReferencesLive' /\ AuditMatches'
  BY <1>1, <1>2, <1>3 DEF FreshIds, ReferencesLive, AuditMatches, TypeOK, RecordId, RecordRow, ActiveLoan
<1>8. \A j \in Item : Edited(j)' <=> Edited(j)
  BY <1>3 DEF Edited
<1>9. \A r \in RecordId, j \in Item : ActiveLoan(r, j)' <=> ActiveLoan(r, j) /\ r # rec
  BY <1>1, <1>2 DEF ActiveLoan, TypeOK, RecordRow
<1>10. FlagAgrees'
  BY <1>1, <1>2, <1>8, <1>9 DEF FlagAgrees, LentOnce, OnLoan, TypeOK, ActiveLoan
<1>11. LentOnce'
  BY <1>8, <1>9 DEF LentOnce
<1>12. QED
  BY <1>4, <1>5, <1>6, <1>7, <1>10, <1>11

-----------------------------------------------------------------------------

LEMMA ClerkStepIInv ==
    ASSUME NEW c \in Clerk, IInv, ClerkStep(c) \/ Evict(c)
    PROVE  IInv'
<1>1. ASSUME NEW s \in Student, NEW i \in Item, BeginBorrow(c, s, i)
      PROVE  IInv'
  BY <1>1, BeginBorrowIInv
<1>2. ASSUME NEW r \in RecordId, BeginReturn(c, r)
      PROVE  IInv'
  BY <1>2, BeginReturnIInv
<1>3. CASE AcquireLock(c)
  BY <1>3, LockForBorrowIInv, LockForReturnIInv, LockReturnedItemIInv, RollbackIInv
     DEF AcquireLock, RejectBorrow, RejectReturn
<1>4. CASE Commit(c)
  BY <1>4, CommitBorrowIInv, CommitReturnIInv DEF Commit
<1>5. CASE CommitUnacknowledged(c)
  BY <1>5, CommitBorrowIInv, CommitReturnIInv DEF CommitUnacknowledged, Idle
<1>6. CASE SaveRecord(c) \/ RejectSave(c) \/ PublishBorrow(c) \/ PublishReturn(c)
  BY <1>6, SaveRecordIInv, RollbackIInv, PublishBorrowIInv, PublishReturnIInv DEF RejectSave
<1>7. CASE Abort(c) \/ Evict(c)
  BY <1>7, RollbackIInv, EvictIInv DEF Abort
<1>8. QED
  BY <1>1, <1>2, <1>3, <1>4, <1>5, <1>6, <1>7 DEF ClerkStep, Proceed

LEMMA StutterIInv == IInv /\ UNCHANGED vars => IInv'
BY DEF IInv, vars, tables, locks, TypeOK, LocksMatch, ArgumentsGiven, Knowledge, BorrowKnows,
       ReturnKnows, FreshIds, ReferencesLive, AuditMatches, FlagAgrees, LentOnce, Edited,
       OnLoan, ActiveLoan

\* The inductive invariant: locks are held where the code needs them, what
\* was read under them stays true, and flags, loans and audit rows agree.
THEOREM InductiveInvariant == Spec => []IInv
<1>1. IInv /\ [Next]_vars => IInv'
  BY ClerkStepIInv, StutterIInv DEF Next
<1>2. QED
  BY InitIInv, <1>1, PTL DEF Spec

\* Circulation never leaves the shapes the schema and the service allow.
THEOREM TypeCorrect == Spec => []TypeOK
<1>1. IInv => TypeOK
  BY DEF IInv
<1>2. QED
  BY InductiveInvariant, <1>1, PTL

\* Circulation itself writes no UPDATE row, so no item counts as edited.
NoEdits == \A i \in Item : ~Edited(i)

LEMMA NothingEdited == Spec => []NoEdits
<1> USE DEF NoEdits, Edited
<1>1. Init => NoEdits
  BY DEF Init
<1>2. ASSUME IInv, NoEdits, NEW c \in Clerk, WriteBorrow(c) \/ WriteReturn(c)
      PROVE  NoEdits'
  <2>1. audit' = audit \cup clerk[c].log
    BY <1>2 DEF WriteBorrow, WriteReturn
  <2>2. \E a \in {"BORROW", "RETURN"} : clerk[c].log = {[action |-> a, id |-> clerk[c].record]}
    BY <1>2 DEF WriteBorrow, WriteReturn, IInv, Knowledge, BorrowKnows, ReturnKnows
  <2>3. QED
    BY <1>2, <2>1, <2>2
<1>3. IInv /\ NoEdits /\ [Next]_vars => NoEdits'
  <2>1. SUFFICES ASSUME IInv, NoEdits, NEW c \in Clerk, ClerkStep(c) \/ Evict(c), audit' # audit
                 PROVE  NoEdits'
    BY DEF Next, vars, tables
  <2>2. WriteBorrow(c) \/ WriteReturn(c)
    BY <2>1 DEF ClerkStep, BeginBorrow, BeginReturn, AcquireLock, LockForBorrow, RejectBorrow,
                LockForReturn, RejectReturn, LockReturnedItem, Proceed, SaveRecord, RejectSave,
                PublishBorrow, PublishReturn, Commit, CommitUnacknowledged, Abort, Rollback,
                Evict, tables
  <2>3. QED
    BY <2>1, <2>2, <1>2
<1>4. QED
  BY <1>1, <1>3, InductiveInvariant, PTL DEF Spec

\* No interleaving of borrows and returns opens two loans of an item.
THEOREM ItemLentOnce == Spec => []OneActiveLoan
<1>1. IInv /\ NoEdits => OneActiveLoan
  BY DEF IInv, NoEdits, LentOnce, OneActiveLoan
<1>2. QED
  BY <1>1, InductiveInvariant, NothingEdited, PTL

\* The available flag and the open loans never disagree in circulation alone.
THEOREM FlagMatchesLoans == Spec => []AvailabilityAgrees
<1>1. IInv /\ NoEdits => AvailabilityAgrees
  BY DEF IInv, NoEdits, FlagAgrees, AvailabilityAgrees, TypeOK
<1>2. QED
  BY <1>1, InductiveInvariant, NothingEdited, PTL

\* What is audited is what was committed, for every loan and every return.
THEOREM AuditTrailCorrect == Spec => []AuditMatches
<1>1. IInv => AuditMatches
  BY DEF IInv
<1>2. QED
  BY InductiveInvariant, <1>1, PTL

\* A loan's item and student always have a row.
THEOREM ReferencesCorrect == Spec => []ReferencesLive
<1>1. IInv => ReferencesLive
  BY DEF IInv
<1>2. QED
  BY InductiveInvariant, <1>1, PTL

\* Requests never wait for each other's locks in a circle: who holds an
\* item's lock waits for no lock, and who holds a record's lock waits, if at
\* all, for an item's.
THEOREM NoCircularWait == Spec => []NoWaitCycle
<1>1. ASSUME IInv, NEW c \in Clerk, NEW d \in Clerk, WaitsFor(c, d)
      PROVE  \/ clerk[d].pc \in HoldsItem
             \/ clerk[c].pc = "findByIdForReturn" /\ clerk[d].pc \in HoldsRecord
  BY <1>1 DEF WaitsFor, IInv, LocksMatch, ArgumentsGiven, BorrowPc, ReturnPc
<1>2. ASSUME NEW c \in Clerk, NEW d \in Clerk, WaitsFor(c, d)
      PROVE  clerk[c].pc \in {"findByIdForBorrow", "lockReturned", "findByIdForReturn"}
  BY <1>2 DEF WaitsFor
<1>3. IInv => NoWaitCycle
  <2>1. SUFFICES ASSUME IInv, NEW S \in SUBSET Clerk, NEW c \in S,
                        \A x \in S : \E y \in S : WaitsFor(x, y)
                 PROVE  FALSE
    BY DEF NoWaitCycle
  <2>2. PICK d \in S : WaitsFor(c, d)
    BY <2>1
  <2>3. PICK e \in S : WaitsFor(d, e)
    BY <2>1
  <2>4. PICK f \in S : WaitsFor(e, f)
    BY <2>1
  <2>5. clerk[d].pc \notin HoldsItem /\ clerk[e].pc \notin HoldsItem
    BY <2>3, <2>4, <1>2 DEF HoldsItem
  <2>6. clerk[d].pc \in HoldsRecord /\ clerk[d].pc = "findByIdForReturn"
    BY <2>1, <2>2, <2>3, <2>5, <1>1
  <2>7. QED
    BY <2>6 DEF HoldsRecord
<1>4. QED
  BY InductiveInvariant, <1>3, PTL

\* The two commits are all that changes a record, and they move it forward.
LEMMA ClerkMovesForward ==
    ASSUME IInv, NEW c \in Clerk, ClerkStep(c) \/ Evict(c), record' # record
    PROVE  RecordMovesForward
<1>1. WriteBorrow(c) \/ WriteReturn(c)
  BY DEF ClerkStep, BeginBorrow, BeginReturn, AcquireLock, LockForBorrow, RejectBorrow,
              LockForReturn, RejectReturn, LockReturnedItem, Proceed, SaveRecord, RejectSave,
              PublishBorrow, PublishReturn, Commit, CommitUnacknowledged, Abort, Rollback,
              Evict, tables
<1>2. CASE WriteBorrow(c)
  BY <1>2 DEF WriteBorrow, IInv, Knowledge, BorrowKnows, RecordMovesForward, TypeOK,
                    ArgumentsGiven
<1>3. CASE WriteReturn(c)
  BY <1>3 DEF WriteReturn, IInv, Knowledge, ReturnKnows, RecordMovesForward, TypeOK,
                    ArgumentsGiven, ReturnPc
<1>4. QED
  BY <1>1, <1>2, <1>3

\* A loan is opened once, closed once, and otherwise never touched.
THEOREM LoansNeverRewritten == Spec => RecordHistory
<1>1. IInv /\ [Next]_vars => [RecordMovesForward]_vars
  <2>1. SUFFICES ASSUME IInv, Next PROVE RecordMovesForward \/ UNCHANGED vars
    OBVIOUS
  <2>2. PICK c \in Clerk : ClerkStep(c) \/ Evict(c)
    BY <2>1 DEF Next
  <2>3. CASE record' = record
    BY <2>3 DEF RecordMovesForward
  <2>4. QED
    BY <2>1, <2>2, <2>3, ClerkMovesForward
<1>2. QED
  BY InductiveInvariant, <1>1, PTL DEF Spec, RecordHistory

\* The transactions implement the one-step lending and taking back of Loans.
THEOREM CirculationImplementsLoans == Spec => ImplementsLoans
<1>1. Init => Promise!Init
  BY DEF Init, Promise!Init, AbsentRow, Promise!NoLoan
<1>2. ASSUME IInv, NoEdits, NEW c \in Clerk, WriteBorrow(c)
      PROVE  Promise!Lend(clerk[c].record, clerk[c].item, clerk[c].student)
  <2>1. clerk[c].item \in items /\ clerk[c].item \in Item /\ available[clerk[c].item]
    BY <1>2 DEF WriteBorrow, IInv, Knowledge, BorrowKnows, ArgumentsGiven, BorrowPc
  <2>2. ~OnLoan(clerk[c].item)
    BY <1>2, <2>1 DEF IInv, FlagAgrees, NoEdits
  <2>3. ~Promise!Out(clerk[c].item)
    BY <2>2 DEF OnLoan, ActiveLoan, Promise!Out
  <2>4. QED
    BY <1>2, <2>3 DEF WriteBorrow, IInv, Knowledge, BorrowKnows, Promise!Lend
<1>3. ASSUME IInv, NEW c \in Clerk, WriteReturn(c)
      PROVE  Promise!TakeBack(clerk[c].record)
  BY <1>3 DEF WriteReturn, IInv, Knowledge, ReturnKnows, Promise!TakeBack
<1>4. ASSUME IInv, NoEdits, NEW c \in Clerk, ClerkStep(c) \/ Evict(c), record' # record
      PROVE  Promise!Next
  <2>1. WriteBorrow(c) \/ WriteReturn(c)
    BY <1>4 DEF ClerkStep, BeginBorrow, BeginReturn, AcquireLock, LockForBorrow, RejectBorrow,
                LockForReturn, RejectReturn, LockReturnedItem, Proceed, SaveRecord, RejectSave,
                PublishBorrow, PublishReturn, Commit, CommitUnacknowledged, Abort, Rollback,
                Evict, tables
  <2>2. CASE WriteBorrow(c)
    <3>1. /\ clerk[c].record \in RecordId
          /\ clerk[c].item \in Item
          /\ clerk[c].student \in Student
      BY <1>4, <2>2 DEF WriteBorrow, IInv, ArgumentsGiven, BorrowPc
    <3>2. QED
      BY <1>4, <2>2, <3>1, <1>2 DEF Promise!Next
  <2>3. CASE WriteReturn(c)
    <3>1. clerk[c].record \in RecordId
      BY <1>4, <2>3 DEF WriteReturn, IInv, ArgumentsGiven, ReturnPc
    <3>2. QED
      BY <1>4, <2>3, <3>1, <1>3 DEF Promise!Next
  <2>4. QED
    BY <2>1, <2>2, <2>3
<1>5. IInv /\ NoEdits /\ [Next]_vars => [Promise!Next]_record
  BY <1>4 DEF Next, vars, tables
<1>6. QED
  BY <1>1, <1>5, InductiveInvariant, NothingEdited, PTL DEF Spec, ImplementsLoans, Promise!Spec
=============================================================================

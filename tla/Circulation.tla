---------------------------- MODULE Circulation ----------------------------
(***************************************************************************)
(* Borrowing and returning, as BorrowRecordService runs them: each request *)
(* is one database transaction on one of the application server's threads, *)
(* and takes SELECT ... FOR UPDATE row locks on the rows it changes.       *)
(*                                                                         *)
(* The variables hold what is COMMITTED.  A transaction's own writes stay  *)
(* in clerk[c] until it commits: the row locks hide them from every other  *)
(* writer, and InnoDB's versions hide them from every plain SELECT.        *)
(* A book, a magazine and a newspaper follow the same code path, line for  *)
(* line, so all three are members of Item.                                 *)
(***************************************************************************)
EXTENDS Naturals

CONSTANTS
    Item,         \* ids of books, magazines and newspapers
    Student,      \* ids of student profiles
    Clerk,        \* threads that run borrow and return requests
    Editor,       \* threads that run the other services on the same tables
    MaxRecords,   \* bound: how many ids the borrow_records table hands out
    Null          \* no row, no owner, no argument

ASSUME NullAssumption ==
    Null \notin Item \cup Student \cup Clerk \cup Editor \cup Nat
ASSUME ThreadAssumption == Clerk \cap Editor = {}
ASSUME BoundAssumption == MaxRecords \in Nat

VARIABLES
    items,        \* rows of books, magazines and newspapers
    available,    \* their "available" column
    students,     \* rows of student_profiles
    record,       \* rows of borrow_records
    nextId,       \* the next id of borrow_records, never given out twice
    audit,        \* rows of audit_logs
    itemLock,     \* who holds the exclusive lock of an item's row
    recordLock,   \* who holds the exclusive lock of a borrow record's row
    clerk         \* the request each clerk thread is running

tables == <<items, available, students, record, nextId, audit>>
locks == <<itemLock, recordLock>>
vars == <<tables, locks, clerk>>

RecordId == 1 .. MaxRecords

-----------------------------------------------------------------------------
(* What the rows and the running requests look like. *)

Status == {"ABSENT", "BORROWED", "RETURNED"}

\* return_date IS NULL is "BORROWED"; "ABSENT" is an id with no row.
RecordRow == [status : Status, item : Item \cup {Null}, student : Student \cup {Null}]
AbsentRow == [status |-> "ABSENT", item |-> Null, student |-> Null]

AuditRow == [action : {"BORROW", "RETURN", "CREATE", "UPDATE", "DELETE"},
             id : RecordId \cup Item \cup Student]

BorrowPc == {"findByIdForBorrow", "save", "publishBorrow", "commitBorrow"}
ReturnPc == {"findByIdForReturn", "lockReturned", "publishReturn", "commitReturn"}
ClerkPc == {"idle", "evict"} \cup BorrowPc \cup ReturnPc

Request == [pc : ClerkPc, student : Student \cup {Null}, item : Item \cup {Null},
            record : RecordId \cup {Null}, log : SUBSET AuditRow]
At(pc, s, i, r) == [pc |-> pc, student |-> s, item |-> i, record |-> r, log |-> {}]
Idle == At("idle", Null, Null, Null)

\* Where a request holds the lock of its item's row, of its record's row.
HoldsItem == {"save", "publishBorrow", "commitBorrow", "publishReturn", "commitReturn"}
HoldsRecord == {"publishBorrow", "commitBorrow", "lockReturned", "publishReturn", "commitReturn"}

\* A committed loan of item i that has not been returned.
ActiveLoan(r, i) == record[r].status = "BORROWED" /\ record[r].item = i
OnLoan(i) == \E r \in RecordId : ActiveLoan(r, i)

\* An uncommitted INSERT holds a shared lock on the student row it refers to.
StudentPinned(s) ==
    \E c \in Clerk : clerk[c].pc \in {"publishBorrow", "commitBorrow"} /\ clerk[c].student = s

\* Any catalogue and any students, nothing lent yet.
Init ==
    /\ items \in SUBSET Item
    /\ available = [i \in Item |-> TRUE]
    /\ students \in SUBSET Student
    /\ record = [r \in RecordId |-> AbsentRow]
    /\ nextId = 1
    /\ audit = {}
    /\ itemLock = [i \in Item |-> Null]
    /\ recordLock = [r \in RecordId |-> Null]
    /\ clerk = [c \in Clerk |-> Idle]

-----------------------------------------------------------------------------
(* Faulty variants of the definitions below, one plausible slip each.  No   *)
(* action uses them: each is put in the place of the definition it varies   *)
(* to see the property it should break broken.                              *)

\* ReleaseLocks: the record's lock outlives its transaction.
ReleaseItemLocksOnly(t) ==
    /\ itemLock' = [i \in Item |-> IF itemLock[i] = t THEN Null ELSE itemLock[i]]
    /\ UNCHANGED recordLock

\* LockForBorrow: findById in place of findByIdForBorrow.
BorrowWithoutLock(c) ==
    /\ clerk[c].pc = "findByIdForBorrow"
    /\ clerk[c].item \in items /\ available[clerk[c].item]
    /\ clerk' = [clerk EXCEPT ![c].pc = "save"]
    /\ UNCHANGED <<tables, locks>>

\* LockForBorrow: no isAvailable check.
BorrowRegardless(c) ==
    /\ clerk[c].pc = "findByIdForBorrow"
    /\ itemLock[clerk[c].item] = Null
    /\ clerk[c].item \in items
    /\ itemLock' = [itemLock EXCEPT ![clerk[c].item] = c]
    /\ clerk' = [clerk EXCEPT ![c].pc = "save"]
    /\ UNCHANGED <<tables, recordLock>>

\* SaveRecord: the id is chosen without being spent.
SaveRecordWithMaxId(c) ==
    /\ clerk[c].pc = "save"
    /\ clerk[c].student \in students
    /\ nextId \in RecordId
    /\ recordLock' = [recordLock EXCEPT ![nextId] = c]
    /\ clerk' = [clerk EXCEPT ![c].pc = "publishBorrow", ![c].record = nextId]
    /\ UNCHANGED <<tables, itemLock>>

\* PublishBorrow: the event is built from the entity not yet saved.
PublishUnsaved(c) ==
    /\ clerk[c].pc = "publishBorrow"
    /\ clerk' = [clerk EXCEPT ![c].pc = "commitBorrow",
                              ![c].log = {[action |-> "BORROW", id |-> Null]}]
    /\ UNCHANGED <<tables, locks>>

\* PublishBorrow: the audit row is written in a transaction of its own.
PublishInOwnTransaction(c) ==
    /\ clerk[c].pc = "publishBorrow"
    /\ audit' = audit \cup {[action |-> "BORROW", id |-> clerk[c].record]}
    /\ clerk' = [clerk EXCEPT ![c].pc = "commitBorrow"]
    /\ UNCHANGED <<items, available, students, record, nextId, locks>>

\* PublishReturn: the wrong action.
PublishReturnAsBorrow(c) ==
    /\ clerk[c].pc = "publishReturn"
    /\ clerk' = [clerk EXCEPT ![c].pc = "commitReturn",
                              ![c].log = {[action |-> "BORROW", id |-> clerk[c].record]}]
    /\ UNCHANGED <<tables, locks>>

\* WriteReturn: no setAvailable(true).
ReturnWithoutFlag(c) ==
    /\ clerk[c].pc = "commitReturn"
    /\ record' = [record EXCEPT ![clerk[c].record].status = "RETURNED"]
    /\ audit' = audit \cup clerk[c].log
    /\ UNCHANGED <<items, available, students, nextId>>

\* WriteReturn: the record is deleted in place of being closed.
ReturnDeletesRecord(c) ==
    /\ clerk[c].pc = "commitReturn"
    /\ available' = [available EXCEPT ![clerk[c].item] = TRUE]
    /\ record' = [record EXCEPT ![clerk[c].record] = AbsentRow]
    /\ audit' = audit \cup clerk[c].log
    /\ UNCHANGED <<items, students, nextId>>

-----------------------------------------------------------------------------
(* The end of a transaction releases every row lock it holds. *)

ReleaseLocks(t) ==
    /\ itemLock' = [i \in Item |-> IF itemLock[i] = t THEN Null ELSE itemLock[i]]
    /\ recordLock' = [r \in RecordId |-> IF recordLock[r] = t THEN Null ELSE recordLock[r]]

\* An exception leaves the @Transactional method: nothing is written, the
\* cache is not evicted, and the client gets an error.
Rollback(c) ==
    /\ ReleaseLocks(c)
    /\ clerk' = [clerk EXCEPT ![c] = Idle]
    /\ UNCHANGED tables

-----------------------------------------------------------------------------
(* borrow *)

\* A request for exactly one item; the student is read without a lock.
\* A request with no such student, or with no or several items, is answered
\* with an error and changes nothing.
BeginBorrow(c, s, i) ==
    /\ clerk[c].pc = "idle"
    /\ s \in students
    /\ clerk' = [clerk EXCEPT ![c] = At("findByIdForBorrow", s, i, Null)]
    /\ UNCHANGED <<tables, locks>>

\* SELECT ... FOR UPDATE returns the latest committed row once the lock is
\* free; an available one is marked as borrowed, still in memory.
LockForBorrow(c) ==
    LET i == clerk[c].item IN
    /\ clerk[c].pc = "findByIdForBorrow"
    /\ itemLock[i] = Null
    /\ i \in items /\ available[i]
    /\ itemLock' = [itemLock EXCEPT ![i] = c]
    /\ clerk' = [clerk EXCEPT ![c].pc = "save"]
    /\ UNCHANGED <<tables, recordLock>>

\* NOT_FOUND or UNAVAILABLE.
RejectBorrow(c) ==
    LET i == clerk[c].item IN
    /\ clerk[c].pc = "findByIdForBorrow"
    /\ itemLock[i] = Null
    /\ ~(i \in items /\ available[i])
    /\ Rollback(c)

\* IDENTITY makes save insert at once: the id is spent even if the
\* transaction rolls back, and the foreign key needs the student to exist.
SaveRecord(c) ==
    /\ clerk[c].pc = "save"
    /\ clerk[c].student \in students
    /\ nextId \in RecordId
    /\ nextId' = nextId + 1
    /\ recordLock' = [recordLock EXCEPT ![nextId] = c]
    /\ clerk' = [clerk EXCEPT ![c].pc = "publishBorrow", ![c].record = nextId]
    /\ UNCHANGED <<items, available, students, record, audit, itemLock>>

\* The student was deleted meanwhile, or the table has no id left.
RejectSave(c) ==
    /\ clerk[c].pc = "save"
    /\ ~(clerk[c].student \in students /\ nextId \in RecordId)
    /\ Rollback(c)

\* The audit listener runs inside the publisher's call and joins its
\* transaction: its row is one more uncommitted write.
PublishBorrow(c) ==
    /\ clerk[c].pc = "publishBorrow"
    /\ clerk' = [clerk EXCEPT ![c].pc = "commitBorrow",
                              ![c].log = {[action |-> "BORROW", id |-> clerk[c].record]}]
    /\ UNCHANGED <<tables, locks>>

\* The flush writes available = false, and the commit publishes every write.
WriteBorrow(c) ==
    /\ clerk[c].pc = "commitBorrow"
    /\ available' = [available EXCEPT ![clerk[c].item] = FALSE]
    /\ record' = [record EXCEPT ![clerk[c].record] =
                    [status |-> "BORROWED", item |-> clerk[c].item, student |-> clerk[c].student]]
    /\ audit' = audit \cup clerk[c].log
    /\ UNCHANGED <<items, students, nextId>>

-----------------------------------------------------------------------------
(* returnBook *)

BeginReturn(c, r) ==
    /\ clerk[c].pc = "idle"
    /\ clerk' = [clerk EXCEPT ![c] = At("findByIdForReturn", Null, Null, r)]
    /\ UNCHANGED <<tables, locks>>

\* The record is locked first, then its item.
LockForReturn(c) ==
    LET r == clerk[c].record IN
    /\ clerk[c].pc = "findByIdForReturn"
    /\ recordLock[r] = Null
    /\ record[r].status = "BORROWED"
    /\ recordLock' = [recordLock EXCEPT ![r] = c]
    /\ clerk' = [clerk EXCEPT ![c].pc = "lockReturned", ![c].item = record[r].item]
    /\ UNCHANGED <<tables, itemLock>>

\* NOT_FOUND or ALREADY_RETURNED.
RejectReturn(c) ==
    LET r == clerk[c].record IN
    /\ clerk[c].pc = "findByIdForReturn"
    /\ recordLock[r] = Null
    /\ record[r].status # "BORROWED"
    /\ Rollback(c)

LockReturnedItem(c) ==
    LET i == clerk[c].item IN
    /\ clerk[c].pc = "lockReturned"
    /\ itemLock[i] = Null
    /\ i \in items
    /\ itemLock' = [itemLock EXCEPT ![i] = c]
    /\ clerk' = [clerk EXCEPT ![c].pc = "publishReturn"]
    /\ UNCHANGED <<tables, recordLock>>

PublishReturn(c) ==
    /\ clerk[c].pc = "publishReturn"
    /\ clerk' = [clerk EXCEPT ![c].pc = "commitReturn",
                              ![c].log = {[action |-> "RETURN", id |-> clerk[c].record]}]
    /\ UNCHANGED <<tables, locks>>

WriteReturn(c) ==
    /\ clerk[c].pc = "commitReturn"
    /\ available' = [available EXCEPT ![clerk[c].item] = TRUE]
    /\ record' = [record EXCEPT ![clerk[c].record].status = "RETURNED"]
    /\ audit' = audit \cup clerk[c].log
    /\ UNCHANGED <<items, students, nextId>>

-----------------------------------------------------------------------------
(* The end of a request. *)

\* The commit is acknowledged: the cache interceptor, outside the
\* transaction, still has to evict the "books" cache.
Commit(c) ==
    /\ WriteBorrow(c) \/ WriteReturn(c)
    /\ ReleaseLocks(c)
    /\ clerk' = [clerk EXCEPT ![c] = At("evict", Null, Null, Null)]

\* The database commits, the connection breaks before the answer: the
\* service throws, the client is told the request failed, nothing is evicted.
CommitUnacknowledged(c) ==
    /\ WriteBorrow(c) \/ WriteReturn(c)
    /\ ReleaseLocks(c)
    /\ clerk' = [clerk EXCEPT ![c] = Idle]

Evict(c) ==
    /\ clerk[c].pc = "evict"
    /\ clerk' = [clerk EXCEPT ![c] = Idle]
    /\ UNCHANGED <<tables, locks>>

\* A lock wait timeout, a failed statement (the audit insert included), a
\* broken connection, or the death of the server.
Abort(c) ==
    /\ clerk[c].pc \notin {"idle", "evict"}
    /\ Rollback(c)

-----------------------------------------------------------------------------
(* Steps of a request once it has begun, the failures apart. *)
AcquireLock(c) ==
    \/ LockForBorrow(c) \/ RejectBorrow(c)
    \/ LockForReturn(c) \/ RejectReturn(c)
    \/ LockReturnedItem(c)

Proceed(c) ==
    \/ SaveRecord(c) \/ RejectSave(c)
    \/ PublishBorrow(c) \/ PublishReturn(c)
    \/ Commit(c)

\* Everything a thread does to the database, and what it does after.
ClerkStep(c) ==
    \/ \E s \in Student, i \in Item : BeginBorrow(c, s, i)
    \/ \E r \in RecordId : BeginReturn(c, r)
    \/ AcquireLock(c)
    \/ Proceed(c)
    \/ CommitUnacknowledged(c)
    \/ Abort(c)

Next == \E c \in Clerk : ClerkStep(c) \/ Evict(c)

Spec == Init /\ [][Next]_vars

\* A thread that can go on does.  InnoDB queues the requests for a row lock,
\* so a lock that is free again and again is not refused for ever.
Fairness == \A c \in Clerk : WF_vars(Proceed(c) \/ Evict(c)) /\ SF_vars(AcquireLock(c))

FairSpec == Spec /\ Fairness

-----------------------------------------------------------------------------
(* Properties *)

\* Every variable has the shape the schema and the service give it.
TypeOK ==
    /\ items \subseteq Item
    /\ available \in [Item -> BOOLEAN]
    /\ students \subseteq Student
    /\ record \in [RecordId -> RecordRow]
    /\ nextId \in 1 .. MaxRecords + 1
    /\ audit \subseteq AuditRow
    /\ itemLock \in [Item -> Clerk \cup Editor \cup {Null}]
    /\ recordLock \in [RecordId -> Clerk \cup Editor \cup {Null}]
    /\ clerk \in [Clerk -> Request]

\* An item is marked available exactly when no loan of it is open.  The flag
\* and the record are written by different statements, and read by requests
\* that decide on the flag alone (borrow) or on the record alone (return).
AvailabilityAgrees == \A i \in items : available[i] <=> ~OnLoan(i)

\* No item is out on two open loans at once, however requests interleave.
OneActiveLoan ==
    \A r1, r2 \in RecordId, i \in Item : ActiveLoan(r1, i) /\ ActiveLoan(r2, i) => r1 = r2

\* The audit trail and the loans tell the same story: a row for every loan
\* and every return that was committed, and none for one rolled back.
AuditMatches ==
    \A r \in RecordId :
        /\ [action |-> "BORROW", id |-> r] \in audit <=> record[r].status # "ABSENT"
        /\ [action |-> "RETURN", id |-> r] \in audit <=> record[r].status = "RETURNED"

\* Every loan's item and student still have a row (the foreign keys).
ReferencesLive ==
    \A r \in RecordId :
        record[r].status # "ABSENT" => record[r].item \in items /\ record[r].student \in students

\* The request a clerk waits for a row lock behind.
WaitsFor(c, d) ==
    \/ clerk[c].pc \in {"findByIdForBorrow", "lockReturned"} /\ itemLock[clerk[c].item] = d
    \/ clerk[c].pc = "findByIdForReturn" /\ recordLock[clerk[c].record] = d

\* The lock order (record, then item) never lets requests wait in a circle:
\* no set of requests each waits for another of the set.
NoWaitCycle == ~\E S \in (SUBSET Clerk) \ {{}} : \A c \in S : \E d \in S : WaitsFor(c, d)

\* A loan is opened once and closed once: a record never changes its item
\* or its borrower, never reopens and never disappears.
RecordMovesForward ==
    \A r \in RecordId :
        record'[r] # record[r] =>
            \/ record[r].status = "ABSENT" /\ record'[r].status = "BORROWED"
            \/ record[r].status = "BORROWED" /\ record'[r] = [record[r] EXCEPT !.status = "RETURNED"]
RecordHistory == [][RecordMovesForward]_vars

\* Every request that begins ends: the locks it waits for come free.
RequestsEnd == \A c \in Clerk : clerk[c].pc # "idle" ~> clerk[c].pc = "idle"

Promise == INSTANCE Loans WITH loan <- record

\* The committed loans behave as the abstract specification says: a borrow
\* that read the flag lends an item no open loan holds, and each commit is
\* one lending, one taking back, or nothing that Loans can see.
ImplementsLoans == Promise!Spec
=============================================================================

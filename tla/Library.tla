------------------------------ MODULE Library ------------------------------
(***************************************************************************)
(* Circulation together with the services that edit the rows it locks:     *)
(* BookService, MagazineService, NewspaperService and StudentService.      *)
(* Those read with a plain SELECT, decide, and write when the persistence  *)
(* context is flushed: the UPDATE or DELETE takes the row lock only then.  *)
(* Entities carry no version and Hibernate's UPDATE sets every column, so  *)
(* the "available" an editor read is the "available" it writes.            *)
(***************************************************************************)
EXTENDS Circulation

VARIABLES
    retired,      \* ids whose row was deleted: never given out again
    editor        \* the request each editor thread is running

libraryVars == <<vars, retired, editor>>

EditorPc == {"idle", "evict", "flushUpdate", "commitUpdate", "removeItem", "removeStudent"}
Edit == [pc : EditorPc, item : Item \cup {Null}, student : Student \cup {Null}, seen : BOOLEAN]
EditAt(pc, i, s, seen) == [pc |-> pc, item |-> i, student |-> s, seen |-> seen]
NoEdit == EditAt("idle", Null, Null, TRUE)

LibraryInit ==
    /\ Init
    /\ retired = {}
    /\ editor = [e \in Editor |-> NoEdit]

\* existsByBookId and its siblings, and the foreign keys of borrow_records.
ItemHasHistory(i) == \E r \in RecordId : record[r].status # "ABSENT" /\ record[r].item = i
StudentHasHistory(s) == \E r \in RecordId : record[r].status # "ABSENT" /\ record[r].student = s

Begin(e, edit) ==
    /\ editor[e].pc = "idle"
    /\ editor' = [editor EXCEPT ![e] = edit]
    /\ UNCHANGED <<vars, retired>>

Log(action, id) == audit' = audit \cup {[action |-> action, id |-> id]}

-----------------------------------------------------------------------------
(* Faulty variants of the definitions below, as in Circulation. *)

\* GiveUp: a rolled back edit keeps its row locks.
GiveUpKeepingLocks(e) ==
    /\ editor' = [editor EXCEPT ![e] = NoEdit]
    /\ UNCHANGED <<vars, retired>>

\* Committed: a committed edit keeps its row locks.
CommittedKeepingLocks(e, pc) ==
    /\ \E next \in {"idle", pc} : editor' = [editor EXCEPT ![e] = EditAt(next, Null, Null, TRUE)]
    /\ UNCHANGED <<locks, clerk>>

\* CommitUpdate: no audit event.
CommitUpdateSilently(e) ==
    /\ editor[e].pc = "commitUpdate"
    /\ available' = [available EXCEPT ![editor[e].item] = editor[e].seen]
    /\ editor' = [editor EXCEPT ![e] = EditAt("evict", Null, Null, TRUE)]
    /\ ReleaseLocks(e)
    /\ UNCHANGED <<items, students, record, nextId, audit, clerk, retired>>

\* RemoveItem: no foreign key, only the query made when the request began.
RemoveItemUnconstrained(e) ==
    /\ editor[e].pc = "removeItem"
    /\ itemLock[editor[e].item] = Null
    /\ items' = items \ {editor[e].item}
    /\ retired' = retired \cup {editor[e].item}
    /\ Log("DELETE", editor[e].item)
    /\ editor' = [editor EXCEPT ![e] = EditAt("evict", Null, Null, TRUE)]
    /\ UNCHANGED <<available, students, record, nextId, locks, clerk>>

\* RemoveItem: the event is built from an entity that has lost its id.
RemoveItemUnnamed(e) ==
    /\ editor[e].pc = "removeItem"
    /\ itemLock[editor[e].item] = Null
    /\ editor[e].item \in items /\ ~ItemHasHistory(editor[e].item)
    /\ items' = items \ {editor[e].item}
    /\ retired' = retired \cup {editor[e].item}
    /\ Log("DELETE", Null)
    /\ editor' = [editor EXCEPT ![e] = EditAt("evict", Null, Null, TRUE)]
    /\ UNCHANGED <<available, students, record, nextId, locks, clerk>>

\* BeginDeleteStudent: the event is logged in a transaction of its own,
\* before the DELETE is known to succeed.
LogBeforeDelete(e, s) ==
    /\ editor[e].pc = "idle"
    /\ s \in students
    /\ ~StudentHasHistory(s)
    /\ Log("DELETE", s)
    /\ editor' = [editor EXCEPT ![e] = EditAt("removeStudent", Null, s, TRUE)]
    /\ UNCHANGED <<items, available, students, record, nextId, locks, clerk, retired>>

-----------------------------------------------------------------------------
\* An exception, or no change to commit: nothing is written or evicted.
GiveUp(e) ==
    /\ editor' = [editor EXCEPT ![e] = NoEdit]
    /\ ReleaseLocks(e)
    /\ UNCHANGED <<tables, clerk, retired>>

\* The commit is acknowledged and the request goes on at pc, or the answer
\* is lost and the request fails although the database did commit.
Committed(e, pc) ==
    /\ \E next \in {"idle", pc} : editor' = [editor EXCEPT ![e] = EditAt(next, Null, Null, TRUE)]
    /\ ReleaseLocks(e)
    /\ UNCHANGED clerk

-----------------------------------------------------------------------------
(* create and the update of a student: one step, for the new id is known   *)
(* to nobody before the commit, and no other request reads the columns.    *)

CreateItem(e, i) ==
    /\ editor[e].pc = "idle"
    /\ i \notin items \cup retired
    /\ items' = items \cup {i}
    /\ available' = [available EXCEPT ![i] = TRUE]
    /\ Log("CREATE", i)
    /\ Committed(e, "evict")
    /\ UNCHANGED <<students, record, nextId, retired>>

CreateStudent(e, s) ==
    /\ editor[e].pc = "idle"
    /\ s \notin students \cup retired
    /\ students' = students \cup {s}
    /\ Log("CREATE", s)
    /\ Committed(e, "idle")
    /\ UNCHANGED <<items, available, record, nextId, retired>>

\* An update of a student touches no column kept here; one that changes
\* nothing is logged all the same.
UpdateStudent(e, s) ==
    /\ editor[e].pc = "idle"
    /\ s \in students
    /\ Log("UPDATE", s)
    /\ Committed(e, "idle")
    /\ UNCHANGED <<items, available, students, record, nextId, retired>>

-----------------------------------------------------------------------------
(* update of an item *)

\* findById: a plain SELECT of the whole row.
BeginUpdate(e, i) ==
    /\ i \in items
    /\ Begin(e, EditAt("flushUpdate", i, Null, available[i]))

\* The flush (by the ISBN query or by saveAndFlush) sends the UPDATE, which
\* waits for the row lock; without a row it fails.
FlushUpdate(e) ==
    LET i == editor[e].item IN
    /\ editor[e].pc = "flushUpdate"
    /\ itemLock[i] = Null
    /\ i \in items
    /\ itemLock' = [itemLock EXCEPT ![i] = e]
    /\ editor' = [editor EXCEPT ![e].pc = "commitUpdate"]
    /\ UNCHANGED <<tables, recordLock, clerk, retired>>

\* A request equal to the row leaves the entity clean: no UPDATE is sent,
\* the audit row and the eviction happen all the same.
UpdateUnchanged(e, i) ==
    /\ editor[e].pc = "idle"
    /\ i \in items
    /\ Log("UPDATE", i)
    /\ Committed(e, "evict")
    /\ UNCHANGED <<items, available, students, record, nextId, retired>>

RejectUpdate(e) ==
    /\ editor[e].pc = "flushUpdate"
    /\ itemLock[editor[e].item] = Null
    /\ editor[e].item \notin items
    /\ GiveUp(e)

\* Every column is written, "available" as it was read.
CommitUpdate(e) ==
    /\ editor[e].pc = "commitUpdate"
    /\ available' = [available EXCEPT ![editor[e].item] = editor[e].seen]
    /\ Log("UPDATE", editor[e].item)
    /\ Committed(e, "evict")
    /\ UNCHANGED <<items, students, record, nextId, retired>>

-----------------------------------------------------------------------------
(* delete: an item or a student with borrow history is refused twice, by   *)
(* the service's query and, when the DELETE is flushed at the commit, by   *)
(* the foreign key.                                                        *)

BeginDelete(e, i) ==
    /\ i \in items
    /\ ~ItemHasHistory(i)
    /\ Begin(e, EditAt("removeItem", i, Null, TRUE))

RemoveItem(e) ==
    LET i == editor[e].item IN
    /\ editor[e].pc = "removeItem"
    /\ itemLock[i] = Null
    /\ i \in items
    /\ ~ItemHasHistory(i)
    /\ items' = items \ {i}
    /\ retired' = retired \cup {i}
    /\ Log("DELETE", i)
    /\ Committed(e, "evict")
    /\ UNCHANGED <<available, students, record, nextId>>

RejectDelete(e) ==
    LET i == editor[e].item IN
    /\ editor[e].pc = "removeItem"
    /\ itemLock[i] = Null
    /\ i \notin items \/ ItemHasHistory(i)
    /\ GiveUp(e)

BeginDeleteStudent(e, s) ==
    /\ s \in students
    /\ ~StudentHasHistory(s)
    /\ Begin(e, EditAt("removeStudent", Null, s, TRUE))

RemoveStudent(e) ==
    LET s == editor[e].student IN
    /\ editor[e].pc = "removeStudent"
    /\ ~StudentPinned(s)
    /\ s \in students
    /\ ~StudentHasHistory(s)
    /\ students' = students \ {s}
    /\ retired' = retired \cup {s}
    /\ Log("DELETE", s)
    /\ Committed(e, "idle")
    /\ UNCHANGED <<items, available, record, nextId>>

RejectDeleteStudent(e) ==
    LET s == editor[e].student IN
    /\ editor[e].pc = "removeStudent"
    /\ ~StudentPinned(s)
    /\ s \notin students \/ StudentHasHistory(s)
    /\ GiveUp(e)

-----------------------------------------------------------------------------

\* A lock wait timeout, a failed statement, a broken connection, a dead server.
AbortEdit(e) ==
    /\ editor[e].pc \notin {"idle", "evict"}
    /\ GiveUp(e)

EvictEdit(e) ==
    /\ editor[e].pc = "evict"
    /\ GiveUp(e)

\* The writes that wait for a row lock, and how they end without a row.
Write(e) ==
    \/ FlushUpdate(e) \/ RejectUpdate(e)
    \/ RemoveItem(e) \/ RejectDelete(e)
    \/ RemoveStudent(e) \/ RejectDeleteStudent(e)

EditorStep(e) ==
    \/ \E i \in Item :
        CreateItem(e, i) \/ BeginUpdate(e, i) \/ UpdateUnchanged(e, i) \/ BeginDelete(e, i)
    \/ \E s \in Student : CreateStudent(e, s) \/ UpdateStudent(e, s) \/ BeginDeleteStudent(e, s)
    \/ Write(e) \/ CommitUpdate(e) \/ AbortEdit(e)

LibraryStep ==
    \/ (\E c \in Clerk : ClerkStep(c)) /\ UNCHANGED <<retired, editor>>
    \/ \E e \in Editor : EditorStep(e)

LibraryEvict ==
    \/ (\E c \in Clerk : Evict(c)) /\ UNCHANGED <<retired, editor>>
    \/ \E e \in Editor : EvictEdit(e)

LibraryNext == LibraryStep \/ LibraryEvict

LibrarySpec == LibraryInit /\ [][LibraryNext]_libraryVars

\* As in Circulation: threads go on, and lock queues are served.
LibraryFairness ==
    /\ Fairness
    /\ \A e \in Editor :
          /\ WF_libraryVars(CommitUpdate(e) \/ EvictEdit(e))
          /\ SF_libraryVars(Write(e))

LibraryFairSpec == LibrarySpec /\ LibraryFairness

-----------------------------------------------------------------------------
(* Properties *)

\* Every variable of the composition has the shape the code gives it.
LibraryTypeOK ==
    /\ TypeOK
    /\ retired \subseteq Item \cup Student
    /\ editor \in [Editor -> Edit]

\* The audit trail names exactly the ids that were deleted.
DeletionsAudited == \A x \in Item \cup Student : [action |-> "DELETE", id |-> x] \in audit <=> x \in retired

\* An edit is the only thing that can part the flag from the loans: an item
\* nobody has edited is available exactly when it is not out, and is never
\* out twice, whatever is created, deleted, lent and returned around it.
AgreesUntilEdited ==
    \A i \in items :
        [action |-> "UPDATE", id |-> i] \notin audit =>
            /\ available[i] <=> ~OnLoan(i)
            /\ \A r1, r2 \in RecordId : ActiveLoan(r1, i) /\ ActiveLoan(r2, i) => r1 = r2

\* A clerk or an editor waits behind whoever holds the lock it needs.
Behind(x, y) ==
    \/ x \in Clerk /\ WaitsFor(x, y)
    \/ /\ x \in Editor
       /\ editor[x].pc \in {"flushUpdate", "removeItem"}
       /\ itemLock[editor[x].item] = y
    \/ /\ x \in Editor /\ y \in Clerk
       /\ editor[x].pc = "removeStudent"
       /\ clerk[y].pc \in {"publishBorrow", "commitBorrow"}
       /\ clerk[y].student = editor[x].student

\* Adding the editors, whose locks come late, still makes no waiting circle.
NoLibraryWaitCycle ==
    ~\E S \in (SUBSET (Clerk \cup Editor)) \ {{}} : \A x \in S : \E y \in S : Behind(x, y)

\* Every request of a clerk or an editor ends, whatever locks it meets.
LibraryRequestsEnd ==
    /\ RequestsEnd
    /\ \A e \in Editor : editor[e].pc # "idle" ~> editor[e].pc = "idle"

\* The composition, too, never rewrites a loan's past.
LibraryRecordHistory == [][RecordMovesForward]_libraryVars
=============================================================================

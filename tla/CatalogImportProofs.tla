------------------------ MODULE CatalogImportProofs ------------------------
(***************************************************************************)
(* The importer keeps track of the rows it makes, and its rollback removes *)
(* no others, for any sample records, processes, requests on their way and *)
(* ids, whatever is lost, late or repeated.                                *)
(***************************************************************************)
EXTENDS CatalogImport, TLAPS

-----------------------------------------------------------------------------
(* The invariant. *)

ImportPc == {"next", "post", "await", "record"}
RollbackPc == {"select", "delete", "awaitDelete", "forget"}
WorkPc == {"plan"} \cup ImportPc \cup RollbackPc

\* The lock file tells which process there may be.
Alone == \A p \in Tool : tool[p].pc # "idle" => lock = p

Listed == {e.id : e \in manifest.records}

\* The rows of a title that stand as an answer the tool waited for.
Timely(t) == {i \in Id : rows[i] # Null /\ rows[i].by = "tool" /\ rows[i].timely /\ rows[i].title = t}

\* A listing somebody has read, or the cache holds, names rows that were given
\* out, by their titles, and misses no timely one.
Tells(list) == list # Null =>
    /\ \A e \in list : e.id < nextId /\ (rows[e.id] # Null => rows[e.id].title = e.title)
    /\ \A i \in Id : (rows[i] # Null /\ rows[i].timely) => \E e \in list : e.id = i

Made(k) == sent[k] # Null /\ sent[k].kind = "created"

\* Ids are given out in order and never again; one that the manifest lists, or
\* that a write on its way names, was the tool's from the start.
Numbered ==
    /\ \A i \in Id : rows[i] # Null => i < nextId
    /\ \A e \in manifest.records :
          e.id < nextId /\ (rows[e.id] # Null => rows[e.id].by = "tool" /\ rows[e.id].title = e.title)
    /\ \A k \in Ticket : (sent[k] # Null /\ sent[k].kind = "delete") =>
          /\ sent[k].id < nextId
          /\ rows[sent[k].id] # Null => /\ rows[sent[k].id].by = "tool"
                                        /\ [title |-> rows[sent[k].id].title, id |-> sent[k].id] \in manifest.records
    /\ \A k \in Ticket : (sent[k] # Null /\ sent[k].kind = "deleted") =>
          sent[k].id < nextId /\ rows[sent[k].id] = Null

\* A create that is committed has not been answered: no record, and no other
\* create, has its id.
Unanswered ==
    /\ \A k \in Ticket : Made(k) =>
          /\ sent[k].id < nextId /\ sent[k].id \notin Listed
          /\ rows[sent[k].id] # Null => /\ rows[sent[k].id].by = "tool" /\ ~rows[sent[k].id].timely
                                        /\ rows[sent[k].id].title = sent[k].title
    /\ \A k, l \in Ticket : Made(k) /\ Made(l) /\ sent[k].id = sent[l].id => k = l

\* Between the announcement of a create and its record no row of its title is
\* the tool's, but the one that this create makes.
CreateFits(r) ==
    /\ r.pc \in ImportPc => manifest.pending \subseteq r.todo
    /\ r.pc \in {"post", "await", "record"} => r.title \in manifest.pending
    /\ r.pc = "post" => Timely(r.title) = {}
    /\ r.pc = "await" => /\ r.ticket \in Ticket
                         /\ sent[r.ticket] # Null => /\ sent[r.ticket].kind \in {"create", "created"}
                                                     /\ sent[r.ticket].title = r.title
                                                     /\ Timely(r.title) = {}
    /\ r.pc = "record" => /\ r.id \in Id \ Listed /\ r.id < nextId
                          /\ rows[r.id] # Null => rows[r.id].by = "tool" /\ rows[r.id].title = r.title
                          /\ Timely(r.title) \subseteq {r.id}
                          /\ \A k \in Ticket : Made(k) => sent[k].id # r.id
    /\ r.pc = "succeeded" => manifest.pending = {}

\* Only listed rows are chosen for deletion, each for one request.
DeleteFits(r) ==
    /\ r.pc = "select" => r.left \subseteq Listed
    /\ r.pc \in RollbackPc => r.chosen \subseteq Listed
    /\ r.pc \in {"awaitDelete", "forget"} => r.id \in Listed \ r.chosen
    /\ r.pc = "awaitDelete" => /\ r.ticket \in Ticket
                               /\ sent[r.ticket] # Null => /\ sent[r.ticket].kind \in {"delete", "deleted"}
                                                           /\ sent[r.ticket].id = r.id
    /\ r.pc = "forget" => rows[r.id] = Null

\* What a process holds of the manifest is what the file says.
Fits(r) ==
    /\ r.pc \in WorkPc => r.memory = manifest
    /\ CreateFits(r)
    /\ DeleteFits(r)

ImportInv ==
    /\ ImportTypeOK /\ Alone /\ Numbered /\ Unanswered /\ Accounted /\ TwiceOnlyUntimely
    /\ Tells(page) /\ Tells(slow)
    /\ \A p \in Tool : Fits(tool[p])

-----------------------------------------------------------------------------
(* What an action changes besides the process that takes it.               *)

LEMMA TypesHold ==
  ASSUME ImportInv
  PROVE  /\ rows \in [Id -> Row \cup {Null}] /\ nextId \in Nat /\ Id \subseteq Nat
         /\ page \in Listing \cup {Null} /\ slow \in Listing \cup {Null}
         /\ sent \in [Ticket -> Call \cup {Null}] /\ tool \in [Tool -> Process]
         /\ manifest.records \subseteq [title : Title, id : Id] /\ manifest.pending \subseteq Title
         /\ manifest = [records |-> manifest.records, pending |-> manifest.pending]
         /\ Listed \subseteq Id
BY ImportAssumption DEF ImportInv, ImportTypeOK, Id, Manifest, Listed

LEMMA NullIsNone ==
  /\ Null \notin Id /\ Null \notin Title /\ Null \notin Tool /\ Null \notin Ticket
  /\ NoRun \in Process /\ NoRun.pc = "idle"
BY ImportAssumption DEF Id, NoRun, Process, Manifest, EmptyManifest, Pc

LEMMA OnlyOne ==
  ASSUME ImportInv, NEW p \in Tool, tool[p].pc # "idle"
  PROVE  lock = p /\ \A q \in Tool \ {p} : tool[q].pc = "idle"
BY DEF ImportInv, Alone

\* A process is replaced as a whole.
LEMMA Becomes ==
  ASSUME ImportInv, NEW p \in Tool, NEW r \in Process, tool' = [tool EXCEPT ![p] = r]
  PROVE  tool' \in [Tool -> Process] /\ tool'[p] = r /\ \A q \in Tool \ {p} : tool'[q] = tool[q]
BY TypesHold

\* A process that is done, or was never started, claims nothing.
LEMMA DoneFits ==
  ASSUME NEW r, r.pc \in {"idle", "ended"}
  PROVE  Fits(r) /\ Fits(r)'
BY DEF Fits, CreateFits, DeleteFits, WorkPc, ImportPc, RollbackPc

-----------------------------------------------------------------------------
(* What a GET of the collection shows, from the cache or not. *)

LEMMA TableTells ==
  ASSUME ImportInv
  PROVE  /\ InTable \in Listing /\ Tells(InTable)
         /\ \A i \in Id : rows[i] # Null => \E e \in InTable : e.id = i /\ e.title = rows[i].title
<1>1. \A i \in Id : rows[i] # Null => rows[i] \in Row /\ i < nextId
  BY TypesHold DEF ImportInv, Numbered
<1>2. InTable \in Listing
  BY <1>1 DEF InTable, Listing, Row
<1>3. ASSUME NEW e \in InTable PROVE e.id < nextId /\ rows[e.id].title = e.title
  <2>1. PICK i \in {j \in Id : rows[j] # Null} :
           e = [id |-> i, title |-> rows[i].title, exact |-> rows[i].exact]
    BY DEF InTable
  <2>2. e.id = i /\ e.title = rows[i].title
    BY <2>1
  <2> QED
    BY <1>1, <2>2
<1>4. ASSUME NEW i \in Id, rows[i] # Null
      PROVE  \E e \in InTable : e.id = i /\ e.title = rows[i].title
  <2> DEFINE e == [id |-> i, title |-> rows[i].title, exact |-> rows[i].exact]
  <2>1. e \in InTable
    BY <1>4 DEF InTable
  <2> QED
    BY <2>1
<1> QED
  BY <1>2, <1>3, <1>4 DEF Tells

\* A title of which nothing is shown has no timely row.
LEMMA ShownTells ==
  ASSUME ImportInv
  PROVE  /\ Shown \in Listing \cup {Null} /\ Tells(Shown)
         /\ \A t : Matches(t) = {} => Timely(t) = {}
<1>1. Shown \in Listing \cup {Null} /\ Tells(Shown)
  BY TableTells, TypesHold DEF Shown, ImportInv
<1>2. ASSUME NEW t, NEW i \in Timely(t) PROVE Matches(t) # {}
  <2>1. i \in Id /\ rows[i] # Null /\ rows[i].timely /\ rows[i].title = t
    BY DEF Timely
  <2>2. PICK e \in Shown : e.title = t
    <3>1. CASE page = Null
      BY <2>1, <3>1, TableTells DEF Shown
    <3>2. CASE page # Null
      BY <2>1, <3>2 DEF Shown, ImportInv, Tells
    <3> QED
      BY <3>1, <3>2
  <2> QED
    BY <2>2 DEF Matches
<1> QED
  BY <1>1, <1>2

\* A page that is read, or not touched, goes on telling what it should.
LEMMA PageKept ==
  ASSUME ImportInv, UNCHANGED <<table, slow>>, UNCHANGED page \/ Reads
  PROVE  /\ page' \in Listing \cup {Null} /\ slow' \in Listing \cup {Null}
         /\ Tells(page)' /\ Tells(slow)'
<1>1. page' \in Listing \cup {Null} /\ (page' = page \/ page' = Shown)
  BY ShownTells, TypesHold DEF Reads
<1>2. Tells(page')
  BY <1>1, ShownTells DEF ImportInv
<1> QED
  BY <1>1, <1>2, TypesHold DEF ImportInv, Tells, table

\* A step of one process that touches the manifest at most.
LEMMA FileStep ==
  ASSUME ImportInv, NEW p \in Tool, tool[p].pc # "idle",
         UNCHANGED <<table, slow, lock>>, UNCHANGED page \/ Reads,
         tool' \in [Tool -> Process], \A q \in Tool \ {p} : tool'[q] = tool[q],
         manifest' \in Manifest,
         \A e \in manifest'.records \ manifest.records :
            /\ e.id < nextId /\ (rows[e.id] # Null => rows[e.id].by = "tool" /\ rows[e.id].title = e.title)
            /\ \A k \in Ticket : Made(k) => sent[k].id # e.id,
         \A e \in manifest.records \ manifest'.records : rows[e.id] = Null,
         \A t \in manifest.pending \ manifest'.pending : \A i \in Timely(t) :
            [title |-> t, id |-> i] \in manifest'.records,
         Fits(tool[p])'
  PROVE  ImportInv'
<1>1. ImportTypeOK' /\ Tells(page)' /\ Tells(slow)'
  BY PageKept DEF ImportInv, ImportTypeOK, table
<1>2. Alone'
  BY OnlyOne DEF Alone
<1>3. Numbered'
  BY TypesHold DEF ImportInv, Numbered, table
<1>3a. Unanswered'
  BY DEF ImportInv, Unanswered, Made, Listed, table
<1>4. Accounted'
  <2> SUFFICES ASSUME NEW i \in Id, rows[i] # Null, rows[i].by = "tool", rows[i].timely
               PROVE  \/ [title |-> rows[i].title, id |-> i] \in manifest'.records
                      \/ rows[i].title \in manifest'.pending
    BY DEF Accounted, table
  <2>1. CASE [title |-> rows[i].title, id |-> i] \in manifest.records
    BY <2>1
  <2>2. CASE rows[i].title \in manifest.pending
    BY <2>2 DEF Timely
  <2> QED
    BY <2>1, <2>2 DEF ImportInv, Accounted
<1>5. TwiceOnlyUntimely'
  BY DEF ImportInv, TwiceOnlyUntimely, table
<1>6. ASSUME NEW q \in Tool PROVE Fits(tool[q])'
  <2>1. CASE q = p
    BY <2>1
  <2>2. CASE q # p
    BY <2>2, OnlyOne DEF Fits, CreateFits, DeleteFits, WorkPc, ImportPc, RollbackPc
  <2> QED
    BY <2>1, <2>2
<1> QED
  BY <1>1, <1>2, <1>3, <1>3a, <1>4, <1>5, <1>6 DEF ImportInv

\* One that touches nothing but what the process itself remembers.
LEMMA OwnStep ==
  ASSUME ImportInv, NEW p \in Tool, tool[p].pc # "idle",
         UNCHANGED <<table, slow, files>>, UNCHANGED page \/ Reads,
         tool' \in [Tool -> Process], \A q \in Tool \ {p} : tool'[q] = tool[q],
         Fits(tool'[p])
  PROVE  ImportInv'
<1>1. Fits(tool[p])'
  BY DEF Fits, CreateFits, DeleteFits, Timely, Listed, Made, table, files
<1>2. manifest' \in Manifest
  BY DEF ImportInv, ImportTypeOK, files
<1> QED
  BY <1>1, <1>2, FileStep DEF files

LEMMA EndsAs ==
  ASSUME ImportInv, NEW p \in Tool, NEW pc \in {"idle", "succeeded", "ended"}, Ends(p, pc)
  PROVE  /\ tool' \in [Tool -> Process] /\ \A q \in Tool \ {p} : tool'[q] = tool[q]
         /\ tool'[p].pc = pc
<1> DEFINE r == [NoRun EXCEPT !.pc = pc]
<1>1. r \in Process /\ r.pc = pc
  BY NullIsNone DEF Process, Pc
<1> HIDE DEF r
<1>2. tool' = [tool EXCEPT ![p] = r]
  BY DEF Ends, r
<1> QED
  BY <1>1, <1>2, TypesHold

\* A run may end anywhere, without success.
LEMMA EndKeeps ==
  ASSUME ImportInv, NEW p \in Tool, tool[p].pc # "idle", Ends(p, "ended"),
         UNCHANGED <<table, slow, files>>, UNCHANGED page \/ Reads
  PROVE  ImportInv'
BY EndsAs, DoneFits, OwnStep

-----------------------------------------------------------------------------
(* The life of a process. *)

LEMMA StartKeeps ==
  ASSUME ImportInv, NEW p \in Tool, NEW pc \in {"plan", "select"}, Start(p, pc)
  PROVE  ImportInv'
<1> DEFINE r == [NoRun EXCEPT !.pc = pc, !.memory = manifest, !.left = {e.id : e \in manifest.records}]
<1>1. r \in Process /\ r.pc = pc /\ r.memory = manifest /\ r.left = Listed /\ r.chosen = {}
  <2>1. manifest \in Manifest /\ {e.id : e \in manifest.records} \subseteq Id
    BY TypesHold DEF ImportInv, ImportTypeOK, Listed
  <2> QED
    BY <2>1, NullIsNone DEF Process, Pc, NoRun, Listed
<1> HIDE DEF r
<1>2. tool' = [tool EXCEPT ![p] = r] /\ lock = Null /\ lock' = p /\ UNCHANGED <<server, manifest>>
  BY DEF Start, r
<1>3. tool' \in [Tool -> Process] /\ tool'[p] = r /\ \A q \in Tool \ {p} : tool'[q] = tool[q]
  BY <1>1, <1>2, TypesHold
<1>4. \A q \in Tool : tool[q].pc = "idle"
  BY <1>2, NullIsNone DEF ImportInv, Alone
<1>5. ImportTypeOK' /\ Alone'
  BY <1>2, <1>3, <1>4 DEF ImportInv, ImportTypeOK, Alone, server, table
<1>6. Numbered' /\ Unanswered' /\ Accounted' /\ TwiceOnlyUntimely' /\ Tells(page)' /\ Tells(slow)'
  BY <1>2 DEF ImportInv, Numbered, Unanswered, Made, Listed, Accounted, TwiceOnlyUntimely, Tells, server, table
<1>7. ASSUME NEW q \in Tool PROVE Fits(tool[q])'
  <2>1. CASE q = p
    BY <2>1, <1>1, <1>2, <1>3 DEF Fits, CreateFits, DeleteFits, WorkPc, ImportPc, RollbackPc, Listed
  <2>2. CASE q # p
    BY <2>2, <1>3, <1>4 DEF Fits, CreateFits, DeleteFits, WorkPc, ImportPc, RollbackPc
  <2> QED
    BY <2>1, <2>2
<1> QED
  BY <1>5, <1>6, <1>7 DEF ImportInv

LEMMA UnlockKeeps ==
  ASSUME ImportInv, ClearLock \/ \E p \in Tool : Release(p)
  PROVE  ImportInv'
<1>1. /\ \A q \in Tool : tool'[q].pc = "idle"
      /\ tool' \in [Tool -> Process] /\ lock' = Null /\ UNCHANGED <<server, manifest>>
  <2>1. CASE ClearLock
    BY <2>1, TypesHold DEF ClearLock, ImportInv, ImportTypeOK, Alone
  <2>2. CASE \E p \in Tool : Release(p)
    <3>1. PICK p \in Tool : Release(p)
      BY <2>2
    <3>2. tool' = [tool EXCEPT ![p] = NoRun] /\ \A q \in Tool \ {p} : tool[q].pc = "idle"
      BY <3>1, OnlyOne DEF Release
    <3> QED
      BY <3>1, <3>2, NullIsNone, TypesHold DEF Release
  <2> QED
    BY <2>1, <2>2
<1>2. ImportTypeOK' /\ Alone'
  BY <1>1 DEF ImportInv, ImportTypeOK, Alone, server, table
<1>3. Numbered' /\ Unanswered' /\ Accounted' /\ TwiceOnlyUntimely' /\ Tells(page)' /\ Tells(slow)'
  BY <1>1 DEF ImportInv, Numbered, Unanswered, Made, Listed, Accounted, TwiceOnlyUntimely, Tells, server, table
<1>4. \A q \in Tool : Fits(tool[q])'
  BY <1>1 DEF Fits, CreateFits, DeleteFits, WorkPc, ImportPc, RollbackPc
<1> QED
  BY <1>2, <1>3, <1>4 DEF ImportInv

LEMMA CrashKeeps ==
  ASSUME ImportInv, NEW p \in Tool, Crash(p)
  PROVE  ImportInv'
<1>1. /\ tool' = [tool EXCEPT ![p] = NoRun] /\ tool[p].pc # "idle" /\ UNCHANGED <<server, files>>
  BY DEF Crash
<1>2. tool' \in [Tool -> Process] /\ tool'[p].pc = "idle" /\ \A q \in Tool \ {p} : tool'[q] = tool[q]
  BY <1>1, NullIsNone, TypesHold
<1> QED
  BY <1>1, <1>2, DoneFits, OwnStep DEF server

-----------------------------------------------------------------------------
(* The import. *)

LEMMA PlanKeeps ==
  ASSUME ImportInv, NEW p \in Tool, Plan(p)
  PROVE  ImportInv'
<1>1. CASE Ends(p, "ended")
  BY <1>1, EndKeeps DEF Plan
<1>2. CASE tool' = [tool EXCEPT ![p].pc = "next", ![p].todo = Title,
                                ![p].skips = {t \in Title : Found(t)}]
  <2>1. tool[p].pc = "plan" /\ UNCHANGED <<table, slow, files>> /\ Reads
    BY DEF Plan
  <2> DEFINE found == {t \in Title : Found(t)}
             r == [tool[p] EXCEPT !.pc = "next", !.todo = Title, !.skips = found]
  <2>2. tool' = [tool EXCEPT ![p] = r]
    BY <1>2, TypesHold
  <2>3. r \in Process /\ r.pc = "next" /\ r.todo = Title /\ r.memory = tool[p].memory
    <3>1. tool[p] \in Process /\ found \in SUBSET Title
      BY TypesHold
    <3> HIDE DEF found
    <3> QED
      BY <3>1 DEF Process, Pc
  <2> HIDE DEF r
  <2>4. Fits(r)
    BY <2>1, <2>3, TypesHold DEF ImportInv, Fits, CreateFits, DeleteFits, WorkPc, ImportPc, RollbackPc
  <2> QED
    BY <2>1, <2>2, <2>3, <2>4, Becomes, OwnStep
<1> QED
  BY <1>1, <1>2 DEF Plan

LEMMA SkipKeeps ==
  ASSUME ImportInv, NEW p \in Tool, NEW t \in Title, Skip(p, t)
  PROVE  ImportInv'
<1>1. /\ tool[p].pc = "next" /\ t \notin tool[p].memory.pending
      /\ UNCHANGED <<table, slow, files>> /\ (UNCHANGED page \/ Reads)
      /\ tool' = [tool EXCEPT ![p].todo = @ \ {t}, ![p].skips = @ \ {t}]
  BY DEF Skip, Rechecks
<1> DEFINE todo == tool[p].todo \ {t}
           skips == tool[p].skips \ {t}
           r == [tool[p] EXCEPT !.todo = todo, !.skips = skips]
<1>2. tool' = [tool EXCEPT ![p] = r]
  BY <1>1, TypesHold
<1>3. r \in Process /\ r.pc = tool[p].pc /\ r.todo = todo /\ r.memory = tool[p].memory
  <2>1. tool[p] \in Process
    BY TypesHold
  <2>2. todo \in SUBSET Title /\ skips \in SUBSET Title
    BY <2>1 DEF Process
  <2> HIDE DEF todo, skips
  <2> QED
    BY <2>1, <2>2 DEF Process
<1> HIDE DEF r
<1>4. Fits(r)
  <2>1. tool[p].memory = manifest /\ manifest.pending \subseteq todo
    BY <1>1 DEF ImportInv, Fits, CreateFits, WorkPc, ImportPc
  <2> HIDE DEF todo
  <2> QED
    BY <1>1, <1>3, <2>1 DEF Fits, CreateFits, DeleteFits, WorkPc, ImportPc, RollbackPc
<1>5. tool[p].pc # "idle" /\ UNCHANGED <<table, slow, files>> /\ (UNCHANGED page \/ Reads)
  BY <1>1
<1> QED
  BY <1>2, <1>3, <1>4, <1>5, Becomes, OwnStep

LEMMA RefuseKeeps ==
  ASSUME ImportInv, NEW p \in Tool, NEW t \in Title, RefusePending(p, t) \/ RefuseConflict(p, t)
  PROVE  ImportInv'
<1>1. /\ tool[p].pc = "next" /\ Ends(p, "ended")
      /\ UNCHANGED <<table, slow, lock>> /\ (UNCHANGED page \/ Reads)
  BY DEF RefusePending, RefuseConflict, Rechecks, files
<1>2. manifest' = manifest
  BY DEF RefusePending, RefuseConflict, files, ImportInv, Fits, WorkPc, ImportPc
<1> QED
  BY <1>1, <1>2, EndKeeps DEF files

LEMMA AddPendingKeeps ==
  ASSUME ImportInv, NEW p \in Tool, NEW t \in Title, AddPending(p, t)
  PROVE  ImportInv'
<1>1. /\ tool[p].pc = "next" /\ t \in tool[p].todo /\ Matches(t) = {}
      /\ UNCHANGED <<table, slow, lock>> /\ Reads
      /\ manifest' = [tool[p].memory EXCEPT !.pending = @ \cup {t}]
      /\ tool' = [tool EXCEPT ![p].memory = manifest', ![p].pc = "post", ![p].title = t]
  BY DEF AddPending
<1>2. tool[p].memory = manifest /\ manifest.pending \subseteq tool[p].todo
  BY <1>1 DEF ImportInv, Fits, CreateFits, WorkPc, ImportPc
<1>3. /\ manifest' \in Manifest /\ manifest'.records = manifest.records
      /\ manifest'.pending = manifest.pending \cup {t}
  BY <1>1, <1>2 DEF ImportInv, ImportTypeOK, Manifest
<1>4. /\ tool' \in [Tool -> Process] /\ \A q \in Tool \ {p} : tool'[q] = tool[q]
      /\ tool'[p].pc = "post" /\ tool'[p].title = t /\ tool'[p].memory = manifest'
      /\ tool'[p].todo = tool[p].todo
  <2> DEFINE m == manifest'
             r == [tool[p] EXCEPT !.memory = m, !.pc = "post", !.title = t]
  <2>1. m \in Manifest /\ tool' = [tool EXCEPT ![p] = r] /\ tool[p] \in Process
    BY <1>1, <1>3, TypesHold
  <2>2. r \in Process /\ r.pc = "post" /\ r.title = t /\ r.memory = m /\ r.todo = tool[p].todo
    <3> HIDE DEF m
    <3> QED
      BY <2>1 DEF Process, Pc
  <2> HIDE DEF r
  <2> QED
    BY <2>1, <2>2, Becomes
<1>5. Timely(t) = {}
  BY <1>1, ShownTells
<1>6. Fits(tool[p])'
  BY <1>1, <1>2, <1>3, <1>4, <1>5
     DEF Fits, CreateFits, DeleteFits, WorkPc, ImportPc, RollbackPc, Timely, table
<1> QED
  BY <1>1, <1>3, <1>4, <1>6, FileStep

LEMMA RecordCreatedKeeps ==
  ASSUME ImportInv, NEW p \in Tool, RecordCreated(p)
  PROVE  ImportInv'
<1> DEFINE t == tool[p].title
           i == tool[p].id
           n == manifest'
<1>1. /\ tool[p].pc = "record" /\ UNCHANGED <<server, lock>>
      /\ n = [records |-> tool[p].memory.records \cup {[title |-> t, id |-> i]},
              pending |-> tool[p].memory.pending \ {t}]
      /\ tool' = [tool EXCEPT ![p].memory = n, ![p].pc = "next", ![p].todo = @ \ {t},
                              ![p].id = Null, ![p].ticket = Null, ![p].title = Null]
  BY DEF RecordCreated
<1>2. /\ tool[p].memory = manifest /\ manifest.pending \subseteq tool[p].todo /\ t \in manifest.pending
      /\ i \in Id \ Listed /\ i < nextId /\ Timely(t) \subseteq {i}
      /\ rows[i] # Null => rows[i].by = "tool" /\ rows[i].title = t
      /\ \A k \in Ticket : Made(k) => sent[k].id # i
  BY <1>1 DEF ImportInv, Fits, CreateFits, WorkPc, ImportPc
<1>3. t \in Title /\ tool[p] \in Process
  BY <1>2, TypesHold
<1>4. /\ n.records = manifest.records \cup {[title |-> t, id |-> i]}
      /\ n.pending = manifest.pending \ {t} /\ n \in Manifest
  BY <1>1, <1>2, <1>3, TypesHold DEF Manifest
<1>5. /\ tool' \in [Tool -> Process] /\ \A q \in Tool \ {p} : tool'[q] = tool[q]
      /\ tool'[p].pc = "next" /\ tool'[p].todo = tool[p].todo \ {t} /\ tool'[p].memory = n
  <2> DEFINE todo == tool[p].todo \ {t}
             r == [tool[p] EXCEPT !.memory = n, !.pc = "next", !.todo = todo,
                                  !.id = Null, !.ticket = Null, !.title = Null]
  <2>1. tool' = [tool EXCEPT ![p] = r]
    BY <1>1, TypesHold
  <2>2. todo \in SUBSET Title
    BY <1>3 DEF Process
  <2>3. r \in Process /\ r.pc = "next" /\ r.todo = todo /\ r.memory = n
    <3> HIDE DEF n, todo
    <3> QED
      BY <1>3, <1>4, <2>2 DEF Process, Pc
  <2> HIDE DEF r, n
  <2> QED
    BY <2>1, <2>3, Becomes
<1>6. Fits(tool[p])'
  BY <1>1, <1>2, <1>4, <1>5 DEF Fits, CreateFits, DeleteFits, WorkPc, ImportPc, RollbackPc
<1>7. /\ \A e \in n.records \ manifest.records :
            /\ e.id < nextId /\ (rows[e.id] # Null => rows[e.id].by = "tool" /\ rows[e.id].title = e.title)
            /\ \A k \in Ticket : Made(k) => sent[k].id # e.id
      /\ \A e \in manifest.records \ n.records : rows[e.id] = Null
      /\ \A u \in manifest.pending \ n.pending : \A j \in Timely(u) : [title |-> u, id |-> j] \in n.records
  BY <1>2, <1>4
<1> QED
  BY <1>1, <1>4, <1>5, <1>6, <1>7, FileStep DEF server

LEMMA VerifyKeeps ==
  ASSUME ImportInv, NEW p \in Tool, Verify(p)
  PROVE  ImportInv'
<1>1. CASE Ends(p, "ended")
  BY <1>1, EndKeeps DEF Verify
<1>2. CASE Ends(p, "succeeded")
  <2>1. tool[p].pc = "next" /\ tool[p].todo = {} /\ UNCHANGED <<table, slow, files>> /\ Reads
    BY DEF Verify
  <2>2. manifest.pending = {}
    BY <2>1 DEF ImportInv, Fits, CreateFits, ImportPc
  <2>3. Fits(tool'[p])
    BY <1>2, <2>2, EndsAs DEF Fits, CreateFits, DeleteFits, WorkPc, ImportPc, RollbackPc
  <2> QED
    BY <1>2, <2>1, <2>3, EndsAs, OwnStep
<1> QED
  BY <1>1, <1>2 DEF Verify

-----------------------------------------------------------------------------
(* The rollback. *)

LEMMA SelectKeeps ==
  ASSUME ImportInv, NEW p \in Tool, NEW i \in Id, Select(p, i)
  PROVE  ImportInv'
<1>1. CASE Ends(p, "ended")
  BY <1>1, EndKeeps DEF Select, server
<1>2. CASE \E answer \in GetAnswers(i) :
             tool' = [tool EXCEPT ![p].left = @ \ {i},
                                  ![p].chosen = IF answer = "gone" THEN @ ELSE @ \cup {i}]
  <2>0. PICK answer \in GetAnswers(i) :
             tool' = [tool EXCEPT ![p].left = @ \ {i},
                                  ![p].chosen = IF answer = "gone" THEN @ ELSE @ \cup {i}]
    BY <1>2
  <2>1. tool[p].pc = "select" /\ UNCHANGED <<server, files>> /\ i \in tool[p].left
    BY DEF Select
  <2> DEFINE left == tool[p].left \ {i}
             chosen == IF answer = "gone" THEN tool[p].chosen ELSE tool[p].chosen \cup {i}
             r == [tool[p] EXCEPT !.left = left, !.chosen = chosen]
  <2>2. tool' = [tool EXCEPT ![p] = r]
    BY <2>0, TypesHold
  <2>3. r \in Process /\ r.pc = "select" /\ r.left = left /\ r.chosen = chosen /\ r.memory = tool[p].memory
    <3>1. tool[p] \in Process
      BY TypesHold
    <3>2. left \in SUBSET Id /\ chosen \in SUBSET Id
      BY <3>1 DEF Process
    <3> HIDE DEF left, chosen
    <3> QED
      BY <2>1, <3>1, <3>2 DEF Process
  <2> HIDE DEF r
  <2>4. Fits(r)
    BY <2>1, <2>3 DEF ImportInv, Fits, CreateFits, DeleteFits, WorkPc, ImportPc, RollbackPc
  <2> QED
    BY <2>1, <2>2, <2>3, <2>4, Becomes, OwnStep DEF server
<1> QED
  BY <1>1, <1>2 DEF Select

LEMMA CheckHistoryKeeps ==
  ASSUME ImportInv, NEW p \in Tool, CheckHistory(p)
  PROVE  ImportInv'
<1>1. CASE Ends(p, "ended")
  BY <1>1, EndKeeps DEF CheckHistory, server
<1>2. CASE tool' = [tool EXCEPT ![p].pc = "delete",
                                ![p].chosen = {i \in @ : ~(rows[i] # Null /\ rows[i].history)}]
  <2>1. tool[p].pc = "select" /\ UNCHANGED <<server, files>>
    BY DEF CheckHistory
  <2> DEFINE chosen == {i \in tool[p].chosen : ~(rows[i] # Null /\ rows[i].history)}
             r == [tool[p] EXCEPT !.pc = "delete", !.chosen = chosen]
  <2>2. tool' = [tool EXCEPT ![p] = r]
    BY <1>2, TypesHold
  <2>3. r \in Process /\ r.pc = "delete" /\ r.chosen = chosen /\ r.memory = tool[p].memory
    <3>1. tool[p] \in Process
      BY TypesHold
    <3>2. chosen \in SUBSET Id
      BY <3>1 DEF Process
    <3> HIDE DEF chosen
    <3> QED
      BY <3>1, <3>2 DEF Process, Pc
  <2> HIDE DEF r
  <2>4. Fits(r)
    BY <2>1, <2>3 DEF ImportInv, Fits, CreateFits, DeleteFits, WorkPc, ImportPc, RollbackPc
  <2> QED
    BY <2>1, <2>2, <2>3, <2>4, Becomes, OwnStep DEF server
<1> QED
  BY <1>1, <1>2 DEF CheckHistory

LEMMA ForgetKeeps ==
  ASSUME ImportInv, NEW p \in Tool, Forget(p)
  PROVE  ImportInv'
<1> DEFINE i == tool[p].id
           n == manifest'
<1>1. /\ tool[p].pc = "forget" /\ UNCHANGED <<server, lock>>
      /\ n = [tool[p].memory EXCEPT !.records = {e \in @ : e.id # i}]
      /\ tool' = [tool EXCEPT ![p].memory = n, ![p].pc = "delete", ![p].id = Null, ![p].ticket = Null]
  BY DEF Forget
<1>2. /\ tool[p].memory = manifest /\ rows[i] = Null /\ tool[p].chosen \subseteq Listed \ {i}
  BY <1>1 DEF ImportInv, Fits, DeleteFits, WorkPc, RollbackPc
<1>3. /\ n.records = {e \in manifest.records : e.id # i} /\ n.pending = manifest.pending /\ n \in Manifest
  BY <1>1, <1>2 DEF ImportInv, ImportTypeOK, Manifest
<1>4. /\ tool' \in [Tool -> Process] /\ \A q \in Tool \ {p} : tool'[q] = tool[q]
      /\ tool'[p].pc = "delete" /\ tool'[p].chosen = tool[p].chosen /\ tool'[p].memory = n
  <2> DEFINE r == [tool[p] EXCEPT !.memory = n, !.pc = "delete", !.id = Null, !.ticket = Null]
  <2>1. tool' = [tool EXCEPT ![p] = r] /\ tool[p] \in Process
    BY <1>1, TypesHold
  <2>2. r \in Process /\ r.pc = "delete" /\ r.chosen = tool[p].chosen /\ r.memory = n
    <3> HIDE DEF n
    <3> QED
      BY <1>3, <2>1 DEF Process, Pc
  <2> HIDE DEF r, n
  <2> QED
    BY <2>1, <2>2, Becomes
<1>5. Fits(tool[p])'
  <2>1. tool[p].chosen \subseteq {e.id : e \in n.records}
    BY <1>2, <1>3 DEF Listed
  <2> QED
    BY <1>4, <2>1 DEF Fits, CreateFits, DeleteFits, WorkPc, ImportPc, RollbackPc, Listed
<1>6. /\ n.records \subseteq manifest.records
      /\ \A e \in manifest.records \ n.records : rows[e.id] = Null
  BY <1>2, <1>3
<1> QED
  BY <1>1, <1>3, <1>4, <1>5, <1>6, FileStep DEF server

-----------------------------------------------------------------------------
(* The server and the network. *)

LEMMA SendKeeps ==
  ASSUME ImportInv, NEW p \in Tool, Post(p) \/ \E i \in Id : Delete(p, i)
  PROVE  ImportInv'
<1>1. tool[p] \in Process
  BY TypesHold
<1>2. CASE Post(p)
  <2>1. PICK k \in Ticket :
           /\ sent[k] = Null /\ sent' = [sent EXCEPT ![k] = [kind |-> "create", title |-> tool[p].title]]
           /\ tool' = [tool EXCEPT ![p] = [[tool[p] EXCEPT !.pc = "await"] EXCEPT !.ticket = k]]
    BY <1>2 DEF Post, Send
  <2> DEFINE call == [kind |-> "create", title |-> tool[p].title]
             r == [[tool[p] EXCEPT !.pc = "await"] EXCEPT !.ticket = k]
  <2>2. tool[p].pc = "post" /\ UNCHANGED <<rows, nextId, page, slow, files>>
    BY <1>2 DEF Post
  <2>3. /\ tool[p].memory = manifest /\ manifest.pending \subseteq tool[p].todo
        /\ tool[p].title \in manifest.pending /\ Timely(tool[p].title) = {}
    BY <2>2 DEF ImportInv, Fits, CreateFits, WorkPc, ImportPc
  <2>4. tool[p].title \in Title /\ call \in Call /\ call.kind = "create" /\ call.title = tool[p].title
    BY <2>3, TypesHold DEF Call
  <2>5. /\ r \in Process /\ r.pc = "await" /\ r.ticket = k /\ r.title = tool[p].title
        /\ r.memory = tool[p].memory /\ r.todo = tool[p].todo
    BY <1>1 DEF Process, Pc
  <2> HIDE DEF call, r
  <2>6. sent' = [sent EXCEPT ![k] = call] /\ tool' = [tool EXCEPT ![p] = r]
    BY <2>1 DEF call, r
  <2>7. sent' \in [Ticket -> Call \cup {Null}] /\ sent'[k] = call
        /\ \A l \in Ticket \ {k} : sent'[l] = sent[l]
    BY <2>4, <2>6, TypesHold
  <2>8. tool' \in [Tool -> Process] /\ tool'[p] = r /\ \A q \in Tool \ {p} : tool'[q] = tool[q]
    BY <2>5, <2>6, Becomes
  <2>9. ImportTypeOK' /\ Alone'
    BY <2>2, <2>5, <2>7, <2>8, OnlyOne DEF ImportInv, ImportTypeOK, Alone, files
  <2>10. Numbered' /\ Accounted' /\ TwiceOnlyUntimely' /\ Tells(page)' /\ Tells(slow)'
    BY <2>2, <2>4, <2>7 DEF ImportInv, Numbered, Accounted, TwiceOnlyUntimely, Tells, files
  <2>10a. /\ \A l \in Ticket : Made(l)' => Made(l) /\ sent'[l] = sent[l]
          /\ Unanswered'
    BY <2>2, <2>4, <2>7 DEF ImportInv, Unanswered, Made, Listed, files
  <2>11. ASSUME NEW q \in Tool PROVE Fits(tool[q])'
    <3>1. CASE q = p
      BY <3>1, <2>2, <2>3, <2>4, <2>5, <2>7, <2>8
         DEF Fits, CreateFits, DeleteFits, WorkPc, ImportPc, RollbackPc, Timely, files
    <3>2. CASE q # p
      BY <3>2, <2>2, <2>8, OnlyOne DEF Fits, CreateFits, DeleteFits, WorkPc, ImportPc, RollbackPc
    <3> QED
      BY <3>1, <3>2
  <2> QED
    BY <2>9, <2>10, <2>10a, <2>11 DEF ImportInv
<1>3. CASE \E i \in Id : Delete(p, i)
  <2>1. PICK i \in Id : Delete(p, i)
    BY <1>3
  <2> DEFINE call == [kind |-> "delete", id |-> i]
             chosen == tool[p].chosen \ {i}
  <2>2. PICK k \in Ticket :
           /\ sent[k] = Null /\ sent' = [sent EXCEPT ![k] = call]
           /\ tool' = [tool EXCEPT ![p] = [[tool[p] EXCEPT !.pc = "awaitDelete", !.id = i, !.chosen = chosen]
                                             EXCEPT !.ticket = k]]
    BY <2>1 DEF Delete, Send
  <2> DEFINE r == [[tool[p] EXCEPT !.pc = "awaitDelete", !.id = i, !.chosen = chosen] EXCEPT !.ticket = k]
  <2>3. tool[p].pc = "delete" /\ i \in tool[p].chosen /\ UNCHANGED <<rows, nextId, page, slow, files>>
    BY <2>1 DEF Delete
  <2>4. tool[p].memory = manifest /\ i \in Listed /\ tool[p].chosen \subseteq Listed
    BY <2>3 DEF ImportInv, Fits, DeleteFits, WorkPc, RollbackPc
  <2>5. call \in Call /\ call.kind = "delete" /\ call.id = i
    BY DEF Call
  <2>6. /\ r \in Process /\ r.pc = "awaitDelete" /\ r.ticket = k /\ r.id = i
        /\ r.memory = tool[p].memory /\ r.chosen = chosen
    <3>1. chosen \in SUBSET Id
      BY <1>1 DEF Process
    <3> HIDE DEF chosen
    <3> QED
      BY <1>1, <3>1 DEF Process, Pc
  <2> HIDE DEF call, r
  <2>7. sent' = [sent EXCEPT ![k] = call] /\ tool' = [tool EXCEPT ![p] = r]
    BY <2>2 DEF r
  <2>8. sent' \in [Ticket -> Call \cup {Null}] /\ sent'[k] = call
        /\ \A l \in Ticket \ {k} : sent'[l] = sent[l]
    BY <2>5, <2>7, TypesHold
  <2>9. tool' \in [Tool -> Process] /\ tool'[p] = r /\ \A q \in Tool \ {p} : tool'[q] = tool[q]
    BY <2>6, <2>7, Becomes
  <2>10. ImportTypeOK' /\ Alone'
    BY <2>3, <2>6, <2>8, <2>9, OnlyOne DEF ImportInv, ImportTypeOK, Alone, files
  <2>11. Accounted' /\ TwiceOnlyUntimely' /\ Tells(page)' /\ Tells(slow)'
    BY <2>3 DEF ImportInv, Accounted, TwiceOnlyUntimely, Tells, files
  <2>11a. Unanswered'
    BY <2>3, <2>5, <2>8 DEF ImportInv, Unanswered, Made, Listed, files
  <2>12. Numbered'
    <3>1. i < nextId /\ (rows[i] # Null => rows[i].by = "tool"
                                           /\ [title |-> rows[i].title, id |-> i] \in manifest.records)
      BY <2>4, TypesHold DEF ImportInv, Numbered, Listed
    <3> QED
      BY <2>3, <2>5, <2>8, <3>1 DEF ImportInv, Numbered, files
  <2>13. ASSUME NEW q \in Tool PROVE Fits(tool[q])'
    <3>1. CASE q = p
      BY <3>1, <2>3, <2>4, <2>5, <2>6, <2>8, <2>9
         DEF Fits, CreateFits, DeleteFits, WorkPc, ImportPc, RollbackPc, Listed, files
    <3>2. CASE q # p
      BY <3>2, <2>3, <2>9, OnlyOne DEF Fits, CreateFits, DeleteFits, WorkPc, ImportPc, RollbackPc
    <3> QED
      BY <3>1, <3>2
  <2> QED
    BY <2>10, <2>11, <2>11a, <2>12, <2>13 DEF ImportInv
<1> QED
  BY <1>2, <1>3

\* An answer finds its sender waiting, or changes no process.
LEMMA Answered ==
  ASSUME ImportInv, NEW k \in Ticket, NEW pc \in Pc \ {"idle"}, NEW i \in Id, Answer(k, pc, i)
  PROVE  /\ tool' \in [Tool -> Process]
         /\ \A q \in Tool : \/ tool'[q] = tool[q]
                            \/ /\ Awaits(q, k) /\ tool'[q].pc = pc /\ tool'[q].id = i
                               /\ tool'[q].memory = tool[q].memory /\ tool'[q].todo = tool[q].todo
                               /\ tool'[q].chosen = tool[q].chosen /\ tool'[q].title = tool[q].title
         /\ \A q \in Tool : tool[q].pc = "idle" => tool'[q] = tool[q]
<1>1. CASE UNCHANGED tool
  BY <1>1, TypesHold
<1>2. CASE \E p \in Tool : Awaits(p, k) /\ tool' = [tool EXCEPT ![p].pc = pc, ![p].id = i]
  <2>1. PICK p \in Tool : Awaits(p, k) /\ tool' = [tool EXCEPT ![p].pc = pc, ![p].id = i]
    BY <1>2
  <2> DEFINE r == [tool[p] EXCEPT !.pc = pc, !.id = i]
  <2>2. tool' = [tool EXCEPT ![p] = r] /\ tool[p] \in Process
    BY <2>1, TypesHold
  <2>3. /\ r \in Process /\ r.pc = pc /\ r.id = i /\ r.memory = tool[p].memory
        /\ r.todo = tool[p].todo /\ r.chosen = tool[p].chosen /\ r.title = tool[p].title
    BY <2>2 DEF Process
  <2> HIDE DEF r
  <2>4. tool' \in [Tool -> Process] /\ tool'[p] = r /\ \A q \in Tool \ {p} : tool'[q] = tool[q]
    BY <2>2, <2>3, Becomes
  <2>5. tool[p].pc # "idle"
    BY <2>1 DEF Awaits
  <2>6. Awaits(p, k)
    BY <2>1
  <2> QED
    BY <2>3, <2>4, <2>5, <2>6
<1> QED
  BY <1>1, <1>2 DEF Answer

\* Nobody who waits is anybody but the one process that runs.
LEMMA AwaitsFits ==
  ASSUME ImportInv, NEW q \in Tool, NEW k \in Ticket, Awaits(q, k), sent[k] # Null
  PROVE  /\ lock = q /\ tool[q].memory = manifest
         /\ sent[k].kind \in {"create", "created"} =>
               /\ tool[q].pc = "await" /\ sent[k].title = tool[q].title
               /\ Timely(tool[q].title) = {} /\ tool[q].title \in manifest.pending
               /\ manifest.pending \subseteq tool[q].todo
         /\ sent[k].kind \in {"delete", "deleted"} =>
               /\ tool[q].pc = "awaitDelete" /\ sent[k].id = tool[q].id
               /\ tool[q].chosen \subseteq Listed /\ tool[q].id \in Listed \ tool[q].chosen
<1>1. /\ Fits(tool[q]) /\ tool[q].pc \in {"await", "awaitDelete"} /\ tool[q].ticket = k
      /\ tool[q].pc # "idle"
  BY DEF ImportInv, Awaits
<1>2. lock = q
  BY <1>1, OnlyOne
<1> QED
  BY <1>1, <1>2 DEF Fits, CreateFits, DeleteFits, WorkPc, ImportPc, RollbackPc

\* A listing that is kept tells what it did, as long as the rows there were only
\* go, keep their titles and do not become timely, and ids are given out upwards.
LEMMA ListKept ==
  ASSUME ImportInv, NEW list \in Listing \cup {Null}, list # Null, Tells(list),
         nextId' \in Nat, nextId <= nextId',
         \A i \in Id : i < nextId /\ rows'[i] # Null => rows[i] # Null /\ rows'[i].title = rows[i].title,
         \A i \in Id : rows'[i] # Null /\ rows'[i].timely => rows[i] # Null /\ rows[i].timely
  PROVE  /\ \A e \in list : e.id < nextId' /\ (rows'[e.id] # Null => rows'[e.id].title = e.title)
         /\ \A i \in Id : (rows'[i] # Null /\ rows'[i].timely) => \E e \in list : e.id = i
<1>1. ASSUME NEW e \in list
      PROVE  e.id < nextId' /\ (rows'[e.id] # Null => rows'[e.id].title = e.title)
  <2>1. e.id \in Id /\ e.id < nextId /\ (rows[e.id] # Null => rows[e.id].title = e.title)
    BY DEF Listing, Tells
  <2>2. e.id < nextId'
    BY <2>1, TypesHold
  <2> QED
    BY <2>1, <2>2
<1> QED
  BY <1>1 DEF Tells

\* A new row, whoever makes it, is nobody's answer yet: it takes an id that
\* nothing names, and it is not timely.
LEMMA NewRow ==
  ASSUME ImportInv, NEW n \in Id, n = nextId, NEW row \in Row, ~row.timely,
         rows' = [rows EXCEPT ![n] = row], nextId' = n + 1,
         UNCHANGED <<page, slow, files, tool>>,
         sent' \in [Ticket -> Call \cup {Null}],
         \A l \in Ticket : \/ sent'[l] = sent[l]
                           \/ /\ sent[l] # Null /\ sent[l].kind = "create"
                              /\ sent'[l].kind = "created" /\ sent'[l].id = n
                              /\ sent'[l].title = sent[l].title
                              /\ row.by = "tool" /\ row.title = sent[l].title
                              /\ \A m \in Ticket \ {l} : sent'[m] = sent[m]
  PROVE  ImportInv'
<1>1. rows' \in [Id -> Row \cup {Null}] /\ rows'[n] = row /\ \A i \in Id \ {n} : rows'[i] = rows[i]
  BY TypesHold
<1>2. \A i \in Id : i < nextId => rows'[i] = rows[i] /\ i < nextId' /\ i # n
  <2>1. n \in Nat /\ Id \subseteq Nat
    BY TypesHold
  <2>2. \A i \in Id : i < n => i # n /\ i < n + 1
    BY <2>1
  <2> QED
    BY <1>1, <2>2
<1>3. ImportTypeOK' /\ Alone'
  <2>1. nextId' \in 1 .. MaxId + 1
    BY ImportAssumption DEF Id
  <2> QED
    BY <1>1, <2>1 DEF ImportInv, ImportTypeOK, Alone, files
<1>4. n < nextId' /\ manifest' = manifest /\ Listed' = Listed /\ n \in Nat
  BY TypesHold DEF files, Listed
\* What is given out already is named as before.
<1>5. Numbered'
  <2>1. \A i \in Id : rows'[i] # Null => i < nextId'
    BY <1>1, <1>2, <1>4 DEF ImportInv, Numbered
  <2>2. ASSUME NEW e \in manifest.records
        PROVE  e.id < nextId' /\ (rows'[e.id] # Null => rows'[e.id].by = "tool" /\ rows'[e.id].title = e.title)
    <3>1. e.id \in Id /\ e.id < nextId
      BY TypesHold DEF ImportInv, Numbered
    <3>2. rows'[e.id] = rows[e.id] /\ e.id < nextId'
      BY <1>2, <3>1
    <3> QED
      BY <3>2 DEF ImportInv, Numbered
  <2>3. ASSUME NEW l \in Ticket, sent'[l] # Null, sent'[l].kind \in {"delete", "deleted"}
        PROVE  /\ sent'[l] = sent[l] /\ sent[l].id < nextId'
               /\ rows'[sent[l].id] = rows[sent[l].id]
    <3>1. sent'[l] = sent[l] /\ sent[l].id \in Id /\ sent[l].id < nextId
      BY <2>3, TypesHold DEF ImportInv, Numbered, Call
    <3> QED
      BY <1>2, <3>1
  <2>4. ASSUME NEW l \in Ticket, sent'[l] # Null, sent'[l].kind = "delete"
        PROVE  /\ sent'[l].id < nextId'
               /\ rows'[sent'[l].id] # Null =>
                     /\ rows'[sent'[l].id].by = "tool"
                     /\ [title |-> rows'[sent'[l].id].title, id |-> sent'[l].id] \in manifest.records
    BY <2>3, <2>4 DEF ImportInv, Numbered
  <2>5. ASSUME NEW l \in Ticket, sent'[l] # Null, sent'[l].kind = "deleted"
        PROVE  sent'[l].id < nextId' /\ rows'[sent'[l].id] = Null
    BY <2>3, <2>5 DEF ImportInv, Numbered
  <2> QED
    BY <1>4, <2>1, <2>2, <2>4, <2>5 DEF Numbered
<1>6. ASSUME NEW l \in Ticket, Made(l)
      PROVE  sent'[l] = sent[l] /\ sent[l].id \in Id /\ sent[l].id < nextId /\ rows'[sent[l].id] = rows[sent[l].id]
  <2>1. sent'[l] = sent[l] /\ sent[l].id \in Id /\ sent[l].id < nextId
    BY <1>6, TypesHold DEF Made, ImportInv, Unanswered, Call
  <2> QED
    BY <1>2, <2>1
<1>7. ASSUME NEW l \in Ticket, Made(l)', ~Made(l)
      PROVE  /\ sent'[l].id = n /\ rows'[n] = row /\ row.by = "tool" /\ row.title = sent'[l].title
             /\ \A m \in Ticket \ {l} : sent'[m] = sent[m]
  BY <1>1, <1>7 DEF Made
<1>8. n \notin Listed
  <2>1. \A e \in manifest.records : e.id \in Id /\ e.id < nextId
    BY TypesHold DEF ImportInv, Numbered
  <2> QED
    BY <1>2, <2>1 DEF Listed
<1>9. Unanswered'
  <2>1. ASSUME NEW l \in Ticket, Made(l)'
        PROVE  /\ sent'[l].id < nextId' /\ sent'[l].id \notin Listed
               /\ rows'[sent'[l].id] # Null => /\ rows'[sent'[l].id].by = "tool" /\ ~rows'[sent'[l].id].timely
                                               /\ rows'[sent'[l].id].title = sent'[l].title
    <3>1. CASE Made(l)
      <4>1. sent'[l] = sent[l] /\ rows'[sent[l].id] = rows[sent[l].id] /\ sent[l].id < nextId'
        BY <1>2, <1>6, <3>1
      <4> QED
        BY <3>1, <4>1 DEF ImportInv, Unanswered
    <3>2. CASE ~Made(l)
      BY <1>4, <1>7, <1>8, <2>1, <3>2
    <3> QED
      BY <3>1, <3>2
  <2>2. ASSUME NEW l \in Ticket, NEW m \in Ticket, Made(l)', Made(m)', sent'[l].id = sent'[m].id
        PROVE  l = m
    <3>1. CASE Made(l) /\ Made(m)
      BY <1>6, <2>2, <3>1 DEF ImportInv, Unanswered
    <3>2. CASE ~Made(l)
      <4>1. Made(m) => sent'[m].id # n
        BY <1>2, <1>6
      <4>2. m # l => Made(m)
        BY <1>7, <2>2, <3>2 DEF Made
      <4> QED
        BY <1>7, <2>2, <3>2, <4>1, <4>2
    <3>3. CASE ~Made(m)
      <4>1. Made(l) => sent'[l].id # n
        BY <1>2, <1>6
      <4>2. m # l => Made(l)
        BY <1>7, <2>2, <3>3 DEF Made
      <4> QED
        BY <1>7, <2>2, <3>3, <4>1, <4>2
    <3> QED
      BY <3>1, <3>2, <3>3
  <2> QED
    BY <1>4, <2>1, <2>2 DEF Unanswered
<1>10. Accounted' /\ TwiceOnlyUntimely'
  BY <1>1, <1>4 DEF ImportInv, Accounted, TwiceOnlyUntimely
<1>11. Tells(page)' /\ Tells(slow)'
  <2>1. /\ nextId' \in Nat /\ nextId <= nextId' /\ page' = page /\ slow' = slow
        /\ \A i \in Id : i < nextId /\ rows'[i] # Null =>
              rows[i] # Null /\ rows'[i].title = rows[i].title
        /\ \A i \in Id : rows'[i] # Null /\ rows'[i].timely => rows[i] # Null /\ rows[i].timely
    BY <1>1, <1>2, TypesHold
  <2> QED
    BY <2>1, ListKept, TypesHold DEF ImportInv, Tells
<1>12. \A u : Timely(u)' \subseteq Timely(u)
  BY <1>1 DEF Timely
<1>13. ASSUME NEW q \in Tool PROVE Fits(tool[q])'
  <2>1. Fits(tool[q]) /\ UNCHANGED <<manifest, Listed, tool>>
    BY <1>4 DEF ImportInv
  <2>2. CreateFits(tool[q])'
    <3>1. tool[q].pc = "record" =>
             /\ rows'[tool[q].id] = rows[tool[q].id] /\ tool[q].id < nextId'
             /\ \A k \in Ticket : Made(k)' => sent'[k].id # tool[q].id
      <4> SUFFICES ASSUME tool[q].pc = "record"
                   PROVE  /\ rows'[tool[q].id] = rows[tool[q].id] /\ tool[q].id < nextId'
                          /\ \A k \in Ticket : Made(k)' => sent'[k].id # tool[q].id
        OBVIOUS
      <4>1. tool[q].id \in Id /\ tool[q].id < nextId /\ \A k \in Ticket : Made(k) => sent[k].id # tool[q].id
        BY <2>1 DEF Fits, CreateFits
      <4> QED
        BY <1>2, <1>6, <1>7, <4>1
    <3>2. tool[q].pc = "await" /\ sent'[tool[q].ticket] # Null =>
             /\ sent[tool[q].ticket] # Null
             /\ sent'[tool[q].ticket].kind \in {"create", "created"}
             /\ sent'[tool[q].ticket].title = sent[tool[q].ticket].title
      BY <2>1 DEF Fits, CreateFits
    <3> QED
      BY <1>12, <2>1, <3>1, <3>2 DEF Fits, CreateFits
  <2>3. DeleteFits(tool[q])'
    <3>1. tool[q].pc = "forget" => rows'[tool[q].id] = Null
      <4> SUFFICES ASSUME tool[q].pc = "forget" PROVE rows'[tool[q].id] = Null
        OBVIOUS
      <4>1. tool[q].id \in Listed /\ rows[tool[q].id] = Null
        BY <2>1 DEF Fits, DeleteFits
      <4>2. tool[q].id \in Id /\ tool[q].id < nextId
        BY <4>1, TypesHold DEF ImportInv, Numbered, Listed
      <4> QED
        BY <1>2, <4>1, <4>2
    <3>2. tool[q].pc = "awaitDelete" /\ sent'[tool[q].ticket] # Null =>
             sent'[tool[q].ticket] = sent[tool[q].ticket]
      BY <2>1 DEF Fits, DeleteFits
    <3> QED
      BY <2>1, <3>1, <3>2 DEF Fits, DeleteFits
  <2> QED
    BY <2>1, <2>2, <2>3 DEF Fits
<1> QED
  BY <1>3, <1>5, <1>9, <1>10, <1>11, <1>13 DEF ImportInv

LEMMA CreateKeeps ==
  ASSUME ImportInv, NEW k \in Ticket, Create(k)
  PROVE  ImportInv'
<1>0. PICK n, t : n = nextId /\ t = sent[k].title
  OBVIOUS
<1> DEFINE row == [title |-> t, exact |-> TRUE, history |-> FALSE, by |-> "tool", timely |-> FALSE]
           call == [kind |-> "created", title |-> t, id |-> n]
<1>1. /\ sent[k] # Null /\ sent[k].kind = "create" /\ n \in Id
      /\ rows' = [rows EXCEPT ![n] = row] /\ nextId' = n + 1
      /\ sent' = [sent EXCEPT ![k] = call] /\ UNCHANGED <<page, slow, files, tool>>
  BY <1>0 DEF Create
<1>2. t \in Title
  BY <1>0, <1>1, TypesHold DEF Call
<1>3. /\ row \in Row /\ row.title = t /\ row.by = "tool" /\ ~row.timely
      /\ call \in Call /\ call.kind = "created" /\ call.title = t /\ call.id = n
  BY <1>1, <1>2 DEF Row, Call
<1> HIDE DEF row, call
<1>5. /\ sent' \in [Ticket -> Call \cup {Null}] /\ sent'[k] = call
      /\ \A l \in Ticket \ {k} : sent'[l] = sent[l]
  BY <1>1, <1>3, TypesHold
<1>6. \A l \in Ticket : \/ sent'[l] = sent[l]
                       \/ /\ sent[l] # Null /\ sent[l].kind = "create"
                          /\ sent'[l].kind = "created" /\ sent'[l].id = n
                          /\ sent'[l].title = sent[l].title
                          /\ row.by = "tool" /\ row.title = sent[l].title
                          /\ \A m \in Ticket \ {l} : sent'[m] = sent[m]
  <2> SUFFICES ASSUME NEW l \in Ticket, sent'[l] # sent[l]
               PROVE  /\ sent[l] # Null /\ sent[l].kind = "create"
                      /\ sent'[l].kind = "created" /\ sent'[l].id = n
                      /\ sent'[l].title = sent[l].title
                      /\ row.by = "tool" /\ row.title = sent[l].title
                      /\ \A m \in Ticket \ {l} : sent'[m] = sent[m]
    OBVIOUS
  <2>1. l = k
    BY <1>5
  <2> QED
    BY <1>0, <1>1, <1>3, <1>5, <2>1
<1> QED
  BY <1>0, <1>1, <1>3, <1>5, <1>6, NewRow

\* What goes takes nothing with it that is claimed: a step that only removes rows,
\* changes the fields that edits may, and delivers or loses requests.
LEMMA RowsStep ==
  ASSUME ImportInv, UNCHANGED <<nextId, slow, files>>, page' \in {page, Null},
         rows' \in [Id -> Row \cup {Null}], sent' \in [Ticket -> Call \cup {Null}],
         \A i \in Id : rows'[i] # Null =>
            /\ rows[i] # Null /\ rows'[i].title = rows[i].title
            /\ rows'[i].by = rows[i].by /\ rows'[i].timely = rows[i].timely,
         \A k \in Ticket : sent'[k] # Null =>
            \/ sent'[k] = sent[k]
            \/ /\ sent[k] # Null /\ sent[k].kind = "delete"
               /\ sent'[k].kind = "deleted" /\ sent'[k].id = sent[k].id /\ rows'[sent[k].id] = Null,
         tool' \in [Tool -> Process],
         \A q \in Tool : tool[q].pc = "idle" => tool'[q].pc = "idle",
         \A q \in Tool : tool'[q] = tool[q] \/ Fits(tool[q])'
  PROVE  ImportInv'
<1>1. ImportTypeOK' /\ Alone'
  BY TypesHold DEF ImportInv, ImportTypeOK, Alone, files
<1>2. \A l \in Ticket : Made(l)' => Made(l) /\ sent'[l] = sent[l] /\ sent[l].id \in Id
  BY TypesHold DEF Made, Call
<1>3. Numbered'
  <2>1. \A i \in Id : rows'[i] # Null => i < nextId'
    BY DEF ImportInv, Numbered
  <2>2. \A e \in manifest'.records :
          e.id < nextId' /\ (rows'[e.id] # Null => rows'[e.id].by = "tool" /\ rows'[e.id].title = e.title)
    BY TypesHold DEF ImportInv, Numbered, files
  <2>3. ASSUME NEW l \in Ticket, sent'[l] # Null, sent'[l].kind = "delete"
        PROVE  /\ sent'[l].id < nextId'
               /\ rows'[sent'[l].id] # Null =>
                     /\ rows'[sent'[l].id].by = "tool"
                     /\ [title |-> rows'[sent'[l].id].title, id |-> sent'[l].id] \in manifest'.records
    <3>1. sent'[l] = sent[l] /\ sent[l].id \in Id /\ manifest' = manifest
      BY <2>3, TypesHold DEF Call, files
    <3>2. /\ sent[l].id < nextId
          /\ rows[sent[l].id] # Null =>
                /\ rows[sent[l].id].by = "tool"
                /\ [title |-> rows[sent[l].id].title, id |-> sent[l].id] \in manifest.records
      BY <2>3, <3>1 DEF ImportInv, Numbered
    <3> QED
      BY <3>1, <3>2
  <2>4. ASSUME NEW l \in Ticket, sent'[l] # Null, sent'[l].kind = "deleted"
        PROVE  sent'[l].id < nextId' /\ rows'[sent'[l].id] = Null
    <3>1. CASE sent'[l] = sent[l]
      <4>1. sent[l].id \in Id /\ sent[l].id < nextId /\ rows[sent[l].id] = Null
        BY <2>4, <3>1, TypesHold DEF ImportInv, Numbered, Call
      <4> QED
        BY <3>1, <4>1
    <3>2. CASE sent'[l] # sent[l]
      BY <2>4, <3>2 DEF ImportInv, Numbered
    <3> QED
      BY <3>1, <3>2
  <2> QED
    BY <2>1, <2>2, <2>3, <2>4 DEF Numbered
<1>4. Unanswered'
  <2>1. manifest' = manifest /\ Listed' = Listed
    BY DEF files, Listed
  <2>2. ASSUME NEW l \in Ticket, Made(l)'
        PROVE  /\ sent'[l].id < nextId' /\ sent'[l].id \notin Listed
               /\ rows'[sent'[l].id] # Null => /\ rows'[sent'[l].id].by = "tool" /\ ~rows'[sent'[l].id].timely
                                               /\ rows'[sent'[l].id].title = sent'[l].title
    BY <1>2, <2>2 DEF ImportInv, Unanswered
  <2>3. \A l, m \in Ticket : Made(l)' /\ Made(m)' /\ sent'[l].id = sent'[m].id => l = m
    BY <1>2 DEF ImportInv, Unanswered
  <2> QED
    BY <2>1, <2>2, <2>3 DEF Unanswered
<1>5. Accounted' /\ TwiceOnlyUntimely'
  BY DEF ImportInv, Accounted, TwiceOnlyUntimely, files
<1>6. Tells(page)' /\ Tells(slow)'
  <2>1. /\ nextId' \in Nat /\ nextId <= nextId' /\ slow' = slow /\ (page' = page \/ page' = Null)
        /\ \A i \in Id : i < nextId /\ rows'[i] # Null =>
              rows[i] # Null /\ rows'[i].title = rows[i].title
        /\ \A i \in Id : rows'[i] # Null /\ rows'[i].timely => rows[i] # Null /\ rows[i].timely
    BY TypesHold
  <2> QED
    BY <2>1, ListKept, TypesHold DEF ImportInv, Tells
<1>7. \A u : Timely(u)' \subseteq Timely(u)
  BY DEF Timely
<1>8. ASSUME NEW q \in Tool, tool'[q] = tool[q] PROVE Fits(tool[q])'
  <2>1. Fits(tool[q]) /\ UNCHANGED <<manifest, nextId, Listed>>
    BY DEF ImportInv, files, Listed
  <2>2. CreateFits(tool[q])'
    <3>1. tool[q].pc = "record" /\ rows'[tool[q].id] # Null =>
             rows'[tool[q].id].by = "tool" /\ rows'[tool[q].id].title = tool[q].title
      BY <2>1 DEF Fits, CreateFits
    <3>2. tool[q].pc = "record" => \A k \in Ticket : Made(k)' => sent'[k].id # tool[q].id
      BY <1>2, <2>1 DEF Fits, CreateFits
    <3>3. tool[q].pc = "await" /\ sent'[tool[q].ticket] # Null => sent'[tool[q].ticket] = sent[tool[q].ticket]
      BY <2>1 DEF Fits, CreateFits
    <3> QED
      BY <1>7, <1>8, <2>1, <3>1, <3>2, <3>3 DEF Fits, CreateFits
  <2>3. DeleteFits(tool[q])'
    <3>1. tool[q].pc = "forget" => rows'[tool[q].id] = Null
      BY <2>1, TypesHold DEF Fits, DeleteFits
    <3>2. tool[q].pc = "awaitDelete" /\ sent'[tool[q].ticket] # Null =>
             /\ sent'[tool[q].ticket].kind \in {"delete", "deleted"}
             /\ sent'[tool[q].ticket].id = sent[tool[q].ticket].id /\ sent[tool[q].ticket] # Null
      BY <2>1 DEF Fits, DeleteFits
    <3> QED
      BY <1>8, <2>1, <3>1, <3>2 DEF Fits, DeleteFits
  <2> QED
    BY <1>8, <2>1, <2>2, <2>3 DEF Fits
<1> QED
  BY <1>1, <1>3, <1>4, <1>5, <1>6, <1>8 DEF ImportInv

LEMMA RemoveKeeps ==
  ASSUME ImportInv, NEW k \in Ticket, Remove(k)
  PROVE  ImportInv'
<1>1. PICK i : i = sent[k].id
  OBVIOUS
<1> DEFINE call == [kind |-> "deleted", id |-> i]
<1>2. /\ sent[k] # Null /\ sent[k].kind = "delete" /\ UNCHANGED <<nextId, page, slow, files>>
      /\ \/ /\ rows' = [rows EXCEPT ![i] = Null] /\ UNCHANGED tool
            /\ sent' = [sent EXCEPT ![k] = call]
         \/ /\ UNCHANGED rows /\ Answer(k, "ended", i)
            /\ sent' = [sent EXCEPT ![k] = Null]
  BY <1>1 DEF Remove
<1>3. i \in Id
  BY <1>1, <1>2, TypesHold DEF Call
<1>4. call \in Call /\ call.kind = "deleted" /\ call.id = i
  BY <1>3 DEF Call
<1> HIDE DEF call
<1>5. CASE rows' = [rows EXCEPT ![i] = Null] /\ UNCHANGED tool /\ sent' = [sent EXCEPT ![k] = call]
  <2>1. /\ rows' \in [Id -> Row \cup {Null}] /\ rows'[i] = Null
        /\ \A j \in Id : rows'[j] # Null => rows[j] # Null /\ rows'[j] = rows[j]
    BY <1>3, <1>5, TypesHold
  <2>2. /\ sent' \in [Ticket -> Call \cup {Null}] /\ sent'[k] = call
        /\ \A l \in Ticket \ {k} : sent'[l] = sent[l]
    BY <1>4, <1>5, TypesHold
  <2> QED
    BY <1>1, <1>2, <1>4, <1>5, <2>1, <2>2, TypesHold, RowsStep
<1>6. CASE UNCHANGED rows /\ Answer(k, "ended", i) /\ sent' = [sent EXCEPT ![k] = Null]
  <2>1. /\ sent' \in [Ticket -> Call \cup {Null}]
        /\ \A l \in Ticket : sent'[l] # Null => sent'[l] = sent[l]
    BY <1>6, TypesHold
  <2>2. /\ tool' \in [Tool -> Process]
        /\ \A q \in Tool : tool'[q] = tool[q] \/ tool'[q].pc = "ended"
        /\ \A q \in Tool : tool[q].pc = "idle" => tool'[q] = tool[q]
    BY <1>3, <1>6, Answered DEF Pc
  <2>3. \A q \in Tool : tool'[q].pc = "ended" => Fits(tool[q])'
    BY DEF Fits, CreateFits, DeleteFits, WorkPc, ImportPc, RollbackPc
  <2> QED
    BY <1>2, <1>6, <2>1, <2>2, <2>3, TypesHold, RowsStep
<1> QED
  BY <1>2, <1>5, <1>6

LEMMA LoseKeeps ==
  ASSUME ImportInv, NEW k \in Ticket, Lose(k)
  PROVE  ImportInv'
<1>1. sent' = [sent EXCEPT ![k] = Null] /\ UNCHANGED <<rows, nextId, page, slow, files, tool>>
  BY DEF Lose
<1>2. /\ sent' \in [Ticket -> Call \cup {Null}]
      /\ \A l \in Ticket : sent'[l] # Null => sent'[l] = sent[l]
  BY <1>1, TypesHold
<1> QED
  BY <1>1, <1>2, TypesHold, RowsStep

\* The end of a create: its row becomes timely where the process that waits for
\* it has no other, and every listing that is left shows it.
LEMMA EvictKeeps ==
  ASSUME ImportInv, NEW k \in Ticket, Evict(k)
  PROVE  ImportInv'
<1>1. PICK i, pc : i = sent[k].id /\ pc = (IF sent[k].kind = "created" THEN "record" ELSE "forget")
  OBVIOUS
<1>2. PICK now : now = CarriedOut(k)
  OBVIOUS
<1>3. /\ sent[k] # Null /\ sent[k].kind \in {"created", "deleted"} /\ page' = Null
      /\ sent' = [sent EXCEPT ![k] = Null] /\ UNCHANGED <<nextId, slow, files>>
      /\ rows' = [rows EXCEPT ![i] = IF @ = Null THEN @ ELSE [@ EXCEPT !.timely = CarriedOut(k)]]
      /\ Answer(k, pc, i)
  BY <1>1 DEF Evict
<1>4. i \in Id
  BY <1>1, <1>3, TypesHold DEF Call
<1>5. /\ sent' \in [Ticket -> Call \cup {Null}] /\ sent'[k] = Null
      /\ \A l \in Ticket \ {k} : sent'[l] = sent[l]
  BY <1>3, TypesHold
<1>6. /\ tool' \in [Tool -> Process]
      /\ \A q \in Tool : \/ tool'[q] = tool[q]
                         \/ /\ Awaits(q, k) /\ tool'[q].pc = pc /\ tool'[q].id = i
                            /\ tool'[q].memory = tool[q].memory /\ tool'[q].todo = tool[q].todo
                            /\ tool'[q].chosen = tool[q].chosen /\ tool'[q].title = tool[q].title
      /\ \A q \in Tool : tool[q].pc = "idle" => tool'[q] = tool[q]
  <2>1. pc \in Pc \ {"idle"}
    BY <1>1 DEF Pc
  <2> QED
    BY <1>3, <1>4, <2>1, Answered
<1>7. UNCHANGED <<manifest, lock, Listed>>
  BY <1>3 DEF files, Listed
<1>8. CASE sent[k].kind = "deleted"
  <2>1. rows[i] = Null
    BY <1>1, <1>3, <1>8 DEF ImportInv, Numbered
  <2>2. rows' = rows
    BY <1>3, <1>4, <2>1, TypesHold
  <2>3. ASSUME NEW q \in Tool, tool'[q] # tool[q] PROVE Fits(tool[q])'
    <3>1. /\ Awaits(q, k) /\ tool'[q].pc = "forget" /\ tool'[q].id = i
          /\ tool'[q].memory = tool[q].memory /\ tool'[q].chosen = tool[q].chosen
      BY <1>1, <1>6, <1>8, <2>3
    <3>2. tool[q].memory = manifest /\ i \in Listed \ tool[q].chosen /\ tool[q].chosen \subseteq Listed
      BY <1>1, <1>3, <1>8, <3>1, AwaitsFits
    <3> QED
      BY <1>7, <2>1, <2>2, <3>1, <3>2 DEF Fits, CreateFits, DeleteFits, WorkPc, ImportPc, RollbackPc
  <2>4. \A q \in Tool : tool[q].pc = "idle" => tool'[q].pc = "idle"
    BY <1>6
  <2>5. \A l \in Ticket : sent'[l] # Null => sent'[l] = sent[l]
    BY <1>5
  <2> QED
    BY <1>3, <1>5, <1>6, <2>2, <2>3, <2>4, <2>5, TypesHold, RowsStep
<1>9. CASE sent[k].kind = "created"
  <2>1. PICK t : t = sent[k].title
    OBVIOUS
  <2>2. /\ i < nextId /\ i \notin Listed
        /\ rows[i] # Null => rows[i].by = "tool" /\ rows[i].title = t /\ ~rows[i].timely
        /\ \A l \in Ticket \ {k} : Made(l) => sent[l].id # i
    BY <1>1, <1>3, <1>9, <2>1 DEF ImportInv, Unanswered, Made
  <2>3. \A l \in Ticket : Made(l)' => l # k /\ Made(l) /\ sent'[l] = sent[l] /\ sent'[l].id # i
    BY <1>5, <2>2 DEF Made
  <2>4. /\ rows' \in [Id -> Row \cup {Null}] /\ \A j \in Id \ {i} : rows'[j] = rows[j]
        /\ rows[i] = Null => rows'[i] = Null
        /\ rows[i] # Null => /\ rows'[i] # Null /\ rows'[i].by = "tool" /\ rows'[i].title = t
                             /\ (rows'[i].timely <=> CarriedOut(k))
    <3>1. CASE rows[i] = Null
      BY <1>3, <1>4, <3>1, TypesHold
    <3>2. CASE rows[i] # Null
      <4> DEFINE c == CarriedOut(k)
                 row == [rows[i] EXCEPT !.timely = c]
      <4>1. c \in BOOLEAN
        BY DEF CarriedOut
      <4>2. rows' = [rows EXCEPT ![i] = row] /\ rows[i] \in Row
        BY <1>3, <1>4, <3>2, TypesHold
      <4> HIDE DEF c
      <4>3. row \in Row /\ row.by = rows[i].by /\ row.title = rows[i].title /\ row.timely = c
        BY <4>1, <4>2 DEF Row
      <4>4. row # Null
        BY <4>3, RowAssumption
      <4> HIDE DEF row
      <4> QED
        BY <1>4, <2>2, <3>2, <4>2, <4>3, <4>4, TypesHold DEF c
    <3> QED
      BY <3>1, <3>2
  \* The row is the first timely one of its title.
  <2>5. ASSUME CarriedOut(k)
        PROVE  /\ Timely(t) = {} /\ t \in manifest.pending
               /\ slow # Null => \E e \in slow : e.id = i
    <3>1. PICK q \in Tool : Awaits(q, k)
      BY <2>5 DEF CarriedOut
    <3>2. Timely(t) = {} /\ t \in manifest.pending
      BY <1>3, <1>9, <2>1, <3>1, AwaitsFits
    <3> QED
      BY <1>1, <2>5, <3>2 DEF CarriedOut
  <2>6. /\ \A j \in Id : rows'[j] # Null =>
              rows[j] # Null /\ rows'[j].by = rows[j].by /\ rows'[j].title = rows[j].title
        /\ \A j \in Id : rows[j] = Null => rows'[j] = Null
        /\ \A j \in Id : rows'[j] # Null /\ rows'[j].timely => rows[j].timely \/ (j = i /\ CarriedOut(k))
    BY <2>2, <2>4
  <2>7. ImportTypeOK' /\ Alone'
    BY <1>3, <1>5, <1>6, <1>7, <2>4, TypesHold DEF ImportInv, ImportTypeOK, Alone
  <2>8. Numbered'
    <3>1. \A j \in Id : rows'[j] # Null => j < nextId'
      BY <1>3, <2>6 DEF ImportInv, Numbered
    <3>2. \A e \in manifest.records :
            e.id < nextId' /\ (rows'[e.id] # Null => rows'[e.id].by = "tool" /\ rows'[e.id].title = e.title)
      BY <1>3, <2>6, TypesHold DEF ImportInv, Numbered
    <3>3. ASSUME NEW l \in Ticket, sent'[l] # Null
          PROVE  sent'[l] = sent[l] /\ (sent[l].kind \in {"delete", "deleted"} => sent[l].id \in Id)
      BY <1>5, <3>3, TypesHold DEF Call
    <3>4. ASSUME NEW l \in Ticket, sent'[l] # Null, sent'[l].kind = "delete"
          PROVE  /\ sent'[l].id < nextId'
                 /\ rows'[sent'[l].id] # Null =>
                       /\ rows'[sent'[l].id].by = "tool"
                       /\ [title |-> rows'[sent'[l].id].title, id |-> sent'[l].id] \in manifest.records
      <4>1. sent'[l] = sent[l] /\ sent[l].id \in Id
        BY <3>3, <3>4
      <4>2. /\ sent[l].id < nextId
            /\ rows[sent[l].id] # Null =>
                  /\ rows[sent[l].id].by = "tool"
                  /\ [title |-> rows[sent[l].id].title, id |-> sent[l].id] \in manifest.records
        BY <3>4, <4>1 DEF ImportInv, Numbered
      <4> QED
        BY <1>3, <2>6, <4>1, <4>2
    <3>5. ASSUME NEW l \in Ticket, sent'[l] # Null, sent'[l].kind = "deleted"
          PROVE  sent'[l].id < nextId' /\ rows'[sent'[l].id] = Null
      <4>1. sent'[l] = sent[l] /\ sent[l].id \in Id
        BY <3>3, <3>5
      <4>2. sent[l].id < nextId /\ rows[sent[l].id] = Null
        BY <3>5, <4>1 DEF ImportInv, Numbered
      <4> QED
        BY <1>3, <2>6, <4>1, <4>2
    <3> QED
      BY <1>7, <3>1, <3>2, <3>4, <3>5 DEF Numbered
  <2>9. Unanswered'
    <3>1. ASSUME NEW l \in Ticket, Made(l)'
          PROVE  /\ sent'[l].id < nextId' /\ sent'[l].id \notin Listed
                 /\ rows'[sent'[l].id] # Null => /\ rows'[sent'[l].id].by = "tool" /\ ~rows'[sent'[l].id].timely
                                                 /\ rows'[sent'[l].id].title = sent'[l].title
      <4>1. Made(l) /\ sent'[l] = sent[l] /\ sent[l].id # i /\ sent[l].id \in Id
        BY <2>3, <3>1, TypesHold DEF Made, Call
      <4>2. rows'[sent[l].id] = rows[sent[l].id]
        BY <2>4, <4>1
      <4> QED
        BY <1>3, <4>1, <4>2 DEF ImportInv, Unanswered
    <3>2. \A l, m \in Ticket : Made(l)' /\ Made(m)' /\ sent'[l].id = sent'[m].id => l = m
      BY <2>3 DEF ImportInv, Unanswered
    <3> QED
      BY <1>7, <3>1, <3>2 DEF Unanswered
  <2>10. Accounted'
    <3> SUFFICES ASSUME NEW j \in Id, rows'[j] # Null, rows'[j].by = "tool", rows'[j].timely
                 PROVE  \/ [title |-> rows'[j].title, id |-> j] \in manifest.records
                        \/ rows'[j].title \in manifest.pending
      BY <1>7 DEF Accounted
    <3>1. rows[j] # Null /\ rows'[j].by = rows[j].by /\ rows'[j].title = rows[j].title
      BY <2>6
    <3>2. CASE rows[j].timely
      BY <3>1, <3>2 DEF ImportInv, Accounted
    <3>3. CASE j = i /\ CarriedOut(k)
      BY <2>2, <2>5, <3>1, <3>3
    <3> QED
      BY <2>6, <3>2, <3>3
  <2>11. TwiceOnlyUntimely'
    <3> SUFFICES ASSUME NEW j \in Id, NEW m \in Id, j # m,
                        rows'[j] # Null, rows'[j].by = "tool", rows'[j].timely,
                        rows'[m] # Null, rows'[m].by = "tool", rows'[m].timely,
                        rows'[j].title = rows'[m].title
                 PROVE  FALSE
      BY DEF TwiceOnlyUntimely
    <3>1. /\ rows[j] # Null /\ rows[m] # Null /\ rows[j].by = "tool" /\ rows[m].by = "tool"
          /\ rows[j].title = rows'[j].title /\ rows[m].title = rows'[m].title
      BY <2>6
    <3>2. CASE rows[j].timely /\ rows[m].timely
      BY <3>1, <3>2 DEF ImportInv, TwiceOnlyUntimely
    <3>3. CASE j = i /\ CarriedOut(k) /\ rows[m].timely
      BY <2>2, <2>5, <3>1, <3>3 DEF Timely
    <3>4. CASE m = i /\ CarriedOut(k) /\ rows[j].timely
      BY <2>2, <2>5, <3>1, <3>4 DEF Timely
    <3> QED
      BY <2>6, <3>2, <3>3, <3>4
  <2>12. Tells(page)' /\ Tells(slow)'
    <3>1. slow' = slow /\ Tells(slow) /\ slow \in Listing \cup {Null}
      BY <1>3, TypesHold DEF ImportInv
    <3>2. ASSUME slow # Null, NEW e \in slow
          PROVE  e.id < nextId' /\ (rows'[e.id] # Null => rows'[e.id].title = e.title)
      <4>1. e.id \in Id
        BY <3>1, <3>2 DEF Listing
      <4> QED
        BY <1>3, <2>6, <3>1, <3>2, <4>1 DEF Tells
    <3>3. ASSUME slow # Null, NEW j \in Id, rows'[j] # Null, rows'[j].timely
          PROVE  \E e \in slow : e.id = j
      BY <2>5, <2>6, <3>1, <3>3 DEF Tells
    <3> QED
      BY <1>3, <3>1, <3>2, <3>3 DEF Tells
  <2>13. ASSUME NEW q \in Tool PROVE Fits(tool[q])'
    <3>1. Fits(tool[q])
      BY DEF ImportInv
    <3>2. CASE tool'[q] = tool[q] /\ tool[q].pc # "idle" /\ ~Awaits(q, k)
      <4>1. ~CarriedOut(k)
        BY <3>2, OnlyOne DEF CarriedOut, Awaits
      <4>2. \A u : Timely(u)' \subseteq Timely(u)
        BY <2>6, <4>1 DEF Timely
      <4>3. CreateFits(tool[q])'
        <5>1. tool[q].pc = "record" =>
                 /\ rows'[tool[q].id] # Null => /\ rows'[tool[q].id].by = "tool"
                                                /\ rows'[tool[q].id].title = tool[q].title
                 /\ \A l \in Ticket : Made(l)' => sent'[l].id # tool[q].id
          BY <2>3, <2>6, <3>1 DEF Fits, CreateFits
        <5>2. tool[q].pc = "await" => tool[q].ticket # k /\ sent'[tool[q].ticket] = sent[tool[q].ticket]
          BY <1>5, <3>1, <3>2 DEF Fits, CreateFits, Awaits
        <5> QED
          BY <1>3, <1>7, <3>1, <3>2, <4>2, <5>1, <5>2 DEF Fits, CreateFits
      <4>4. DeleteFits(tool[q])'
        <5>1. tool[q].pc = "forget" => rows'[tool[q].id] = Null
          BY <2>6, <3>1, TypesHold DEF Fits, DeleteFits
        <5>2. tool[q].pc = "awaitDelete" => tool[q].ticket # k /\ sent'[tool[q].ticket] = sent[tool[q].ticket]
          BY <1>5, <3>1, <3>2 DEF Fits, DeleteFits, Awaits
        <5> QED
          BY <1>7, <3>1, <3>2, <5>1, <5>2 DEF Fits, DeleteFits
      <4> QED
        BY <1>7, <3>1, <3>2, <4>3, <4>4 DEF Fits
    <3>3. CASE tool'[q] = tool[q] /\ Awaits(q, k)
      <4>1. tool[q].pc = "await" /\ tool[q].ticket = k
        BY <1>3, <1>9, <3>3, AwaitsFits DEF Awaits
      <4> QED
        BY <1>5, <1>7, <3>1, <3>3, <4>1 DEF Fits, CreateFits, DeleteFits, WorkPc, ImportPc, RollbackPc
    <3>4. CASE tool[q].pc = "idle"
      BY <1>6, <3>4 DEF Fits, CreateFits, DeleteFits, WorkPc, ImportPc, RollbackPc
    <3>5. CASE /\ Awaits(q, k) /\ tool'[q].pc = pc /\ tool'[q].id = i
               /\ tool'[q].memory = tool[q].memory /\ tool'[q].todo = tool[q].todo
               /\ tool'[q].title = tool[q].title
      <4>1. /\ tool[q].title = t /\ Timely(t) = {} /\ t \in manifest.pending
            /\ manifest.pending \subseteq tool[q].todo /\ tool[q].memory = manifest
        BY <1>3, <1>9, <2>1, <3>5, AwaitsFits
      <4>2. Timely(t)' \subseteq {i}
        BY <2>6, <4>1 DEF Timely
      <4>3. rows'[i] # Null => rows'[i].by = "tool" /\ rows'[i].title = t
        BY <2>4
      <4>4. pc = "record" /\ i < nextId' /\ \A l \in Ticket : Made(l)' => sent'[l].id # i
        BY <1>1, <1>3, <1>9, <2>2, <2>3
      <4> QED
        BY <1>4, <1>7, <2>2, <3>5, <4>1, <4>2, <4>3, <4>4
           DEF Fits, CreateFits, DeleteFits, WorkPc, ImportPc, RollbackPc
    <3> QED
      BY <1>6, <3>2, <3>3, <3>4, <3>5
  <2> QED
    BY <2>7, <2>8, <2>9, <2>10, <2>11, <2>12, <2>13 DEF ImportInv
<1> QED
  BY <1>3, <1>8, <1>9

LEMMA OthersChangeKeeps ==
  ASSUME ImportInv, NEW i \in Id,
         OthersDelete(i) \/ \E exact, history \in BOOLEAN : OthersChange(i, exact, history)
  PROVE  ImportInv'
<1>1. UNCHANGED <<nextId, sent, page, slow, files, tool>> /\ rows[i] # Null
  BY DEF OthersDelete, OthersChange
<1>2. /\ rows' \in [Id -> Row \cup {Null}]
      /\ \A j \in Id : rows'[j] # Null =>
            /\ rows[j] # Null /\ rows'[j].title = rows[j].title
            /\ rows'[j].by = rows[j].by /\ rows'[j].timely = rows[j].timely
  <2>1. CASE OthersDelete(i)
    BY <2>1, TypesHold DEF OthersDelete
  <2>2. CASE \E exact, history \in BOOLEAN : OthersChange(i, exact, history)
    <3>1. PICK exact \in BOOLEAN, history \in BOOLEAN : OthersChange(i, exact, history)
      BY <2>2
    <3> DEFINE row == [rows[i] EXCEPT !.exact = exact, !.history = history]
    <3>2. rows[i] \in Row /\ rows' = [rows EXCEPT ![i] = row]
      BY <1>1, <3>1, TypesHold DEF OthersChange
    <3>3. /\ row \in Row /\ row.title = rows[i].title /\ row.by = rows[i].by /\ row.timely = rows[i].timely
      BY <3>2 DEF Row
    <3> HIDE DEF row
    <3>4. rows' \in [Id -> Row \cup {Null}] /\ rows'[i] = row /\ \A j \in Id \ {i} : rows'[j] = rows[j]
      BY <3>2, <3>3, TypesHold
    <3> QED
      BY <1>1, <3>3, <3>4
  <2> QED
    BY <2>1, <2>2
<1> QED
  BY <1>1, <1>2, TypesHold, RowsStep

LEMMA OthersCreateKeeps ==
  ASSUME ImportInv, NEW t \in Title, NEW exact \in BOOLEAN, OthersCreate(t, exact)
  PROVE  ImportInv'
<1>1. PICK n : n = nextId
  OBVIOUS
<1> DEFINE row == [title |-> t, exact |-> exact, history |-> FALSE, by |-> "other", timely |-> FALSE]
<1>2. /\ n \in Id /\ rows' = [rows EXCEPT ![n] = row] /\ nextId' = n + 1
      /\ UNCHANGED <<sent, page, slow, files, tool>>
  BY <1>1 DEF OthersCreate
<1>3. row \in Row /\ ~row.timely
  BY DEF Row
<1> HIDE DEF row
<1> QED
  BY <1>1, <1>2, <1>3, TypesHold, NewRow

\* A listing goes into the cache as it was selected.
LEMMA OthersReadKeeps ==
  ASSUME ImportInv, OthersSelect \/ OthersPut \/ OthersEvict
  PROVE  ImportInv'
<1>1. UNCHANGED <<table, files, tool>>
  BY DEF OthersSelect, OthersPut, OthersEvict
<1>2. page' \in {page, slow, Null} /\ slow' \in {slow, InTable, Null}
  BY DEF OthersSelect, OthersPut, OthersEvict
<1>3. /\ page' \in Listing \cup {Null} /\ slow' \in Listing \cup {Null}
      /\ Tells(page') /\ Tells(slow')
  BY <1>2, TableTells, TypesHold DEF ImportInv, Tells
<1>4. ImportTypeOK' /\ Alone' /\ Tells(page)' /\ Tells(slow)'
  BY <1>1, <1>3 DEF ImportInv, ImportTypeOK, Alone, Tells, table, files
<1>5. Numbered' /\ Unanswered' /\ Accounted' /\ TwiceOnlyUntimely'
  BY <1>1 DEF ImportInv, Numbered, Unanswered, Made, Listed, Accounted, TwiceOnlyUntimely, table, files
<1>6. \A q \in Tool : Fits(tool[q])'
  BY <1>1 DEF ImportInv, Fits, CreateFits, DeleteFits, Timely, Listed, Made, table, files
<1> QED
  BY <1>4, <1>5, <1>6 DEF ImportInv

-----------------------------------------------------------------------------
(* The theorems. *)

LEMMA InitHolds == ImportInit => ImportInv
<1> SUFFICES ASSUME ImportInit PROVE ImportInv
  OBVIOUS
<1>1. /\ \A i \in Id : rows[i] = Null
      /\ \A k \in Ticket : sent[k] = Null
      /\ \A p \in Tool : tool[p] = NoRun
      /\ manifest.records = {} /\ manifest.pending = {} /\ manifest \in Manifest
      /\ nextId = 1 /\ lock = Null /\ page = Null /\ slow = Null
  BY DEF ImportInit, EmptyManifest, Manifest
<1>2. ImportTypeOK
  <2>1. 1 \in 1 .. MaxId + 1
    BY ImportAssumption
  <2> QED
    BY <1>1, <2>1, NullIsNone DEF ImportInit, ImportTypeOK
<1>3. Alone /\ Numbered /\ Unanswered /\ Accounted /\ TwiceOnlyUntimely /\ Tells(page) /\ Tells(slow)
  BY <1>1, NullIsNone DEF Alone, Numbered, Unanswered, Made, Accounted, TwiceOnlyUntimely, Tells
<1>4. \A p \in Tool : Fits(tool[p])
  BY <1>1, NullIsNone, DoneFits
<1> QED
  BY <1>2, <1>3, <1>4 DEF ImportInv

LEMMA StutterKeeps == ImportInv /\ UNCHANGED importVars => ImportInv'
BY DEF ImportInv, ImportTypeOK, Alone, Numbered, Unanswered, Accounted, TwiceOnlyUntimely, Tells,
       Fits, CreateFits, DeleteFits, Timely, Listed, Made, importVars

LEMMA NextKeeps ==
  ASSUME ImportInv, ImportNext \/ Others
  PROVE  ImportInv'
<1>1. ASSUME NEW p \in Tool, Run(p) PROVE ImportInv'
  <2>1. CASE \E pc \in {"plan", "select"} : Start(p, pc)
    BY <2>1, StartKeeps
  <2>2. CASE Plan(p) \/ Post(p) \/ RecordCreated(p) \/ Verify(p)
    BY <2>2, PlanKeeps, SendKeeps, RecordCreatedKeeps, VerifyKeeps
  <2>3. CASE \E t \in Title : Skip(p, t) \/ RefusePending(p, t) \/ RefuseConflict(p, t) \/ AddPending(p, t)
    BY <2>3, SkipKeeps, RefuseKeeps, AddPendingKeeps
  <2>4. CASE RefuseRollback(p) \/ EndRollback(p) \/ GiveUp(p)
    BY <2>4, EndKeeps DEF RefuseRollback, EndRollback, GiveUp, server
  <2>5. CASE CheckHistory(p) \/ Forget(p)
    BY <2>5, CheckHistoryKeeps, ForgetKeeps
  <2>6. CASE \E i \in Id : Select(p, i) \/ Delete(p, i)
    BY <2>6, SelectKeeps, SendKeeps
  <2>7. CASE Release(p) \/ Crash(p)
    BY <2>7, UnlockKeeps, CrashKeeps
  <2> QED
    BY <1>1, <2>1, <2>2, <2>3, <2>4, <2>5, <2>6, <2>7 DEF Run
<1>2. CASE ClearLock
  BY <1>2, UnlockKeeps
<1>3. ASSUME NEW k \in Ticket, Create(k) \/ Remove(k) \/ Evict(k) \/ Lose(k) PROVE ImportInv'
  BY <1>3, CreateKeeps, RemoveKeeps, EvictKeeps, LoseKeeps
<1>4. CASE Others
  BY <1>4, OthersCreateKeeps, OthersChangeKeeps, OthersReadKeeps DEF Others
<1> QED
  BY <1>1, <1>2, <1>3, <1>4 DEF ImportNext

\* One process at a time holds what the manifest says; between the announcement
\* of a create and its record the title has no other row of the tool's; and what
\* may be deleted is listed.
THEOREM ImportInvariant == ImportSpec => []ImportInv
<1>1. ImportInv /\ [ImportNext \/ Others]_importVars => ImportInv'
  BY NextKeeps, StutterKeeps
<1> QED
  BY <1>1, InitHolds, PTL DEF ImportSpec

\* The types, and the shape of the manifest.
THEOREM ImportTypeCorrect == ImportSpec => []ImportTypeOK
<1>1. ImportInv => ImportTypeOK
  BY DEF ImportInv
<1> QED
  BY <1>1, ImportInvariant, PTL

\* A row the importer made is listed, or its title pending, or its create did not
\* end in time: its sender had gone, or an answer without it could still be read.
THEOREM RowsAreAccounted == ImportSpec => []Accounted
<1>1. ImportInv => Accounted
  BY DEF ImportInv
<1> QED
  BY <1>1, ImportInvariant, PTL

\* Reruns, though they may read a cached list, make a sample twice only where a
\* create of it did not end in time.
THEOREM RerunsDoNotDuplicate == ImportSpec => []TwiceOnlyUntimely
<1>1. ImportInv => TwiceOnlyUntimely
  BY DEF ImportInv
<1> QED
  BY <1>1, ImportInvariant, PTL

\* A run that reports success leaves nothing pending.
THEOREM SuccessSettles == ImportSpec => []SuccessMeansSettled
<1>1. ImportInv => SuccessMeansSettled
  BY DEF ImportInv, SuccessMeansSettled, Fits, CreateFits
<1> QED
  BY <1>1, ImportInvariant, PTL

-----------------------------------------------------------------------------
(* What a step may never do. *)

LEMMA RemovesOwnStep ==
  ASSUME ImportInv, ImportNext \/ Others, NEW i \in Id, rows[i] # Null, rows'[i] = Null, sent' # sent
  PROVE  /\ rows[i].by = "tool" /\ ~rows[i].history
         /\ [title |-> rows[i].title, id |-> i] \in manifest.records
<1>1. ~Others
  BY DEF Others, OthersCreate, OthersChange, OthersDelete, OthersSelect, OthersPut, OthersEvict, table
<1>2. rows' # rows
  OBVIOUS
<1>3. ASSUME NEW p \in Tool, Run(p) PROVE FALSE
  BY <1>2, <1>3 DEF Run, Start, Plan, Post, RecordCreated, Verify, Skip, RefusePending, RefuseConflict,
     AddPending, RefuseRollback, CheckHistory, Forget, EndRollback, Select, Delete, GiveUp, Release, Crash, server, table
<1>4. ~ClearLock
  BY <1>2 DEF ClearLock, server, table
<1>5. PICK k \in Ticket : Create(k) \/ Remove(k) \/ Evict(k)
  BY <1>1, <1>2, <1>3, <1>4 DEF ImportNext, Lose
<1>6. ~Create(k)
  <2> SUFFICES ASSUME Create(k) PROVE FALSE
    OBVIOUS
  <2>1. PICK row : rows' = [rows EXCEPT ![nextId] = row]
    BY DEF Create
  <2>2. i = nextId
    BY <2>1, TypesHold
  <2>3. i < nextId /\ i \in Nat
    BY TypesHold DEF ImportInv, Numbered
  <2> QED
    BY <2>2, <2>3
\* Evict leaves a row a row.
<1>6a. ~Evict(k)
  <2> SUFFICES ASSUME Evict(k) PROVE FALSE
    OBVIOUS
  <2> DEFINE c == CarriedOut(k)
             row == [rows[i] EXCEPT !.timely = c]
  <2>1. rows[i] \in Row /\ c \in BOOLEAN
    BY TypesHold DEF CarriedOut
  <2>2. row \in Row
    <3> HIDE DEF c
    <3> QED
      BY <2>1 DEF Row
  <2>3. rows'[i] = row \/ rows'[i] = rows[i]
    BY TypesHold DEF Evict
  <2> QED
    BY <2>2, <2>3, RowAssumption
<1>7. PICK j : /\ j = sent[k].id /\ sent[k] # Null /\ sent[k].kind = "delete"
               /\ rows[j] # Null /\ ~rows[j].history /\ rows' = [rows EXCEPT ![j] = Null]
  BY <1>2, <1>5, <1>6, <1>6a DEF Remove
<1>8. i = j
  BY <1>7, TypesHold
<1> QED
  BY <1>7, <1>8 DEF ImportInv, Numbered

LEMMA KeepsTrackStep ==
  ASSUME ImportInv, ImportNext \/ Others
  PROVE  /\ \A e \in manifest.records \ manifest'.records : rows[e.id] = Null
         /\ \A t \in manifest.pending \ manifest'.pending :
               \E e \in manifest'.records \ manifest.records : e.title = t
<1>1. CASE manifest' = manifest
  BY <1>1
<1>2. CASE manifest' # manifest
  <2>1. PICK p \in Tool : RecordCreated(p) \/ Forget(p) \/ \E t \in Title : AddPending(p, t) \/ RefusePending(p, t)
    BY <1>2 DEF ImportNext, Others, OthersCreate, OthersChange, OthersDelete, OthersSelect, OthersPut,
       OthersEvict, Create, Remove, Evict, Lose, ClearLock,
       Run, Start, Plan, Post, Verify, Skip, RefuseConflict, RefuseRollback, CheckHistory, EndRollback,
       Select, Delete, GiveUp, Release, Crash, files
  <2>2. tool[p].pc \in {"record", "forget", "next"} /\ tool[p].memory = manifest
    BY <2>1 DEF RecordCreated, Forget, AddPending, RefusePending, ImportInv, Fits, WorkPc, ImportPc, RollbackPc
  <2>3. CASE RecordCreated(p)
    <3> DEFINE e == [title |-> tool[p].title, id |-> tool[p].id]
    <3>1. manifest'.records = manifest.records \cup {e} /\ manifest'.pending = manifest.pending \ {tool[p].title}
      BY <2>2, <2>3 DEF RecordCreated
    <3>2. e \notin manifest.records /\ e.title = tool[p].title
      <4>1. tool[p].id \notin Listed
        BY <2>3 DEF RecordCreated, ImportInv, Fits, CreateFits
      <4> QED
        BY <4>1 DEF Listed
    <3> QED
      BY <3>1, <3>2
  <2>4. CASE Forget(p)
    <3>1. rows[tool[p].id] = Null
      BY <2>4 DEF Forget, ImportInv, Fits, DeleteFits
    <3>2. /\ manifest'.records = {e \in manifest.records : e.id # tool[p].id}
          /\ manifest'.pending = manifest.pending
      BY <2>2, <2>4 DEF Forget, ImportInv, ImportTypeOK, Manifest
    <3> QED
      BY <3>1, <3>2
  <2>5. CASE \E t \in Title : AddPending(p, t) \/ RefusePending(p, t)
    <3>1. manifest'.records = manifest.records /\ manifest.pending \subseteq manifest'.pending
      BY <2>2, <2>5 DEF AddPending, RefusePending, ImportInv, ImportTypeOK, Manifest
    <3> QED
      BY <3>1
  <2> QED
    BY <2>1, <2>3, <2>4, <2>5
<1> QED
  BY <1>1, <1>2

\* However late its deletes are carried out, the rollback removes only rows of the
\* tool's own, listed and never borrowed.
THEOREM RollbackIsSafe == ImportSpec => RollbackRemovesOwn
<1>1. ASSUME ImportInv, [ImportNext \/ Others]_importVars
      PROVE  [\A i \in Id : (rows[i] # Null /\ rows'[i] = Null /\ sent' # sent) =>
                /\ rows[i].by = "tool" /\ ~rows[i].history
                /\ [title |-> rows[i].title, id |-> i] \in manifest.records]_importVars
  BY <1>1, RemovesOwnStep
<1> QED
  BY <1>1, ImportInvariant, PTL DEF ImportSpec, RollbackRemovesOwn

\* Nothing leaves the manifest that anybody may still have to act upon.
THEOREM ManifestIsKept == ImportSpec => ManifestKeepsTrack
<1>1. ASSUME ImportInv, [ImportNext \/ Others]_importVars
      PROVE  [/\ \A e \in manifest.records \ manifest'.records : rows[e.id] = Null
              /\ \A t \in manifest.pending \ manifest'.pending :
                    \E e \in manifest'.records \ manifest.records : e.title = t]_importVars
  BY <1>1, KeepsTrackStep
<1> QED
  BY <1>1, ImportInvariant, PTL DEF ImportSpec, ManifestKeepsTrack
=============================================================================

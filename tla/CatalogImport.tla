--------------------------- MODULE CatalogImport ---------------------------
(***************************************************************************)
(* The starter-catalog importer and its rollback: a command-line tool that *)
(* talks to the application over HTTP and keeps, in a manifest file, which *)
(* rows it created and which of its creates have an unknown outcome.       *)
(*                                                                         *)
(* The titles are samples of one collection, which one page holds, so that *)
(* one GET reads them all; nobody renames a row.  An answer may be lost, a *)
(* request may be lost, and one whose sender has given up may still be     *)
(* carried out later.                                                      *)
(*                                                                         *)
(* The application caches its answers about books, for any time; a write   *)
(* of a book commits first and empties the cache afterwards, or never, if  *)
(* the commit is reported as failed (module BookCache).  Magazines and     *)
(* newspapers are read from the database.                                  *)
(***************************************************************************)
EXTENDS Naturals, FiniteSets

CONSTANTS
    Title,        \* the natural keys of the sample records
    Tool,         \* processes of the command-line tool that use one manifest
    Ticket,       \* bound: HTTP writes on their way at one time
    Cached,       \* the collection's answers are cached: it is that of the books
    MaxId,        \* bound: how many ids the collection's table hands out
    Null          \* no row, no request, no owner, no argument

ASSUME ImportAssumption ==
    /\ MaxId \in Nat
    /\ Cached \in BOOLEAN
    /\ Null \notin Title \cup Tool \cup Ticket \cup Nat

VARIABLES
    rows,         \* the rows of the collection
    nextId,       \* the next id, never given out twice
    sent,         \* HTTP writes the server has not carried out to the end
    page,         \* the cached answer to the GET of the whole collection
    slow,         \* such an answer between somebody's SELECT and its put: one at a time
    manifest,     \* the manifest file
    lock,         \* the process that made the manifest's lock file
    tool          \* what each process is doing

importVars == <<rows, nextId, sent, page, slow, manifest, lock, tool>>

Id == 1 .. MaxId

\* "exact": equal to the sample in every field, "available" included.
\* "by" and "timely" are history: who made the row, and whether its create was
\* carried out to the end while its sender waited (CarriedOut).
Row == [title : Title, exact : BOOLEAN, history : BOOLEAN, by : {"tool", "other"}, timely : BOOLEAN]
ASSUME RowAssumption == Null \notin Row

\* What a GET shows of the rows.
Listing == SUBSET [id : Id, title : Title, exact : BOOLEAN]

\* A create or a delete, and what is left of it once it is committed.
Call == [kind : {"create"}, title : Title] \cup [kind : {"delete"}, id : Id]
        \cup [kind : {"created"}, title : Title, id : Id] \cup [kind : {"deleted"}, id : Id]

Manifest == [records : SUBSET [title : Title, id : Id], pending : SUBSET Title]
EmptyManifest == [records |-> {}, pending |-> {}]

Pc == {"idle", "plan", "next", "post", "await", "record", "succeeded", "ended",
       "select", "delete", "awaitDelete", "forget"}
Process == [pc : Pc, memory : Manifest, todo : SUBSET Title, skips : SUBSET Title,
            left : SUBSET Id, chosen : SUBSET Id,
            title : Title \cup {Null}, id : Id \cup {Null}, ticket : Ticket \cup {Null}]
NoRun == [pc |-> "idle", memory |-> EmptyManifest, todo |-> {}, skips |-> {},
          left |-> {}, chosen |-> {}, title |-> Null, id |-> Null, ticket |-> Null]

ImportInit ==
    /\ rows = [i \in Id |-> Null]
    /\ nextId = 1
    /\ sent = [k \in Ticket |-> Null]
    /\ page = Null /\ slow = Null
    /\ manifest = EmptyManifest
    /\ lock = Null
    /\ tool = [p \in Tool |-> NoRun]

table == <<rows, nextId, sent>>
server == <<table, page, slow>>
files == <<manifest, lock>>

\* What the database holds, what the GET of the collection is answered with, and
\* what is cached when it has been.
InTable == {[id |-> i, title |-> rows[i].title, exact |-> rows[i].exact] :
              i \in {j \in Id : rows[j] # Null}}
Shown == IF page = Null THEN InTable ELSE page
Reads == page' = IF Cached THEN Shown ELSE page

Matches(t) == {e \in Shown : e.title = t}
Found(t) == \E e \in Shown : Matches(t) = {e} /\ e.exact
Conflict(t) == Matches(t) # {} /\ ~Found(t)

\* The run is over, but for the lock file.
Ends(p, pc) == tool' = [tool EXCEPT ![p] = [NoRun EXCEPT !.pc = pc]]

\* A write leaves for the server, on a ticket of its own.
Send(p, call, sender) ==
    \E k \in Ticket :
        /\ sent[k] = Null
        /\ sent' = [sent EXCEPT ![k] = call]
        /\ tool' = [tool EXCEPT ![p] = [sender EXCEPT !.ticket = k]]

\* A title planned as there is not read again; one planned as missing is, but
\* the answer may be the one the plan was made from.
Here(p, t) == t \in tool[p].skips \/ Found(t)
Rechecks(p, t) == IF t \in tool[p].skips THEN UNCHANGED page ELSE Reads

Awaits(p, k) == tool[p].pc \in {"await", "awaitDelete"} /\ tool[p].ticket = k

\* The answer reaches a sender that still waits, or nobody.
Answer(k, pc, i) ==
    \/ UNCHANGED tool
    \/ \E p \in Tool : Awaits(p, k) /\ tool' = [tool EXCEPT ![p].pc = pc, ![p].id = i]

\* A create that ends now ends in time for its sender, which still waits, and
\* for its reruns: no answer without the row has yet to be cached.
CarriedOut(k) ==
    /\ \E p \in Tool : Awaits(p, k)
    /\ slow = Null \/ \E e \in slow : e.id = sent[k].id

-----------------------------------------------------------------------------
(* Faulty variants of the definitions below: bugs that the properties at    *)
(* the end of the module would expose.                                      *)

\* Starts although another process holds the lock file.
StartUnlocked(p, pc) ==
    /\ tool[p].pc = "idle"
    /\ lock' = p
    /\ tool' = [tool EXCEPT ![p] = [NoRun EXCEPT !.pc = pc, !.memory = manifest,
                                                 !.left = {e.id : e \in manifest.records}]]
    /\ UNCHANGED <<server, manifest>>

\* Skips a title that is there without asking whether its create is pending.
SkipRegardless(p, t) ==
    /\ tool[p].pc = "next" /\ t \in tool[p].todo
    /\ t \in tool[p].skips \/ Found(t)
    /\ Rechecks(p, t)
    /\ tool' = [tool EXCEPT ![p].todo = @ \ {t}, ![p].skips = @ \ {t}]
    /\ UNCHANGED <<table, slow, files>>

\* Takes the row it finds for its own.
ClaimCandidate(p, t) ==
    LET m == tool[p].memory IN
    /\ tool[p].pc = "next" /\ t \in tool[p].todo
    /\ Found(t)
    /\ t \in m.pending
    /\ manifest' = [records |-> m.records \cup [title : {t}, id : {e.id : e \in Matches(t)}],
                    pending |-> m.pending \ {t}]
    /\ Rechecks(p, t)
    /\ Ends(p, "ended")
    /\ UNCHANGED <<table, slow, lock>>

\* Answers without emptying the cache.
AnswerOnly(k) ==
    /\ sent[k] # Null /\ sent[k].kind \in {"created", "deleted"}
    /\ sent' = [sent EXCEPT ![k] = Null]
    /\ rows' = [rows EXCEPT ![sent[k].id] =
                  IF @ = Null THEN @ ELSE [@ EXCEPT !.timely = CarriedOut(k)]]
    /\ Answer(k, IF sent[k].kind = "created" THEN "record" ELSE "forget", sent[k].id)
    /\ UNCHANGED <<nextId, page, slow, files>>

\* Sends the create without a word in the manifest.
PostUnannounced(p, t) ==
    /\ tool[p].pc = "next" /\ t \in tool[p].todo \ tool[p].skips
    /\ Matches(t) = {}
    /\ Reads
    /\ tool' = [tool EXCEPT ![p].pc = "post", ![p].title = t]
    /\ UNCHANGED <<table, slow, files>>

\* Does not wait for the answer that carries the id.
RecordEarly(p) ==
    LET t == tool[p].title  m == tool[p].memory IN
    /\ tool[p].pc \in {"await", "record"}
    /\ manifest' = [records |-> m.records \cup {[title |-> t, id |-> tool[p].id]},
                    pending |-> m.pending \ {t}]
    /\ tool' = [tool EXCEPT ![p].memory = manifest', ![p].pc = "next", ![p].todo = @ \ {t},
                            ![p].id = Null, ![p].ticket = Null, ![p].title = Null]
    /\ UNCHANGED <<server, lock>>

-----------------------------------------------------------------------------
(* One process at a time: the lock file is made with O_EXCL, and the        *)
(* manifest is read under it, once.                                         *)

Start(p, pc) ==
    /\ tool[p].pc = "idle"
    /\ lock = Null
    /\ lock' = p
    /\ tool' = [tool EXCEPT ![p] = [NoRun EXCEPT !.pc = pc, !.memory = manifest,
                                                 !.left = {e.id : e \in manifest.records}]]
    /\ UNCHANGED <<server, manifest>>

Release(p) ==
    /\ tool[p].pc \in {"succeeded", "ended"}
    /\ lock' = Null
    /\ tool' = [tool EXCEPT ![p] = NoRun]
    /\ UNCHANGED <<server, manifest>>

\* The process dies: the manifest stays as last written, and the lock file
\* stays until the operator removes it.
Crash(p) ==
    /\ tool[p].pc # "idle"
    /\ tool' = [tool EXCEPT ![p] = NoRun]
    /\ UNCHANGED <<server, files>>

ClearLock ==
    /\ lock # Null /\ tool[lock].pc = "idle"
    /\ lock' = Null
    /\ UNCHANGED <<server, manifest, tool>>

-----------------------------------------------------------------------------
(* runImport *)

\* One read plans for every title.  A preview ends here, as does a run that
\* finds a title twice or changed.
Plan(p) ==
    /\ tool[p].pc = "plan"
    /\ \/ /\ \A t \in Title : ~Conflict(t)
          /\ tool' = [tool EXCEPT ![p].pc = "next", ![p].todo = Title,
                                  ![p].skips = {t \in Title : Found(t)}]
       \/ Ends(p, "ended")
    /\ Reads
    /\ UNCHANGED <<table, slow, files>>

Skip(p, t) ==
    /\ tool[p].pc = "next" /\ t \in tool[p].todo
    /\ Here(p, t)
    /\ t \notin tool[p].memory.pending
    /\ Rechecks(p, t)
    /\ tool' = [tool EXCEPT ![p].todo = @ \ {t}, ![p].skips = @ \ {t}]
    /\ UNCHANGED <<table, slow, files>>

\* A row for a title whose create has an unknown outcome is noted in the
\* manifest, not claimed: the run stops.
RefusePending(p, t) ==
    /\ tool[p].pc = "next" /\ t \in tool[p].todo
    /\ Here(p, t)
    /\ t \in tool[p].memory.pending
    /\ manifest' = tool[p].memory
    /\ Rechecks(p, t)
    /\ Ends(p, "ended")
    /\ UNCHANGED <<table, slow, lock>>

RefuseConflict(p, t) ==
    /\ tool[p].pc = "next" /\ t \in tool[p].todo \ tool[p].skips
    /\ Conflict(t)
    /\ Reads
    /\ Ends(p, "ended")
    /\ UNCHANGED <<table, slow, files>>

\* Still missing: the create is announced in the manifest before it is sent,
\* whether or not an earlier one is still announced.
AddPending(p, t) ==
    LET m == tool[p].memory IN
    /\ tool[p].pc = "next" /\ t \in tool[p].todo \ tool[p].skips
    /\ Matches(t) = {}
    /\ Reads
    /\ manifest' = [m EXCEPT !.pending = @ \cup {t}]
    /\ tool' = [tool EXCEPT ![p].memory = manifest', ![p].pc = "post", ![p].title = t]
    /\ UNCHANGED <<table, slow, lock>>

Post(p) ==
    /\ tool[p].pc = "post"
    /\ Send(p, [kind |-> "create", title |-> tool[p].title], [tool[p] EXCEPT !.pc = "await"])
    /\ UNCHANGED <<rows, nextId, page, slow, files>>

\* The answer's id goes to the manifest and the announcement leaves it.
RecordCreated(p) ==
    LET t == tool[p].title  m == tool[p].memory IN
    /\ tool[p].pc = "record"
    /\ manifest' = [records |-> m.records \cup {[title |-> t, id |-> tool[p].id]},
                    pending |-> m.pending \ {t}]
    /\ tool' = [tool EXCEPT ![p].memory = manifest', ![p].pc = "next", ![p].todo = @ \ {t},
                            ![p].id = Null, ![p].ticket = Null, ![p].title = Null]
    /\ UNCHANGED <<server, lock>>

\* Every title is read once more; the dashboard's counts, which anybody's
\* edits move, may fail the run too.
Verify(p) ==
    /\ tool[p].pc = "next" /\ tool[p].todo = {}
    /\ \/ (\A t \in Title : Found(t)) /\ Ends(p, "succeeded")
       \/ Ends(p, "ended")
    /\ Reads
    /\ UNCHANGED <<table, slow, files>>

-----------------------------------------------------------------------------
(* rollbackImport *)

RefuseRollback(p) ==
    /\ tool[p].pc = "select"
    /\ tool[p].memory.pending # {}
    /\ Ends(p, "ended")
    /\ UNCHANGED <<server, files>>

\* GET of one row: as it is, or, from the cache, as it once was; that a row is
\* gone is never cached.
Now(i) == IF rows[i] = Null THEN "gone" ELSE IF rows[i].exact THEN "exact" ELSE "changed"
GetAnswers(i) == {Now(i)} \cup (IF Cached THEN {"exact", "changed"} ELSE {})

\* Each recorded row is read: one that is gone is passed over, one that has
\* changed stops the run.
Select(p, i) ==
    /\ tool[p].pc = "select" /\ i \in tool[p].left
    /\ tool[p].memory.pending = {}
    /\ \E answer \in GetAnswers(i) :
          IF answer = "changed"
          THEN Ends(p, "ended")
          ELSE tool' = [tool EXCEPT ![p].left = @ \ {i},
                                    ![p].chosen = IF answer = "gone" THEN @ ELSE @ \cup {i}]
    /\ UNCHANGED <<server, files>>

\* Rows with borrow history are left in place; a preview ends here.
CheckHistory(p) ==
    /\ tool[p].pc = "select" /\ tool[p].left = {}
    /\ tool[p].memory.pending = {}
    /\ \/ tool' = [tool EXCEPT ![p].pc = "delete",
                               ![p].chosen = {i \in @ : ~(rows[i] # Null /\ rows[i].history)}]
       \/ Ends(p, "ended")
    /\ UNCHANGED <<server, files>>

Delete(p, i) ==
    /\ tool[p].pc = "delete" /\ i \in tool[p].chosen
    /\ Send(p, [kind |-> "delete", id |-> i],
            [tool[p] EXCEPT !.pc = "awaitDelete", !.id = i, !.chosen = @ \ {i}])
    /\ UNCHANGED <<rows, nextId, page, slow, files>>

\* removeCreated, after the answer.
Forget(p) ==
    LET m == tool[p].memory IN
    /\ tool[p].pc = "forget"
    /\ manifest' = [m EXCEPT !.records = {e \in @ : e.id # tool[p].id}]
    /\ tool' = [tool EXCEPT ![p].memory = manifest', ![p].pc = "delete",
                            ![p].id = Null, ![p].ticket = Null]
    /\ UNCHANGED <<server, lock>>

EndRollback(p) ==
    /\ tool[p].pc = "delete" /\ tool[p].chosen = {}
    /\ Ends(p, "ended")
    /\ UNCHANGED <<server, files>>

-----------------------------------------------------------------------------
(* The server and the network. *)

\* POST: the schema has no unique natural key, a new row is always made.
Create(k) ==
    /\ sent[k] # Null /\ sent[k].kind = "create"
    /\ nextId \in Id
    /\ rows' = [rows EXCEPT ![nextId] =
                  [title |-> sent[k].title, exact |-> TRUE, history |-> FALSE, by |-> "tool",
                   timely |-> FALSE]]
    /\ nextId' = nextId + 1
    /\ sent' = [sent EXCEPT ![k] = [kind |-> "created", title |-> sent[k].title, id |-> nextId]]
    /\ UNCHANGED <<page, slow, files, tool>>

\* DELETE: a row that is gone, or that was ever borrowed, is an error.
Remove(k) ==
    /\ sent[k] # Null /\ sent[k].kind = "delete"
    /\ \E i \in {sent[k].id} :
          \/ /\ rows[i] # Null /\ ~rows[i].history
             /\ rows' = [rows EXCEPT ![i] = Null]
             /\ sent' = [sent EXCEPT ![k] = [kind |-> "deleted", id |-> i]]
             /\ UNCHANGED tool
          \/ /\ ~(rows[i] # Null /\ ~rows[i].history)
             /\ UNCHANGED rows
             /\ sent' = [sent EXCEPT ![k] = Null]
             /\ Answer(k, "ended", i)
    /\ UNCHANGED <<nextId, page, slow, files>>

\* After the commit the cache is emptied and the answer goes out.
Evict(k) ==
    /\ sent[k] # Null /\ sent[k].kind \in {"created", "deleted"}
    /\ page' = Null
    /\ sent' = [sent EXCEPT ![k] = Null]
    /\ rows' = [rows EXCEPT ![sent[k].id] =
                  IF @ = Null THEN @ ELSE [@ EXCEPT !.timely = CarriedOut(k)]]
    /\ Answer(k, IF sent[k].kind = "created" THEN "record" ELSE "forget", sent[k].id)
    /\ UNCHANGED <<nextId, slow, files>>

\* The request never arrives, or the commit it led to is reported as failed
\* although it was carried out: then nothing is evicted.
Lose(k) ==
    /\ sent[k] # Null
    /\ sent' = [sent EXCEPT ![k] = Null]
    /\ UNCHANGED <<rows, nextId, page, slow, files, tool>>

\* The 20 s timeout, a connection error, an HTTP error, an answer without id:
\* any request may end the run.
GiveUp(p) ==
    /\ tool[p].pc \in {"plan", "next", "await", "select", "delete", "awaitDelete"}
    /\ Ends(p, "ended")
    /\ UNCHANGED <<server, files>>

-----------------------------------------------------------------------------
(* Everybody else: librarians add, edit and delete rows, students borrow;   *)
(* they list the collection, and what they write empties the cache.         *)

OthersCreate(t, exact) ==
    /\ nextId \in Id
    /\ rows' = [rows EXCEPT ![nextId] =
                  [title |-> t, exact |-> exact, history |-> FALSE, by |-> "other", timely |-> FALSE]]
    /\ nextId' = nextId + 1
    /\ UNCHANGED <<sent, page, slow, files, tool>>

\* An edit, a borrow or a return; the title stays.
OthersChange(i, exact, history) ==
    /\ rows[i] # Null
    /\ rows[i].history => history
    /\ rows' = [rows EXCEPT ![i].exact = exact, ![i].history = history]
    /\ UNCHANGED <<nextId, sent, page, slow, files, tool>>

OthersDelete(i) ==
    /\ rows[i] # Null /\ ~rows[i].history
    /\ rows' = [rows EXCEPT ![i] = Null]
    /\ UNCHANGED <<nextId, sent, page, slow, files, tool>>

\* A GET of the collection that missed the cache, in its two steps.
OthersSelect ==
    /\ Cached /\ page = Null /\ slow = Null
    /\ slow' = InTable
    /\ UNCHANGED <<table, page, files, tool>>

OthersPut ==
    /\ slow # Null
    /\ page' = slow /\ slow' = Null
    /\ UNCHANGED <<table, files, tool>>

\* Any write of a book, of this collection's samples or not, empties the whole
\* cache once it is committed, and so does a restart.
OthersEvict ==
    /\ page # Null
    /\ page' = Null
    /\ UNCHANGED <<table, slow, files, tool>>

-----------------------------------------------------------------------------

Run(p) ==
    \/ \E pc \in {"plan", "select"} : Start(p, pc)
    \/ Plan(p) \/ Post(p) \/ RecordCreated(p) \/ Verify(p)
    \/ \E t \in Title : Skip(p, t) \/ RefusePending(p, t) \/ RefuseConflict(p, t) \/ AddPending(p, t)
    \/ RefuseRollback(p) \/ CheckHistory(p) \/ Forget(p) \/ EndRollback(p)
    \/ \E i \in Id : Select(p, i) \/ Delete(p, i)
    \/ GiveUp(p) \/ Release(p) \/ Crash(p)

ImportNext ==
    \/ \E p \in Tool : Run(p)
    \/ ClearLock
    \/ \E k \in Ticket : Create(k) \/ Remove(k) \/ Evict(k) \/ Lose(k)

Others ==
    \/ \E t \in Title, exact \in BOOLEAN : OthersCreate(t, exact)
    \/ \E i \in Id, exact, history \in BOOLEAN : OthersChange(i, exact, history)
    \/ \E i \in Id : OthersDelete(i)
    \/ OthersSelect \/ OthersPut \/ OthersEvict

\* The catalogue is edited meanwhile, whatever the guide asks.
ImportSpec == ImportInit /\ [][ImportNext \/ Others]_importVars

-----------------------------------------------------------------------------
(* Properties *)

\* Types, and the shape of the manifest the tool writes and reads back.
ImportTypeOK ==
    /\ rows \in [Id -> Row \cup {Null}]
    /\ nextId \in 1 .. MaxId + 1
    /\ sent \in [Ticket -> Call \cup {Null}]
    /\ page \in Listing \cup {Null} /\ slow \in Listing \cup {Null}
    /\ manifest \in Manifest
    /\ lock \in Tool \cup {Null}
    /\ tool \in [Tool -> Process]

\* No row of the tool's is lost track of, through lost answers, crashes, reruns
\* and cached lists: the manifest has its id, or its title is still pending.  A
\* rerun that is shown no such row sends the title again and clears it; that
\* happens only to a row whose create ended after its sender was gone, or whose
\* commit was never followed by its eviction, or that a list selected before
\* was still to be put for.
Accounted ==
    \A i \in Id : (rows[i] # Null /\ rows[i].by = "tool") =>
        \/ [title |-> rows[i].title, id |-> i] \in manifest.records
        \/ rows[i].title \in manifest.pending
        \/ ~rows[i].timely

\* Reruns do not duplicate a sample, whatever the cache shows them: of two rows
\* the tool made for one title, one has one of these three causes.
TwiceOnlyUntimely ==
    \A i, j \in Id :
        (/\ i # j
         /\ rows[i] # Null /\ rows[i].by = "tool"
         /\ rows[j] # Null /\ rows[j].by = "tool"
         /\ rows[i].title = rows[j].title) => ~(rows[i].timely /\ rows[j].timely)

\* A run that reports success leaves no create whose outcome is unknown, of
\* this run or of an earlier one, so that a rollback may follow.
SuccessMeansSettled ==
    \A p \in Tool : tool[p].pc = "succeeded" => manifest.pending = {}

\* Rollback's deletes, however late the server carries them out, remove rows
\* the tool made, that the manifest still lists and nobody ever borrowed.
RollbackRemovesOwn ==
    [][\A i \in Id : (rows[i] # Null /\ rows'[i] = Null /\ sent' # sent) =>
          /\ rows[i].by = "tool" /\ ~rows[i].history
          /\ [title |-> rows[i].title, id |-> i] \in manifest.records]_importVars

\* No process overwrites what another wrote in the manifest: a record leaves
\* it once its row is gone, a pending title leaves it for a record.
ManifestKeepsTrack ==
    [][/\ \A e \in manifest.records \ manifest'.records : rows[e.id] = Null
       /\ \A t \in manifest.pending \ manifest'.pending :
             \E e \in manifest'.records \ manifest.records : e.title = t]_importVars
=============================================================================

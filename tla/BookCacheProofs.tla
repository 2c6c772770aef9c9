-------------------------- MODULE BookCacheProofs --------------------------
(***************************************************************************)
(* Why a cached answer can be stale, for any books, queries and threads.   *)
(* The cache writes no row, so that all that is proved of Library holds    *)
(* beside it; what the readers know completes the invariant.               *)
(***************************************************************************)
EXTENDS BookCache, LibraryProofs

-----------------------------------------------------------------------------
(* The library beside its cache. *)

\* A cached library is a library: readers and evictions touch no table.
THEOREM CacheIsTransparent == CacheSpec => LibrarySpec
<1>1. CacheInit => LibraryInit
  BY DEF CacheInit
<1>2. [CacheNext]_cacheVars => [LibraryNext]_libraryVars
  BY DEF CacheNext, Miss, Select, NotFound, Put, EvictAll, WriteBooks, LibraryNext, cacheVars
<1> QED
  BY <1>1, <1>2, PTL DEF CacheSpec, LibrarySpec

\* Every library row that a query shows has its flag.
LEMMA ViewIsAnswer ==
  ASSUME LInv, NEW q \in Query
  PROVE  View(q) \in Answer /\ DOMAIN View(q) \subseteq q.books /\ q.books \subseteq Item
<1>1. q.books \subseteq Item
  BY PageAssumption DEF Query
<1>2. q.books \cap items \in SUBSET Item /\ available \in [Item -> BOOLEAN]
  BY <1>1 DEF LInv, IInv, TypeOK
<1>3. View(q) \in [q.books \cap items -> BOOLEAN]
  BY <1>1, <1>2 DEF View
<1> QED
  BY <1>1, <1>2, <1>3 DEF Answer

\* A step that is no eviction leaves no request short of its own.
LEMMA PendingStays ==
  ASSUME LInv, LibraryStep, EvictionPending
  PROVE  EvictionPending'
<1>1. ASSUME NEW c \in Clerk, clerk[c].pc = "evict" PROVE clerk'[c] = clerk[c]
  <2>1. clerk \in [Clerk -> Request]
    BY DEF LInv, IInv, TypeOK
  <2>2. ASSUME NEW d \in Clerk, ClerkStep(d) PROVE clerk'[c] = clerk[c]
    <3>1. clerk[d].pc # "evict"
      BY <2>2 DEF ClerkStep, BeginBorrow, BeginReturn, AcquireLock, LockForBorrow, RejectBorrow,
         LockForReturn, RejectReturn, LockReturnedItem, Proceed, SaveRecord, RejectSave,
         PublishBorrow, PublishReturn, Commit, CommitUnacknowledged, WriteBorrow, WriteReturn, Abort
    <3>2. \E x : clerk' = [clerk EXCEPT ![d] = x]
      BY <2>2 DEF ClerkStep, BeginBorrow, BeginReturn, AcquireLock, LockForBorrow, RejectBorrow,
         LockForReturn, RejectReturn, LockReturnedItem, Proceed, SaveRecord, RejectSave,
         PublishBorrow, PublishReturn, Commit, CommitUnacknowledged, Abort, Rollback
    <3> QED
      BY <1>1, <2>1, <3>1, <3>2
  <2>3. ASSUME NEW e \in Editor, EditorStep(e) PROVE clerk' = clerk
    BY <2>3 DEF EditorStep, CreateItem, BeginUpdate, UpdateUnchanged, BeginDelete, CreateStudent,
       UpdateStudent, BeginDeleteStudent, Write, FlushUpdate, RejectUpdate, RemoveItem, RejectDelete,
       RemoveStudent, RejectDeleteStudent, CommitUpdate, AbortEdit, Begin, GiveUp, Committed, vars
  <2> QED
    BY <2>2, <2>3 DEF LibraryStep
<1>2. ASSUME NEW e \in Editor, editor[e].pc = "evict" PROVE editor'[e] = editor[e]
  <2>1. editor \in [Editor -> Edit]
    BY DEF LInv, EditorsInv
  <2>2. ASSUME NEW d \in Editor, EditorStep(d) PROVE editor'[e] = editor[e]
    <3>1. editor[d].pc # "evict"
      BY <2>2 DEF EditorStep, CreateItem, BeginUpdate, UpdateUnchanged, BeginDelete, CreateStudent,
       UpdateStudent, BeginDeleteStudent, Write, FlushUpdate, RejectUpdate, RemoveItem, RejectDelete,
       RemoveStudent, RejectDeleteStudent, CommitUpdate, AbortEdit, Begin
    <3>2. \E x : editor' = [editor EXCEPT ![d] = x]
      BY <2>2 DEF EditorStep, CreateItem, BeginUpdate, UpdateUnchanged, BeginDelete, CreateStudent,
       UpdateStudent, BeginDeleteStudent, Write, FlushUpdate, RejectUpdate, RemoveItem, RejectDelete,
       RemoveStudent, RejectDeleteStudent, CommitUpdate, AbortEdit, Begin, GiveUp, Committed
    <3> QED
      BY <1>2, <2>1, <3>1, <3>2
  <2> QED
    BY <2>2 DEF LibraryStep
<1> QED
  BY <1>1, <1>2 DEF EvictionPending

\* An eviction changes no row.
LEMMA EvictionChangesNothing == LibraryEvict => UNCHANGED tables
BY DEF LibraryEvict, Evict, EvictEdit, GiveUp

-----------------------------------------------------------------------------
(* The invariant of the cache. *)

CacheType ==
    /\ cache \in [Query -> Answer \cup {Null}]
    /\ \A q \in Query : cache[q] # Null /\ q.kind = "get" => DOMAIN cache[q] = q.books
    /\ reader \in [Reader -> Lookup]
    /\ raced \subseteq Query
    /\ unanswered \in BOOLEAN

\* A reader that nothing overtook holds what the database would answer now.
ReadersKnow == \A t \in Reader :
    /\ reader[t].pc # "idle" => reader[t].query \in Query
    /\ reader[t].pc = "put" =>
          /\ reader[t].answer \in Answer
          /\ DOMAIN reader[t].answer \subseteq reader[t].query.books
          /\ ~reader[t].overtaken => reader[t].answer = View(reader[t].query)

CacheInv == CacheType /\ ReadersKnow /\ StaleOnlyBy

\* Queries for a list and for a book are different, and Null is neither a
\* query nor an answer.
LEMMA QueryKinds ==
  ASSUME NEW q \in Query
  PROVE  q.kind \in {"list", "get"} /\ (q.kind = "get" => \E i \in Item : q.books = {i})
BY DEF Query

LEMMA Initially == CacheInit => CacheInv
<1> SUFFICES ASSUME CacheInit PROVE CacheInv
  OBVIOUS
<1>1. CacheType
  BY DEF CacheInit, CacheType, Lookup, NoLookup
<1>2. ReadersKnow
  BY DEF CacheInit, ReadersKnow, NoLookup
<1>3. StaleOnlyBy
  BY DEF CacheInit, StaleOnlyBy, Stale
<1> QED
  BY <1>1, <1>2, <1>3 DEF CacheInv

\* What a step leaves alone, of the rows and of the pending evictions.
LEMMA SameLibrary ==
  ASSUME UNCHANGED libraryVars
  PROVE  (\A q : View(q)' = View(q)) /\ (EvictionPending' <=> EvictionPending)
BY DEF libraryVars, vars, tables, View, EvictionPending

LEMMA MissKeeps ==
  ASSUME CacheInv, NEW t \in Reader, NEW q \in Query, Miss(t, q)
  PROVE  CacheInv'
<1>1. /\ UNCHANGED <<libraryVars, cache, raced, unanswered>>
      /\ reader' = [reader EXCEPT ![t] = [pc |-> "select", query |-> q, answer |-> Null, overtaken |-> FALSE]]
  BY DEF Miss
<1>2. CacheType'
  BY <1>1 DEF CacheInv, CacheType, Lookup
<1>3. ReadersKnow'
  BY <1>1, SameLibrary DEF CacheInv, CacheType, ReadersKnow
<1>4. StaleOnlyBy'
  BY <1>1, SameLibrary DEF CacheInv, StaleOnlyBy, Stale
<1> QED
  BY <1>2, <1>3, <1>4 DEF CacheInv

LEMMA SelectKeeps ==
  ASSUME LInv, CacheInv, NEW t \in Reader, Select(t)
  PROVE  CacheInv'
<1> DEFINE q == reader[t].query
<1>1. /\ UNCHANGED <<libraryVars, cache, raced, unanswered>> /\ q \in Query
      /\ reader' = [reader EXCEPT ![t].pc = "put", ![t].answer = View(q)]
  BY DEF Select, CacheInv, ReadersKnow
<1>2. View(q) \in Answer /\ DOMAIN View(q) \subseteq q.books
  BY <1>1, ViewIsAnswer
<1>3. /\ reader'[t].pc = "put" /\ reader'[t].query = q /\ reader'[t].answer = View(q)
      /\ \A u \in Reader \ {t} : reader'[u] = reader[u]
  BY <1>1 DEF CacheInv, CacheType, Lookup
<1>4. CacheType'
  <2>1. View(q) \in Answer \cup {Null} /\ reader \in [Reader -> Lookup]
    BY <1>2 DEF CacheInv, CacheType
  <2>2. reader' \in [Reader -> Lookup]
    <3> HIDE DEF q
    <3> QED
      BY <1>1, <2>1 DEF Lookup
  <2> QED
    BY <1>1, <2>2 DEF CacheInv, CacheType
<1>5. ReadersKnow'
  BY <1>1, <1>2, <1>3, SameLibrary DEF CacheInv, ReadersKnow
<1>6. StaleOnlyBy'
  BY <1>1, SameLibrary DEF CacheInv, StaleOnlyBy, Stale
<1> QED
  BY <1>4, <1>5, <1>6 DEF CacheInv

LEMMA NotFoundKeeps ==
  ASSUME CacheInv, NEW t \in Reader, NotFound(t)
  PROVE  CacheInv'
<1>1. /\ UNCHANGED <<libraryVars, cache, raced, unanswered>>
      /\ reader' = [reader EXCEPT ![t] = [pc |-> "idle", query |-> Null, answer |-> Null, overtaken |-> FALSE]]
  BY DEF NotFound, NoLookup
<1>2. CacheType'
  BY <1>1 DEF CacheInv, CacheType, Lookup
<1>3. ReadersKnow'
  BY <1>1, SameLibrary DEF CacheInv, CacheType, ReadersKnow
<1>4. StaleOnlyBy'
  BY <1>1, SameLibrary DEF CacheInv, StaleOnlyBy, Stale
<1> QED
  BY <1>2, <1>3, <1>4 DEF CacheInv

\* A put that nothing overtook is what the database answers; any other is
\* accounted for in raced.
LEMMA PutKeeps ==
  ASSUME CacheInv, NEW t \in Reader, Put(t)
  PROVE  CacheInv'
<1> DEFINE q == reader[t].query
           answer == reader[t].answer
<1>1. /\ UNCHANGED <<libraryVars, unanswered>>
      /\ cache' = [cache EXCEPT ![q] = answer]
      /\ raced' = IF reader[t].overtaken THEN raced \cup {q} ELSE raced \ {q}
      /\ reader' = [reader EXCEPT ![t] = [pc |-> "idle", query |-> Null, answer |-> Null, overtaken |-> FALSE]]
      /\ reader[t].pc = "put" /\ ~(q.kind = "get" /\ DOMAIN answer = {})
  BY DEF Put, NoLookup
<1>2. /\ q \in Query /\ answer \in Answer /\ DOMAIN answer \subseteq q.books
      /\ ~reader[t].overtaken => answer = View(q)
  BY <1>1 DEF CacheInv, ReadersKnow
<1>3. /\ cache'[q] = answer /\ \A p \in Query \ {q} : cache'[p] = cache[p]
      /\ cache' \in [Query -> Answer \cup {Null}]
  BY <1>1, <1>2 DEF CacheInv, CacheType
<1>4. q.kind = "get" => DOMAIN answer = q.books
  BY <1>1, <1>2, QueryKinds
<1>5. CacheType'
  BY <1>1, <1>2, <1>3, <1>4 DEF CacheInv, CacheType, Lookup
<1>6. ReadersKnow'
  BY <1>1, SameLibrary DEF CacheInv, CacheType, ReadersKnow
<1>7. StaleOnlyBy'
  <2> SUFFICES ASSUME NEW p \in Query, Stale(p)'
               PROVE  EvictionPending' \/ p \in raced' \/ unanswered'
    BY DEF StaleOnlyBy
  <2>1. CASE p = q
    BY <1>1, <1>2, <1>3, <2>1, SameLibrary DEF Stale
  <2>2. CASE p # q
    BY <1>1, <1>3, <2>2, SameLibrary DEF Stale, CacheInv, StaleOnlyBy
  <2> QED
    BY <2>1, <2>2
<1> QED
  BY <1>5, <1>6, <1>7 DEF CacheInv

\* An eviction leaves nothing that could be stale.
LEMMA EvictAllKeeps ==
  ASSUME CacheInv, EvictAll
  PROVE  CacheInv'
<1>1. /\ UNCHANGED <<tables, reader, unanswered>> /\ raced' = {}
      /\ cache' = [q \in Query |-> Null]
  BY EvictionChangesNothing DEF EvictAll
<1>2. \A q : View(q)' = View(q)
  BY <1>1 DEF View, tables
<1>3. CacheType'
  BY <1>1 DEF CacheInv, CacheType
<1>4. ReadersKnow'
  BY <1>1, <1>2 DEF CacheInv, ReadersKnow
<1>5. StaleOnlyBy'
  BY <1>1 DEF StaleOnlyBy, Stale
<1> QED
  BY <1>3, <1>4, <1>5 DEF CacheInv

\* A writer marks the readers it overtakes, and either goes on to its eviction
\* or was not answered.
LEMMA WriteBooksKeeps ==
  ASSUME LInv, CacheInv, WriteBooks
  PROVE  CacheInv'
<1>1. /\ UNCHANGED <<cache, raced>> /\ reader \in [Reader -> Lookup]
      /\ unanswered' = (unanswered \/ ((\E q \in Query : Changes(q)) /\ ~ReachesEviction))
  BY DEF WriteBooks, CacheInv, CacheType
<1>2. ASSUME NEW t \in Reader
      PROVE  /\ reader'[t] \in Lookup
             /\ reader'[t].pc = reader[t].pc /\ reader'[t].query = reader[t].query
             /\ reader'[t].answer = reader[t].answer
             /\ ~reader'[t].overtaken /\ reader[t].pc = "put" =>
                    ~reader[t].overtaken /\ ~Changes(reader[t].query)
  <2> DEFINE mark == reader[t].overtaken \/
          (reader[t].pc = "put" /\ \E q \in Query : q = reader[t].query /\ Changes(q))
  <2>1. reader'[t] = [reader[t] EXCEPT !.overtaken = mark]
    BY DEF WriteBooks
  <2>2. reader[t] \in Lookup /\ (reader[t].pc = "put" => reader[t].query \in Query)
    BY <1>1 DEF CacheInv, ReadersKnow
  <2>3. mark \in BOOLEAN
    BY <2>2 DEF Lookup
  <2>4. /\ reader'[t].pc = reader[t].pc /\ reader'[t].query = reader[t].query
        /\ reader'[t].answer = reader[t].answer /\ reader'[t].overtaken = mark
        /\ reader'[t] \in Lookup
    <3> HIDE DEF mark
    <3> QED
      BY <2>1, <2>2, <2>3 DEF Lookup
  <2> QED
    BY <2>2, <2>4
<1>3. CacheType'
  <2>1. reader' \in [Reader -> Lookup]
    BY <1>2 DEF WriteBooks
  <2>2. unanswered' \in BOOLEAN
    BY <1>1
  <2> QED
    BY <1>1, <2>1, <2>2 DEF CacheInv, CacheType
<1>4. ReadersKnow'
  BY <1>2 DEF CacheInv, ReadersKnow, Changes
<1>5. StaleOnlyBy'
  <2> SUFFICES ASSUME NEW q \in Query, Stale(q)'
               PROVE  EvictionPending' \/ q \in raced' \/ unanswered'
    BY DEF StaleOnlyBy
  <2>1. CASE Stale(q)
    <3>1. EvictionPending \/ q \in raced \/ unanswered
      BY <2>1 DEF CacheInv, StaleOnlyBy
    <3>2. LibraryStep
      BY DEF WriteBooks
    <3> QED
      BY <1>1, <3>1, <3>2, PendingStays
  <2>2. CASE ~Stale(q)
    <3>1. Changes(q)
      BY <1>1, <2>2 DEF Stale, Changes
    <3>2. ReachesEviction => EvictionPending'
      BY DEF ReachesEviction, EvictionPending
    <3> QED
      BY <1>1, <3>1, <3>2
  <2> QED
    BY <2>1, <2>2
<1> QED
  BY <1>3, <1>4, <1>5 DEF CacheInv

LEMMA StutterKeeps ==
  ASSUME CacheInv, UNCHANGED cacheVars
  PROVE  CacheInv'
<1>1. UNCHANGED <<libraryVars, cache, reader, raced, unanswered>>
  BY DEF cacheVars
<1>2. CacheType'
  BY <1>1 DEF CacheInv, CacheType
<1>3. ReadersKnow'
  BY <1>1, SameLibrary DEF CacheInv, ReadersKnow
<1>4. StaleOnlyBy'
  BY <1>1, SameLibrary DEF CacheInv, StaleOnlyBy, Stale
<1> QED
  BY <1>2, <1>3, <1>4 DEF CacheInv

-----------------------------------------------------------------------------
(* The theorems. *)

\* The invariant of the library and of the cache beside it.
THEOREM CacheInvariant == CacheSpec => [](LInv /\ CacheInv)
<1>1. CacheInit => CacheInv
  BY Initially
<1>2. LInv /\ CacheInv /\ [CacheNext]_cacheVars => CacheInv'
  BY MissKeeps, SelectKeeps, NotFoundKeeps, PutKeeps, EvictAllKeeps, WriteBooksKeeps, StutterKeeps
     DEF CacheNext
<1>3. CacheSpec => []LInv
  BY CacheIsTransparent, LibraryInvariant, PTL
<1> QED
  BY <1>1, <1>2, <1>3, PTL DEF CacheSpec

\* Queries, answers and readers keep their shapes, and get caches no absence.
THEOREM CacheTypeCorrect == CacheSpec => []CacheTypeOK
<1>1. LInv /\ CacheInv => CacheTypeOK
  BY DEF LInv, IInv, EditorsInv, LibraryTypeOK, CacheInv, CacheType, CacheTypeOK
<1> QED
  BY <1>1, CacheInvariant, PTL

\* For any number of readers and writers and any keys, a cached answer is stale
\* for one of three causes: an eviction still to come, a put that a commit
\* overtook, or a commit whose answer was lost.
THEOREM StalenessHasACause == CacheSpec => []StaleOnlyBy
<1>1. CacheInv => StaleOnlyBy
  BY DEF CacheInv
<1> QED
  BY <1>1, CacheInvariant, PTL
=============================================================================

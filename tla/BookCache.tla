----------------------------- MODULE BookCache -----------------------------
(***************************************************************************)
(* The "books" cache over the library: BookService.list and get are        *)
(* @Cacheable, every write of a book is @CacheEvict(allEntries).  The      *)
(* interceptors stand outside the transactions: a miss is looked up, read  *)
(* from the database and put in three steps, and a writer commits first    *)
(* and evicts afterwards.  The items of this module are books.             *)
(***************************************************************************)
EXTENDS Library

CONSTANTS
    Reader,       \* threads that run list and get requests
    Page          \* the books a list query covers, one set for each cache key

ASSUME PageAssumption == Page \subseteq SUBSET Item

VARIABLES
    cache,        \* the cached answer of each query
    reader,       \* the request each reader thread is running
    raced,        \* history: the cached answers that a commit overtook between
                  \* their SELECT and their put
    unanswered    \* history: a write that did commit was reported as failed

cacheVars == <<libraryVars, cache, reader, raced, unanswered>>

Query == [kind : {"list"}, books : Page] \cup [kind : {"get"}, books : {{i} : i \in Item}]

\* The answer the database gives now: the books there are, with their flag.
View(q) == [i \in q.books \cap items |-> available[i]]
Answer == UNION {[b -> BOOLEAN] : b \in SUBSET Item}

Lookup == [pc : {"idle", "select", "put"}, query : Query \cup {Null},
           answer : Answer \cup {Null}, overtaken : BOOLEAN]
NoLookup == [pc |-> "idle", query |-> Null, answer |-> Null, overtaken |-> FALSE]

CacheInit ==
    /\ LibraryInit
    /\ cache = [q \in Query |-> Null]
    /\ reader = [t \in Reader |-> NoLookup]
    /\ raced = {}
    /\ unanswered = FALSE

-----------------------------------------------------------------------------
(* Faulty variants of the definitions below, as in Circulation. *)

\* Put: the answer that there is no such book is cached too.
PutMissing(t) ==
    LET q == reader[t].query IN
    /\ reader[t].pc = "put"
    /\ cache' = [cache EXCEPT ![q] = reader[t].answer]
    /\ raced' = IF reader[t].overtaken THEN raced \cup {q} ELSE raced \ {q}
    /\ reader' = [reader EXCEPT ![t] = NoLookup]
    /\ UNCHANGED <<libraryVars, unanswered>>

\* EvictAll: no allEntries, the list pages stay.
EvictGetsOnly ==
    /\ LibraryEvict
    /\ cache' = [q \in Query |-> IF q.kind = "get" THEN Null ELSE cache[q]]
    /\ raced' = {}
    /\ UNCHANGED <<reader, unanswered>>

-----------------------------------------------------------------------------
(* list and get: a hit answers from the cache and changes nothing. *)

Miss(t, q) ==
    /\ reader[t].pc = "idle"
    /\ cache[q] = Null
    /\ reader' = [reader EXCEPT ![t] =
          [pc |-> "select", query |-> q, answer |-> Null, overtaken |-> FALSE]]
    /\ UNCHANGED <<libraryVars, cache, raced, unanswered>>

\* The read-only transaction sees what is committed.
Select(t) ==
    /\ reader[t].pc = "select"
    /\ reader' = [reader EXCEPT ![t].pc = "put", ![t].answer = View(reader[t].query)]
    /\ UNCHANGED <<libraryVars, cache, raced, unanswered>>

\* get throws for a book that is not there: nothing is cached.
NotFound(t) ==
    /\ reader[t].pc = "put"
    /\ reader[t].query.kind = "get" /\ DOMAIN reader[t].answer = {}
    /\ reader' = [reader EXCEPT ![t] = NoLookup]
    /\ UNCHANGED <<libraryVars, cache, raced, unanswered>>

\* The put is unconditional; an empty page is cached like any other.
Put(t) ==
    LET q == reader[t].query IN
    /\ reader[t].pc = "put"
    /\ ~(q.kind = "get" /\ DOMAIN reader[t].answer = {})
    /\ cache' = [cache EXCEPT ![q] = reader[t].answer]
    /\ raced' = IF reader[t].overtaken THEN raced \cup {q} ELSE raced \ {q}
    /\ reader' = [reader EXCEPT ![t] = NoLookup]
    /\ UNCHANGED <<libraryVars, unanswered>>

-----------------------------------------------------------------------------
(* The writers of Library, seen from the cache. *)

EvictAll ==
    /\ LibraryEvict
    /\ cache' = [q \in Query |-> Null]
    /\ raced' = {}
    /\ UNCHANGED <<reader, unanswered>>

\* This step makes query q's next answer another one.
Changes(q) == View(q)' # View(q)

\* This step brings some request to its eviction.
ReachesEviction ==
    \/ \E c \in Clerk : clerk[c].pc # "evict" /\ clerk'[c].pc = "evict"
    \/ \E e \in Editor : editor[e].pc # "evict" /\ editor'[e].pc = "evict"

WriteBooks ==
    /\ LibraryStep
    /\ reader' = [t \in Reader |->
          [reader[t] EXCEPT !.overtaken =
              @ \/ (reader[t].pc = "put" /\ \E q \in Query : q = reader[t].query /\ Changes(q))]]
    /\ unanswered' = (unanswered \/ ((\E q \in Query : Changes(q)) /\ ~ReachesEviction))
    /\ UNCHANGED <<cache, raced>>

CacheNext ==
    \/ \E t \in Reader :
          \/ \E q \in Query : Miss(t, q)
          \/ Select(t) \/ NotFound(t) \/ Put(t)
    \/ EvictAll
    \/ WriteBooks

CacheSpec == CacheInit /\ [][CacheNext]_cacheVars

-----------------------------------------------------------------------------
(* Properties *)

\* The cache and its readers have the shape the interceptors give them; that
\* a book is missing is never cached.
CacheTypeOK ==
    /\ LibraryTypeOK
    /\ cache \in [Query -> Answer \cup {Null}]
    /\ \A q \in Query : cache[q] # Null /\ q.kind = "get" => DOMAIN cache[q] = q.books
    /\ reader \in [Reader -> Lookup]
    /\ raced \subseteq Query
    /\ unanswered \in BOOLEAN

Stale(q) == cache[q] # Null /\ cache[q] # View(q)

EvictionPending ==
    \/ \E c \in Clerk : clerk[c].pc = "evict"
    \/ \E e \in Editor : editor[e].pc = "evict"

\* A stale answer has one of three causes and no other: the writer has yet to
\* evict, a commit overtook the reader that put it, or the write was reported
\* as failed.  No order of borrow, return, create, update and delete adds one.
StaleOnlyBy ==
    \A q \in Query : Stale(q) => EvictionPending \/ q \in raced \/ unanswered

\* "Stale book cache after circulation changes now evicted via @CacheEvict":
\* once every write that was acknowledged has evicted, nothing stale is left.
EvictionEndsStaleness ==
    ~EvictionPending /\ ~unanswered => \A q \in Query : ~Stale(q)
=============================================================================

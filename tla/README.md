# Libris in TLA+

A model of Libris, the library management system of this repository: a Spring
Boot application over MySQL, its web client, and the command-line tools around
it. The modules here describe the parts whose correctness depends on the order
of things - threads and row locks, a cache beside a database, requests lost on
the network, a process that dies, scripts that read one another's files - and say
what those parts promise. TLC checks
the promises on small instances; TLAPS proves most of them for every
number of items, students, threads, runs and files.

`J/` below stands for `src/backend/src/main/java/com/example/lms/`, `D/` for
`src/scripts/dev-seed/`.

## The system

| component | state | operations | talks to |
|---|---|---|---|
| circulation (`J/service/BorrowRecordService.java`) | rows of `borrow_records`, the `available` column of the items | `borrow`, `returnBook` | locks rows of items and records, publishes audit events, evicts the books cache |
| catalogue (`BookService`, `MagazineService`, `NewspaperService`) | rows of `books`, `magazines`, `newspapers` | `create`, `update`, `delete`, `list`, `get` | reads borrow history, publishes audit events; books only: the cache |
| students (`StudentService`) | `student_profiles`, with an `accounts` row each | `create`, `update`, `delete` | as the catalogue |
| books cache (`@Cacheable`, `@CacheEvict`) | answers of `BookService.list` and `get`, in memory, without expiry | miss, put, evict all | stands outside every transaction |
| audit trail (`J/event`, `AuditService`) | `audit_logs` | insert on each event | runs inside the publisher's call and transaction |
| accounts, login, sessions (`AuthService`, `LoginAttemptTracker`, `SecurityConfig`, `CustomOidcUserService`, `AdminSeeder`) | `accounts`, HTTP sessions, failure counters in memory | register, login, logout, seed the administrator | audit |
| librarians (`LibrarianService`) | `librarian_profiles`, `accounts` | `create`, `update`, `delete` | audit |
| reports, analytics, dashboards | none | aggregate queries, batched exports | read everything |
| catalog importer (`src/scripts/catalog-seed`) | a manifest file and its lock file | import, rollback | the application, over HTTP |
| backup pipeline (`src/deploy/systemd`, `src/scripts/*backup*`) | dumps, manifests, status and marker files, off-site objects | dump, describe, record, prune, transfer, restore test | MySQL, object storage |
| web client (`static/js`) | the page's lists and filters | load, create, edit, delete | the application |
| synthetic data (`D/seed_generator.py`) | the loans being made, in memory; five transactions | two passes over simulated days, insert, mark items, write audit rows | the tables, beside circulation |
| validation, audit, readiness (`D/validate_dataset.py`, `D/phase3c_audit.py`, `src/scripts/dev-realdata/readiness_monitor.py`) | none | judge the tables | read the tables |
| overdue risk (`D/phase4a` to `phase4f`) | CSV files and reports | features, heuristic, regression, ablation, robustness, calibration | read the tables once (4A), then one another's files |
| demand forecasting (`D/phase5_forecasting.py`, `phase5a`, `phase5b`) | CSV files and reports | monthly grid, forecasts of two protocols | read the tables |

What is hard, and which properties it puts at risk, is listed with its line in
`PROJECT.json` under `hazards`. In short:

* **threads**: two requests read the same flag, or one reads a row that another
  is about to delete; locks are taken in different orders by different services;
* **partial failure**: a transaction rolls back after its audit event, or
  commits without the application learning of it, so that nothing is evicted;
* **staleness**: `update` writes back every column it read, a cache fill puts
  an answer that a commit has overtaken;
* **the network**: the importer's creates and deletes are lost, answered too
  late, or carried out after it gave up, what it reads may come from the cache, and it
  may die at any point;
* **files as state**: the steps of a backup leave dumps, manifests, a status and
  markers for one another, any of them may be the last, and the uploader reads the
  status and replaces it later; the analysis scripts leave their files beside those
  of earlier runs;
* **time**: a feature of a past day is computed from today's table, a forecast from a
  grid that also holds the months to be forecast, and the generator's second pass
  goes back over days that its first pass has left.

What makes each modelled part correct: an item is never lent twice, and its flag
agrees with its loans; a loan is never lost, rewritten or left without its item
or student; the audit trail tells what was committed and nothing else; no
requests wait for one another in a circle, and every request ends; the cache is
stale only for reasons one can name; the importer loses track of a row it made, or makes
it twice, only for reasons one can name too, and never deletes a row it did not make; the
backup's status file and exit codes claim nothing that was not so; generated loans overlap only where one can say why,
and no half-written data set is accepted; no model is evaluated on what it was
fitted on, no forecast uses what it forecasts, and no report outlives its files.

## The modules

```
Loans  <---- implements ----  Circulation  <--EXTENDS--  Library  <--EXTENDS--  BookCache
                                   ^                        ^                       ^
                            CirculationProofs  <------  LibraryProofs  <----  BookCacheProofs

CatalogImport   (a tool outside the application)        <--  CatalogImportProofs
BackupRun       (the backup's scripts and files)        <--  BackupProofs

DemandForecast  <--  RiskFeatures  <--  DatasetChecks  <--  SeedGenerator  <--  SeedGeneratorProofs
                          ^
                          +---  with RiskScoring:  AnalysisPhases  <--  AnalysisPhasesProofs
                          +---  RiskFeaturesProofs, which both of these proof modules extend

MC*.tla, MC*.cfg: instances for TLC
```

**Loans** is the promise of circulation as its clients see it: a loan record
is absent, borrowed or returned; lending needs an item no open loan holds. Three
lines of next-state relation.

**Circulation** is `BorrowRecordService`. The variables `items`, `available`,
`students`, `record`, `nextId` and `audit` are the *committed* tables; `itemLock`
and `recordLock` are the owners of InnoDB's row locks; `clerk[c]` is the request
that thread `c` runs and where it is. An action is what happens between two
points where another transaction can interfere: `BeginBorrow` (the student is
read without a lock), `LockForBorrow` (`SELECT ... FOR UPDATE` of the item and the
check of the flag it returned), `SaveRecord` (the insert, which spends an id and
pins the student's row), `PublishBorrow` (the audit row, in the same
transaction), `Commit`; and for a return `BeginReturn`, `LockForReturn`,
`LockReturnedItem`, `PublishReturn`, `Commit`. `Reject...` are the error answers.
`Abort` is any failure before the commit - a lock wait timeout, a failed
statement, the death of the server - and `CommitUnacknowledged` a commit whose
answer is lost. `Evict` is the cache interceptor's step, outside the transaction.

**Library** adds the services that edit the same rows, on threads of their own
(`editor[e]`). They read without a lock and write at the flush: `BeginUpdate`
remembers the flag it saw, `FlushUpdate` takes the row lock, `CommitUpdate` writes
every column, the flag included. `BeginDelete` checks the borrow history,
`RemoveItem` deletes, and the foreign keys, modelled in `RemoveItem`,
`RemoveStudent` and `StudentPinned`, are what stops a deletion that raced with a
borrow. One set of actions stands for the three item services: they run the same
lines but for ISBN uniqueness.

**BookCache** adds the cache: `Miss`, `Select`, `Put` are three steps of a reader,
and the writers of `Library` evict in a step after their commit.
`raced` and `unanswered` are history variables: they record *why* an entry may be
stale and guard nothing.

**CatalogImport** is `catalog-importer.mjs`, `manifest-store.mjs` and
`libris-api.mjs`. `manifest` is the file, `tool[p].memory` what a process holds of
it, `lock` the lock file, `sent` the writes on their way to the server. The server
may carry a request out after its sender gave up (`GiveUp`, 20 s) or died
(`Crash`). Other people create, change, borrow and delete rows meanwhile
(`Others`). The server's side, `Create` and `Remove`, is what `Library` shows of it:
a create always makes a row, a delete needs a row without history; `Evict` is the
answer, after the cache has been emptied. The importer's reads are the application's:
of books, the plan, the recheck before a create and the verification see `page`, the
cached answer of `BookService.list`, if there is one, and fill it if there is none
(`Shown`, `Reads`); a list of somebody else's may be put later than it was selected
(`slow`: `OthersSelect`, `OthersPut`); and a single row may be answered as it once was
(`GetAnswers`). Magazines and newspapers are not cached (`Cached = FALSE`). `by` and
`timely` in a row are history: a create is timely if its commit was followed by its
eviction while its sender still waited, and no list without the row was yet to be put
(`CarriedOut`).

**BackupRun** is `libris-backup-run`, the parts of `backup-mysql.sh` and
`backup-manifest.sh` that publish, prune and describe, `backup-offsite-run.sh` and
`libris-backup-offsite.py`. Two processes: `job["service"]`, which systemd starts
one at a time and which goes on into the off-site stage, and `job["operator"]`,
the same stage run by hand for some dump (the wrapper names its dump and provides
for repeat runs). A run's number stands for its dump, its manifest, its ciphertext
file and its object, whose names all derive from the run's start time. The
variables are the files: `dumps`, `described` (dumps with a manifest), `status`
(`last-run.status`; `TruncateStatus` and `WriteStatus` are the shell's two steps),
`failure` and `offsiteFailure` (the markers), `cipher` (whose ciphertext lies
beside a dump) and `remote` (whose ciphertext is the newest version of an object, or
that it has expired: `Expire` is the lifecycle rule of the bucket, which
`docs/BACKUP-OPERATIONS.md` describes and no file on the host reflects, at any time
after the upload). A status therefore names an object that is in the bucket or was, and
a transfer of a dump whose object the status names ends with 0 without asking the
bucket (`AlreadyTransferred`).
`ReadStatus`, `MergeStatus` and `Mark` are `update_status`. `Crash` is the death of a
whole process, `UploaderDies` that of the uploader alone.

**DemandForecast**, **RiskFeatures**, **RiskScoring** and **DatasetChecks** have no
variables: they are the pure parts of the offline scripts as operators on a table, a
function from a loan's id to its record. `DemandForecast` is the month arithmetic, the
classification of loans into series, the bounds and zero-filling of the monthly grid,
and `ForecastAll`, in which a protocol (`Static`, `Rolling`) decides what of the
history `SplitHistory` shows, a missing month falls back from the month of the year
to the mean of the series, and a target is refused if the protocol hides a month the
window needs. `RiskFeatures` is the row of phase 4A with its twelve features, the split by
date and the checks on the rows (`Ranked` is `ORDER BY`, `Picked` a comprehension over
rows); `RiskScoring` the heuristic of phase 4B, its tiers, the
confusion counts at a threshold and the two ways in which the scripts compute the
ROC-AUC. `DatasetChecks` is the validator, the audit of phase 3C and the readiness
monitor, each on one snapshot. Rates are scaled integers, rounded as the scripts round.

**AnalysisPhases** runs the phases 4A to 4F, 5A and 5B. `table` and `today` are what
circulation makes of `borrow_records`; `files` the output directory, with the run
that wrote each file; `job` the script that runs, with what it has still to write.
`Start` reads, computes and plans the writes of a phase - `Writes4A` and its siblings,
cut short where the script raises: an empty split, a class that is missing, a verdict
that needs a threshold no score reaches - `Write` writes one file, and `Kill` ends the
script between two files or inside one. `Lend`, `TakeBack` and `NextDay` are the library
in use. What the regression has learnt is left open: any score for any row.

**SeedGenerator** is `seed_generator.py` beside a running library: `CompletedLoan` and
`CompletedDay` are the first pass, `ActiveLoan` and `ActiveDay` the second, in the memory
of the process (`rows`, `activeItems`, `day`), and `InsertItems`, `GenerateStudents`,
`InsertLoans`, `UpdateItemAvailability` and `GenerateAuditLogs` the five transactions.
`Kill` drops what is not committed, `Restart` runs the generator again, which stops at the
unique ISBNs; `Lend` and `TakeBack` are circulation, one transaction each. The
random choices are open. The judging scripts are asked in every state.

The `*Proofs` modules extend the module of their name and hold its theorems.

## The runs

| run | instance | asks |
|---|---|---|
| `circulation` | 2 items, 2 students, 3 threads, 3 records | type, `AvailabilityAgrees`, `OneActiveLoan`, `AuditMatches`, `NoWaitCycle`, `RecordHistory`, and that `Circulation` implements `Loans` |
| `library` | 1 item, 1 student, 2 borrowing and 2 editing threads, 3 records | `ReferencesLive`, `AuditMatches`, `DeletionsAudited`, `AgreesUntilEdited`, `NoLibraryWaitCycle`, `LibraryRecordHistory` |
| `requests` | 1 item, 1 student, 2 + 1 threads, 2 records | liveness: `LibraryRequestsEnd` |
| `book_cache` | 1 book, 2 readers, 1 + 1 writers, 1 record | `StaleOnlyBy` |
| `catalog_import` | 1 sample book, 2 processes, 2 writes in flight, 2 ids, the cached list | `Accounted`, `TwiceOnlyUntimely`, `SuccessMeansSettled`, `RollbackRemovesOwn`, `ManifestKeepsTrack` |
| `backup_run` | 2 runs, 1 dump kept, 2 upload attempts, one operator | `StatusTruthful`, `ExitStatusTruthful`, `RemoteWasDescribed`, `RetentionKeepsNewest`, `FailureClearedByBackup` |
| `analysis_phases` | 2 students, 2 items, two tables of 3 and 4 loans, 4 script runs, one kill, 2 days | `ReportsWrittenLast`, `HoldoutUntouched`, `MisalignedOnlyIfStale`, `AucIsRank`, `OnlyOpenLoansLeak`, `GridIsTruthful` |
| `seed` | 2 students, 2 items, 4 simulated days, 2 + 2 loans, 2 starts, 2 writes of circulation | `OverlapsAreOpen`, `AcceptedMeansComplete`, `ScriptsAgree` |
| `lost_update` | 1 item, 1 + 1 threads | **violated**: `AvailabilityAgrees` once items are edited |
| `stale_cache` | 1 book, 1 reader, 1 writer | **violated**: `EvictionEndsStaleness` |
| `backup_merge` | 2 runs and an operator | **violated**: `LocalOutcomeKept` |
| `point_in_time` | as `analysis_phases` | **violated**: `PointInTime` |

The four violations are disagreements between the code and its documents:

* `BookService.update` (and its siblings) reads a row with a plain `findById`
  and writes all its columns later. A borrow that commits in between is
  overwritten: the item is lent *and* marked available. The trace has nine
  steps and needs one borrower and one editor. `AgreesUntilEdited` shows, and
  `OnlyEditsPartFlagAndLoans` proves, that such an update is the *only* way.
* A reader that selected before a borrow committed may put its answer after the
  borrow's eviction, and the simple cache keeps it until the next write of a
  book. `StaleOnlyBy` lists the three causes of a stale answer: an eviction still
  to come, such a race, and a commit whose answer was lost.
* The uploader reads the status file and replaces it with what it read. A run that
  records itself in between is overwritten, though the documents say that an
  off-site outcome never rewrites the local one. `StatusTruthful` shows that the
  result is old but not false: what the file then claims was so, and still is of everything
  that has not expired in the bucket.
* Phase 4A chooses the loans of a borrower's history, and of an item's popularity,
  by the day they began, among those that have come back *by now*. A loan that was
  still out on the day of a later one gives it its outcome, though the script says
  that its features use only what was available then; and one that is out today is not
  counted at all. `OnlyOpenLoansLeak` shows, and `LeaksAreOpenLoans` proves, that
  such loans are the only way.

The bounds. Two items and three records let one item be lent, returned and lent
again while another thread still returns the first loan. Three threads are the
fewest that can wait in a circle of more than two. `library` has one item, about which
all four threads contend, since nothing in the services relates two items
(`circulation` has two); two editing threads are needed for an update to meet a
deletion. In `catalog_import` two writes in flight are what a duplicate
needs - a create that was given up, and its repetition - and two ids are a row and its
duplicate, or the tool's row and somebody else's. One sample is enough, since every property
speaks of one title at a time, and samples share only the lock, the page, the ids and the
file, which is written whole; one slow list at a time (`slow`) can already be put over any
eviction. The instance has the cache; that the properties hold without it, as for
magazines, and for any samples, is proved (below). Ids run out (`MaxRecords`, `MaxId`):
then a create is refused, which the code does when the database refuses the insert. In
`backup_run` two runs and one dump kept allow a transfer of a dump that is pruned
meanwhile, a status of an older dump over that of a newer one, and a failure that a later
run clears; two attempts allow an upload whose answer is lost.

In `analysis_phases` a chain of three scripts (4A, 4B, 4C) may be mixed with an earlier
run, which takes four. `FirstLeafRun` lets the phases whose files no other phase reads
start only as the third or fourth, which loses nothing but their repetition. A script reads
the table once, when it starts, so that circulation between two scripts stands for
circulation during one; a file that no script reads is cut at a kill to no file. Months
have two days and the cutoffs are days of the instance, so that each of the three
splits of phase 4F, and each regime of the calendar, has a loan. In one of the two seed tables
an item is lent twice at a time, as the generator's second pass may do. In `seed` the
second pass goes back over the last two of four days, which is what an overlap needs, and
circulation acts only between transactions: the passes touch nothing but memory. The
counts and percentages that `validate_dataset.py` and the monitor demand are scaled
to a data set of four loans (`Expected`, `Limits`); loans of the same day are taken in
the order of their ids. Symmetry is used where only safety is checked.

## Fairness

Only `requests` assumes any. A thread that can go on does (`WF` of `Proceed` and
`Evict`): threads of the servlet container are scheduled by the operating
system, and none of these steps waits. A request for a row lock gets it if the
lock is free again and again (`SF` of `AcquireLock`): InnoDB queues the
waiters. No fairness is assumed of failures: `Abort` and
`CommitUnacknowledged` may never happen, so that requests end without counting
on `innodb_lock_wait_timeout`. Nor is any assumed of new requests.

## What is proved

`CirculationProofs` and `LibraryProofs` prove, for any sets of items, students,
clerks and editors and any number of ids, under the named assumptions of
`Circulation` (`Null` is none of the other values, clerks and editors are different
threads, `MaxRecords` is a natural number):

* for `Spec`: `TypeOK`, `OneActiveLoan`, `AvailabilityAgrees`, `AuditMatches`,
  `ReferencesLive`, `NoWaitCycle`, `RecordHistory`, and the refinement
  `ImplementsLoans`;
* for `LibrarySpec`: `LibraryTypeOK`, `ReferencesLive`, `AuditMatches`,
  `DeletionsAudited`, `AgreesUntilEdited`, `LibraryRecordHistory` and
  `NoLibraryWaitCycle`.

The argument is one inductive invariant, `IInv`. None of the properties is
inductive: that a borrow may write `available = FALSE` rests on what the thread
read several steps earlier. `LocksMatch` says that a thread owns a lock exactly
at the steps between acquiring it and committing; `Knowledge` says that what a
thread read under its locks is still so (the item is there and available, the
record is open and of this item, the student exists, the audit rows are the
right ones); `FreshIds` that ids not given out have no row. With these, every
commit is safe. `IInv` states the agreement of flag and loans only for items
whose update is not in the audit trail, so that the same invariant serves
`Library`: `AsideIInv` isolates what a step of another service must respect for
`IInv` to survive it, and `LInv` adds the editors' locks and arguments. In
`Circulation` alone nothing is ever edited (`NothingEdited`), which gives the
unconditional `AvailabilityAgrees`.

That there is no waiting circle is proved from an order rather than by search:
a request that waits for an item's lock may hold a record's lock, one that waits
for a record's lock holds nothing, and one that waits for a student's row holds
nothing others wait for; a set in which each waits for another would need a
waiter at the end of that order.

`BookCacheProofs` shows that the cached library implements `LibrarySpec`
(`CacheIsTransparent`: readers and evictions touch no table, and the writers' steps
are those of `Library`), so that all that is proved of `Library` holds beside the
cache, and that `StaleOnlyBy` holds for any readers, writers and keys. Its invariant
says of each reader between `Select` and `Put` that its answer is current, or that a
commit is recorded as having overtaken it (`ReadersKnow`); what a put leaves in the
cache is then current or has one of the causes.

`BackupProofs` proves `StatusTruthful`, `ExitStatusTruthful`, `RemoteWasDescribed`,
`RetentionKeepsNewest` and `FailureClearedByBackup` for any number of runs, dumps kept
(`Keep`) and upload attempts. The invariant ties what a process believes to the files:
where the service is in its run tells which of its own files exist (`ServiceFits`), and
every document a process carries or the status file holds is sound (`Sound`): the dump
it calls good was described and is either still there or made room for `Keep` newer
ones. The last part is why a document may be written late: retention only ever makes
it older, so that an overtaken update is old but not false. Of the object that a process
or the status names it says that it left the host (`ObjectOffsite`): the bucket may let it
expire at any moment, without changing that its dump was described. That an object is there
*today* is not a promise of the code, and no property says so.

`CatalogImportProofs` proves all five properties of the run `catalog_import`, for any
titles, processes, requests in flight and ids. The lock gives one process at a time
(`Alone`); what that process knows is the manifest; and between the announcement of a
create in the manifest and its record the tool has no other row of that title made in time
(`CreateFits`): the create is announced only when a list has shown no row of the title, and a
run that is shown a row for a pending title stops instead of claiming it. What a list shows
may be old, so the invariant says of the cached list, and of one that is yet to be put,
that it misses no row made in time (`Tells`): such a create has emptied the cache after
its commit, and the list, if one was being read, has its row. Where a create did not end so
- its sender had gone, its commit was reported as failed and evicted nothing, or an older list
was put after the eviction - a rerun may not be shown the row, send the title again and,
with the second answer, clear the announcement; a book of the samples has no ISBN that would
refuse it. That is what the last case of `Accounted`, and `TwiceOnlyUntimely`, allow.
`DeleteFits` says that what is about to be deleted is listed.

`RiskFeaturesProofs` proves of the operators, for every table, window and month:
month sequences have no gaps; the grid counts each loan once and stays within the
observed months; training and test rows are disjoint; a forecast depends only on the
part of the history its protocol shows, from which it follows that no demand of the
horizon reaches a forecast of the static holdout and none of a month or later one that
month's rolling forecast; and a forecast that is not refused reads no hidden month. It
also has the lemmas on ordering and selecting rows that the next two modules cite:
`RankedIsInOrder` (what is ranked by a total order comes out once each, in that order),
`PickedRows`, `CountThrough` (a bijection carries counts over), and
`FeatureRowsAreOfLoans` (phase 4A has one row for each returned loan).

`SeedGeneratorProofs` proves four properties for any catalogue, students, days, limits
and sample. `SeedTypeOK` and `OverlapsAreOpen`: the invariant says that `activeItems`
holds exactly the loans that are out on the generator's current day; what the second
pass cannot see are the loans that ended between its own day and the last day of the
first. `AcceptedMeansComplete` has an invariant of its own, which relates the available
column, the audit rows and the committed loans at each of the five transactions
(`AvailabilityInv`): the validator accepts only where no loan is without its audit rows,
which is so before the loans are inserted and after the column is set, and an item that
circulation did not touch between two transactions agrees with its loans at both.
`ScriptsAgree` needs no more of the generator than that its table is one of loans
(`LoansStayTyped`): each side counts a set of loans or a set of rows, and the place of a
loan among the rows carries one count over to the other. It takes from `DatasetChecks`
that `TRAIN_CUTOFF` is one of the cutoffs the audit tries and that the monitor's limits
are natural numbers (`phase3c_audit.py:414`, `phase4a_features.py:31`,
`readiness_monitor.py:29`).

`AnalysisPhasesProofs` proves all invariants of the run `analysis_phases`, for any seed
tables, order of scripts, kills and days.

* `AnalysisTypeOK` and `ReportsWrittenLast`: whatever a script reads, what it plans to write
  ends with its report and has every other file of its phase before it
  (`OutcomesArePlanned`), so that at each moment a run that has its report to come has
  written, or has yet to write, every file its phase ever wrote (`PhaseInv`).
* `OnlyOpenLoansLeak`: the features are a function of the records of the two histories
  (`FeaturesDependOnHistory`), and if nothing of the borrower or the item was out that day,
  the table of today and that of the day agree on those records.
* `HoldoutUntouched`, `MisalignedOnlyIfStale` and `GridIsTruthful` speak of what a file holds
  long after it was written, beside files of other runs. `ContentInv` says of each file, and of
  each entry of the running script's plan, something that no later loan, return, run or cut can
  change: the rows are of loans of the table, each once, with their `borrow_date`, on their
  side of the cutoff (two files of different runs then share no loan); the scores are
  those of the first rows of the file they name as their source; the grid's months lie
  between two months with loans, and all but its last are in the past.
* `AucIsRank`: `AreaIsRankedPairs` proves that the trapezoids of `compute_roc_auc` count the
  ranked pairs, for any labels and scores. The sum over the distinct scores is a recursion on
  finite sets, and there is no induction rule to cite; the proof gives the number of pairs
  below each set of scores as a function, shows that it satisfies the recursion, and
  excludes any other value by a smallest set on which the two would differ. `AucInv` then
  says that a report and scores of one run belong together, also while a later run has
  written its scores and not yet its report.

## What is only model-checked

Liveness (`LibraryRequestsEnd`): the prover does not reason about fairness here. Every
invariant and action property that a passing run checks is stated by a theorem.

## What is assumed of the environment

* MySQL's InnoDB at REPEATABLE READ: `SELECT ... FOR UPDATE` returns the latest
  committed row, a plain `SELECT` reads a snapshot, an insert takes a shared lock
  on the rows its foreign keys name, ids are never given out twice.
* Hibernate inserts at `save` (identity keys), updates and deletes at the flush,
  and an `UPDATE` sets all columns: no entity has `@Version` or `@DynamicUpdate`.
* The cache interceptor stands outside the transaction interceptor
  (`@EnableCaching` on the application class, both at the default order).
* A page of a list is read in one step, and the samples of a collection fit in one
  page of 100, with whatever else it holds.
* A cached answer stays until a write of a book evicts it, or the application restarts.
* The bucket's lifecycle rule is the only thing that removes an object.
* The importer's manifest, and the status file in the uploader's hands, are
  replaced by a rename, which is atomic.
* Dumps of different runs have different names (they carry the start time), and
  their modification times are in the order of the runs.

## What is not modelled

Descriptive columns, and with them ISBN uniqueness: a rejected edit is a rollback
with nothing written. Dates and due dates in `Circulation`. Paging and search. The
accounts behind students and librarians, login, sessions. Renames of a sample's row in
`CatalogImport`. Reports and dashboards, the restore test of the backups and what
is in a dump, the web client. A run of the backup whose manifest step fails ends without
`LAST_FAILURE`, which is part of the model and of which no property speaks.

Of the offline scripts: the names, texts and probabilities of the generator, whose
choices are all open; what the logistic regression, its scaler and the calibration
learn, in whose place any score stands, and with it the tables of phases 4C to 4F that only
print figures of it; the error metrics of phase 5B; the checks of the validator
that the schema's constraints make true. `PROJECT.json` has the reason for each part.

## Plan

Done: the modules above and their proofs. Next, in this order:

1. `LoginThrottle` - `LoginAttemptTracker` and its use by `AuthService.login`:
   check, authenticate, record, each an atomic step of a thread, with the
   expiry of entries. Properties: how far concurrent logins can exceed the limit,
   and that a success or an expiry loses only what it should. The bound on the
   overshoot is worth a proof, for any number of threads.
2. `Accounts` - students, librarians, registration and the administrator's
   seeding over one table with unique names: check-then-insert, trimmed names,
   unique keys; one profile for each account, audit, sessions of deleted accounts.
3. `Overdue` - the overdue arithmetic of the reports against a reference definition.
4. `BookList` - the web client's overlapping loads.
5. Proofs: the bound of `LoginThrottle`.

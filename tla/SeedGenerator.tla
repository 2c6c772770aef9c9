---------------------------- MODULE SeedGenerator ----------------------------
(***************************************************************************)
(* scripts/dev-seed/seed_generator.py beside a running library.  The       *)
(* generator makes the loans of the simulated days in memory, first those  *)
(* that are returned and then, from an earlier day again, those that stay  *)
(* out, and writes in five transactions: items, students, loans, which     *)
(* items are out, audit rows.  It may be killed between any two, and then  *)
(* be started again.  Circulation may lend and take back what it has       *)
(* committed.  What the scripts of DatasetChecks would say can be asked at *)
(* any moment.  Names, dates of issue and the other generated texts are    *)
(* left out, and the random choices are left open.                         *)
(***************************************************************************)
EXTENDS DatasetChecks

CONSTANTS
    Student, MAX_CONCURRENT,
    RETURN_DAYS, DUE_DAYS,  \* how long a loan may be out, and be allowed to be
    TARGET_COMPLETED_LOANS, TARGET_ACTIVE_LOANS,
    ACTIVE_WINDOW_DAYS,     \* the second pass starts so long before SIMULATED_TODAY
    CirculationDay,         \* the day by the library's own clock
    MaxCirculation, MaxStarts  \* bounds of the model

\* Without a book there would be no unique key to stop a second start.
ASSUME SeedAssumption ==
    /\ {SIMULATED_TODAY, ACTIVE_WINDOW_DAYS} \subseteq Nat \ {0}
    /\ {MAX_CONCURRENT, CirculationDay} \subseteq Nat
    /\ RETURN_DAYS \cup DUE_DAYS \subseteq Nat \ {0}
    /\ DateRange \subseteq Nat /\ Null \notin Nat
    /\ IsFiniteSet(DOMAIN ItemType) /\ \E i \in DOMAIN ItemType : ItemType[i] = "book"

VARIABLES
    db,           \* what is committed: loans, available, students, audit
    at,           \* the next step of the generator
    day,          \* its current_date
    rows,         \* records_to_insert
    activeItems,  \* active_by_item: the item -> its return_date and profile_idx
    starts,       \* how often the generator was started
    circulated    \* how many loans circulation made or took back, and of which
                  \* items between two transactions of the generator

memory == <<day, rows, activeItems>>
seedVars == <<db, at, memory, starts, circulated>>

Item == DOMAIN ItemType
\* date(9999, 12, 31)
Never == SIMULATED_TODAY + 1
\* student_active
Held(student) == Cardinality({i \in DOMAIN activeItems : activeItems[i].student = student})
Returned(r) == {n \in DOMAIN r : r[n].returned # Null}

SeedInit ==
    /\ db = [loans |-> <<>>, available |-> <<>>, students |-> {},
             audit |-> [a \in {"BORROW", "RETURN"} |-> 0]]
    /\ at = "items" /\ day = 0 /\ rows = <<>> /\ activeItems = <<>>
    /\ starts = 1 /\ circulated = [count |-> 0, between |-> {}]

-----------------------------------------------------------------------------
(* main and generate_students: catalogue and borrowers. *)

\* The generator's ISBNs are the same each time it is run.
InsertItems ==
    /\ at = "items"
    /\ \/ /\ DOMAIN db.available = {} /\ at' = "students"
          /\ db' = [db EXCEPT !.available = [i \in Item |-> TRUE]]
       \/ /\ DOMAIN db.available # {} /\ at' = "failed" /\ UNCHANGED db
    /\ UNCHANGED <<memory, starts, circulated>>

\* Mutant: the students are not committed.
GenerateStudentsUncommitted ==
    /\ at = "students" /\ at' = "completed"
    /\ UNCHANGED <<db, memory, starts, circulated>>

GenerateStudents ==
    /\ at = "students" /\ at' = "completed"
    /\ db' = [db EXCEPT !.students = Student]
    /\ UNCHANGED <<memory, starts, circulated>>

-----------------------------------------------------------------------------
(* generate_loans: the two passes over the days. *)

Row(student, item, due, returned) ==
    [student |-> student, item |-> item, borrowed |-> day, due |-> due, returned |-> returned]

\* Mutant: a student's loans are not counted.
MayBorrowAny(student, item) == item \in Item \ DOMAIN activeItems

MayBorrow(student, item) ==
    item \in Item \ DOMAIN activeItems /\ Held(student) < MAX_CONCURRENT

Take(student, item, due, returned, until) ==
    /\ MayBorrow(student, item)
    /\ rows' = Append(rows, Row(student, item, due, returned))
    /\ activeItems' = [i \in DOMAIN activeItems \cup {item} |->
          IF i = item THEN [until |-> until, student |-> student] ELSE activeItems[i]]
    /\ UNCHANGED <<db, at, day, starts, circulated>>

CompletedLoan(student, item, days, due) ==
    LET back == Min({day + days, SIMULATED_TODAY})
    IN  /\ at = "completed" /\ Len(rows) < TARGET_COMPLETED_LOANS
        /\ Take(student, item, day + due, back, back)

ActiveLoan(student, item, due) ==
    /\ at = "active" /\ Len(rows) - Cardinality(Returned(rows)) < TARGET_ACTIVE_LOANS
    /\ Take(student, item, day + due, Null, Never)

StillOut(items, date) == [i \in {j \in DOMAIN items : items[j].until > date} |-> items[i]]

\* The first pass goes to the day before SIMULATED_TODAY; its last day's items
\* and borrowers are those that the second starts with, on an earlier day.
CompletedDay ==
    /\ at = "completed"
    /\ IF day + 1 < SIMULATED_TODAY
       THEN day' = day + 1 /\ activeItems' = StillOut(activeItems, day + 1) /\ UNCHANGED at
       ELSE /\ day' = Max({0, SIMULATED_TODAY - ACTIVE_WINDOW_DAYS})
            /\ at' = "active" /\ UNCHANGED activeItems
    /\ UNCHANGED <<db, rows, starts, circulated>>

\* In the second pass nothing is returned.
ActiveDay ==
    /\ at = "active"
    /\ IF day + 1 < SIMULATED_TODAY THEN day' = day + 1 /\ UNCHANGED at
                                    ELSE at' = "loans" /\ UNCHANGED day
    /\ UNCHANGED <<db, rows, activeItems, starts, circulated>>

-----------------------------------------------------------------------------
(* The rest of generate_loans: what was made is written. *)

NextId == Cardinality(DOMAIN db.loans)

InsertLoans ==
    /\ at = "loans" /\ at' = "availability"
    /\ db' = [db EXCEPT !.loans =
          [id \in 1 .. NextId + Len(rows) |-> IF id <= NextId THEN @[id] ELSE rows[id - NextId]]]
    /\ UNCHANGED <<memory, starts, circulated>>

\* Mutant: the magazines and newspapers are forgotten.
UpdateBookAvailability ==
    /\ at = "availability" /\ at' = "audit"
    /\ db' = [db EXCEPT !.available = [i \in DOMAIN @ |-> @[i] /\ ~\E n \in DOMAIN rows :
          rows[n].item = i /\ rows[n].returned = Null /\ ItemType[i] = "book"]]
    /\ UNCHANGED <<memory, starts, circulated>>

\* Whatever became of the loan since, its item is marked.
UpdateItemAvailability ==
    /\ at = "availability" /\ at' = "audit"
    /\ db' = [db EXCEPT !.available = [i \in DOMAIN @ |->
          @[i] /\ ~\E n \in DOMAIN rows : rows[n].item = i /\ rows[n].returned = Null]]
    /\ UNCHANGED <<memory, starts, circulated>>

GenerateAuditLogs ==
    /\ at = "audit" /\ at' = "done"
    /\ db' = [db EXCEPT !.audit["BORROW"] = @ + Len(rows),
                        !.audit["RETURN"] = @ + Cardinality(Returned(rows))]
    /\ UNCHANGED <<memory, starts, circulated>>

\* The connection closes, and what is not committed goes.  Before the first
\* commit it is as if the generator had not been started.
Kill ==
    /\ at \notin {"items", "done", "failed", "killed"} /\ at' = "killed"
    /\ day' = 0 /\ rows' = <<>> /\ activeItems' = <<>>
    /\ UNCHANGED <<db, starts, circulated>>

Restart ==
    /\ at = "killed" /\ starts < MaxStarts
    /\ at' = "items" /\ starts' = starts + 1
    /\ UNCHANGED <<db, memory, circulated>>

-----------------------------------------------------------------------------
(* Circulation, as the module of that name has it: one transaction each.    *)
(* The passes read and write only the generator's memory, and a second      *)
(* start that finds its books there writes nothing: what happens meanwhile   *)
(* is as if it happened at the end of the passes, or before the start.      *)

Between == {"loans", "availability", "audit"}
Circulates(item) ==
    /\ circulated.count < MaxCirculation /\ at \in Between \cup {"done", "killed"}
    /\ circulated' = [count |-> circulated.count + 1,
          between |-> circulated.between \cup IF at \in Between THEN {item} ELSE {}]

Lend(student, item) ==
    /\ Circulates(item)
    /\ student \in db.students /\ item \in DOMAIN db.available /\ db.available[item]
    /\ db' = [db EXCEPT !.available[item] = FALSE, !.audit["BORROW"] = @ + 1,
          !.loans = [id \in 1 .. NextId + 1 |-> IF id <= NextId THEN @[id] ELSE
              [student |-> student, item |-> item, borrowed |-> CirculationDay,
               due |-> CirculationDay + DEFAULT_DUE_DAYS, returned |-> Null]]]
    /\ UNCHANGED <<at, memory, starts>>

TakeBack(id) ==
    /\ Circulates(db.loans[id].item)
    /\ db.loans[id].returned = Null
    /\ db' = [db EXCEPT !.available[db.loans[id].item] = TRUE, !.audit["RETURN"] = @ + 1,
                        !.loans[id].returned = CirculationDay]
    /\ UNCHANGED <<at, memory, starts>>

SeedNext ==
    \/ InsertItems \/ GenerateStudents
    \/ \E student \in Student, item \in Item, due \in DUE_DAYS :
          \/ \E days \in RETURN_DAYS : CompletedLoan(student, item, days, due)
          \/ ActiveLoan(student, item, due)
    \/ CompletedDay \/ ActiveDay
    \/ InsertLoans \/ UpdateItemAvailability \/ GenerateAuditLogs
    \/ Kill \/ Restart
    \/ \E student \in Student, item \in Item : Lend(student, item)
    \/ \E id \in DOMAIN db.loans : TakeBack(id)

SeedSpec == SeedInit /\ [][SeedNext]_seedVars

-----------------------------------------------------------------------------
(* Properties. *)

\* The tables refer to rows that are there, and no item is in the generator's
\* memory longer than its loan.
SeedTypeOK ==
    /\ at \in {"items", "students", "completed", "active", "loans", "availability", "audit",
               "done", "failed", "killed"}
    /\ DOMAIN db.loans = 1 .. NextId
    /\ \A i \in DOMAIN db.loans :
          db.loans[i].item \in DOMAIN db.available /\ db.loans[i].student \in db.students
    /\ db.available \in [DOMAIN db.available -> BOOLEAN]
    /\ \A i \in DOMAIN activeItems : activeItems[i].until > day \/ at = "active"

End(loan) == IF loan.returned = Null THEN Never ELSE loan.returned
\* The loans that are out on a day.
OutOn(d) == {n \in DOMAIN rows : rows[n].borrowed <= d /\ d < End(rows[n])}
\* Loans that may be out together.
Apart(loans) ==
    /\ \A m, n \in loans : m # n => rows[m].item # rows[n].item
    /\ \A s \in Student : Cardinality({n \in loans : rows[n].student = s}) <= MAX_CONCURRENT

\* The generator lends no item twice at a time and no student more than three
\* at a time, but for a loan that stays out: that may begin while one that was
\* returned before SIMULATED_TODAY is out.
OverlapsAreOpen == \A d \in DateRange :
    LET completed == OutOn(d) \cap Returned(rows)
        open == OutOn(d) \ Returned(rows)
        untilEnd == {n \in completed : rows[n].returned = SIMULATED_TODAY}
    IN  Apart(completed) /\ Apart(open \cup untilEnd)

\* What validate_dataset.py accepts agrees with the available column, of
\* magazines and newspapers too, though it looks at books only: an item that
\* does not was lent or taken back between two transactions of the generator.
AcceptedMeansComplete == ValidatorVerdict(db) = "accepted" =>
    \A i \in DOMAIN db.available :
        \/ db.available[i] = ~\E l \in Active(db.loans) : db.loans[l].item = i
        \/ i \in circulated.between

\* The audit of phase 3C, which asks the database, and phase 4A, which counts
\* for itself, tell the same of the same loans, and what the monitor calls
\* ready gives phase 4A its examples of both classes.
ScriptsAgree ==
    LET rows4A == BuildFeatureDataset(db.loans)
        Of(loan) == rows4A[CHOOSE n \in DOMAIN rows4A : rows4A[n].loan = loan]
        ofVal == OfSplit(rows4A, "val")
        val == Picked(ofVal, {n \in DOMAIN ofVal : ofVal[n].borrowed < SIMULATED_TODAY})
        first == {n \in DOMAIN rows4A : rows4A[n].priorLoanCount = 0}
    IN  /\ ~AuditRaises(db.loans) => \A sample \in Samples(db.loans) :
              LET report == AuditReport(db.loans, sample)
                  split == report.splits[TRAIN_CUTOFF]
              IN  /\ report.overdue = Positives(rows4A) /\ report.onTime = Negatives(rows4A)
                  /\ report.firstLoans = Cardinality(first)
                  /\ \A l \in sample : report.prior[l] =
                        [loans |-> Of(l).priorLoanCount, overdue |-> Of(l).priorOverdueCount]
                  /\ split.train = Len(OfSplit(rows4A, "train")) /\ split.val = Len(val)
                  /\ split.trainOverdue = Positives(OfSplit(rows4A, "train"))
                  /\ split.valOverdue = Positives(val)
        /\ Ready(db.loans) => /\ Positives(rows4A) >= Limits.min_overdue_examples
                              /\ Negatives(rows4A) >= Limits.min_ontime_examples
=============================================================================

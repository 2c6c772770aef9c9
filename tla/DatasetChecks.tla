---------------------------- MODULE DatasetChecks ----------------------------
(***************************************************************************)
(* The three scripts that judge the data set and change nothing, as        *)
(* operators: validate_dataset.py (phase 3B), phase3c_audit.py and         *)
(* readiness_monitor.py.  Each makes all of its queries on one connection  *)
(* without autocommit, so that it sees one snapshot db of the database:    *)
(* its loans, the available column, the students and how many audit rows   *)
(* there are of each action.                                               *)
(* A share is compared by cross multiplication.  What a foreign key or the *)
(* one item of a loan makes true (sections 1 and 2 of phase 3B) and the    *)
(* borrower's name, e-mail and phone (section 6) are left out.             *)
(***************************************************************************)
EXTENDS RiskFeatures

CONSTANTS
    SIMULATED_TODAY,
    DateRange,   \* the days on which a loan may begin
    DEFAULT_DUE_DAYS,
    Limits,      \* the numbers that phase 3B and the monitor compare with
    SplitCutoffs, SAMPLE_SIZE  \* of phase 3C

\* In the code the cutoffs are the first of July and of October 2025 and of January
\* 2026, and the second of them is TRAIN_CUTOFF.
ASSUME ChecksAssumption ==
    /\ SIMULATED_TODAY \in Nat /\ DEFAULT_DUE_DAYS \in Nat /\ SAMPLE_SIZE \in Nat
    /\ SplitCutoffs \subseteq Nat /\ TRAIN_CUTOFF \in SplitCutoffs
    /\ {Limits.min_overdue_examples, Limits.min_ontime_examples} \subseteq Nat

Active(table) == (DOMAIN table) \ Completed(table)
LoansOf(table, student) == {i \in DOMAIN table : table[i].student = student}
Borrowers(table, ids) == {table[i].student : i \in ids} \ {Null}
LateOf(table, ids) == {i \in ids : Overdue(table[i])}
\* COALESCE(b.category, m.category, 'Newspaper')
CoalescedCategory(item) == IF Category[item] = Null THEN "Newspaper" ELSE Category[item]
\* Borrowers with this many loans or more: GROUP BY student_id HAVING COUNT(*) >= n
WithLoans(table, ids, n) == {s \in Borrowers(table, ids) :
    Cardinality({i \in ids : table[i].student = s}) >= n}

-----------------------------------------------------------------------------
(* validate_dataset.py *)

\* Sections 3 and 13.
DatesHold(table) ==
    /\ \A i \in DOMAIN table : table[i].due >= table[i].borrowed
    /\ \A i \in DOMAIN table : table[i].borrowed \in DateRange
    /\ \A i \in DOMAIN table : table[i].borrowed <= SIMULATED_TODAY
    /\ \A i \in Completed(table) : table[i].returned \in table[i].borrowed .. SIMULATED_TODAY

\* Sections 4 and 5; without a completed loan the rate is 0.
PopulationHolds(table) ==
    LET overdue == {i \in Active(table) : table[i].due < SIMULATED_TODAY}
        completed == Completed(table)
    IN  /\ Cardinality(Active(table)) \in Limits.active
        /\ Cardinality(completed) >= Limits.completed
        /\ overdue # {} /\ overdue # Active(table)
        /\ Within(Cardinality(LateOf(table, completed)), Cardinality(completed), Limits.overdue)

\* Section 7 asks of the books only.
AvailabilityHolds(db) == \A i \in Active(db.loans) :
    ItemType[db.loans[i].item] = "book" => ~db.available[db.loans[i].item]

\* Section 8.
AuditHolds(db) ==
    /\ db.audit["BORROW"] = Cardinality(DOMAIN db.loans)
    /\ db.audit["RETURN"] = Cardinality(Completed(db.loans))

\* Section 10.  The window counts the overdue loans of the rows before this one
\* (of one day in the order of their ids), and the join by student and day gives
\* a loan once for each loan that its borrower began on that day.
PriorOverdueHolds(table) ==
    LET Prior(i) == Cardinality({j \in LateOf(table, LoansOf(table, table[i].student)) :
                        InLoanOrder(table, j, i)})
        joined == {p \in Completed(table) \X DOMAIN table :
            /\ table[p[1]].student = table[p[2]].student
            /\ table[p[1]].borrowed = table[p[2]].borrowed}
        high == {p \in joined : Prior(p[2]) >= 2}
        low == joined \ high
        Late(pairs) == Cardinality({p \in pairs : Overdue(table[p[1]])})
    IN  high # {} /\ low # {} =>
            Late(high) * Cardinality(low) > Late(low) * Cardinality(high)

\* Section 11.
CategorySpreadHolds(table) ==
    LET Of(c) == {i \in Completed(table) : CoalescedCategory(table[i].item) = c}
        Size(c) == Cardinality(Of(c))
        Late(c) == Cardinality(LateOf(table, Of(c)))
        large == {c \in {CoalescedCategory(table[i].item) : i \in Completed(table)} :
                    Size(c) >= Limits.categoryLoans}
    IN  Cardinality(large) >= 2 => \E c, d \in large :
            100 * (Late(c) * Size(d) - Late(d) * Size(c)) > 5 * Size(c) * Size(d)

\* Sections 14 and 16 and the count of students.
DistributionHolds(table) ==
    LET all == Cardinality(DOMAIN table)
        custom == {i \in DOMAIN table : table[i].due - table[i].borrowed # DEFAULT_DUE_DAYS}
        weekend == {i \in DOMAIN table : LoanFeatures(table[i]).isWeekendBorrow = 1}
    IN  /\ Within(Cardinality(custom), all, Limits.customDue)
        /\ 100 * Cardinality(weekend) < 40 * all
        /\ Cardinality(Borrowers(table, DOMAIN table)) >= Limits.students

\* The summary divides by the completed loans, so that without one the script
\* raises before its verdict.
ValidatorVerdict(db) ==
    IF Completed(db.loans) = {} THEN "raised"
    ELSE IF /\ DatesHold(db.loans) /\ PopulationHolds(db.loans)
            /\ AvailabilityHolds(db) /\ AuditHolds(db)
            /\ PriorOverdueHolds(db.loans) /\ CategorySpreadHolds(db.loans)
            /\ DistributionHolds(db.loans)
         THEN "accepted" ELSE "rejected"

-----------------------------------------------------------------------------
(* phase3c_audit.py *)

\* It divides by the completed, the overdue and the active loans.
AuditRaises(table) ==
    LateOf(table, Completed(table)) = {} \/ Active(table) = {}

\* Mutant: loans that are still out count as history.
FirstLoansOfAny(table) == {i \in Completed(table) : ~\E j \in DOMAIN table :
    table[j].student = table[i].student /\ table[j].borrowed < table[i].borrowed}

\* Section 2d: the completed loans whose borrower has no completed one of an
\* earlier day.
FirstLoans(table) == {i \in Completed(table) : ~\E j \in Completed(table) :
    table[j].student = table[i].student /\ table[j].borrowed < table[i].borrowed}

\* Section 4b: five of the earliest loans, which of those of one day is not said.
Samples(table) ==
    LET size == Min({SAMPLE_SIZE, Cardinality(Completed(table))})
    IN  {s \in SUBSET Completed(table) : /\ Cardinality(s) = size
            /\ \A i \in s, j \in Completed(table) \ s : table[i].borrowed <= table[j].borrowed}

PriorOf(table, id) ==
    LET prior == {i \in Completed(table) : /\ table[i].student = table[id].student
                                           /\ table[i].borrowed < table[id].borrowed}
    IN  [loans |-> Cardinality(prior), overdue |-> Cardinality(LateOf(table, prior))]

\* Section 5c: borrowers' loans in the order of the days, each counted in the
\* bucket of its borrower's rate before it.
RateBucket(table, id) ==
    LET before == {i \in Completed(table) : /\ table[i].student = table[id].student
                                            /\ InLoanOrder(table, i, id)}
        late == Cardinality(LateOf(table, before))
        all == Cardinality(before)
    IN  CASE all = 0 -> "none"
          [] all > 0 /\ late = 0 -> "0%"
          [] late > 0 /\ 4 * late <= all -> "1-25%"
          [] 4 * late > all /\ 2 * late <= all -> "26-50%"
          [] 2 * late > all -> "51%+"

\* Section 6a.
SplitAt(table, cutoff) ==
    LET train == {i \in Completed(table) : table[i].borrowed < cutoff}
        val == {i \in Completed(table) : table[i].borrowed \in cutoff .. SIMULATED_TODAY - 1}
    IN  [train |-> Cardinality(train), val |-> Cardinality(val),
         trainOverdue |-> Cardinality(LateOf(table, train)),
         valOverdue |-> Cardinality(LateOf(table, val))]

\* What the report says, for one of the samples it may take.
AuditReport(table, sample) ==
    LET completed == Completed(table)
        overdue == LateOf(table, completed)
        bucket == [i \in completed |-> RateBucket(table, i)]
        Taken(type) == Cardinality({table[i].item : i \in {j \in completed :
                            ItemType[table[j].item] = type}})
    IN  [total |-> Cardinality(DOMAIN table), completed |-> Cardinality(completed),
         overdue |-> Cardinality(overdue),
         onTime |-> Cardinality(completed) - Cardinality(overdue),
         activeOverdue |-> Cardinality({i \in Active(table) : table[i].due < SIMULATED_TODAY}),
         depth |-> [n \in {1, 2, 5, 10} |-> Cardinality(WithLoans(table, completed, n))],
         items |-> [type \in {"book", "magazine", "newspaper"} |-> Taken(type)],
         firstLoans |-> Cardinality(FirstLoans(table)),
         prior |-> [i \in sample |-> PriorOf(table, i)],
         buckets |-> [b \in {bucket[i] : i \in completed} |->
                        LET of == {i \in completed : bucket[i] = b}
                        IN  <<Cardinality(of), Cardinality(LateOf(table, of))>>],
         splits |-> [c \in SplitCutoffs |-> SplitAt(table, c)]]

-----------------------------------------------------------------------------
(* readiness_monitor.py.  Of the eligible loans (completed, with a student)  *)
(* it asks nearly all that it asks; of the loans in all, how many there are. *)

Eligible(table) == {i \in Completed(table) : table[i].student # Null}

\* Only a loan of a book can have a category, whatever the loans are of.
CategoryCovered(table) == {i \in Eligible(table) :
    ItemType[table[i].item] = "book" /\ Category[table[i].item] # Null}

ReadinessChecks(table) ==
    LET eligible == Eligible(table)
        named == {i \in DOMAIN table : table[i].student # Null}
        late == LateOf(table, eligible)
        months == {MonthKey(table[i].borrowed) : i \in named}
    IN  [completed_loans |-> Cardinality(Completed(table)) >= Limits.min_completed_loans,
         distinct_borrowers |->
            Cardinality(Borrowers(table, eligible)) >= Limits.min_distinct_borrowers,
         months_coverage |-> Cardinality(months) >= Limits.min_months_coverage,
         overdue_examples |-> Cardinality(late) >= Limits.min_overdue_examples,
         ontime_examples |-> Cardinality(eligible \ late) >= Limits.min_ontime_examples,
         borrowers_with_history |->
            Cardinality(WithLoans(table, named, 5)) >= Limits.min_borrowers_with_history,
         category_coverage |-> eligible # {} /\
            100 * Cardinality(CategoryCovered(table)) >= 80 * Cardinality(eligible),
         due_date_coverage |-> eligible # {}]

Ready(table) == LET checks == ReadinessChecks(table) IN \A c \in DOMAIN checks : checks[c]
==============================================================================

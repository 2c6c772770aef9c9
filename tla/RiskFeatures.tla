---------------------------- MODULE RiskFeatures ----------------------------
(***************************************************************************)
(* The feature rows of scripts/dev-seed/phase4a_features.py as operators:  *)
(* one row per completed loan, with its label, its split and twelve        *)
(* features of the borrower's earlier loans, and the checks that the       *)
(* script runs on the rows.  A table is borrow_records, a function from    *)
(* the loan's id to its record; a file of rows is a sequence.  A rate is   *)
(* in ten-thousandths and a mean in hundredths, as the script rounds them. *)
(***************************************************************************)
EXTENDS DemandForecast, TLC

CONSTANTS
    TRAIN_CUTOFF,  \* the first day of the validation split
    FirstWeekday,  \* the weekday of day 0, Monday being 0
    Expected       \* what validate_dataset demands, as a record

\* In the code the numbers are 9332 and 3306, and the percentages 63 to 66,
\* 25 to 45 and 48 to 60.
ASSUME FeatureAssumption ==
    /\ TRAIN_CUTOFF \in Nat /\ FirstWeekday \in 0 .. 6
    /\ DOMAIN Expected = {"total", "overdue", "majority", "zeroHistory", "highHistory"}

Rounded(n, d, places) == IF d = 0 THEN 0 ELSE (2 * n * places + d) \div (2 * d)

Completed(table) == {i \in DOMAIN table : table[i].returned # Null}
Overdue(loan) == loan.returned # Null /\ loan.returned > loan.due
CategoryOf(item) == IF ItemType[item] = "newspaper" THEN "Newspaper" ELSE Category[item]

\* ORDER BY borrow_date, id
InLoanOrder(table, i, j) ==
    \/ table[i].borrowed < table[j].borrowed
    \/ table[i].borrowed = table[j].borrowed /\ i < j

Before(table, ids) == [i \in ids |-> {j \in ids : InLoanOrder(table, j, i)}]

\* The domain of before in a sequence, each after what before says comes before it.
Ranked(before) == [n \in 1 .. Cardinality(DOMAIN before) |->
    CHOOSE i \in DOMAIN before : Cardinality(before[i]) = n - 1]

LoanSequence(table, ids) == Ranked(Before(table, ids))

\* [r for r in rows if ..]: the rows at some places, in their order.  Said of the
\* places, so that it can be reasoned about as SelectSeq and its test cannot.
Picked(rows, places) ==
    LET place == Ranked([n \in places |-> {m \in places : m < n}])
    IN  [k \in DOMAIN place |-> rows[place[k]]]

\* Mutant: the date of the earlier loans is not looked at.
StudentHistoryAnyTime(table, id) == {i \in (Completed(table)) \ {id} :
    table[i].student = table[id].student}

\* The borrower's completed loans of earlier days, whenever they were returned.
StudentHistory(table, id) == {i \in Completed(table) :
    /\ table[i].student = table[id].student
    /\ table[i].borrowed < table[id].borrowed}

SemesterFactor(date) ==
    CASE MonthKey(date)[2] \in {1, 2, 7, 8} -> 60
      [] MonthKey(date)[2] \in {3, 4, 5, 9, 10, 11} -> 100
      [] OTHER -> 75

\* most_common(1): of the most frequent categories, the one met first.  category
\* maps each loan to its category, before to the loans that are met before it.
ModeCategory(category, before) ==
    LET Count(i) == Cardinality({j \in DOMAIN category : category[j] = category[i]})
        first == CHOOSE i \in DOMAIN category : \A j \in DOMAIN category :
                    Count(i) > Count(j) \/ (Count(i) = Count(j) /\ j \notin before[i])
    IN  IF DOMAIN category = {} THEN "Unknown" ELSE category[first]

PreferredCategory(table, history) ==
    ModeCategory([i \in history |-> CategoryOf(table[i].item)], Before(table, history))

\* The completed loans of the item of earlier days.
ItemHistory(table, id) == {i \in Completed(table) :
    table[i].item = table[id].item /\ table[i].borrowed < table[id].borrowed}

\* The features that look at the borrower's history and at the item's.
HistoryFeatures(table, id, history, lent) ==
    LET late(ids) == Cardinality({i \in ids : Overdue(table[i])})
        same == {i \in history : CategoryOf(table[i].item) = CategoryOf(table[id].item)}
        back == {i \in history : table[i].returned # Null}
    IN  [priorLoanCount |-> Cardinality(history),
         priorOverdueCount |-> late(history),
         historicalOverdueRate |-> Rounded(late(history), Cardinality(history), 10000),
         avgDaysToReturn |-> Rounded(
            SumFunctionOnSet([i \in back |-> table[i].returned - table[i].borrowed], back),
            Cardinality(back), 100),
         preferredCategory |-> PreferredCategory(table, history),
         daysSinceLastBorrow |-> IF history = {} THEN -1 ELSE
            table[id].borrowed - Max({table[i].borrowed : i \in history}),
         categoryOverdueRate |-> Rounded(late(same), Cardinality(same), 10000),
         itemPopularityScore |-> Cardinality(lent)]

PriorFeatures(table, id) ==
    HistoryFeatures(table, id, StudentHistory(table, id), ItemHistory(table, id))

\* The features of the loan itself.
LoanFeatures(loan) ==
    LET weekday == (loan.borrowed + FirstWeekday) % 7
    IN  [borrowDayOfWeek |-> weekday,
         isWeekendBorrow |-> IF weekday >= 5 THEN 1 ELSE 0,
         semesterFactor |-> SemesterFactor(loan.borrowed),
         loanDuration |-> loan.due - loan.borrowed]

FeatureRow(table, id) ==
    LET prior == PriorFeatures(table, id)
        loan == LoanFeatures(table[id])
    IN  [loan |-> id, student |-> table[id].student, borrowed |-> table[id].borrowed,
         itemType |-> ItemType[table[id].item], category |-> CategoryOf(table[id].item),
         split |-> IF table[id].borrowed < TRAIN_CUTOFF THEN "train" ELSE "val",
         label |-> IF Overdue(table[id]) THEN 1 ELSE 0,
         priorLoanCount |-> prior.priorLoanCount,
         priorOverdueCount |-> prior.priorOverdueCount,
         historicalOverdueRate |-> prior.historicalOverdueRate,
         avgDaysToReturn |-> prior.avgDaysToReturn,
         preferredCategory |-> prior.preferredCategory,
         daysSinceLastBorrow |-> prior.daysSinceLastBorrow,
         categoryOverdueRate |-> prior.categoryOverdueRate,
         itemPopularityScore |-> prior.itemPopularityScore,
         borrowDayOfWeek |-> loan.borrowDayOfWeek, isWeekendBorrow |-> loan.isWeekendBorrow,
         semesterFactor |-> loan.semesterFactor, loanDuration |-> loan.loanDuration]

BuildFeatureDataset(table) ==
    LET loans == LoanSequence(table, Completed(table))
    IN  [n \in DOMAIN loans |-> FeatureRow(table, loans[n])]

OfSplit(rows, split) == Picked(rows, {n \in DOMAIN rows : rows[n].split = split})

-----------------------------------------------------------------------------
(* validate_dataset: the percentages divide by the size of each split, so  *)
(* that a split with no row ends the script without a report.              *)

Positives(rows) == Cardinality({n \in DOMAIN rows : rows[n].label = 1})
Negatives(rows) == Len(rows) - Positives(rows)
Within(part, whole, range) == range[1] * whole <= 100 * part /\ 100 * part <= range[2] * whole

ValidationRaises(rows) == OfSplit(rows, "train") = <<>> \/ OfSplit(rows, "val") = <<>>

ValidateDataset(rows) ==
    LET Rate(part, range) == LET n == Len(part) IN
            IF n = 0 THEN range[1] <= 0 ELSE Within(Positives(part), n, range)
        majority == Max({Positives(rows), Negatives(rows)})
        newcomers == Picked(rows, {n \in DOMAIN rows : rows[n].priorLoanCount = 0})
        late == Picked(rows, {n \in DOMAIN rows :
            rows[n].historicalOverdueRate >= 5100 /\ rows[n].priorLoanCount >= 2})
    IN  /\ Len(rows) = Expected.total
        /\ Positives(rows) = Expected.overdue
        /\ \A n \in DOMAIN rows : rows[n].preferredCategory # Null
        /\ Within(majority, Len(rows), Expected.majority)
        /\ Rate(newcomers, Expected.zeroHistory)
        /\ Rate(late, Expected.highHistory)
        /\ \A n \in DOMAIN rows : rows[n].priorLoanCount = 0 <=> rows[n].daysSinceLastBorrow = -1
=============================================================================

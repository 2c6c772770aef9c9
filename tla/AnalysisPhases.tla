--------------------------- MODULE AnalysisPhases ---------------------------
(***************************************************************************)
(* The analysis scripts of scripts/dev-seed, phases 4A to 4F, 5A and 5B,   *)
(* as they are run one after another over a database that circulation goes *)
(* on changing.  A script reads all that it reads, computes, and writes    *)
(* its files one by one, the report last; it may raise on the way, and may *)
(* be killed between two files or inside one.  A later script reads what   *)
(* files it finds: nothing says which run wrote them.                      *)
(***************************************************************************)
EXTENDS RiskFeatures, RiskScoring, SequencesExt

CONSTANTS
    Student, SeedTables,  \* what the seed generator may have left in borrow_records
    SeedToday,            \* the day of the first run
    LOAN_DAYS,
    CALIBRATION_CUTOFF, THRESHOLDS, PARTIAL_MONTH,
    SCORES,               \* the levels that the abstract regression scores with
    LastDay, MaxLoans, MaxRuns, MaxKills,  \* bounds of the model
    FirstLeafRun

\* borrow_records on a day: ids are given out in order.
IsTable(records, day) ==
    /\ IsFiniteSet(DOMAIN records)
    /\ records \in [1 .. Cardinality(DOMAIN records) ->
          [student : Student, item : DOMAIN ItemType, borrowed : 0 .. day, due : Nat,
           returned : (0 .. day) \cup {Null}]]

ASSUME PhaseAssumption ==
    /\ CALIBRATION_CUTOFF \in 0 .. TRAIN_CUTOFF /\ THRESHOLDS # {}
    /\ SeedToday \in Nat /\ LastDay \in Nat /\ LOAN_DAYS \in Nat \ {0}
    /\ Null \notin Nat /\ MaxRuns \in Nat
    /\ \A records \in SeedTables : IsTable(records, SeedToday)

VARIABLES
    table,  \* borrow_records: loan id -> record
    today,
    files,  \* the output directory: file -> what was last written to it
    job,    \* the script that is running, or Null
    runs,   \* how many scripts came to write a file
    kills   \* how many of them were killed

phaseVars == <<table, today, files, job, runs, kills>>

Phases == {"4A", "4B", "4C", "4D", "4E", "4F", "5A", "5B"}
FeaturesAll == <<"4A", "features_all.csv">>
FeaturesTrain == <<"4A", "features_train.csv">>
FeaturesVal == <<"4A", "features_val.csv">>
HeuristicTrain == <<"4B", "heuristic_train.csv">>
HeuristicVal == <<"4B", "heuristic_val.csv">>
LrTrain == <<"4C", "lr_train.csv">>
LrVal == <<"4C", "lr_val.csv">>
Report(phase) == <<phase, "report.txt">>
Demand(phase) == <<phase, "monthly_demand.csv">>
Forecast(phase, protocol, window) == <<phase, protocol, ToString(window)>>

-----------------------------------------------------------------------------
(* What each script writes: a sequence of <<file, content>>, cut short at  *)
(* the point where the script raises.                                      *)

Loans(rows) == [n \in DOMAIN rows |-> rows[n].loan]
Labels(rows) == [n \in DOMAIN rows |-> rows[n].label]
LoanSet(rows) == {rows[n].loan : n \in DOMAIN rows}
BothClasses(rows) == Positives(rows) > 0 /\ Negatives(rows) > 0
\* What a report says of the regression behind it.
Fit(fitted, evaluated) == [fitted |-> LoanSet(fitted), evaluated |-> LoanSet(evaluated)]

\* Mutant: the report is written before the rows it describes.
Writes4AReportFirst(records) ==
    LET rows == BuildFeatureDataset(records)
    IN  (IF ValidationRaises(rows) THEN <<>>
         ELSE <<<<Report("4A"), [passed |-> ValidateDataset(rows)]>>>>)
        \o <<<<FeaturesAll, rows>>, <<FeaturesTrain, OfSplit(rows, "train")>>,
             <<FeaturesVal, OfSplit(rows, "val")>>>>

Writes4A(records) ==
    LET rows == BuildFeatureDataset(records)
    IN  <<<<FeaturesAll, rows>>, <<FeaturesTrain, OfSplit(rows, "train")>>,
          <<FeaturesVal, OfSplit(rows, "val")>>>>
        \o IF ValidationRaises(rows) THEN <<>>
           ELSE <<<<Report("4A"), [passed |-> ValidateDataset(rows)]>>>>

HeuristicRows(rows) == [n \in DOMAIN rows |->
    [loan |-> rows[n].loan, student |-> rows[n].student, label |-> rows[n].label,
     score |-> HeuristicScore(rows[n]), tier |-> RiskTier(HeuristicScore(rows[n]))]]

\* One split of the report of phase 4B: the mean scores divide by the size of
\* each class, so that a split of one class ends the script before the report.
HeuristicReport(scored) ==
    LET scores == [n \in DOMAIN scored |-> scored[n].score]
    IN  [auc |-> RocAuc(Labels(scored), scores),
         confusion |-> ComputeMetrics(Labels(scored), scores, 4500),
         tiers |-> [t \in {"LOW", "MEDIUM", "HIGH"} |->
            LET of == Picked(scored, {n \in DOMAIN scored : scored[n].tier = t})
            IN  <<Len(of), Positives(of)>>]]

Writes4B(train, val) ==
    IF train = <<>> THEN <<>>
    ELSE <<<<HeuristicTrain, HeuristicRows(train)>>, <<HeuristicVal, HeuristicRows(val)>>>>
         \o IF BothClasses(train) /\ BothClasses(val)
            THEN <<<<Report("4B"), [train |-> HeuristicReport(HeuristicRows(train)),
                                    val |-> HeuristicReport(HeuristicRows(val))]>>>>
            ELSE <<>>

\* Mutant: the rows are joined by the student.
LookupScoresOfStudent(val, heuristic) ==
    LET of(n) == {h \in DOMAIN heuristic : heuristic[h].student = val[n].student}
        found == {n \in DOMAIN val : of(n) # {}}
    IN  Picked([n \in found |-> heuristic[Min(of(n))]], found)

\* For each row the first row of the heuristic's file with its loan_id; a loan
\* that the file does not have is left out, so that later scores move up.
LookupScores(val, heuristic) ==
    LET found == Picked(Loans(val), {n \in DOMAIN val : val[n].loan \in LoanSet(heuristic)})
    IN  [n \in DOMAIN found |-> heuristic[CHOOSE h \in DOMAIN heuristic :
            /\ heuristic[h].loan = found[n]
            /\ \A e \in 1 .. h - 1 : heuristic[e].loan # found[n]]]

\* Phase 4C compares both models on the same labels: pairs says whose label is
\* counted with whose score.  An empty val stops it inside lr_val.csv.
ReportOf4C(train, val, heuristic) ==
    LET scored == LookupScores(val, heuristic.content)
    IN  [fitted |-> LoanSet(train), evaluated |-> LoanSet(val),
         pairs |-> [n \in Paired(val, scored) |-> <<val[n].loan, scored[n].loan>>],
         sameRows |-> heuristic.from = files[FeaturesVal].run]

Writes4C(train, val) ==
    IF train = <<>> THEN <<>>
    ELSE <<<<LrTrain, Loans(train)>>, <<LrVal, Loans(val)>>>>
         \o IF HeuristicVal \in DOMAIN files /\ BothClasses(val)
            THEN <<<<Report("4C"), ReportOf4C(train, val, files[HeuristicVal])>>>>
            ELSE <<>>

\* Phase 4D names the operating point of recall 0.80 in its verdict, and raises
\* when no threshold has one.
Reported4D(val, scores) == \E t \in THRESHOLDS :
    RecallAtLeast(ComputeMetrics(Labels(val), scores, t), 80)

\* Phase 4E formats the range of the ROC-AUCs of the complete months and divides
\* by their mean F1: it needs both classes in each, and a true alert at 0.25.
Reported4E(val, scores) ==
    LET Of(month) == {n \in DOMAIN val : MonthKey(val[n].borrowed) = month}
        complete == {MonthKey(val[n].borrowed) : n \in DOMAIN val} \ {PARTIAL_MONTH}
    IN  /\ complete # {}
        /\ \A month \in complete :
              RocAuc4E(Picked(Labels(val), Of(month)), Picked(scores, Of(month))) # None
        /\ \E month \in complete : \E n \in Of(month) : val[n].label = 1 /\ scores[n] >= 2500

Writes4D(train, val, scores) ==
    IF train = <<>> \/ val = <<>> \/ ~Reported4D(val, scores) THEN <<>>
    ELSE <<<<Report("4D"), Fit(train, val)>>>>

Writes4E(train, val, scores) ==
    IF train = <<>> \/ ~Reported4E(val, scores) THEN <<>>
    ELSE <<<<Report("4E"), Fit(train, val)>>>>

\* Phase 4F splits features_all.csv in three by the borrow date, fits the
\* regression on the first part and the calibration on the second.
ModelTrain(rows) == Picked(rows, {n \in DOMAIN rows : rows[n].borrowed < CALIBRATION_CUTOFF})
\* Mutant: the calibration rows have no upper bound.
CalibRowsOpenEnded(rows) == Picked(rows, {n \in DOMAIN rows : CALIBRATION_CUTOFF <= rows[n].borrowed})
CalibRows(rows) == Picked(rows, {n \in DOMAIN rows :
    CALIBRATION_CUTOFF <= rows[n].borrowed /\ rows[n].borrowed < TRAIN_CUTOFF})
ValRows(rows) == Picked(rows, {n \in DOMAIN rows : rows[n].borrowed >= TRAIN_CUTOFF})

Writes4F(rows) ==
    IF ModelTrain(rows) = <<>> \/ CalibRows(rows) = <<>> THEN <<>>
    ELSE <<<<Report("4F"), Fit(ModelTrain(rows) \o CalibRows(rows), ValRows(rows))>>>>

WritesOfDemand(records, phase) ==
    LET run == DemandRun(records, phase)
        Csvs(protocol) == [n \in DOMAIN Windows(phase) |->
            <<Forecast(phase, protocol, Windows(phase)[n]), run.rows[protocol][Windows(phase)[n]]>>]
    IN  IF run.exits THEN <<>>
        ELSE <<<<Demand(phase), run.grid>>>> \o Csvs(Static) \o Csvs(Rolling)
             \o <<<<Report(phase), [bounds |-> run.bounds, regimes |-> run.regimeDemand,
                    train |-> run.train, test |-> run.test,
                    coverage |-> [p \in Protocols |->
                        [w \in DOMAIN run.rows[p] |-> Coverage(run.rows[p][w])]]]>>>>

Needs(phase) ==
    CASE phase \in {"4B", "4C", "4D", "4E"} -> {FeaturesTrain, FeaturesVal}
      [] phase = "4F" -> {FeaturesAll}
      [] OTHER -> {}

\* The regression of phases 4C to 4F, which no property asks what it has learnt:
\* any score for each row it is shown.
Scorings(val) == [DOMAIN val -> SCORES]

\* All that a script of the phase may go on to write, once it has what it reads.
Outcomes(phase) ==
    LET train == files[FeaturesTrain].content
        val == files[FeaturesVal].content
    IN  CASE phase = "4A" -> {Writes4A(table)}
          [] phase = "4B" -> {Writes4B(train, val)}
          [] phase = "4C" -> {Writes4C(train, val)}
          [] phase = "4D" -> {Writes4D(train, val, s) : s \in Scorings(val)}
          [] phase = "4E" -> {Writes4E(train, val, s) : s \in Scorings(val)}
          [] phase = "4F" -> {Writes4F(files[FeaturesAll].content)}
          [] phase \in {"5A", "5B"} -> {WritesOfDemand(table, phase)}

-----------------------------------------------------------------------------
PhaseInit ==
    /\ table \in SeedTables /\ today = SeedToday
    /\ files = <<>> /\ job = Null /\ runs = 0 /\ kills = 0

\* Mutant: a script that raised before it wrote goes on to write.
StartAnyway(phase) ==
    /\ job = Null /\ runs < MaxRuns
    /\ \E todo \in IF Needs(phase) \subseteq DOMAIN files THEN Outcomes(phase) ELSE {<<>>} :
          job' = [phase |-> phase, run |-> runs + 1, todo |-> todo, from |-> 0]
    /\ runs' = runs + 1
    /\ UNCHANGED <<table, today, files, kills>>

\* A script starts, reads and computes; one that raises before its first file
\* leaves no trace.  FirstLeafRun is a bound: the phases whose files no other
\* phase reads come late.
Start(phase) ==
    /\ job = Null /\ runs < MaxRuns
    /\ phase \notin {"4A", "4B", "4C"} => runs >= FirstLeafRun
    /\ \E todo \in IF Needs(phase) \subseteq DOMAIN files THEN Outcomes(phase) ELSE {<<>>} :
          /\ todo # <<>>
          /\ job' = [phase |-> phase, run |-> runs + 1, todo |-> todo,
                     from |-> IF FeaturesVal \in DOMAIN files THEN files[FeaturesVal].run ELSE 0]
    /\ runs' = runs + 1
    /\ UNCHANGED <<table, today, files, kills>>

Written(content) == [run |-> job.run, from |-> job.from, content |-> content]
Put(file, content) == files' = [f \in DOMAIN files \cup {file} |->
    IF f = file THEN Written(content) ELSE files[f]]

\* open(.., "w"), writerows, close
Write ==
    /\ job # Null
    /\ Put(Head(job.todo)[1], Head(job.todo)[2])
    /\ job' = IF Len(job.todo) = 1 THEN Null ELSE [job EXCEPT !.todo = Tail(@)]
    /\ UNCHANGED <<table, today, runs, kills>>

\* The script is killed: between two files, or inside one, of which the rows
\* that were flushed remain.  Of a file that no script reads, what was cut is
\* taken for no file.
Kill ==
    /\ job # Null /\ job' = Null /\ kills < MaxKills /\ kills' = kills + 1
    /\ LET file == Head(job.todo)[1]
           read == file \in {FeaturesAll, FeaturesTrain, FeaturesVal, HeuristicVal}
       IN  \/ files' = files
           \/ ~read /\ files' = [f \in (DOMAIN files) \ {file} |-> files[f]]
           \/ /\ read
              /\ \E n \in 0 .. Len(Head(job.todo)[2]) : Put(file, SubSeq(Head(job.todo)[2], 1, n))
    /\ UNCHANGED <<table, today, runs>>

\* Circulation goes on: an item that is in is lent, a loan is returned.  A script
\* reads the table when it starts and never after, so a change made while it
\* runs is one made after it: the model has them only between two scripts.
Lend(student, item) ==
    /\ job = Null /\ Cardinality(DOMAIN table) < MaxLoans
    /\ \A i \in DOMAIN table : table[i].item = item => table[i].returned # Null
    /\ LET id == Cardinality(DOMAIN table) + 1 IN
       table' = [i \in DOMAIN table \cup {id} |-> IF i # id THEN table[i] ELSE
          [student |-> student, item |-> item, borrowed |-> today,
           due |-> today + LOAN_DAYS, returned |-> Null]]
    /\ UNCHANGED <<today, files, job, runs, kills>>

TakeBack(id) ==
    /\ job = Null /\ table[id].returned = Null
    /\ table' = [table EXCEPT ![id].returned = today]
    /\ UNCHANGED <<today, files, job, runs, kills>>

NextDay ==
    /\ job = Null /\ today < LastDay /\ today' = today + 1
    /\ UNCHANGED <<table, files, job, runs, kills>>

PhaseNext ==
    \/ \E phase \in Phases : Start(phase)
    \/ Write \/ Kill \/ NextDay
    \/ \E student \in Student, item \in DOMAIN ItemType : Lend(student, item)
    \/ \E id \in DOMAIN table : TakeBack(id)

PhaseSpec == PhaseInit /\ [][PhaseNext]_phaseVars

-----------------------------------------------------------------------------
(* Properties. *)

AnalysisTypeOK ==
    /\ today \in Nat /\ runs \in 0 .. MaxRuns /\ IsTable(table, today)
    /\ \A f \in DOMAIN files : f[1] \in Phases /\ files[f].run \in 1 .. runs
    /\ job # Null => job.phase \in Phases /\ job.todo # <<>>

\* A report is the last file of its run: beside it lie the files it was made
\* of, or files of a later run that did not get as far as its own report.
ReportsWrittenLast == \A r, f \in DOMAIN files :
    r = Report(r[1]) /\ f[1] = r[1] => files[f].run >= files[r].run

\* No loan that a model or its calibration was fitted on is among the loans it
\* is evaluated on, whatever runs the files it read are of.
HoldoutUntouched == \A phase \in {"4C", "4D", "4E", "4F"} :
    Report(phase) \in DOMAIN files =>
        LET report == files[Report(phase)].content
        IN  report.fitted \cap report.evaluated = {}

\* Phase 4C counts a loan's label with another loan's heuristic score only if
\* heuristic_val.csv was made of another run's features_val.csv.
MisalignedOnlyIfStale == Report("4C") \in DOMAIN files =>
    LET report == files[Report("4C")].content
    IN  report.sameRows => \A n \in DOMAIN report.pairs : report.pairs[n][1] = report.pairs[n][2]

\* The trapezoids of compute_roc_auc add up to the share of the pairs of an
\* overdue and an on-time loan that the heuristic puts in order, ties one half.
AucIsRank == Report("4B") \in DOMAIN files /\ HeuristicVal \in DOMAIN files =>
    LET rows == files[HeuristicVal].content
        scores == [n \in DOMAIN rows |-> rows[n].score]
    IN  files[Report("4B")].run = files[HeuristicVal].run =>
            files[Report("4B")].content.val.auc =
                <<RankedPairs(Labels(rows), scores), 2 * Positives(rows) * Negatives(rows)>>

\* The database as it was on a day: later loans are not in it, and what is
\* returned later is still out.
AsOf(day) == [i \in {j \in DOMAIN table : table[j].borrowed <= day} |->
    IF table[i].returned # Null /\ table[i].returned <= day THEN table[i]
    ELSE [table[i] EXCEPT !.returned = Null]]

\* The features of the records available at the loan's borrow_date.
PointInTimeFeatures(id) ==
    LET known == AsOf(table[id].borrowed)
        earlier == {i \in DOMAIN known : known[i].borrowed < table[id].borrowed}
    IN  HistoryFeatures(known, id, {i \in earlier : known[i].student = table[id].student},
                                   {i \in earlier : known[i].item = table[id].item})

IsPointInTime(id) == PriorFeatures(table, id) = PointInTimeFeatures(id)

\* phase4a_features.py: "12 features computed strictly from records available
\* at the loan's borrow_date".
PointInTime == job # Null /\ job.phase = "4A" => \A id \in Completed(table) : IsPointInTime(id)

\* What phase 4A knows too much or too little of, when it writes its rows, is
\* only earlier loans that were still out on the loan's borrow_date: the
\* borrower's, or the item's own where the generator lent it twice.
OnlyOpenLoansLeak == job # Null /\ job.phase = "4A" => \A id \in Completed(table) :
    \/ IsPointInTime(id)
    \/ \E i \in DOMAIN table :
          /\ table[i].student = table[id].student \/ table[i].item = table[id].item
          /\ table[i].borrowed < table[id].borrowed
          /\ table[i].returned # Null => table[i].returned > table[id].borrowed

\* The demand grid holds no month before the first or after the last loan, and
\* counts each month that was over when the script ran as borrow_records does.
GridIsTruthful == \A phase \in {"5A", "5B"} : Demand(phase) \in DOMAIN files =>
    LET grid == files[Demand(phase)].content
        records == LoadBorrowData(table)
        last == LastMonth({k[1] : k \in DOMAIN grid})
    IN  \A k \in DOMAIN grid :
            /\ CompareMonths(FirstMonth(Months(records)), k[1]) <= 0
            /\ CompareMonths(k[1], LastMonth(Months(records))) <= 0
            /\ k[1] # last => grid[k] = Cardinality({i \in DOMAIN records :
                    records[i] = [month |-> k[1], series |-> k[2]]})
=============================================================================

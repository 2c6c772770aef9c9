------------------------- MODULE RiskFeaturesProofs -------------------------
(***************************************************************************)
(* The operators that the analysis scripts are made of, for every table    *)
(* and every configuration.  The demand forecast of phases 5A and 5B: the  *)
(* calendar is an order without gaps, the grid holds every month of its    *)
(* range and the number of loans it is said to hold, and no forecast       *)
(* depends on demand that its protocol does not let it see.  The rows of   *)
(* phase 4A: ORDER BY goes through all loans in one order, each once, and  *)
(* a selection of rows keeps that order.                                   *)
(***************************************************************************)
EXTENDS RiskFeatures, FiniteSetTheorems, SequenceTheorems, WellFoundedInduction, TLAPS

Month == Int \X (1 .. 12)
\* The configuration, as months: what ForecastAssumption says of it.
ConfiguredMonths == {DATE_START, DATE_END, TRAIN_END, TEST_START}

-----------------------------------------------------------------------------
(* The calendar. *)

\* A month is its distance from month 0, and every distance is a month.
LEMMA KeyOfTotal == \A t \in Int : Key(t) \in Month /\ Total(Key(t)) = t
  BY DEF Key, Total, Month

LEMMA TotalOfKey == \A m \in Month : Total(m) \in Int /\ Key(Total(m)) = m
  BY DEF Key, Total, Month

LEMMA ConfiguredAreMonths == ConfiguredMonths \subseteq Month
  BY ForecastAssumption DEF Month, ConfiguredMonths

\* shift_month goes as many months away as it is told to, in steps or at once.
LEMMA ShiftIsExact ==
  ASSUME NEW m \in Month, NEW a \in Int
  PROVE  /\ ShiftMonth(m, a) \in Month
         /\ Total(ShiftMonth(m, a)) = Total(m) + a
         /\ \A b \in Int : ShiftMonth(ShiftMonth(m, a), b) = ShiftMonth(m, a + b)
<1>1. Total(m) \in Int /\ Total(m) + a \in Int
  BY TotalOfKey
<1>2. ShiftMonth(m, a) \in Month /\ Total(ShiftMonth(m, a)) = Total(m) + a
  BY <1>1, KeyOfTotal DEF ShiftMonth
<1>3. \A b \in Int : (Total(m) + a) + b = Total(m) + (a + b)
  BY <1>1
<1> QED
  BY <1>2, <1>3 DEF ShiftMonth

LEMMA ShiftBack ==
  ASSUME NEW m \in Month, NEW n \in Nat
  PROVE  ShiftMonth(m, -n) \in Month /\ Total(ShiftMonth(m, -n)) = Total(m) - n
<1>1. -n \in Int /\ Total(m) \in Int /\ Total(m) + (-n) = Total(m) - n
  BY TotalOfKey
<1>2. ShiftMonth(m, -n) \in Month /\ Total(ShiftMonth(m, -n)) = Total(m) + (-n)
  BY <1>1, ShiftIsExact
<1> QED
  BY <1>1, <1>2

\* compare_months orders the months, and only equal months compare as equal.
LEMMA CompareIsOrder ==
  ASSUME NEW m \in Month, NEW n \in Month
  PROVE  /\ CompareMonths(m, n) \in Int
         /\ CompareMonths(m, n) = -CompareMonths(n, m)
         /\ CompareMonths(m, n) = 0 <=> m = n
         /\ \A o \in Month : CompareMonths(m, o) = CompareMonths(m, n) + CompareMonths(n, o)
<1>1. \A x \in Month : Total(x) \in Int /\ Key(Total(x)) = x
  BY TotalOfKey
<1>2. Total(m) = Total(n) => m = n
  BY <1>1
<1> QED
  BY <1>1, <1>2 DEF CompareMonths

\* month_sequence misses no month between its ends and has no other.
THEOREM MonthSequenceHasNoGaps ==
  ASSUME NEW first \in Month, NEW last \in Month
  PROVE  MonthSequence(first, last) =
            {m \in Month : CompareMonths(first, m) <= 0 /\ CompareMonths(m, last) <= 0}
<1>1. \A x \in Month : Total(x) \in Int /\ Key(Total(x)) = x
  BY TotalOfKey
<1>2. ASSUME NEW m \in MonthSequence(first, last)
      PROVE  m \in Month /\ CompareMonths(first, m) <= 0 /\ CompareMonths(m, last) <= 0
  <2>1. PICK t \in Total(first) .. Total(last) : m = Key(t)
    BY DEF MonthSequence
  <2>2. t \in Int /\ m \in Month /\ Total(m) = t
    BY <1>1, <2>1, KeyOfTotal
  <2> QED
    BY <1>1, <2>1, <2>2 DEF CompareMonths
<1>3. ASSUME NEW m \in Month, CompareMonths(first, m) <= 0, CompareMonths(m, last) <= 0
      PROVE  m \in MonthSequence(first, last)
  <2>1. Total(m) \in Total(first) .. Total(last)
    BY <1>1, <1>3 DEF CompareMonths
  <2> QED
    BY <1>1, <2>1 DEF MonthSequence
<1> QED
  BY <1>2, <1>3

-----------------------------------------------------------------------------
(* The extreme months of a finite set. *)

\* A finite set of months that is not empty has a last one: of the subsets
\* without one, a smallest could lose any month and still be one.
LEMMA LastExists ==
  ASSUME NEW S \in SUBSET Month, IsFiniteSet(S), S # {}
  PROVE  \E m \in S : \A o \in S : CompareMonths(m, o) >= 0
<1> DEFINE HasLast(T) == \E m \in T : \A o \in T : CompareMonths(m, o) >= 0
           Without == {T \in FiniteSubsetsOf(S) : T # {} /\ ~HasLast(T)}
<1>1. SUFFICES ASSUME Without # {} PROVE FALSE
  BY DEF FiniteSubsetsOf
<1>2. IsWellFoundedOn(StrictSubsetOrdering(S), FiniteSubsetsOf(S))
  BY FS_StrictSubsetOrderingWellFounded
<1>3. PICK T \in Without : \A U \in Without : ~(<<U, T>> \in StrictSubsetOrdering(S))
  <2>1. Without \subseteq FiniteSubsetsOf(S)
    OBVIOUS
  <2> QED
    BY <1>1, <1>2, <2>1, WFMin
<1>4. PICK x \in T : TRUE
  OBVIOUS
<1>5. IsFiniteSet(T \ {x}) /\ T \ {x} \in SUBSET S /\ T \ {x} # T
  BY <1>4, FS_RemoveElement DEF FiniteSubsetsOf
<1>6. T \ {x} = {} \/ HasLast(T \ {x})
  BY <1>3, <1>5 DEF FiniteSubsetsOf, StrictSubsetOrdering
<1>7. T \subseteq Month
  BY DEF FiniteSubsetsOf
<1>8. CASE T \ {x} = {}
  <2>1. T = {x}
    BY <1>4, <1>8
  <2>2. CompareMonths(x, x) >= 0
    BY <1>4, <1>7, CompareIsOrder
  <2> QED
    BY <2>1, <2>2
<1>9. CASE HasLast(T \ {x})
  <2>1. PICK y \in T \ {x} : \A o \in T \ {x} : CompareMonths(y, o) >= 0
    BY <1>9
  <2>2. CompareMonths(x, y) >= 0 \/ CompareMonths(y, x) >= 0
    BY <1>4, <1>7, CompareIsOrder
  <2>3. CASE CompareMonths(y, x) >= 0
    BY <2>1, <2>3
  <2>4. CASE CompareMonths(x, y) >= 0
    <3>1. ASSUME NEW o \in T PROVE CompareMonths(x, o) >= 0
      <4>1. x \in Month /\ y \in Month /\ o \in Month
        BY <1>4, <1>7
      <4>2. CompareMonths(x, o) = CompareMonths(x, y) + CompareMonths(y, o)
        BY <4>1, CompareIsOrder
      <4>3. CompareMonths(x, y) \in Int /\ CompareMonths(y, o) \in Int /\ CompareMonths(x, x) = 0
        BY <4>1, CompareIsOrder
      <4> QED
        BY <2>1, <2>4, <4>2, <4>3
    <3> QED
      BY <1>4, <3>1
  <2> QED
    BY <2>2, <2>3, <2>4
<1> QED
  BY <1>6, <1>8, <1>9

\* It has a first one too: the last of its months reflected at month 0.
LEMMA FirstExists ==
  ASSUME NEW S \in SUBSET Month, IsFiniteSet(S), S # {}
  PROVE  \E m \in S : \A o \in S : CompareMonths(m, o) <= 0
<1> DEFINE Reflected(m) == Key(-Total(m))
           R == {Reflected(m) : m \in S}
<1>1. \A m \in S : Total(m) \in Int /\ Reflected(m) \in Month /\ Total(Reflected(m)) = -Total(m)
  BY TotalOfKey, KeyOfTotal
<1>2. IsFiniteSet(R) /\ R # {} /\ R \in SUBSET Month
  <2>1. [m \in S |-> Reflected(m)] \in Surjection(S, R)
    BY DEF Surjection
  <2> QED
    BY <1>1, <2>1, FS_Surjection
<1>3. PICK r \in R : \A o \in R : CompareMonths(r, o) >= 0
  BY <1>2, LastExists
<1>4. PICK m \in S : r = Reflected(m)
  OBVIOUS
<1>5. ASSUME NEW o \in S PROVE CompareMonths(m, o) <= 0
  BY <1>1, <1>3, <1>4 DEF CompareMonths
<1> QED
  BY <1>5

\* What first and last month the grid's bounds are taken from.
LEMMA ObservedRange ==
  ASSUME NEW records, Months(records) \subseteq Month,
         IsFiniteSet(Months(records)), Months(records) # {}
  PROVE  /\ FirstMonth(Months(records)) \in Months(records)
         /\ LastMonth(Months(records)) \in Months(records)
         /\ \A m \in Months(records) : /\ CompareMonths(FirstMonth(Months(records)), m) <= 0
                                       /\ CompareMonths(m, LastMonth(Months(records))) <= 0
<1> DEFINE M == Months(records)
<1>1. FirstMonth(M) \in M /\ \A o \in M : CompareMonths(FirstMonth(M), o) <= 0
  BY FirstExists DEF FirstMonth
<1>2. LastMonth(M) \in M /\ \A o \in M : CompareMonths(LastMonth(M), o) >= 0
  BY LastExists DEF LastMonth
<1>3. \A o \in M : CompareMonths(o, LastMonth(M)) <= 0
  <2>1. \A a, b \in Int : a = -b /\ b >= 0 => a <= 0
    OBVIOUS
  <2>2. \A o \in M : /\ CompareMonths(o, LastMonth(M)) \in Int
                     /\ CompareMonths(LastMonth(M), o) \in Int
                     /\ CompareMonths(o, LastMonth(M)) = -CompareMonths(LastMonth(M), o)
    BY <1>2, CompareIsOrder
  <2> QED
    BY <1>2, <2>1, <2>2
<1> QED
  BY <1>1, <1>2, <1>3

-----------------------------------------------------------------------------
(* The grid. *)

\* resolve_grid_bounds never goes past what was observed, and the months that
\* it reports as cut off are months of the configured window without a loan.
THEOREM BoundsAreObserved ==
  ASSUME NEW records, Months(records) \subseteq Month,
         IsFiniteSet(Months(records)), Months(records) # {}
  PROVE  LET bounds == ResolveGridBounds(records)
         IN  /\ bounds.first \in Month /\ bounds.last \in Month
             /\ \E m \in Months(records) : CompareMonths(m, bounds.first) <= 0
             /\ \E m \in Months(records) : CompareMonths(bounds.last, m) <= 0
             /\ bounds.truncated # {} => bounds.truncated \cap Months(records) = {}
<1> DEFINE M == Months(records)
           first == FirstMonth(M)
           last == LastMonth(M)
           bounds == ResolveGridBounds(records)
<1>1. /\ first \in M /\ last \in M /\ first \in Month /\ last \in Month
      /\ \A m \in M : CompareMonths(first, m) <= 0 /\ CompareMonths(m, last) <= 0
  BY ObservedRange
<1>2. DATE_START \in Month /\ DATE_END \in Month
  BY ConfiguredAreMonths DEF ConfiguredMonths
<1>3. /\ bounds.first = Later(first, DATE_START)
      /\ bounds.last = Earlier(last, DATE_END)
      /\ bounds.truncated = MonthSequence(ShiftMonth(bounds.last, 1), DATE_END)
  BY DEF ResolveGridBounds
<1>4. bounds.first \in Month /\ CompareMonths(first, bounds.first) <= 0
  <2>1. CompareMonths(first, DATE_START) \in Int /\ CompareMonths(first, first) = 0
    BY <1>1, <1>2, CompareIsOrder
  <2> QED
    BY <1>1, <1>2, <1>3, <2>1 DEF Later
<1>5. bounds.last \in Month /\ CompareMonths(bounds.last, last) <= 0
  <2>1. /\ CompareMonths(last, DATE_END) \in Int /\ CompareMonths(last, last) = 0
        /\ CompareMonths(DATE_END, last) = -CompareMonths(last, DATE_END)
    BY <1>1, <1>2, CompareIsOrder
  <2> QED
    BY <1>1, <1>2, <1>3, <2>1 DEF Earlier
<1>6. ASSUME NEW m \in bounds.truncated, m \in M PROVE FALSE
  <2>1. CompareMonths(last, DATE_END) \in Int
    BY <1>1, <1>2, CompareIsOrder
  <2>2. /\ ShiftMonth(bounds.last, 1) \in Month
        /\ Total(ShiftMonth(bounds.last, 1)) = Total(bounds.last) + 1
    BY <1>5, ShiftIsExact
  <2>3. /\ m \in Month /\ CompareMonths(ShiftMonth(bounds.last, 1), m) <= 0
        /\ CompareMonths(m, DATE_END) <= 0
    BY <1>2, <1>3, <1>6, <2>2, MonthSequenceHasNoGaps
  <2>4. \A o \in {m, last, DATE_END, bounds.last} : Total(o) \in Int
    BY <1>1, <1>2, <1>5, <2>3, TotalOfKey
  <2>5. Total(m) >= Total(bounds.last) + 1 /\ Total(m) <= Total(DATE_END) /\ Total(m) <= Total(last)
    BY <1>1, <1>6, <2>2, <2>3, <2>4 DEF CompareMonths
  <2>6. bounds.last = last \/ bounds.last = DATE_END
    BY <1>3 DEF Earlier
  <2> QED
    BY <2>4, <2>5, <2>6
<1> QED
  BY <1>1, <1>4, <1>5, <1>6

SeriesIn(records) == {records[i].series : i \in DOMAIN records}
LoansAt(records, k) == {i \in DOMAIN records : records[i].month = k[1] /\ records[i].series = k[2]}

\* The dense grid has a row for every month of its range and every series with
\* a loan in it, and no other; each holds the number of its loans, also if zero.
THEOREM GridCountsLoans ==
  ASSUME NEW records, Months(records) \subseteq Month,
         NEW first \in Month, NEW last \in Month
  PROVE  LET kept == FilterRecordsToRange(records, first, last)
             grid == DensifyMonthlyGrid(AggregateMonthlyDemand(kept), first, last)
         IN  /\ DOMAIN grid = MonthSequence(first, last) \X SeriesIn(kept)
             /\ \A k \in DOMAIN grid : grid[k] = Cardinality(LoansAt(records, k))
<1> DEFINE kept == FilterRecordsToRange(records, first, last)
           demand == AggregateMonthlyDemand(kept)
           grid == DensifyMonthlyGrid(demand, first, last)
           Series == {kept[i].series : i \in DOMAIN kept}
           KeyOf(i) == <<kept[i].month, kept[i].series>>
           Of(k) == {i \in DOMAIN records : records[i].month = k[1] /\ records[i].series = k[2]}
<1>1. /\ DOMAIN kept \subseteq DOMAIN records
      /\ \A i \in DOMAIN kept : kept[i] = records[i]
      /\ \A i \in DOMAIN records : i \in DOMAIN kept <=>
            /\ CompareMonths(records[i].month, first) >= 0
            /\ CompareMonths(records[i].month, last) <= 0
  BY DEF FilterRecordsToRange, Restrict
<1>2. \A i \in DOMAIN records : records[i].month \in Month
  BY DEF Months
<1>3. \A i \in DOMAIN records : i \in DOMAIN kept <=> records[i].month \in MonthSequence(first, last)
  <2>1. ASSUME NEW m \in Month
        PROVE  CompareMonths(m, first) >= 0 <=> CompareMonths(first, m) <= 0
    <3>1. \A a, b \in Int : a = -b => (a >= 0 <=> b <= 0)
      OBVIOUS
    <3>2. /\ CompareMonths(m, first) \in Int /\ CompareMonths(first, m) \in Int
          /\ CompareMonths(m, first) = -CompareMonths(first, m)
      BY CompareIsOrder
    <3> QED
      BY <3>1, <3>2
  <2> QED
    BY <1>1, <1>2, <2>1, MonthSequenceHasNoGaps
<1>4. DOMAIN demand = {KeyOf(i) : i \in DOMAIN kept}
  BY DEF AggregateMonthlyDemand
<1>5. \A k \in DOMAIN demand : demand[k] = Cardinality({i \in DOMAIN kept : KeyOf(i) = k})
  BY DEF AggregateMonthlyDemand
<1>6. {k[2] : k \in DOMAIN demand} = Series
  <2>1. \A i \in DOMAIN kept : KeyOf(i)[2] = kept[i].series
    OBVIOUS
  <2>2. ASSUME NEW x \in Series PROVE \E k \in DOMAIN demand : k[2] = x
    BY <1>4, <2>1
  <2>3. ASSUME NEW k \in DOMAIN demand PROVE k[2] \in Series
    BY <1>4, <2>1
  <2> HIDE DEF demand, Series
  <2> QED
    BY <2>2, <2>3
<1>7. DOMAIN demand \subseteq MonthSequence(first, last) \X Series
  BY <1>1, <1>3, <1>4
<1>8. /\ DOMAIN grid = MonthSequence(first, last) \X Series
      /\ \A k \in DOMAIN grid : grid[k] = IF k \in DOMAIN demand THEN demand[k] ELSE 0
  BY <1>6, <1>7 DEF DensifyMonthlyGrid
<1>9. ASSUME NEW k \in DOMAIN grid PROVE grid[k] = Cardinality(Of(k))
  <2>1. Of(k) = {i \in DOMAIN kept : KeyOf(i) = k}
    <3>1. k = <<k[1], k[2]>> /\ k[1] \in MonthSequence(first, last)
      BY <1>8
    <3>2. ASSUME NEW i \in DOMAIN kept PROVE KeyOf(i) = k <=> i \in Of(k)
      BY <1>1, <3>1
    <3>3. ASSUME NEW i \in Of(k) PROVE i \in DOMAIN kept
      BY <1>3, <3>1
    <3> QED
      BY <3>2, <3>3
  <2>2. CASE k \in DOMAIN demand
    BY <1>5, <1>8, <2>1, <2>2
  <2>3. CASE k \notin DOMAIN demand
    <3>1. Of(k) = {}
      BY <1>4, <2>1, <2>3
    <3> QED
      BY <1>8, <2>3, <3>1, FS_EmptySet
  <2> QED
    BY <2>2, <2>3
<1>10. \A k \in DOMAIN grid : grid[k] = Cardinality(Of(k))
  BY <1>9
<1> QED
  BY <1>8, <1>10, Zenon DEF SeriesIn, LoansAt

-----------------------------------------------------------------------------
(* The protocols. *)

\* split_train_test puts no row on both sides, and none on neither when the
\* horizon begins in the month after the origin, as it is configured.
THEOREM SplitsPartTheGrid ==
  ASSUME NEW grid, \A k \in DOMAIN grid : k[1] \in Month,
         CompareMonths(TRAIN_END, TEST_START) < 0
  PROVE  /\ TrainKeys(grid) \cap TestKeys(grid) = {}
         /\ TEST_START = ShiftMonth(TRAIN_END, 1) =>
               TrainKeys(grid) \cup TestKeys(grid) = DOMAIN grid
<1>1. /\ Total(TRAIN_END) \in Int /\ Total(TEST_START) \in Int
      /\ \A k \in DOMAIN grid : Total(k[1]) \in Int
  BY ConfiguredAreMonths, TotalOfKey DEF ConfiguredMonths
<1>2. TrainKeys(grid) \cap TestKeys(grid) = {}
  BY <1>1 DEF TrainKeys, TestKeys, CompareMonths
<1>3. ASSUME TEST_START = ShiftMonth(TRAIN_END, 1)
      PROVE  TrainKeys(grid) \cup TestKeys(grid) = DOMAIN grid
  <2>1. Total(TEST_START) = Total(TRAIN_END) + 1
    BY <1>3, ConfiguredAreMonths, ShiftIsExact DEF ConfiguredMonths
  <2>2. ASSUME NEW k \in DOMAIN grid PROVE k \in TrainKeys(grid) \/ k \in TestKeys(grid)
    <3>1. Total(k[1]) - Total(TRAIN_END) <= 0 \/ Total(k[1]) - Total(TEST_START) >= 0
      BY <1>1, <2>1
    <3> QED
      BY <3>1 DEF TrainKeys, TestKeys, CompareMonths
  <2>3. TrainKeys(grid) \subseteq DOMAIN grid /\ TestKeys(grid) \subseteq DOMAIN grid
    BY DEF TrainKeys, TestKeys
  <2> QED
    BY <2>2, <2>3
<1> QED
  BY <1>2, <1>3

\* Two histories that agree on what the protocol shows give one forecast: nothing
\* else of a history has any influence, through a fallback either.
THEOREM OnlyTheVisibleCounts ==
  ASSUME NEW h, NEW g, NEW series, NEW target, NEW origin, NEW protocol, NEW window,
         \A k \in (DOMAIN h) \cup DOMAIN g : Visible(k[1], target, origin, protocol) =>
            k \in DOMAIN h /\ k \in DOMAIN g /\ h[k] = g[k]
  PROVE  ForecastPoint(h, series, target, origin, protocol, window) =
            ForecastPoint(g, series, target, origin, protocol, window)
<1> DEFINE Seen(f) == {k \in DOMAIN f : Visible(k[1], target, origin, protocol)}
<1>1. Seen(h) = Seen(g)
  OBVIOUS
<1>2. \A k \in Seen(h) : h[k] = g[k]
  OBVIOUS
<1>3. SplitHistory(h, target, origin, protocol) = SplitHistory(g, target, origin, protocol)
  BY <1>1, <1>2 DEF SplitHistory
<1> QED
  BY <1>3 DEF ForecastPoint

\* "No test-period demand ever influences a forecast": under the static holdout
\* two grids with the same training rows give the same forecasts.
THEOREM HorizonDemandIsUnseen ==
  ASSUME NEW h, NEW g, NEW keys, NEW window,
         TrainKeys(h) = TrainKeys(g), \A k \in TrainKeys(h) : h[k] = g[k]
  PROVE  ForecastAll(h, keys, TRAIN_END, Static, window) =
            ForecastAll(g, keys, TRAIN_END, Static, window)
<1>1. ASSUME NEW t, NEW k \in (DOMAIN h) \cup DOMAIN g, Visible(k[1], t, TRAIN_END, Static)
      PROVE  k \in DOMAIN h /\ k \in DOMAIN g /\ h[k] = g[k]
  <2>1. k \in TrainKeys(h) /\ k \in TrainKeys(g)
    BY <1>1 DEF Visible, TrainKeys
  <2> QED
    BY <2>1 DEF TrainKeys
<1>2. ASSUME NEW key \in keys
      PROVE  ForecastPoint(h, key[2], key[1], TRAIN_END, Static, window) =
                ForecastPoint(g, key[2], key[1], TRAIN_END, Static, window)
  BY <1>1, OnlyTheVisibleCounts
<1> QED
  BY <1>2 DEF ForecastAll

\* "A forecast for month t may use only observations of months < t": under the
\* rolling origin two grids that agree before a month forecast it alike.
THEOREM LaterDemandIsUnseen ==
  ASSUME NEW h, NEW g, NEW key, NEW origin, NEW window,
         \A k \in (DOMAIN h) \cup DOMAIN g : CompareMonths(k[1], key[1]) < 0 =>
            k \in DOMAIN h /\ k \in DOMAIN g /\ h[k] = g[k]
  PROVE  ForecastPoint(h, key[2], key[1], origin, Rolling, window) =
            ForecastPoint(g, key[2], key[1], origin, Rolling, window)
<1>1. ASSUME NEW k \in (DOMAIN h) \cup DOMAIN g, Visible(k[1], key[1], origin, Rolling)
      PROVE  k \in DOMAIN h /\ k \in DOMAIN g /\ h[k] = g[k]
  BY <1>1 DEF Visible, Static, Rolling
<1> QED
  BY <1>1, OnlyTheVisibleCounts

\* What forecast_all lets through reads only months that its protocol shows, so
\* that a fallback means a month without an observation and never a hidden one.
THEOREM AcceptedReadsTheVisible ==
  ASSUME NEW keys, \A k \in keys : k[1] \in Month,
         NEW origin \in Month, NEW protocol \in Protocols, NEW window \in Nat,
         ~Refused(keys, origin, protocol, window),
         NEW k \in keys, NEW month \in RequiredMonths(k[1], origin, protocol, window)
  PROVE  /\ Visible(month, k[1], origin, protocol)
         /\ CompareMonths(month, k[1]) < 0
<1>1. k[1] \in Month /\ Total(k[1]) \in Int /\ Total(origin) \in Int
  BY TotalOfKey
<1>2. Total(k[1]) > Total(origin)
  BY <1>1 DEF Refused, CompareMonths
<1>3. Total(month) \in Int /\ CompareMonths(month, k[1]) < 0
  <2>1. month \in Month
    <3>1. SEASONAL_LAG \in Nat
      BY ForecastAssumption
    <3>2. ShiftMonth(k[1], -SEASONAL_LAG) \in Month /\ ShiftMonth(k[1], -1) \in Month
      BY <1>1, <3>1, ShiftBack
    <3>3. ASSUME NEW offset \in 0 .. window - 1
          PROVE  /\ ShiftMonth(origin, -offset) \in Month
                 /\ ShiftMonth(ShiftMonth(k[1], -1), -offset) \in Month
      <4>1. offset \in Nat
        OBVIOUS
      <4> QED
        BY <3>2, <4>1, ShiftBack
    <3> QED
      BY <3>2, <3>3 DEF RequiredMonths
  <2>2. Total(month) \in Int
    BY <2>1, TotalOfKey
  <2> QED
    BY <1>1, <2>2 DEF Refused, CompareMonths
<1>4. CASE protocol # Static
  BY <1>3, <1>4 DEF Visible
<1>5. CASE protocol = Static /\ window = 0
  <2>1. month = ShiftMonth(k[1], -SEASONAL_LAG)
    BY <1>5 DEF RequiredMonths
  <2>2. CompareMonths(month, origin) <= 0
    BY <1>1, <1>3, <1>5, <2>1 DEF Refused, CompareMonths
  <2> QED
    BY <1>3, <1>5, <2>2 DEF Visible
<1>6. CASE protocol = Static /\ window # 0
  <2>1. PICK offset \in 0 .. window - 1 : month = ShiftMonth(origin, -offset)
    BY <1>6 DEF RequiredMonths
  <2>2. Total(month) = Total(origin) - offset
    BY <1>1, <2>1, ShiftBack
  <2>3. CompareMonths(month, origin) <= 0
    BY <1>1, <2>2 DEF CompareMonths
  <2> QED
    BY <1>3, <1>6, <2>3 DEF Visible
<1> QED
  BY <1>4, <1>5, <1>6

\* A moving average of phase 5B is never refused for months after the origin, of
\* any number of months and under either protocol: only the seasonal lookup is.
THEOREM WindowsAreNeverRefused ==
  ASSUME NEW keys, \A k \in keys : k[1] \in Month,
         NEW origin \in Month, NEW protocol \in Protocols, NEW window \in Nat \ {0},
         \A k \in keys : CompareMonths(k[1], origin) > 0
  PROVE  ~Refused(keys, origin, protocol, window)
<1>1. ASSUME NEW k \in keys, NEW month \in RequiredMonths(k[1], origin, protocol, window)
      PROVE  CompareMonths(month, k[1]) < 0
  <2>1. k[1] \in Month /\ Total(k[1]) \in Int /\ Total(origin) \in Int
    BY TotalOfKey
  <2>2. Total(k[1]) > Total(origin)
    BY <2>1 DEF CompareMonths
  <2>3. ShiftMonth(k[1], -1) \in Month /\ Total(ShiftMonth(k[1], -1)) = Total(k[1]) - 1
    BY <2>1, ShiftBack
  <2>4. PICK offset \in 0 .. window - 1 :
           month = ShiftMonth(origin, -offset) \/ month = ShiftMonth(ShiftMonth(k[1], -1), -offset)
    BY DEF RequiredMonths
  <2>5. Total(month) = Total(origin) - offset \/ Total(month) = Total(k[1]) - 1 - offset
    BY <2>1, <2>3, <2>4, ShiftBack
  <2> QED
    BY <2>1, <2>2, <2>5 DEF CompareMonths
<1>2. \A k \in keys : Total(k[1]) \in Int /\ Total(origin) \in Int
  BY TotalOfKey
<1>3. ASSUME NEW k \in keys PROVE ~(CompareMonths(k[1], origin) <= 0)
  BY <1>2 DEF CompareMonths
<1>4. ASSUME NEW k \in keys, NEW month \in RequiredMonths(k[1], origin, protocol, window)
      PROVE  ~(CompareMonths(month, k[1]) >= 0)
  <2>1. \A a, b \in Int : a - b < 0 => ~(a - b >= 0)
    OBVIOUS
  <2>2. Total(month) \in Int
    <3>1. ShiftMonth(k[1], -1) \in Month
      BY ShiftBack
    <3>2. month \in Month
      BY <3>1, ShiftBack DEF RequiredMonths
    <3> QED
      BY <3>2, TotalOfKey
  <2> QED
    BY <1>1, <1>2, <2>1, <2>2 DEF CompareMonths
<1> QED
  BY <1>3, <1>4 DEF Refused

-----------------------------------------------------------------------------
(* Ranking: what comes before what, as a function, put in a sequence.        *)

IsRanking(before) ==
    /\ IsFiniteSet(DOMAIN before)
    /\ \A i \in DOMAIN before : before[i] \subseteq (DOMAIN before) \ {i}
    /\ \A i, j \in DOMAIN before : i # j => i \in before[j] \/ j \in before[i]
    /\ \A i, j \in DOMAIN before : i \in before[j] => before[i] \subseteq before[j]

\* How many come before each: no two have as many, and all numbers occur.
LEMMA RanksAreDistinct ==
  ASSUME NEW before, IsRanking(before)
  PROVE  LET count == Cardinality(DOMAIN before)
         IN  /\ count \in Nat
             /\ \A i \in DOMAIN before : Cardinality(before[i]) \in 0 .. count - 1
             /\ \A i, j \in DOMAIN before :
                   i \in before[j] => Cardinality(before[i]) < Cardinality(before[j])
             /\ \A i, j \in DOMAIN before : Cardinality(before[i]) = Cardinality(before[j]) => i = j
             /\ \A n \in 0 .. count - 1 : \E i \in DOMAIN before : Cardinality(before[i]) = n
<1> DEFINE S == DOMAIN before
           count == Cardinality(S)
<1>1. IsFiniteSet(S) /\ count \in Nat
  BY FS_CardinalityType DEF IsRanking
<1>2. ASSUME NEW i \in S
      PROVE  IsFiniteSet(before[i]) /\ Cardinality(before[i]) \in 0 .. count - 1
  <2>1. IsFiniteSet(S \ {i}) /\ Cardinality(S \ {i}) = count - 1
    BY <1>1, FS_RemoveElement
  <2>2. before[i] \in SUBSET (S \ {i})
    BY DEF IsRanking
  <2>3. IsFiniteSet(before[i]) /\ Cardinality(before[i]) <= count - 1
    BY <2>1, <2>2, FS_Subset
  <2> QED
    BY <1>1, <2>3, FS_CardinalityType
<1>3. ASSUME NEW i \in S, NEW j \in S, i \in before[j]
      PROVE  Cardinality(before[i]) < Cardinality(before[j])
  <2>1. before[i] \in SUBSET before[j] /\ i \notin before[i]
    BY <1>3 DEF IsRanking
  <2>2. Cardinality(before[i]) <= Cardinality(before[j]) /\ Cardinality(before[i]) # Cardinality(before[j])
    BY <1>2, <1>3, <2>1, FS_Subset
  <2>3. Cardinality(before[i]) \in Nat /\ Cardinality(before[j]) \in Nat
    BY <1>2, FS_CardinalityType
  <2> QED
    BY <2>2, <2>3
<1>4. \A i, j \in S : Cardinality(before[i]) = Cardinality(before[j]) => i = j
  <2> SUFFICES ASSUME NEW i \in S, NEW j \in S, Cardinality(before[i]) = Cardinality(before[j]), i # j
               PROVE  FALSE
    OBVIOUS
  <2>1. i \in before[j] \/ j \in before[i]
    BY DEF IsRanking
  <2>2. Cardinality(before[i]) \in Int /\ Cardinality(before[j]) \in Int
    BY <1>1, <1>2
  <2> QED
    BY <1>3, <2>1, <2>2
<1>5. ASSUME NEW n \in 0 .. count - 1 PROVE \E i \in S : Cardinality(before[i]) = n
  <2> DEFINE rank == [i \in S |-> Cardinality(before[i])]
             T == 0 .. count - 1
  <2>1. IsFiniteSet(T) /\ Cardinality(T) = count
    <3>1. 0 \in Int /\ count - 1 \in Int
      BY <1>1
    <3> QED
      BY <1>1, <3>1, FS_Interval
  <2>2. rank \in Injection(S, T)
    BY <1>2, <1>4 DEF Injection, IsInjective
  <2>3. rank \in Surjection(S, T)
    BY <1>1, <2>1, <2>2, FS_Injection
  <2> QED
    BY <2>3 DEF Surjection
<1> QED
  BY <1>1, <1>2, <1>3, <1>4, <1>5

LEMMA RankedIsInOrder ==
  ASSUME NEW before, IsRanking(before)
  PROVE  LET count == Cardinality(DOMAIN before)
         IN  /\ count \in Nat /\ DOMAIN Ranked(before) = 1 .. count
             /\ Ranked(before) \in Bijection(1 .. count, DOMAIN before)
             /\ \A m, n \in 1 .. count : m < n => Ranked(before)[m] \in before[Ranked(before)[n]]
<1> DEFINE S == DOMAIN before
           count == Cardinality(S)
           r == Ranked(before)
           Rank(i) == Cardinality(before[i])
<1>1. /\ count \in Nat
      /\ \A i \in S : Rank(i) \in 0 .. count - 1
      /\ \A i, j \in S : i \in before[j] => Rank(i) < Rank(j)
      /\ \A i, j \in S : Rank(i) = Rank(j) => i = j
      /\ \A n \in 0 .. count - 1 : \E i \in S : Rank(i) = n
  BY RanksAreDistinct
<1>2. DOMAIN r = 1 .. count /\ r = [n \in 1 .. count |-> CHOOSE i \in S : Rank(i) = n - 1]
  BY DEF Ranked
<1>3. \A i, j \in S : i # j => i \in before[j] \/ j \in before[i]
  BY DEF IsRanking
<1> HIDE DEF S, count, r, Rank
<1>4. ASSUME NEW n \in 1 .. count PROVE r[n] \in S /\ Rank(r[n]) = n - 1
  <2>1. n - 1 \in 0 .. count - 1
    BY <1>1
  <2> QED
    BY <1>1, <1>2, <2>1
<1>5. r \in [1 .. count -> S]
  BY <1>2, <1>4
<1>6. \A m, n \in 1 .. count : r[m] = r[n] => m = n
  <2> SUFFICES ASSUME NEW m \in 1 .. count, NEW n \in 1 .. count, r[m] = r[n] PROVE m = n
    OBVIOUS
  <2>1. m - 1 = n - 1
    BY <1>4
  <2> QED
    BY <1>1, <2>1
<1>7. ASSUME NEW i \in S PROVE \E n \in 1 .. count : r[n] = i
  <2>1. Rank(i) + 1 \in 1 .. count /\ (Rank(i) + 1) - 1 = Rank(i)
    BY <1>1
  <2>2. r[Rank(i) + 1] \in S /\ Rank(r[Rank(i) + 1]) = Rank(i)
    BY <1>4, <2>1
  <2> QED
    BY <1>1, <2>1, <2>2
<1>8. r \in Bijection(1 .. count, S)
  BY <1>5, <1>6, <1>7 DEF Bijection, Injection, Surjection, IsInjective
<1>9. ASSUME NEW m \in 1 .. count, NEW n \in 1 .. count, m < n PROVE r[m] \in before[r[n]]
  <2>1. /\ r[m] \in S /\ Rank(r[m]) = m - 1
        /\ r[n] \in S /\ Rank(r[n]) = n - 1 /\ m \in Int /\ n \in Int
    BY <1>1, <1>4
  <2>2. ~(Rank(r[n]) < Rank(r[m])) /\ r[m] # r[n]
    BY <1>9, <2>1
  <2> QED
    BY <1>1, <1>3, <2>1, <2>2
<1> QED
  BY <1>1, <1>2, <1>8, <1>9 DEF S, count, r

\* ORDER BY borrow_date, id puts all loans in one order.
LEMMA LoanOrderIsRanking ==
  ASSUME NEW loans, NEW ids, IsFiniteSet(ids), ids \subseteq Int,
         \A i \in ids : loans[i].borrowed \in Int
  PROVE  IsRanking(Before(loans, ids)) /\ DOMAIN Before(loans, ids) = ids
<1> DEFINE before == Before(loans, ids)
<1>1. DOMAIN before = ids /\ \A i \in ids : before[i] = {j \in ids : InLoanOrder(loans, j, i)}
  BY DEF Before
<1> HIDE DEF before
<1>2. \A i \in ids : before[i] \subseteq ids \ {i}
  BY <1>1 DEF InLoanOrder
<1>3. \A i, j \in ids : i # j => i \in before[j] \/ j \in before[i]
  BY <1>1 DEF InLoanOrder
<1>4. \A i, j \in ids : i \in before[j] => before[i] \subseteq before[j]
  <2> SUFFICES ASSUME NEW i \in ids, NEW j \in ids, NEW k \in ids,
                      InLoanOrder(loans, i, j), InLoanOrder(loans, k, i)
               PROVE  InLoanOrder(loans, k, j)
    BY <1>1
  <2> DEFINE a == loans[i].borrowed
             b == loans[j].borrowed
             c == loans[k].borrowed
  <2>1. a \in Int /\ b \in Int /\ c \in Int /\ i \in Int /\ j \in Int /\ k \in Int
    OBVIOUS
  <2>2. (a < b \/ (a = b /\ i < j)) /\ (c < a \/ (c = a /\ k < i))
    BY DEF InLoanOrder
  <2> HIDE DEF a, b, c
  <2>3. c < b \/ (c = b /\ k < j)
    BY <2>1, <2>2
  <2> QED
    BY <2>3 DEF InLoanOrder, b, c
<1> QED
  BY <1>1, <1>2, <1>3, <1>4 DEF IsRanking, before

\* The loans in that order: each once, and earlier days first.
LEMMA LoansAreInOrder ==
  ASSUME NEW loans, NEW ids, IsFiniteSet(ids), ids \subseteq Int,
         \A i \in ids : loans[i].borrowed \in Int
  PROVE  LET count == Cardinality(ids)
             sequence == LoanSequence(loans, ids)
         IN  /\ count \in Nat /\ DOMAIN sequence = 1 .. count
             /\ sequence \in Bijection(1 .. count, ids)
             /\ \A m, n \in 1 .. count : m < n => InLoanOrder(loans, sequence[m], sequence[n])
<1> DEFINE before == Before(loans, ids)
           count == Cardinality(ids)
           sequence == LoanSequence(loans, ids)
<1>1. IsRanking(before) /\ DOMAIN before = ids
  BY LoanOrderIsRanking
<1>2. sequence = Ranked(before)
  BY DEF LoanSequence
<1>3. \A i \in ids : before[i] = {j \in ids : InLoanOrder(loans, j, i)}
  BY DEF Before
<1> HIDE DEF before, sequence
<1>4. /\ count \in Nat /\ DOMAIN sequence = 1 .. count
      /\ sequence \in Bijection(1 .. count, ids)
      /\ \A m, n \in 1 .. count : m < n => sequence[m] \in before[sequence[n]]
  BY <1>1, <1>2, RankedIsInOrder
<1>5. \A n \in 1 .. count : sequence[n] \in ids
  BY <1>4 DEF Bijection, Injection
<1> QED
  BY <1>3, <1>4, <1>5 DEF sequence

\* The rows at some places are those of a sequence that goes through the places
\* in their order, each once.
LEMMA PickedIsInOrder ==
  ASSUME NEW rows, NEW places, IsFiniteSet(places), places \subseteq Int
  PROVE  LET count == Cardinality(places)
             picked == Picked(rows, places)
         IN  /\ count \in Nat /\ DOMAIN picked = 1 .. count
             /\ \E place \in Bijection(1 .. count, places) :
                   /\ \A k \in 1 .. count : picked[k] = rows[place[k]] /\ place[k] \in places
                   /\ \A j, k \in 1 .. count : j < k => place[j] < place[k]
<1> DEFINE before == [n \in places |-> {m \in places : m < n}]
           place == Ranked(before)
           count == Cardinality(places)
           picked == Picked(rows, places)
<1>2. picked = [k \in DOMAIN place |-> rows[place[k]]]
  BY DEF Picked
<1>3. DOMAIN before = places /\ \A n \in places : before[n] = {m \in places : m < n}
  OBVIOUS
<1> HIDE DEF before, picked
<1>1. IsRanking(before) /\ DOMAIN before = places
  <2>1. ASSUME NEW n \in places PROVE before[n] \subseteq places \ {n}
    <3>1. \A m \in places : m < n => m # n
      OBVIOUS
    <3> QED
      BY <1>3, <3>1
  <2>2. ASSUME NEW m \in places, NEW n \in places, m # n
        PROVE  m \in before[n] \/ n \in before[m]
    <3>1. m < n \/ n < m
      BY <2>2
    <3> QED
      BY <1>3, <3>1
  <2>3. ASSUME NEW m \in places, NEW n \in places, m \in before[n]
        PROVE  before[m] \subseteq before[n]
    <3>1. \A k \in places : k < m => k < n
      <4>1. m < n
        BY <1>3, <2>3
      <4> QED
        BY <4>1
    <3> QED
      BY <1>3, <3>1
  <2> QED
    BY <1>3, <2>1, <2>2, <2>3 DEF IsRanking
<1>4. /\ count \in Nat /\ DOMAIN place = 1 .. count
      /\ place \in Bijection(1 .. count, places)
      /\ \A m, n \in 1 .. count : m < n => place[m] \in before[place[n]]
  BY <1>1, RankedIsInOrder
<1> HIDE DEF place
<1>5. \A n \in 1 .. count : place[n] \in places
  BY <1>4 DEF Bijection, Injection
<1>6. \A j, k \in 1 .. count : j < k => place[j] < place[k]
  BY <1>3, <1>4, <1>5
<1>7. DOMAIN picked = 1 .. count /\ \A k \in 1 .. count : picked[k] = rows[place[k]]
  BY <1>2, <1>4
<1> QED
  BY <1>4, <1>5, <1>6, <1>7 DEF picked

\* All rows as they come: the selection of the places 1 .. n is the first n rows.
LEMMA PickedPrefix ==
  ASSUME NEW rows, NEW n \in Nat
  PROVE  Picked(rows, 1 .. n) = [k \in 1 .. n |-> rows[k]]
<1> DEFINE before == [i \in 1 .. n |-> {m \in 1 .. n : m < i}]
           place == Ranked(before)
<1>1. \A i \in 1 .. n : Cardinality(before[i]) = i - 1
  <2> SUFFICES ASSUME NEW i \in 1 .. n PROVE Cardinality(before[i]) = i - 1
    OBVIOUS
  <2>1. before[i] = 1 .. i - 1
    OBVIOUS
  <2>2. Cardinality(1 .. i - 1) = i - 1
    <3>1. i - 1 \in Nat /\ 1 \in Int
      OBVIOUS
    <3>2. Cardinality(1 .. i - 1) = IF 1 > i - 1 THEN 0 ELSE (i - 1) - 1 + 1
      BY <3>1, FS_Interval
    <3> QED
      BY <3>1, <3>2
  <2> QED
    BY <2>1, <2>2
<1>2. DOMAIN before = 1 .. n /\ Cardinality(1 .. n) = n
  <2>1. Cardinality(1 .. n) = IF 1 > n THEN 0 ELSE n - 1 + 1
    BY FS_Interval
  <2> QED
    BY <2>1
<1>3. place = [k \in 1 .. n |-> CHOOSE i \in 1 .. n : Cardinality(before[i]) = k - 1]
  BY <1>2 DEF Ranked
<1>4. Picked(rows, 1 .. n) = [k \in DOMAIN place |-> rows[place[k]]]
  BY DEF Picked
<1> HIDE DEF before, place
<1>5. ASSUME NEW k \in 1 .. n PROVE place[k] = k
  <2>1. \A i \in 1 .. n : Cardinality(before[i]) = k - 1 <=> i = k
    <3>1. \A i \in 1 .. n : i - 1 = k - 1 <=> i = k
      OBVIOUS
    <3> QED
      BY <1>1, <3>1
  <2> QED
    BY <1>3, <2>1
<1>6. DOMAIN place = 1 .. n
  BY <1>3
<1> QED
  BY <1>4, <1>5, <1>6

\* C is what f takes to X.
IsSource(C, f, A, X) == \A a \in A : a \in C <=> f[a] \in X

\* A bijection takes as many to a set as the set has.
LEMMA CountThrough ==
  ASSUME NEW A, NEW B, NEW f, f \in Bijection(A, B), IsFiniteSet(A),
         NEW C, C \subseteq A, NEW X, X \subseteq B, IsSource(C, f, A, X)
  PROVE  /\ IsFiniteSet(C) /\ IsFiniteSet(X)
         /\ Cardinality(C) = Cardinality(X) /\ Cardinality(X) \in Nat
<1> DEFINE g == [a \in C |-> f[a]]
<1>1. IsFiniteSet(C)
  BY FS_Subset
<1>2. /\ \A a \in A : f[a] \in B
      /\ \A a, c \in A : f[a] = f[c] => a = c
      /\ \A b \in B : \E a \in A : f[a] = b
  BY DEF Bijection, Injection, Surjection, IsInjective
<1>3. g \in Bijection(C, X)
  <2>1. g \in [C -> X]
    BY DEF IsSource
  <2>2. \A a, c \in C : g[a] = g[c] => a = c
    BY <1>2
  <2>3. \A x \in X : \E a \in C : g[a] = x
    BY <1>2 DEF IsSource
  <2> HIDE DEF g
  <2> QED
    BY <2>1, <2>2, <2>3 DEF Bijection, Injection, Surjection, IsInjective
<1> HIDE DEF g
<1>4. IsFiniteSet(X) /\ Cardinality(X) = Cardinality(C)
  BY <1>1, <1>3, FS_Bijection DEF ExistsBijection
<1> QED
  BY <1>1, <1>4, FS_CardinalityType

-----------------------------------------------------------------------------
(* The rows of phase 4A and selections of them.                              *)

IsSequence(s) == \E S : s \in Seq(S)

LEMMA SequenceDomain ==
  ASSUME NEW s, IsSequence(s)
  PROVE  Len(s) \in Nat /\ DOMAIN s = 1 .. Len(s)
<1>1. PICK S : s \in Seq(S)
  BY DEF IsSequence
<1> QED
  BY <1>1, LenProperties

\* A function on 1 .. n is a sequence of that length.
LEMMA CountedIsSequence ==
  ASSUME NEW s, NEW n \in Nat, s = [k \in 1 .. n |-> s[k]]
  PROVE  IsSequence(s) /\ Len(s) = n
<1> DEFINE S == {s[k] : k \in 1 .. n}
<1>1. s \in [1 .. n -> S]
  OBVIOUS
<1> HIDE DEF S
<1>2. s \in Seq(S)
  BY <1>1, SeqDef
<1>3. Len(s) \in Nat /\ DOMAIN s = 1 .. Len(s)
  BY <1>2, LenProperties
<1>4. Len(s) = n
  BY <1>1, <1>3
<1> QED
  BY <1>2, <1>4 DEF IsSequence

\* [r for r in rows if ..] has the rows that it is to have, each of them once.
LEMMA PickedRows ==
  ASSUME NEW rows, IsSequence(rows), NEW places \in SUBSET DOMAIN rows
  PROVE  LET picked == Picked(rows, places)
         IN  /\ IsSequence(picked) /\ Len(picked) = Cardinality(places)
             /\ \E place \in Bijection(1 .. Len(picked), places) :
                   /\ \A k \in 1 .. Len(picked) : picked[k] = rows[place[k]] /\ place[k] \in places
                   /\ \A j, k \in 1 .. Len(picked) : place[j] = place[k] => j = k
<1> DEFINE picked == Picked(rows, places)
           count == Cardinality(places)
<1>1. Len(rows) \in Nat /\ DOMAIN rows = 1 .. Len(rows)
  BY SequenceDomain
<1>2. IsFiniteSet(places) /\ places \subseteq Int
  <2>1. IsFiniteSet(1 .. Len(rows))
    BY <1>1, FS_Interval
  <2> QED
    BY <1>1, <2>1, FS_Subset
<1>3. /\ count \in Nat /\ DOMAIN picked = 1 .. count
      /\ \E place \in Bijection(1 .. count, places) :
            \A k \in 1 .. count : picked[k] = rows[place[k]] /\ place[k] \in places
  BY <1>2, PickedIsInOrder
<1>4. picked = [k \in 1 .. count |-> picked[k]]
  BY <1>3 DEF Picked
<1> HIDE DEF picked, count
<1>5. IsSequence(picked) /\ Len(picked) = count
  BY <1>3, <1>4, CountedIsSequence
<1>6. PICK place \in Bijection(1 .. count, places) :
         \A k \in 1 .. count : picked[k] = rows[place[k]] /\ place[k] \in places
  BY <1>3
<1>7. \A j, k \in 1 .. count : place[j] = place[k] => j = k
  BY DEF Bijection, Injection, IsInjective
<1> QED
  BY <1>5, <1>6, <1>7 DEF picked, count

LEMMA FeatureRowNames ==
  ASSUME NEW loans, NEW id
  PROVE  LET row == FeatureRow(loans, id)
         IN  /\ row.loan = id /\ row.borrowed = loans[id].borrowed
             /\ row.split = IF loans[id].borrowed < TRAIN_CUTOFF THEN "train" ELSE "val"
             /\ row.label = IF Overdue(loans[id]) THEN 1 ELSE 0
             /\ row.priorLoanCount = PriorFeatures(loans, id).priorLoanCount
             /\ row.priorOverdueCount = PriorFeatures(loans, id).priorOverdueCount
<1> DEFINE prior == PriorFeatures(loans, id)
           loan == LoanFeatures(loans[id])
<1> HIDE DEF prior, loan
<1> QED
  BY DEF FeatureRow, prior, loan

\* A row for each of these loans, in some order.
RowsOf(rows, loans, ids) ==
    /\ IsSequence(rows)
    /\ \E place \in Bijection(1 .. Len(rows), ids) :
          \A n \in 1 .. Len(rows) : rows[n] = FeatureRow(loans, place[n]) /\ place[n] \in ids

\* The loans of a table whose ids are numbers, as the days are.
IsLoanTable(loans) ==
    /\ IsFiniteSet(DOMAIN loans) /\ DOMAIN loans \subseteq Int
    /\ \A i \in DOMAIN loans : loans[i].borrowed \in Int

\* Phase 4A writes a row for each returned loan, and no loan twice.
LEMMA FeatureRowsAreOfLoans ==
  ASSUME NEW loans, IsLoanTable(loans)
  PROVE  /\ RowsOf(BuildFeatureDataset(loans), loans, Completed(loans))
         /\ IsFiniteSet(Completed(loans)) /\ Completed(loans) \subseteq DOMAIN loans
<1> DEFINE ids == Completed(loans)
           sequence == LoanSequence(loans, ids)
           count == Cardinality(ids)
           rows == BuildFeatureDataset(loans)
<1>1. ids \in SUBSET DOMAIN loans /\ IsFiniteSet(ids)
  <2>1. ids \in SUBSET DOMAIN loans
    BY DEF Completed
  <2> QED
    BY <2>1, FS_Subset DEF IsLoanTable
<1>2. ids \subseteq Int /\ \A i \in ids : loans[i].borrowed \in Int
  BY <1>1 DEF IsLoanTable
<1>3. count \in Nat /\ DOMAIN sequence = 1 .. count /\ sequence \in Bijection(1 .. count, ids)
  BY <1>1, <1>2, LoansAreInOrder
<1>4. \A n \in 1 .. count : sequence[n] \in ids
  BY <1>3 DEF Bijection, Injection
<1>5. rows = [n \in 1 .. count |-> FeatureRow(loans, sequence[n])]
  BY <1>3 DEF BuildFeatureDataset
<1> HIDE DEF ids, sequence, count, rows
<1>6. IsSequence(rows) /\ Len(rows) = count
  <2>1. rows = [n \in 1 .. count |-> rows[n]]
    BY <1>5
  <2> QED
    BY <1>3, <2>1, CountedIsSequence
<1>7. \A n \in 1 .. count : rows[n] = FeatureRow(loans, sequence[n])
  BY <1>5
<1>8. RowsOf(rows, loans, ids)
  BY <1>3, <1>4, <1>6, <1>7 DEF RowsOf
<1> QED
  BY <1>1, <1>8 DEF ids, rows

\* The rows at the places of some loans are rows of those loans.
LEMMA PickedRowsAreOfLoans ==
  ASSUME NEW loans, NEW ids, NEW rows, RowsOf(rows, loans, ids),
         NEW places \in SUBSET DOMAIN rows, NEW X \in SUBSET ids,
         \A n \in DOMAIN rows, i \in ids :
            rows[n] = FeatureRow(loans, i) => (n \in places <=> i \in X)
  PROVE  RowsOf(Picked(rows, places), loans, X)
<1> DEFINE picked == Picked(rows, places)
<1>1. IsSequence(rows)
  BY DEF RowsOf
<1>2. Len(rows) \in Nat /\ DOMAIN rows = 1 .. Len(rows)
  BY <1>1, SequenceDomain
<1>3. PICK place \in Bijection(1 .. Len(rows), ids) :
         \A n \in 1 .. Len(rows) : rows[n] = FeatureRow(loans, place[n]) /\ place[n] \in ids
  BY DEF RowsOf
<1>4. /\ \A m, n \in 1 .. Len(rows) : place[m] = place[n] => m = n
      /\ \A i \in ids : \E n \in 1 .. Len(rows) : place[n] = i
  BY DEF Bijection, Injection, Surjection, IsInjective
<1>5. \A n \in DOMAIN rows : n \in places <=> place[n] \in X
  BY <1>2, <1>3
<1>6. IsSequence(picked)
  BY <1>1, PickedRows
<1>7. PICK of \in Bijection(1 .. Len(picked), places) :
         /\ \A k \in 1 .. Len(picked) : picked[k] = rows[of[k]] /\ of[k] \in places
         /\ \A j, k \in 1 .. Len(picked) : of[j] = of[k] => j = k
  BY <1>1, PickedRows
<1>8. \A n \in places : \E k \in 1 .. Len(picked) : of[k] = n
  BY DEF Bijection, Surjection
<1> HIDE DEF picked
<1> DEFINE both == [k \in 1 .. Len(picked) |-> place[of[k]]]
<1>9. \A k \in 1 .. Len(picked) :
         of[k] \in 1 .. Len(rows) /\ both[k] = place[of[k]] /\ both[k] \in X
  BY <1>2, <1>5, <1>7
<1>10. both \in Bijection(1 .. Len(picked), X)
  <2>1. both \in [1 .. Len(picked) -> X]
    BY <1>9
  <2>2. \A j, k \in 1 .. Len(picked) : both[j] = both[k] => j = k
    <3>1. \A j, k \in 1 .. Len(picked) : both[j] = both[k] => of[j] = of[k]
      BY <1>4, <1>9
    <3> QED
      BY <1>7, <3>1
  <2>3. \A i \in X : \E k \in 1 .. Len(picked) : both[k] = i
    <3>1. \A i \in X : \E n \in places : place[n] = i
      BY <1>2, <1>4, <1>5
    <3> QED
      BY <1>8, <1>9, <3>1
  <2> HIDE DEF both
  <2> QED
    BY <2>1, <2>2, <2>3 DEF Bijection, Injection, Surjection, IsInjective
<1>11. \A k \in 1 .. Len(picked) : picked[k] = FeatureRow(loans, both[k]) /\ both[k] \in X
  BY <1>3, <1>7, <1>9
<1> HIDE DEF both
<1> QED
  BY <1>6, <1>10, <1>11 DEF RowsOf, picked
=============================================================================

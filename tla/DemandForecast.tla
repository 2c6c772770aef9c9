--------------------------- MODULE DemandForecast ---------------------------
(***************************************************************************)
(* The demand forecast of scripts/dev-seed/phase5_forecasting.py and of    *)
(* its two callers, phases 5A and 5B, as operators: loans are counted per  *)
(* month and series, the counts are made a dense grid, the grid is split   *)
(* at the training origin, and each series is forecast for each month of   *)
(* the horizon under a protocol that says what the forecaster may see.     *)
(*                                                                         *)
(* A date is a number of days and a month a pair <<year, month>>.  The     *)
(* rows of a grid are a function from <<month, series>> to the demand: the *)
(* code's lists hold each such key once.  A mean is a pair <<sum, count>>. *)
(***************************************************************************)
EXTENDS Integers, FiniteSets, Sequences, FiniteSetsExt, Functions

CONSTANTS
    DaysPerMonth,   \* the model's calendar: months of equal length
    ItemType,       \* item -> "book", "magazine" or "newspaper"
    Category,       \* item -> its catalogue category, or Null
    SEASONAL_LAG, MOVING_AVERAGE_WINDOWS,
    DATE_START, DATE_END,  \* first and last month of the configured window
    TRAIN_END, TEST_START, \* the training origin and the month after it
    Null

\* In the code the lag is 12 and the windows are 3 and 6.
ASSUME ForecastAssumption ==
    /\ DaysPerMonth \in Nat \ {0} /\ SEASONAL_LAG \in Nat \ {0}
    /\ MOVING_AVERAGE_WINDOWS \in Seq(Nat \ {0})
    /\ {DATE_START, DATE_END, TRAIN_END, TEST_START} \subseteq Nat \X (1 .. 12)

Static == "static-holdout"
Rolling == "rolling-origin"
Protocols == {Static, Rolling}

-----------------------------------------------------------------------------
(* Month arithmetic. *)

Total(key) == key[1] * 12 + key[2] - 1
Key(total) == <<total \div 12, (total % 12) + 1>>
MonthKey(date) == Key(date \div DaysPerMonth)
ShiftMonth(key, offset) == Key(Total(key) + offset)
MonthSequence(first, last) == {Key(t) : t \in Total(first) .. Total(last)}
\* Only the sign of the comparison is used.
CompareMonths(left, right) == Total(left) - Total(right)
Earlier(left, right) == IF CompareMonths(left, right) < 0 THEN left ELSE right
Later(left, right) == IF CompareMonths(left, right) > 0 THEN left ELSE right

CalendarRegime(key) ==
    CASE key[2] \in {1, 2, 7, 8} -> "BREAK"
      [] key[2] \in {3, 4, 5, 9, 10, 11} -> "NORMAL"
      [] key[2] \in {6, 12} -> "REDUCED"

-----------------------------------------------------------------------------
(* From the rows of borrow_records to the grid. *)

SeriesKey(item) ==
    <<ItemType[item], IF ItemType[item] = "newspaper" \/ Category[item] = Null
                         THEN "UNCATEGORIZED" ELSE Category[item]>>

\* A row with no item is skipped; whether the loan was returned is not looked at.
ClassifyBorrowRow(row) ==
    [month |-> MonthKey(row.borrowed), series |-> SeriesKey(row.item)]

LoadBorrowData(table) ==
    [i \in {j \in DOMAIN table : table[j].item # Null} |-> ClassifyBorrowRow(table[i])]

AggregateMonthlyDemand(records) ==
    LET KeyOf(i) == <<records[i].month, records[i].series>>
    IN  [k \in {KeyOf(i) : i \in DOMAIN records} |->
            Cardinality({i \in DOMAIN records : KeyOf(i) = k})]

Months(records) == {records[i].month : i \in DOMAIN records}
FirstMonth(months) == CHOOSE m \in months : \A o \in months : CompareMonths(m, o) <= 0
LastMonth(months) == CHOOSE m \in months : \A o \in months : CompareMonths(m, o) >= 0

\* Mutant: the grid goes on to the end of the configured window.
ResolveGridBoundsConfigured(records) ==
    [first |-> Later(FirstMonth(Months(records)), DATE_START), last |-> DATE_END, truncated |-> {}]

ResolveGridBounds(records) ==
    LET last == Earlier(LastMonth(Months(records)), DATE_END)
    IN  [first |-> Later(FirstMonth(Months(records)), DATE_START), last |-> last,
         truncated |-> MonthSequence(ShiftMonth(last, 1), DATE_END)]

FilterRecordsToRange(records, first, last) ==
    Restrict(records, {i \in DOMAIN records :
        /\ CompareMonths(records[i].month, first) >= 0
        /\ CompareMonths(records[i].month, last) <= 0})

DensifyMonthlyGrid(demand, first, last) ==
    LET series == {k[2] : k \in DOMAIN demand}
    IN  [k \in DOMAIN demand \cup (MonthSequence(first, last) \X series) |->
            IF k \in DOMAIN demand THEN demand[k] ELSE 0]

\* split_train_test: the keys of the two halves.
TrainKeys(grid) == {k \in DOMAIN grid : CompareMonths(k[1], TRAIN_END) <= 0}
TestKeys(grid) == {k \in DOMAIN grid : CompareMonths(k[1], TEST_START) >= 0}

-----------------------------------------------------------------------------
(* What a forecaster may see, and one forecast. *)

Visible(month, target, origin, protocol) ==
    IF protocol = Static THEN CompareMonths(month, origin) <= 0
                         ELSE CompareMonths(month, target) < 0

SplitHistory(history, target, origin, protocol) ==
    [k \in {j \in DOMAIN history : Visible(j[1], target, origin, protocol)} |-> history[k]]

SeriesMean(visible, series) ==
    LET keys == {k \in DOMAIN visible : k[2] = series}
    IN  <<SumFunctionOnSet(visible, keys), Cardinality(keys)>>

\* The months a method reads; window is 0 for the seasonal lookup.
RequiredMonths(target, origin, protocol, window) ==
    IF window = 0 THEN {ShiftMonth(target, -SEASONAL_LAG)}
    ELSE LET anchor == IF protocol = Static THEN origin ELSE ShiftMonth(target, -1)
         IN  {ShiftMonth(anchor, -offset) : offset \in 0 .. window - 1}

ForecastPoint(history, series, target, origin, protocol, window) ==
    LET visible == SplitHistory(history, target, origin, protocol)
        required == RequiredMonths(target, origin, protocol, window)
        observed == {k \in DOMAIN visible : k[1] \in required /\ k[2] = series}
        source == CASE observed = {} /\ \E k \in DOMAIN visible : k[2] = series
                            -> "series_mean_fallback"
                    [] observed = {} /\ \A k \in DOMAIN visible : k[2] # series
                            -> "zero_fallback"
                    [] {k[1] : k \in observed} = required
                            -> IF window = 0 THEN "seasonal_lookup" ELSE "trailing_window"
                    [] OTHER -> "trailing_window_partial"
    IN  [source |-> source,
         forecast |-> CASE source = "series_mean_fallback" -> SeriesMean(visible, series)
                        [] source = "zero_fallback" -> <<0, 1>>
                        [] OTHER -> <<SumFunctionOnSet(visible, observed), Cardinality(observed)>>]

\* forecast_all raises before it scores anything: a month that is not after the
\* origin, a lag that reaches past what the protocol shows, or a window that
\* reads the month it forecasts or a later one.
Refused(keys, origin, protocol, window) == \E k \in keys :
    \/ CompareMonths(k[1], origin) <= 0
    \/ /\ window = 0
       /\ LET limit == IF protocol = Static THEN origin ELSE ShiftMonth(k[1], -1)
          IN  CompareMonths(ShiftMonth(k[1], -SEASONAL_LAG), limit) > 0
    \/ \E month \in RequiredMonths(k[1], origin, protocol, window) :
          CompareMonths(month, k[1]) >= 0

ForecastAll(grid, keys, origin, protocol, window) ==
    [k \in keys |-> ForecastPoint(grid, k[2], k[1], origin, protocol, window)]

\* coverage: how many forecasts came from what.
Coverage(rows) ==
    LET From(sources) == Cardinality({k \in DOMAIN rows : rows[k].source \in sources})
    IN  [points |-> Cardinality(DOMAIN rows),
         full |-> From({"seasonal_lookup", "trailing_window"}),
         partial |-> From({"trailing_window_partial"}),
         fallback |-> From({"series_mean_fallback", "zero_fallback"})]

-----------------------------------------------------------------------------
(* The scripts.  Phase 5A runs the seasonal lookup; 5B adds the windows. *)

Windows(phase) == IF phase = "5A" THEN <<0>> ELSE <<0>> \o MOVING_AVERAGE_WINDOWS

\* main(), up to the first file it writes.  "exits" is SystemExit or a raise.
DemandRun(table, phase) ==
    LET records == LoadBorrowData(table)
        bounds == ResolveGridBounds(records)
        kept == FilterRecordsToRange(records, bounds.first, bounds.last)
        grid == DensifyMonthlyGrid(AggregateMonthlyDemand(kept), bounds.first, bounds.last)
        test == TestKeys(grid)
        exits == \/ DOMAIN records = {}
                 \/ test = {}
                 \/ \E p \in Protocols, w \in Range(Windows(phase)) : Refused(test, TRAIN_END, p, w)
    IN  IF exits THEN [exits |-> TRUE]
        ELSE [exits |-> FALSE, bounds |-> bounds, grid |-> grid,
              train |-> Cardinality(TrainKeys(grid)), test |-> Cardinality(test),
              regimeDemand |-> [r \in {CalendarRegime(k[1]) : k \in DOMAIN grid} |->
                 SumFunctionOnSet(grid, {k \in DOMAIN grid : CalendarRegime(k[1]) = r})],
              rows |-> [p \in Protocols |-> [w \in Range(Windows(phase)) |->
                 ForecastAll(grid, test, TRAIN_END, p, w)]]]
=============================================================================

------------------------------- MODULE MCSeed -------------------------------
(* An instance of SeedGenerator for TLC: four simulated days before          *)
(* SIMULATED_TODAY, the last two of which the second pass goes over again.   *)
EXTENDS SeedGenerator

CONSTANTS s1, s2

MCItemType == [b1 |-> "book", m1 |-> "magazine"]
MCCategory == [b1 |-> "Art", m1 |-> Null]
MCMonth == <<0, 1>>
MCWindows == <<2>>
MCRange == 0 .. 5
MCSplitCutoffs == {2}
MCReturnDays == {1, 3}
MCDueDays == {1}
MCExpected == [total |-> 0, overdue |-> 0, majority |-> <<0, 100>>,
               zeroHistory |-> <<0, 100>>, highHistory |-> <<0, 100>>]
MCLimits == [active |-> 1 .. 4, completed |-> 2, overdue |-> <<15, 60>>, categoryLoans |-> 2,
             customDue |-> <<0, 50>>, students |-> 2,
             min_completed_loans |-> 2, min_distinct_borrowers |-> 2, min_months_coverage |-> 1,
             min_overdue_examples |-> 1, min_ontime_examples |-> 1,
             min_borrowers_with_history |-> 0]
MCSymmetry == Permutations({s1, s2})
=============================================================================

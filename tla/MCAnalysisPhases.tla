-------------------------- MODULE MCAnalysisPhases --------------------------
(* Instances of AnalysisPhases for TLC: a month has two days, and day 24    *)
(* begins a year.                                                           *)
EXTENDS AnalysisPhases

CONSTANTS s1, s2

MCItemType == [b1 |-> "book", n1 |-> "newspaper"]
MCCategory == [b1 |-> Null, n1 |-> Null]
MCExpected == [total |-> 4, overdue |-> 1, majority |-> <<70, 80>>,
               zeroHistory |-> <<0, 100>>, highHistory |-> <<0, 100>>]
MCWindows == <<2>>
MCDateStart == <<0, 12>>
MCDateEnd == <<1, 3>>
MCTrainEnd == <<1, 1>>
MCTestStart == <<1, 2>>
MCPartialMonth == <<1, 3>>

Loan(student, item, borrowed, returned) ==
    [student |-> student, item |-> item, borrowed |-> borrowed,
     due |-> borrowed + 1, returned |-> returned]

\* A loan of each part of phase 4F: the second was long overdue, the third is
\* out.  In the other table the last loan, of the second pass, stays out, and its
\* item was lent again.
MCSeedTables ==
    {<<Loan(s1, "b1", 22, 23), Loan(s2, "n1", 23, 27), Loan(s2, "b1", 26, Null)>>,
     <<Loan(s1, "b1", 22, 23), Loan(s2, "n1", 23, 27), Loan(s1, "b1", 26, 27),
       Loan(s2, "b1", 21, Null)>>}
==============================================================================

------------------------------- MODULE Loans -------------------------------
(***************************************************************************)
(* What circulation promises, with neither flags, locks nor transactions:  *)
(* an item that is not out on a loan can be lent to a student, and a loan  *)
(* that is open can be closed, each in one step.                           *)
(***************************************************************************)
CONSTANTS Item, Student, RecordId, Null

VARIABLE loan     \* the loan of each id: its status, item and student

NoLoan == [status |-> "ABSENT", item |-> Null, student |-> Null]

Out(i) == \E r \in RecordId : loan[r].status = "BORROWED" /\ loan[r].item = i

Init == loan = [r \in RecordId |-> NoLoan]

Lend(r, i, s) ==
    /\ loan[r].status = "ABSENT"
    /\ ~Out(i)
    /\ loan' = [loan EXCEPT ![r] = [status |-> "BORROWED", item |-> i, student |-> s]]

TakeBack(r) ==
    /\ loan[r].status = "BORROWED"
    /\ loan' = [loan EXCEPT ![r].status = "RETURNED"]

Next ==
    \/ \E r \in RecordId, i \in Item, s \in Student : Lend(r, i, s)
    \/ \E r \in RecordId : TakeBack(r)

Spec == Init /\ [][Next]_loan
=============================================================================

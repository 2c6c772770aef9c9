------------------------ MODULE SeedGeneratorProofs ------------------------
(***************************************************************************)
(* The generator beside a running library, for any catalogue, students,    *)
(* days and limits.  The invariant that ties activeItems to the loans it   *)
(* stands for: type correctness, and that the loans overlap nowhere else   *)
(* than where the second pass goes back in time.  The invariant that       *)
(* relates the available column, the audit rows and the open loans at      *)
(* every step of the generator: what validate_dataset.py accepts is right  *)
(* about the column, but for items that were lent or taken back meanwhile. *)
(* And, of any table of loans, that phase 3C and phase 4A count the same.  *)
(***************************************************************************)
EXTENDS SeedGenerator, RiskFeaturesProofs

Steps == {"items", "students", "completed", "active", "loans", "availability", "audit",
          "done", "failed", "killed"}
LoanRow == [student : Student, item : Item, borrowed : Nat, due : Nat, returned : Nat \cup {Null}]

-----------------------------------------------------------------------------
(* The invariant. *)

MemoryType ==
    /\ at \in Steps
    /\ day \in Nat /\ day < SIMULATED_TODAY
    /\ rows \in Seq(LoanRow)
    /\ DOMAIN activeItems \subseteq Item
    /\ activeItems \in [DOMAIN activeItems -> [until : Nat, student : Student]]
    /\ at \in {"items", "students", "failed", "killed"} => rows = <<>> /\ activeItems = <<>> /\ day = 0

\* No loan ends after Never, and none that is returned after SIMULATED_TODAY.
ReturnedInTime == \A n \in DOMAIN rows : rows[n].returned \in 0 .. SIMULATED_TODAY \cup {Null}

TablesType ==
    /\ db = [loans |-> db.loans, available |-> db.available, students |-> db.students,
             audit |-> db.audit]
    /\ NextId \in Nat /\ DOMAIN db.loans = 1 .. NextId
    /\ \A i \in DOMAIN db.loans :
          db.loans[i].item \in DOMAIN db.available /\ db.loans[i].student \in db.students
    /\ db.available \in [DOMAIN db.available -> BOOLEAN]
    /\ db.students \subseteq Student
    /\ at \notin {"items", "failed", "killed"} => DOMAIN db.available = Item
    /\ at \notin {"items", "students", "failed", "killed"} => db.students = Student

\* The last day that activeItems has been brought up to.
Frontier == IF at = "completed" THEN day ELSE SIMULATED_TODAY - 1
Out == {n \in DOMAIN rows : End(rows[n]) > Frontier}

\* activeItems holds the loans that are out, each under its item.
Tracked ==
    /\ \A n \in Out :
          /\ rows[n].item \in DOMAIN activeItems
          /\ activeItems[rows[n].item].student = rows[n].student
    /\ \A m, n \in Out : m # n => rows[m].item # rows[n].item

StillOutOnly == \A i \in DOMAIN activeItems : activeItems[i].until > Frontier
UntilEnd == \A n \in Out : activeItems[rows[n].item].until = End(rows[n])
HeldBounded == \A s \in Student : Held(s) <= MAX_CONCURRENT
CompletedApart == \A d \in DateRange : Apart(OutOn(d) \cap Returned(rows))

SeedInv ==
    /\ MemoryType /\ ReturnedInTime /\ TablesType
    /\ Tracked /\ StillOutOnly /\ UntilEnd /\ HeldBounded /\ CompletedApart

-----------------------------------------------------------------------------
(* Lemmas. *)

LEMMA EndIsDay ==
  ASSUME MemoryType, NEW n \in DOMAIN rows
  PROVE  /\ rows[n] \in LoanRow
         /\ End(rows[n]) \in Nat
         /\ rows[n].borrowed \in Nat
<1>1. rows[n] \in LoanRow
  BY ElementOfSeq DEF MemoryType
<1>2. rows[n].borrowed \in Nat /\ rows[n].returned \in Nat \cup {Null}
  BY <1>1 DEF LoanRow
<1> QED
  BY <1>1, <1>2, SeedAssumption DEF End, Never

LEMMA FrontierIsDay == MemoryType => Frontier \in Nat /\ Frontier < SIMULATED_TODAY
BY SeedAssumption DEF MemoryType, Frontier

LEMMA MinOfTwo ==
  ASSUME NEW a \in Nat, NEW b \in Nat
  PROVE  Min({a, b}) = IF a <= b THEN a ELSE b
<1> DEFINE m == IF a <= b THEN a ELSE b
<1>1. m \in {a, b} /\ \A y \in {a, b} : m <= y
  OBVIOUS
<1>2. \A x \in {a, b} : (\A y \in {a, b} : x <= y) => x = m
  OBVIOUS
<1> QED
  BY <1>1, <1>2 DEF Min

LEMMA MaxOfTwo ==
  ASSUME NEW a \in Int, NEW b \in Int
  PROVE  Max({a, b}) = IF a >= b THEN a ELSE b
<1> DEFINE m == IF a >= b THEN a ELSE b
<1>1. m \in {a, b} /\ \A y \in {a, b} : m >= y
  OBVIOUS
<1>2. \A x \in {a, b} : (\A y \in {a, b} : x >= y) => x = m
  OBVIOUS
<1> QED
  BY <1>1, <1>2 DEF Max

LEMMA HeldIsFinite ==
  ASSUME DOMAIN activeItems \subseteq Item, NEW s
  PROVE  IsFiniteSet({i \in DOMAIN activeItems : activeItems[i].student = s})
BY SeedAssumption, FS_Subset DEF Item

\* Any of the loans that activeItems stands for may be out together: a student's
\* loans are as many as the items that the student holds, at most.
LEMMA OutIsApart ==
  ASSUME MemoryType, Tracked, HeldBounded, NEW loans \in SUBSET Out
  PROVE  Apart(loans)
<1>1. \A m, n \in loans : m # n => rows[m].item # rows[n].item
  BY DEF Tracked
<1>2. ASSUME NEW s \in Student
      PROVE  Cardinality({n \in loans : rows[n].student = s}) <= MAX_CONCURRENT
  <2> DEFINE L == {n \in loans : rows[n].student = s}
             H == {i \in DOMAIN activeItems : activeItems[i].student = s}
             itemOf == [n \in L |-> rows[n].item]
  <2>1. IsFiniteSet(H)
    BY HeldIsFinite DEF MemoryType
  <2>2. itemOf \in Injection(L, H)
    <3>1. itemOf \in [L -> H]
      BY DEF Tracked
    <3>2. \A m, n \in L : itemOf[m] = itemOf[n] => m = n
      BY <1>1
    <3> QED
      BY <3>1, <3>2 DEF Injection, IsInjective
  <2>3. IsFiniteSet(L) /\ Cardinality(L) <= Cardinality(H)
    BY <2>1, <2>2, FS_Injection
  <2>4. Cardinality(L) \in Nat /\ Cardinality(H) \in Nat /\ Cardinality(H) <= MAX_CONCURRENT
    BY <2>1, <2>3, FS_CardinalityType DEF HeldBounded, Held
  <2> QED
    BY <2>3, <2>4, SeedAssumption
<1> QED
  BY <1>1, <1>2 DEF Apart

OutApart == MemoryType /\ Tracked /\ HeldBounded => \A loans \in SUBSET Out : Apart(loans)

\* The same of the state that a step leads to.
LEMMA OutIsApartNext == OutApart'
<1>1. OutApart
  BY OutIsApart DEF OutApart
<1> QED
  BY <1>1, PTL

\* What the invariant is for.
LEMMA InvImpliesOverlaps == SeedInv => OverlapsAreOpen
<1> SUFFICES ASSUME SeedInv, NEW d \in DateRange
             PROVE  LET completed == OutOn(d) \cap Returned(rows)
                        open == OutOn(d) \ Returned(rows)
                        untilEnd == {n \in completed : rows[n].returned = SIMULATED_TODAY}
                    IN  Apart(completed) /\ Apart(open \cup untilEnd)
  BY DEF OverlapsAreOpen
<1> DEFINE completed == OutOn(d) \cap Returned(rows)
           open == OutOn(d) \ Returned(rows)
           untilEnd == {n \in completed : rows[n].returned = SIMULATED_TODAY}
<1>1. Apart(completed)
  BY DEF SeedInv, CompletedApart
<1>2. ASSUME NEW n \in open \cup untilEnd PROVE n \in Out
  <2>1. n \in DOMAIN rows /\ (rows[n].returned = Null \/ rows[n].returned = SIMULATED_TODAY)
    BY DEF OutOn, Returned
  <2>2. End(rows[n]) >= SIMULATED_TODAY /\ End(rows[n]) \in Nat
    BY <2>1, SeedAssumption DEF End, Never
  <2>3. Frontier \in Nat /\ Frontier < SIMULATED_TODAY
    BY FrontierIsDay DEF SeedInv
  <2> QED
    BY <2>1, <2>2, <2>3, SeedAssumption DEF Out
<1>3. Apart(open \cup untilEnd)
  <2>1. open \cup untilEnd \in SUBSET Out
    BY <1>2
  <2> QED
    BY <2>1, OutIsApart DEF SeedInv
<1> QED
  BY <1>1, <1>3

LEMMA InvImpliesType == SeedInv => SeedTypeOK
<1> SUFFICES ASSUME SeedInv PROVE SeedTypeOK
  OBVIOUS
<1>1. \A i \in DOMAIN activeItems : activeItems[i].until > day \/ at = "active"
  <2>1. \A i \in DOMAIN activeItems : activeItems[i].until \in Nat
    BY DEF SeedInv, MemoryType
  <2>2. day <= Frontier /\ Frontier \in Nat /\ day \in Nat
    BY SeedAssumption DEF SeedInv, MemoryType, Frontier
  <2> QED
    BY <2>1, <2>2 DEF SeedInv, StillOutOnly
<1> QED
  BY <1>1 DEF SeedTypeOK, SeedInv, MemoryType, TablesType, Steps

-----------------------------------------------------------------------------
(* The parts of the invariant that speak of the generator's memory, step by  *)
(* step.                                                                     *)

MemoryInv ==
    /\ ReturnedInTime /\ Tracked /\ StillOutOnly /\ UntilEnd /\ HeldBounded /\ CompletedApart

\* An empty memory satisfies all of it.
LEMMA EmptyMemory ==
  ASSUME rows' = <<>>, activeItems' = <<>>
  PROVE  MemoryInv'
<1>1. DOMAIN rows' = {} /\ DOMAIN activeItems' = {}
  OBVIOUS
<1>2. Out' = {} /\ \A d : OutOn(d)' = {}
  BY <1>1 DEF Out, OutOn
<1>3. \A s : {i \in DOMAIN activeItems' : activeItems'[i].student = s} = {}
  BY <1>1
<1>4. Cardinality({}) = 0
  BY FS_EmptySet
<1>5. HeldBounded'
  BY <1>3, <1>4, SeedAssumption DEF HeldBounded, Held
<1>6. ASSUME NEW S, S = {} PROVE Apart(S)'
  <2>1. \A s \in Student : {n \in S : rows'[n].student = s} = {}
    BY <1>6
  <2> QED
    BY <1>4, <1>6, <2>1, SeedAssumption DEF Apart
<1> QED
  BY <1>1, <1>2, <1>5, <1>6
  DEF MemoryInv, ReturnedInTime, Tracked, StillOutOnly, UntilEnd, CompletedApart

\* A step that leaves the memory alone, and the day it has been brought up to.
LEMMA SameMemory ==
  ASSUME MemoryInv, UNCHANGED memory, Frontier' = Frontier
  PROVE  MemoryInv'
<1>1. rows' = rows /\ activeItems' = activeItems
  BY DEF memory
<1>2. Out' = Out /\ \A d : OutOn(d)' = OutOn(d)
  BY <1>1 DEF Out, OutOn, End
<1>3. \A S : Apart(S)' <=> Apart(S)
  BY <1>1 DEF Apart
<1>4. HeldBounded'
  BY <1>1 DEF MemoryInv, HeldBounded, Held
<1>5. Returned(rows)' = Returned(rows)
  BY <1>1
<1>6. CompletedApart'
  BY <1>2, <1>3, <1>5 DEF MemoryInv, CompletedApart
<1>7. ReturnedInTime' /\ Tracked' /\ StillOutOnly' /\ UntilEnd'
  BY <1>1, <1>2 DEF MemoryInv, ReturnedInTime, Tracked, StillOutOnly, UntilEnd, End
<1> QED
  BY <1>4, <1>6, <1>7 DEF MemoryInv

\* A loan of either pass: its item becomes the item of activeItems that stands
\* for it, and only a loan of the first pass has its return.
LEMMA TakeKeeps ==
  ASSUME SeedInv, NEW student \in Student, NEW item \in Item, NEW due \in Nat,
         NEW returned \in 0 .. SIMULATED_TODAY \cup {Null}, NEW until \in Nat,
         Take(student, item, due, returned, until),
         until = IF returned = Null THEN Never ELSE returned,
         until > Frontier, at \in {"completed", "active"},
         returned # Null => at = "completed"
  PROVE  MemoryType' /\ MemoryInv'
<1> DEFINE r == Row(student, item, due, returned)
           k == Len(rows) + 1
<1>1. rows \in Seq(LoanRow) /\ r \in LoanRow /\ rows' = Append(rows, r)
  <2>1. returned \in Nat \cup {Null} /\ day \in Nat
    BY SeedAssumption DEF SeedInv, MemoryType
  <2> QED
    BY <2>1 DEF SeedInv, MemoryType, Take, LoanRow, Row
<1>2. /\ rows' \in Seq(LoanRow) /\ k \notin DOMAIN rows
      /\ DOMAIN rows' = DOMAIN rows \cup {k} /\ rows'[k] = r
      /\ \A n \in DOMAIN rows : rows'[n] = rows[n]
  BY <1>1
<1>3. /\ item \notin DOMAIN activeItems
      /\ DOMAIN activeItems' = DOMAIN activeItems \cup {item}
      /\ activeItems'[item] = [until |-> until, student |-> student]
      /\ \A i \in DOMAIN activeItems : activeItems'[i] = activeItems[i]
  BY DEF Take, MayBorrow
<1>4. at' = at /\ day' = day /\ Frontier' = Frontier
  BY DEF Take, Frontier
<1>5. End(rows'[k]) = until /\ \A n \in DOMAIN rows : End(rows'[n]) = End(rows[n])
  BY <1>2 DEF End, Row
<1>6. Out' = Out \cup {k}
  BY <1>2, <1>4, <1>5 DEF Out
<1>7. MemoryType'
  <2>1. activeItems' \in [DOMAIN activeItems' -> [until : Nat, student : Student]]
    <3>1. activeItems' = [i \in DOMAIN activeItems' |-> activeItems'[i]]
      BY DEF Take
    <3>2. \A i \in DOMAIN activeItems' : activeItems'[i] \in [until : Nat, student : Student]
      BY <1>3 DEF SeedInv, MemoryType
    <3> QED
      BY <3>1, <3>2
  <2> QED
    BY <1>2, <1>3, <1>4, <2>1 DEF SeedInv, MemoryType
<1>8. ReturnedInTime'
  BY <1>2 DEF SeedInv, ReturnedInTime, Row
<1>9. Tracked'
  BY <1>2, <1>3, <1>6 DEF SeedInv, Tracked, Out, Row
<1>10. StillOutOnly'
  BY <1>3, <1>4 DEF SeedInv, StillOutOnly
<1>11. UntilEnd'
  <2>1. \A n \in Out : rows'[n].item \in DOMAIN activeItems /\ rows'[n] = rows[n] /\ n \in DOMAIN rows
    BY <1>2 DEF SeedInv, Tracked, Out
  <2>2. \A n \in Out : activeItems'[rows'[n].item].until = End(rows'[n])
    BY <1>3, <1>5, <2>1 DEF SeedInv, UntilEnd
  <2>3. activeItems'[rows'[k].item].until = End(rows'[k])
    BY <1>2, <1>3, <1>5 DEF Row
  <2> QED
    BY <1>6, <2>2, <2>3 DEF UntilEnd
<1>12. HeldBounded'
  <2> SUFFICES ASSUME NEW s \in Student PROVE Held(s)' <= MAX_CONCURRENT
    BY DEF HeldBounded
  <2> DEFINE H == {i \in DOMAIN activeItems : activeItems[i].student = s}
             G == {i \in DOMAIN activeItems' : activeItems'[i].student = s}
  <2>1. IsFiniteSet(H) /\ Cardinality(H) \in Nat
    BY HeldIsFinite, FS_CardinalityType DEF SeedInv, MemoryType
  <2>2. CASE s = student
    <3>1. G = H \cup {item} /\ item \notin H
      BY <1>3, <2>2
    <3>2. Cardinality(G) = Cardinality(H) + 1
      BY <2>1, <3>1, FS_AddElement
    <3>3. Cardinality(H) < MAX_CONCURRENT
      BY <2>2 DEF Take, MayBorrow, Held
    <3> QED
      BY <2>1, <3>2, <3>3, SeedAssumption DEF Held
  <2>3. CASE s # student
    <3>1. G = H
      BY <1>3, <2>3
    <3> QED
      BY <3>1 DEF Held, SeedInv, HeldBounded
  <2> QED
    BY <2>2, <2>3
<1>13. CompletedApart'
  <2> SUFFICES ASSUME NEW d \in DateRange PROVE Apart(OutOn(d) \cap Returned(rows))'
    BY DEF CompletedApart
  <2> DEFINE C == OutOn(d) \cap Returned(rows)
  <2>1. d \in Nat /\ day \in Nat
    BY SeedAssumption DEF SeedInv, MemoryType
  <2>2. CASE at = "completed" /\ d >= day
    <3>1. Frontier = day
      BY <2>2 DEF Frontier
    <3>2. ASSUME NEW n \in C' PROVE n \in Out'
      <4>1. n \in DOMAIN rows' /\ d < End(rows'[n])
        BY DEF OutOn
      <4>2. End(rows'[n]) \in Nat
        BY <1>2, <1>5, <4>1, EndIsDay DEF SeedInv
      <4>3. End(rows'[n]) > Frontier'
        BY <1>4, <2>1, <2>2, <3>1, <4>1, <4>2
      <4> QED
        BY <4>1, <4>3 DEF Out
    <3>3. C' \in SUBSET Out'
      BY <3>2
    <3>4. \A loans \in SUBSET Out' : Apart(loans)'
      BY <1>7, <1>9, <1>12, OutIsApartNext DEF OutApart
    <3> QED
      BY <3>3, <3>4
  <2>3. CASE ~(at = "completed" /\ d >= day)
    <3>1. k \notin C'
      <4>1. rows'[k].borrowed = day /\ rows'[k].returned = returned
        BY <1>2 DEF Row
      <4> QED
        BY <2>1, <2>3, <4>1 DEF OutOn, Returned
    <3>2. C' = C
      BY <1>2, <1>5, <3>1 DEF OutOn, Returned
    <3>3. C \subseteq DOMAIN rows /\ Apart(C)
      BY DEF OutOn, SeedInv, CompletedApart
    <3>4. \A n \in C : rows'[n] = rows[n]
      BY <1>2, <3>3
    <3>5. \A s : {n \in C : rows'[n].student = s} = {n \in C : rows[n].student = s}
      BY <3>4
    <3>6. Apart(C)'
      BY <3>2, <3>3, <3>4, <3>5 DEF Apart
    <3> QED
      BY <3>6
  <2> QED
    BY <2>2, <2>3
<1> QED
  BY <1>7, <1>8, <1>9, <1>10, <1>11, <1>12, <1>13 DEF MemoryInv

\* A day of the first pass ends: what is due back leaves activeItems, and with
\* the last one the second pass begins, with all that is left.
LEMMA CompletedDayKeeps ==
  ASSUME SeedInv, CompletedDay
  PROVE  MemoryType' /\ MemoryInv'
<1>1. at = "completed" /\ rows' = rows /\ day \in Nat /\ day < SIMULATED_TODAY /\ Frontier = day
  BY DEF CompletedDay, SeedInv, MemoryType, Frontier
<1>2. CASE day + 1 < SIMULATED_TODAY
  <2>1. /\ day' = day + 1 /\ at' = at /\ Frontier' = day + 1
        /\ activeItems' = StillOut(activeItems, day + 1)
    BY <1>1, <1>2 DEF CompletedDay, Frontier
  <2>2. /\ DOMAIN activeItems' = {i \in DOMAIN activeItems : activeItems[i].until > day + 1}
        /\ activeItems' = [i \in DOMAIN activeItems' |-> activeItems[i]]
    BY <2>1 DEF StillOut
  <2>3. MemoryType'
    <3>1. activeItems' \in [DOMAIN activeItems' -> [until : Nat, student : Student]]
      BY <2>2 DEF SeedInv, MemoryType
    <3> QED
      BY <1>1, <1>2, <2>1, <2>2, <3>1 DEF SeedInv, MemoryType
  <2>4. ASSUME NEW n \in Out'
        PROVE  n \in Out /\ rows[n].item \in DOMAIN activeItems'
    <3>1. n \in DOMAIN rows /\ End(rows[n]) > day + 1 /\ End(rows[n]) \in Nat
      BY <1>1, <2>1, EndIsDay DEF Out, SeedInv
    <3>2. n \in Out
      BY <1>1, <3>1 DEF Out
    <3>3. rows[n].item \in DOMAIN activeItems /\ activeItems[rows[n].item].until = End(rows[n])
      BY <3>2 DEF SeedInv, Tracked, UntilEnd
    <3> QED
      BY <2>2, <3>1, <3>2, <3>3
  <2>5. Tracked' /\ UntilEnd' /\ StillOutOnly'
    BY <1>1, <2>1, <2>2, <2>4 DEF SeedInv, Tracked, UntilEnd, StillOutOnly
  <2>6. HeldBounded'
    <3> SUFFICES ASSUME NEW s \in Student PROVE Held(s)' <= MAX_CONCURRENT
      BY DEF HeldBounded
    <3> DEFINE H == {i \in DOMAIN activeItems : activeItems[i].student = s}
               G == {i \in DOMAIN activeItems' : activeItems'[i].student = s}
    <3>1. IsFiniteSet(H) /\ Cardinality(H) \in Nat
      BY HeldIsFinite, FS_CardinalityType DEF SeedInv, MemoryType
    <3>2. G \subseteq H
      BY <2>2
    <3>3. Cardinality(G) \in Nat /\ Cardinality(G) <= Cardinality(H)
      BY <3>1, <3>2, FS_Subset, FS_CardinalityType
    <3>4. Cardinality(H) <= MAX_CONCURRENT
      BY DEF SeedInv, HeldBounded, Held
    <3> QED
      BY <3>1, <3>3, <3>4, SeedAssumption DEF Held
  <2>7. ReturnedInTime' /\ CompletedApart'
    BY <1>1 DEF SeedInv, ReturnedInTime, CompletedApart, Apart, OutOn, Returned
  <2> QED
    BY <2>3, <2>5, <2>6, <2>7 DEF MemoryInv
<1>3. CASE ~(day + 1 < SIMULATED_TODAY)
  <2>1. /\ day' = Max({0, SIMULATED_TODAY - ACTIVE_WINDOW_DAYS})
        /\ at' = "active" /\ activeItems' = activeItems
    BY <1>3 DEF CompletedDay
  <2>2. day' \in Nat /\ day' < SIMULATED_TODAY
    <3>1. SIMULATED_TODAY \in Nat /\ SIMULATED_TODAY > 0
          /\ SIMULATED_TODAY - ACTIVE_WINDOW_DAYS \in Int
          /\ SIMULATED_TODAY - ACTIVE_WINDOW_DAYS < SIMULATED_TODAY
      BY SeedAssumption
    <3> QED
      BY <2>1, <3>1, MaxOfTwo
  <2>3. Frontier' = Frontier
    BY <1>1, <1>3, <2>1, SeedAssumption DEF Frontier
  <2>4. MemoryType'
    BY <1>1, <2>1, <2>2 DEF SeedInv, MemoryType, Steps
  <2>5. Out' = Out
    BY <1>1, <2>3 DEF Out
  <2>6. Tracked' /\ UntilEnd' /\ StillOutOnly' /\ HeldBounded'
    BY <1>1, <2>1, <2>3, <2>5 DEF SeedInv, Tracked, UntilEnd, StillOutOnly, HeldBounded, Held
  <2>7. ReturnedInTime' /\ CompletedApart'
    BY <1>1 DEF SeedInv, ReturnedInTime, CompletedApart, Apart, OutOn, Returned
  <2> QED
    BY <2>4, <2>6, <2>7 DEF MemoryInv
<1> QED
  BY <1>2, <1>3

\* The steps that read the memory only.
LEMMA MemoryIsRead ==
  ASSUME SeedInv,
         \/ InsertLoans \/ UpdateItemAvailability \/ GenerateAuditLogs \/ ActiveDay
         \/ \E student \in Student, item \in Item : Lend(student, item)
         \/ \E id \in DOMAIN db.loans : TakeBack(id)
         \/ UNCHANGED seedVars
  PROVE  MemoryType' /\ MemoryInv'
<1>1. CASE ActiveDay
  <2>1. /\ at = "active" /\ at' \in {"active", "loans"} /\ Frontier' = Frontier
        /\ rows' = rows /\ activeItems' = activeItems
    BY <1>1 DEF ActiveDay, Frontier
  <2>2. day' \in Nat /\ day' < SIMULATED_TODAY
    BY <1>1 DEF ActiveDay, SeedInv, MemoryType
  <2>3. MemoryType'
    BY <2>1, <2>2 DEF SeedInv, MemoryType, Steps
  <2>4. Out' = Out
    BY <2>1 DEF Out
  <2>5. Tracked' /\ UntilEnd' /\ StillOutOnly' /\ HeldBounded'
    BY <2>1, <2>4 DEF SeedInv, Tracked, UntilEnd, StillOutOnly, HeldBounded, Held
  <2>6. ReturnedInTime' /\ CompletedApart'
    BY <2>1 DEF SeedInv, ReturnedInTime, CompletedApart, Apart, OutOn, Returned
  <2> QED
    BY <2>3, <2>5, <2>6 DEF MemoryInv
<1>2. ASSUME UNCHANGED memory, Frontier' = Frontier, at' \in Steps,
             at' = at \/ at' \notin {"items", "students", "failed", "killed"}
      PROVE  MemoryType' /\ MemoryInv'
  <2>1. MemoryType'
    BY <1>2 DEF memory, SeedInv, MemoryType
  <2> QED
    BY <1>2, <2>1, SameMemory DEF SeedInv, MemoryInv
<1>3. CASE InsertLoans \/ UpdateItemAvailability \/ GenerateAuditLogs
  BY <1>2, <1>3 DEF InsertLoans, UpdateItemAvailability, GenerateAuditLogs, Frontier, Steps, memory
<1>4. CASE \E student \in Student, item \in Item : Lend(student, item)
  BY <1>2, <1>4 DEF Lend, Frontier, memory, SeedInv, MemoryType
<1>5. CASE \E id \in DOMAIN db.loans : TakeBack(id)
  <2>1. UNCHANGED <<at, memory>>
    BY <1>5 DEF TakeBack
  <2> QED
    BY <1>2, <2>1 DEF Frontier, memory, SeedInv, MemoryType
<1>6. CASE UNCHANGED seedVars
  BY <1>2, <1>6 DEF seedVars, memory, Frontier, SeedInv, MemoryType
<1> QED
  BY <1>1, <1>3, <1>4, <1>5, <1>6

\* The steps at which there is nothing in the memory, or no longer.
LEMMA MemoryIsEmpty ==
  ASSUME SeedInv, InsertItems \/ GenerateStudents \/ Kill \/ Restart
  PROVE  MemoryType' /\ MemoryInv'
<1>1. rows' = <<>> /\ activeItems' = <<>> /\ day' = 0 /\ at' \in Steps
  BY DEF InsertItems, GenerateStudents, Kill, Restart, memory, SeedInv, MemoryType, Steps
<1>2. MemoryType'
  BY <1>1, SeedAssumption DEF MemoryType
<1> QED
  BY <1>1, <1>2, EmptyMemory

\* A loan of the first pass.
LEMMA CompletedLoanKeeps ==
  ASSUME SeedInv, NEW student \in Student, NEW item \in Item, NEW days \in RETURN_DAYS,
         NEW due \in DUE_DAYS, CompletedLoan(student, item, days, due)
  PROVE  MemoryType' /\ MemoryInv'
<1> DEFINE back == Min({day + days, SIMULATED_TODAY})
<1>1. /\ at = "completed" /\ day \in Nat /\ day < SIMULATED_TODAY /\ day + due \in Nat
      /\ day + days \in Nat /\ day + days > day /\ SIMULATED_TODAY \in Nat
  BY SeedAssumption DEF CompletedLoan, SeedInv, MemoryType
<1>2. back \in Nat /\ back > day /\ back <= SIMULATED_TODAY
  BY <1>1, MinOfTwo
<1>3. back # Null /\ back \in 0 .. SIMULATED_TODAY \cup {Null} /\ back > Frontier
  BY <1>1, <1>2, SeedAssumption DEF Frontier
<1>4. Take(student, item, day + due, back, back)
  BY DEF CompletedLoan
<1> HIDE DEF back
<1> QED
  BY <1>1, <1>2, <1>3, <1>4, TakeKeeps

\* A loan of the second pass.
LEMMA ActiveLoanKeeps ==
  ASSUME SeedInv, NEW student \in Student, NEW item \in Item,
         NEW due \in DUE_DAYS, ActiveLoan(student, item, due)
  PROVE  MemoryType' /\ MemoryInv'
<1>1. at = "active" /\ day \in Nat /\ day + due \in Nat
  BY SeedAssumption DEF ActiveLoan, SeedInv, MemoryType
<1>2. Never \in Nat /\ Never > Frontier
  BY <1>1, SeedAssumption DEF Never, Frontier
<1>3. Take(student, item, day + due, Null, Never)
  BY DEF ActiveLoan
<1> QED
  BY <1>1, <1>2, <1>3, TakeKeeps

\* Every step.
LEMMA MemoryKept ==
  ASSUME SeedInv, [SeedNext]_seedVars
  PROVE  MemoryType' /\ MemoryInv'
BY CompletedLoanKeeps, ActiveLoanKeeps, CompletedDayKeeps, MemoryIsRead, MemoryIsEmpty DEF SeedNext

-----------------------------------------------------------------------------
(* The tables. *)

\* What a step does to the tables is typed when the rows that it adds are.
LEMMA TablesKept ==
  ASSUME SeedInv, [SeedNext]_seedVars
  PROVE  TablesType'
<1>1. CASE InsertItems
  <2>1. CASE DOMAIN db.available = {}
    <3>1. /\ at' = "students" /\ at = "items"
          /\ db' = [db EXCEPT !.available = [i \in Item |-> TRUE]]
      BY <1>1, <2>1 DEF InsertItems
    <3>2. /\ db'.loans = db.loans /\ db'.students = db.students /\ db'.audit = db.audit
          /\ db'.available = [i \in Item |-> TRUE]
          /\ db' = [loans |-> db'.loans, available |-> db'.available, students |-> db'.students,
                    audit |-> db'.audit]
      BY <3>1 DEF SeedInv, TablesType
    <3>3. NextId' = NextId /\ DOMAIN db.loans = {}
      BY <2>1, <3>2 DEF NextId, SeedInv, TablesType
    <3> QED
      BY <3>1, <3>2, <3>3 DEF SeedInv, TablesType
  <2>2. CASE DOMAIN db.available # {}
    BY <1>1, <2>2 DEF InsertItems, SeedInv, TablesType, NextId
  <2> QED
    BY <2>1, <2>2
<1>2. CASE GenerateStudents
  <2>1. /\ at' = "completed" /\ at = "students"
        /\ db' = [db EXCEPT !.students = Student]
    BY <1>2 DEF GenerateStudents
  <2>2. /\ db'.loans = db.loans /\ db'.students = Student /\ db'.audit = db.audit
        /\ db'.available = db.available
        /\ db' = [loans |-> db'.loans, available |-> db'.available, students |-> db'.students,
                  audit |-> db'.audit]
    BY <2>1 DEF SeedInv, TablesType
  <2>3. NextId' = NextId
    BY <2>2 DEF NextId
  <2> QED
    BY <2>1, <2>2, <2>3 DEF SeedInv, TablesType
<1>3. CASE InsertLoans
  <2> DEFINE m == NextId + Len(rows)
             loans == [id \in 1 .. m |-> IF id <= NextId THEN db.loans[id] ELSE rows[id - NextId]]
  <2>1. /\ at' = "availability" /\ at = "loans" /\ db' = [db EXCEPT !.loans = loans]
    BY <1>3 DEF InsertLoans
  <2>2. /\ db'.loans = loans /\ db'.students = db.students /\ db'.audit = db.audit
        /\ db'.available = db.available
        /\ db' = [loans |-> db'.loans, available |-> db'.available, students |-> db'.students,
                  audit |-> db'.audit]
    BY <2>1 DEF SeedInv, TablesType
  <2>3. NextId \in Nat /\ Len(rows) \in Nat /\ m \in Nat /\ DOMAIN rows = 1 .. Len(rows)
    BY DEF SeedInv, TablesType, MemoryType
  <2>4. NextId' = m
    <3>1. Cardinality(1 .. m) = m
      BY <2>3, FS_Interval
    <3> QED
      BY <2>2, <3>1 DEF NextId
  <2>5. ASSUME NEW id \in 1 .. m
        PROVE  loans[id].item \in DOMAIN db.available /\ loans[id].student \in db.students
    <3>1. CASE id <= NextId
      BY <2>3, <3>1 DEF SeedInv, TablesType
    <3>2. CASE ~(id <= NextId)
      <4>1. id - NextId \in DOMAIN rows
        BY <2>3, <3>2
      <4>2. rows[id - NextId].item \in Item /\ rows[id - NextId].student \in Student
        BY <4>1, EndIsDay DEF SeedInv, LoanRow
      <4> QED
        BY <2>1, <3>2, <4>2 DEF SeedInv, TablesType
    <3> QED
      BY <3>1, <3>2
  <2> QED
    BY <2>1, <2>2, <2>3, <2>4, <2>5 DEF SeedInv, TablesType
<1>4. CASE UpdateItemAvailability
  <2> DEFINE available == [i \in DOMAIN db.available |->
          db.available[i] /\ ~\E n \in DOMAIN rows : rows[n].item = i /\ rows[n].returned = Null]
  <2>1. /\ at' = "audit" /\ at = "availability" /\ db' = [db EXCEPT !.available = available]
    BY <1>4 DEF UpdateItemAvailability
  <2>2. /\ db'.loans = db.loans /\ db'.students = db.students /\ db'.audit = db.audit
        /\ db'.available = available
        /\ db' = [loans |-> db'.loans, available |-> db'.available, students |-> db'.students,
                  audit |-> db'.audit]
    BY <2>1 DEF SeedInv, TablesType
  <2>3. NextId' = NextId
    BY <2>2 DEF NextId
  <2>4. DOMAIN available = DOMAIN db.available /\ available \in [DOMAIN available -> BOOLEAN]
    OBVIOUS
  <2> HIDE DEF available
  <2> QED
    BY <2>1, <2>2, <2>3, <2>4 DEF SeedInv, TablesType
<1>5. CASE GenerateAuditLogs
  <2>1. /\ at' = "done" /\ at = "audit"
        /\ db'.loans = db.loans /\ db'.students = db.students /\ db'.available = db.available
        /\ db' = [loans |-> db'.loans, available |-> db'.available, students |-> db'.students,
                  audit |-> db'.audit]
    BY <1>5 DEF GenerateAuditLogs, SeedInv, TablesType
  <2>2. NextId' = NextId
    BY <2>1 DEF NextId
  <2> QED
    BY <2>1, <2>2 DEF SeedInv, TablesType
<1>6. ASSUME NEW student \in Student, NEW item \in Item, Lend(student, item)
      PROVE  TablesType'
  <2> DEFINE m == NextId + 1
             loan == [student |-> student, item |-> item, borrowed |-> CirculationDay,
                      due |-> CirculationDay + DEFAULT_DUE_DAYS, returned |-> Null]
             loans == [id \in 1 .. m |-> IF id <= NextId THEN db.loans[id] ELSE loan]
  <2>1. at' = at /\ student \in db.students /\ item \in DOMAIN db.available
    BY <1>6 DEF Lend
  <2>2. /\ db'.loans = loans /\ db'.students = db.students
        /\ db'.available = [db.available EXCEPT ![item] = FALSE]
        /\ db' = [loans |-> db'.loans, available |-> db'.available, students |-> db'.students,
                  audit |-> db'.audit]
    BY <1>6 DEF Lend, SeedInv, TablesType
  <2>3. NextId \in Nat /\ m \in Nat
    BY DEF SeedInv, TablesType
  <2>4. NextId' = m
    <3>1. Cardinality(1 .. m) = m
      BY <2>3, FS_Interval
    <3> QED
      BY <2>2, <3>1 DEF NextId
  <2>5. ASSUME NEW id \in 1 .. m
        PROVE  loans[id].item \in DOMAIN db.available /\ loans[id].student \in db.students
    BY <2>1, <2>3 DEF SeedInv, TablesType
  <2>6. DOMAIN db'.available = DOMAIN db.available /\ db'.available \in [DOMAIN db.available -> BOOLEAN]
    BY <2>2 DEF SeedInv, TablesType
  <2> QED
    BY <2>1, <2>2, <2>3, <2>4, <2>5, <2>6 DEF SeedInv, TablesType
<1>7. ASSUME NEW id \in DOMAIN db.loans, TakeBack(id)
      PROVE  TablesType'
  <2>1. /\ at' = at
        /\ db'.loans = [db.loans EXCEPT ![id].returned = CirculationDay]
        /\ db'.students = db.students
        /\ db'.available = [db.available EXCEPT ![db.loans[id].item] = TRUE]
        /\ db' = [loans |-> db'.loans, available |-> db'.available, students |-> db'.students,
                  audit |-> db'.audit]
    BY <1>7 DEF TakeBack, SeedInv, TablesType
  <2>2. DOMAIN db'.loans = DOMAIN db.loans /\ NextId' = NextId
    BY <2>1 DEF NextId
  <2>3. \A i \in DOMAIN db.loans :
           db'.loans[i].item = db.loans[i].item /\ db'.loans[i].student = db.loans[i].student
    BY <2>1
  <2>4. DOMAIN db'.available = DOMAIN db.available /\ db'.available \in [DOMAIN db.available -> BOOLEAN]
    BY <2>1 DEF SeedInv, TablesType
  <2> QED
    BY <2>1, <2>2, <2>3, <2>4 DEF SeedInv, TablesType
<1>8. ASSUME UNCHANGED db, at' \in {at, "active", "loans", "killed", "items"},
             at' \in {"active", "loans"} => at \in {"completed", "active"} \/ at' = at
      PROVE  TablesType'
  BY <1>8 DEF SeedInv, TablesType, NextId
<1>9. CASE Kill \/ Restart \/ CompletedDay \/ ActiveDay \/ UNCHANGED seedVars
  BY <1>8, <1>9 DEF Kill, Restart, CompletedDay, ActiveDay, seedVars
<1>10. ASSUME NEW student \in Student, NEW item \in Item, NEW due \in DUE_DAYS,
              \/ \E days \in RETURN_DAYS : CompletedLoan(student, item, days, due)
              \/ ActiveLoan(student, item, due)
       PROVE  TablesType'
  <2>1. UNCHANGED <<db, at>>
    BY <1>10 DEF CompletedLoan, ActiveLoan, Take
  <2> QED
    BY <1>8, <2>1
<1> QED
  BY <1>1, <1>2, <1>3, <1>4, <1>5, <1>6, <1>7, <1>9, <1>10 DEF SeedNext

-----------------------------------------------------------------------------
(* The theorems. *)

\* Wherever the generator is, activeItems stands for the loans that are out, and
\* what is committed refers to rows that are there.
THEOREM SeedInvariant == SeedSpec => []SeedInv
<1>1. SeedInit => SeedInv
  <2> SUFFICES ASSUME SeedInit PROVE SeedInv
    OBVIOUS
  <2>1. MemoryType
    BY SeedAssumption DEF SeedInit, MemoryType, Steps
  <2>2. TablesType
    BY FS_EmptySet DEF SeedInit, TablesType, NextId
  <2>3. Out = {} /\ \A d : OutOn(d) = {}
    BY DEF SeedInit, Out, OutOn
  <2>4. \A s : Held(s) = 0
    <3>1. \A s : {i \in DOMAIN activeItems : activeItems[i].student = s} = {}
      BY DEF SeedInit
    <3> QED
      BY <3>1, FS_EmptySet DEF Held
  <2>5. Apart({})
    <3>1. \A s : {n \in {} : rows[n].student = s} = {}
      OBVIOUS
    <3> QED
      BY <3>1, FS_EmptySet, SeedAssumption DEF Apart
  <2>6. ReturnedInTime /\ Tracked /\ StillOutOnly /\ UntilEnd
    BY <2>3 DEF SeedInit, ReturnedInTime, Tracked, StillOutOnly, UntilEnd
  <2>7. HeldBounded
    BY <2>4, SeedAssumption DEF HeldBounded
  <2>8. CompletedApart
    <3>1. \A d \in DateRange : OutOn(d) \cap Returned(rows) = {}
      BY <2>3
    <3> QED
      BY <2>5, <3>1 DEF CompletedApart
  <2> QED
    BY <2>1, <2>2, <2>6, <2>7, <2>8 DEF SeedInv
<1>2. SeedInv /\ [SeedNext]_seedVars => SeedInv'
  BY MemoryKept, TablesKept DEF SeedInv, MemoryInv
<1> QED
  BY <1>1, <1>2, PTL DEF SeedSpec

\* The tables refer to rows that are there, and no item stays in the
\* generator's memory longer than its loan, whatever circulation does between
\* its transactions, and wherever it is killed.
THEOREM SeedTypeCorrect == SeedSpec => []SeedTypeOK
BY SeedInvariant, InvImpliesType, PTL

\* The loans that generate_loans makes overlap only where one that stays out
\* began, in the second pass, while one of the first was still out: everywhere
\* else no item is lent twice at a time, and no student has more than
\* MAX_CONCURRENT loans, for any catalogue, students, days and limits.
THEOREM GeneratorOverlaps == SeedSpec => []OverlapsAreOpen
BY SeedInvariant, InvImpliesOverlaps, PTL

-----------------------------------------------------------------------------
(* What the validator accepts.  The audit rows are written last, so that a   *)
(* generator that was killed after its loans leaves some of them without one *)
(* for ever: where none is missing, the available column was written too.    *)

OpenLoans(item) == {l \in Active(db.loans) : db.loans[l].item = item}
OpenRow(item) == \E n \in DOMAIN rows : rows[n].item = item /\ rows[n].returned = Null
Unaudited == NextId - db.audit["BORROW"]
Undisturbed == (DOMAIN db.available) \ circulated.between
LentOnce(item) == \A k, l \in OpenLoans(item) : k = l

Untouched(item) == db.available[item] = TRUE /\ \A l \in DOMAIN db.loans : db.loans[l].item # item
Inserted(item) ==
    db.available[item] = TRUE /\ LentOnce(item) /\ (OpenLoans(item) # {} <=> OpenRow(item))
Settled(item) == LentOnce(item) /\ (db.available[item] = TRUE <=> OpenLoans(item) = {})

AvailabilityInv ==
    /\ db.audit \in [{"BORROW", "RETURN"} -> Nat]
    /\ DOMAIN db.available = {} => Unaudited = 0
    /\ at \in {"students", "completed", "active", "loans"} =>
          Unaudited = 0 /\ \A i \in Undisturbed : Untouched(i)
    /\ at = "availability" => Unaudited = Len(rows) /\ \A i \in Undisturbed : Inserted(i)
    /\ at = "audit" => Unaudited = Len(rows)
    /\ at \in {"audit", "done"} \/ (at \in {"items", "killed", "failed"} /\ Unaudited = 0) =>
          \A i \in Undisturbed : Settled(i)

LEMMA UntouchedIsSettled ==
  ASSUME NEW i, Untouched(i)
  PROVE  Settled(i)
<1>1. OpenLoans(i) = {}
  BY DEF Untouched, OpenLoans, Active
<1> QED
  BY <1>1 DEF Untouched, Settled, LentOnce

\* Where the generator made no loan there is none to be marked.
LEMMA InsertedNothing ==
  ASSUME NEW i, Inserted(i), rows \in Seq(LoanRow), Len(rows) = 0
  PROVE  Settled(i)
<1>1. ~OpenRow(i)
  BY DEF OpenRow
<1> QED
  BY <1>1 DEF Inserted, Settled

LEMMA AvailabilityImpliesAccepted == SeedInv /\ AvailabilityInv => AcceptedMeansComplete
<1> SUFFICES ASSUME SeedInv, AvailabilityInv, ValidatorVerdict(db) = "accepted",
                    NEW i \in Undisturbed
             PROVE  db.available[i] = ~\E l \in Active(db.loans) : db.loans[l].item = i
  BY DEF AcceptedMeansComplete, Undisturbed
<1>1. Unaudited = 0
  <2>1. AuditHolds(db)
    BY DEF ValidatorVerdict
  <2> QED
    BY <2>1 DEF AuditHolds, Unaudited, NextId, SeedInv, TablesType, AvailabilityInv
<1>2. at \in Steps /\ rows \in Seq(LoanRow)
  BY DEF SeedInv, MemoryType
<1>3. Settled(i)
  <2>1. CASE at \in {"students", "completed", "active", "loans"}
    BY <2>1, UntouchedIsSettled DEF AvailabilityInv
  <2>2. CASE at = "availability"
    BY <1>1, <1>2, <2>2, InsertedNothing DEF AvailabilityInv
  <2>3. CASE at \in {"audit", "done", "items", "killed", "failed"}
    BY <1>1, <2>3 DEF AvailabilityInv
  <2> QED
    BY <1>2, <2>1, <2>2, <2>3 DEF Steps
<1>4. db.available[i] \in BOOLEAN
  BY DEF SeedInv, TablesType, Undisturbed
<1>5. OpenLoans(i) = {} <=> ~\E l \in Active(db.loans) : db.loans[l].item = i
  BY DEF OpenLoans
<1> QED
  BY <1>3, <1>4, <1>5 DEF Settled

-----------------------------------------------------------------------------
(* Each step keeps the available column in line. *)

\* What a step leaves as it is when it writes no table.
LEMMA SameTables ==
  ASSUME UNCHANGED <<db, circulated>>
  PROVE  /\ Unaudited' = Unaudited /\ Undisturbed' = Undisturbed
         /\ \A i : Untouched(i)' <=> Untouched(i)
         /\ \A i : Settled(i)' <=> Settled(i)
BY DEF Unaudited, NextId, Undisturbed, Untouched, Settled, LentOnce, OpenLoans, Active, Completed

LEMMA InsertItemsSettles ==
  ASSUME SeedInv, AvailabilityInv, InsertItems
  PROVE  AvailabilityInv'
<1>1. CASE DOMAIN db.available = {}
  <2>1. /\ at = "items" /\ at' = "students" /\ circulated' = circulated
        /\ db'.loans = db.loans /\ db'.audit = db.audit /\ db'.available = [i \in Item |-> TRUE]
    BY <1>1 DEF InsertItems, SeedInv, TablesType
  <2>2. DOMAIN db.loans = {} /\ NextId' = NextId
    BY <1>1, <2>1 DEF SeedInv, TablesType, NextId
  <2>3. Unaudited' = Unaudited /\ Unaudited = 0
    BY <1>1, <2>1, <2>2 DEF Unaudited, AvailabilityInv
  <2>4. \A i \in Undisturbed' : Untouched(i)'
    BY <2>1, <2>2 DEF Untouched, Undisturbed
  <2> QED
    BY <2>1, <2>3, <2>4 DEF AvailabilityInv
<1>2. CASE DOMAIN db.available # {}
  <2>1. at = "items" /\ at' = "failed" /\ UNCHANGED <<db, circulated>>
    BY <1>2 DEF InsertItems
  <2> QED
    BY <2>1, SameTables DEF AvailabilityInv
<1> QED
  BY <1>1, <1>2

LEMMA StudentsSettle ==
  ASSUME SeedInv, AvailabilityInv, GenerateStudents
  PROVE  AvailabilityInv'
<1>1. /\ at = "students" /\ at' = "completed" /\ circulated' = circulated
      /\ db'.loans = db.loans /\ db'.audit = db.audit /\ db'.available = db.available
  BY DEF GenerateStudents, SeedInv, TablesType
<1>2. Unaudited' = Unaudited /\ Undisturbed' = Undisturbed /\ \A i : Untouched(i) => Untouched(i)'
  BY <1>1 DEF Unaudited, NextId, Undisturbed, Untouched
<1> QED
  BY <1>1, <1>2 DEF AvailabilityInv

\* The passes write nothing.
LEMMA PassesSettle ==
  ASSUME SeedInv, AvailabilityInv, at \in {"completed", "active"},
         at' \in {"completed", "active", "loans"}, UNCHANGED <<db, circulated>>
  PROVE  AvailabilityInv'
BY SameTables DEF AvailabilityInv

\* The open rows of an item become its open loans: it has one at most.
LEMMA InsertLoansSettles ==
  ASSUME SeedInv, AvailabilityInv, InsertLoans
  PROVE  AvailabilityInv'
<1> DEFINE m == NextId + Len(rows)
<1>1. /\ at = "loans" /\ at' = "availability" /\ circulated' = circulated /\ rows' = rows
      /\ db'.loans = [id \in 1 .. m |-> IF id <= NextId THEN db.loans[id] ELSE rows[id - NextId]]
      /\ db'.audit = db.audit /\ db'.available = db.available
  BY DEF InsertLoans, memory, SeedInv, TablesType
<1>2. /\ NextId \in Nat /\ Len(rows) \in Nat /\ m \in Nat /\ DOMAIN rows = 1 .. Len(rows)
      /\ DOMAIN db.loans = 1 .. NextId /\ db.audit["BORROW"] \in Nat
  BY DEF SeedInv, TablesType, MemoryType, AvailabilityInv
<1>3. NextId' = m
  <2>1. Cardinality(1 .. m) = m
    BY <1>2, FS_Interval
  <2> QED
    BY <1>1, <2>1 DEF NextId
<1>4. Unaudited' = Len(rows)
  BY <1>1, <1>2, <1>3 DEF Unaudited, AvailabilityInv
<1>5. \A j, n \in DOMAIN rows :
         rows[j].returned = Null /\ rows[n].returned = Null /\ rows[j].item = rows[n].item => j = n
  <2>1. Frontier = SIMULATED_TODAY - 1
    BY <1>1 DEF Frontier
  <2>2. \A n \in DOMAIN rows : rows[n].returned = Null => n \in Out
    BY <2>1, SeedAssumption DEF Out, End, Never
  <2> QED
    BY <2>2 DEF SeedInv, Tracked
<1>6. ASSUME NEW i \in Undisturbed' PROVE Inserted(i)'
  <2>1. Untouched(i) /\ i \in Undisturbed
    BY <1>1, <1>6 DEF AvailabilityInv, Undisturbed
  <2>2. OpenLoans(i)' = {l \in 1 .. m : db'.loans[l].returned = Null /\ db'.loans[l].item = i}
    BY <1>1 DEF OpenLoans, Active, Completed
  <2>3. \A l \in OpenLoans(i)' : /\ l - NextId \in DOMAIN rows /\ l \in 1 .. m
                                /\ rows[l - NextId].returned = Null /\ rows[l - NextId].item = i
    <3> SUFFICES ASSUME NEW l \in 1 .. m, db'.loans[l].returned = Null, db'.loans[l].item = i
                 PROVE  /\ l - NextId \in DOMAIN rows
                        /\ rows[l - NextId].returned = Null /\ rows[l - NextId].item = i
      BY <2>2
    <3>1. ~(l <= NextId)
      BY <1>1, <1>2, <2>1 DEF Untouched
    <3> QED
      BY <1>1, <1>2, <3>1
  <2>4. LentOnce(i)'
    <3> SUFFICES ASSUME NEW k \in OpenLoans(i)', NEW l \in OpenLoans(i)' PROVE k = l
      BY DEF LentOnce
    <3>1. k - NextId = l - NextId
      BY <1>5, <2>3
    <3> QED
      BY <1>2, <2>3, <3>1
  <2>5. OpenRow(i) => OpenLoans(i)' # {}
    <3> SUFFICES ASSUME NEW n \in DOMAIN rows, rows[n].item = i, rows[n].returned = Null
                 PROVE  n + NextId \in OpenLoans(i)'
      BY DEF OpenRow
    <3>1. n + NextId \in 1 .. m /\ ~(n + NextId <= NextId) /\ (n + NextId) - NextId = n
      BY <1>2
    <3> QED
      BY <1>1, <2>2, <3>1
  <2>6. OpenLoans(i)' # {} => OpenRow(i)
    BY <2>3 DEF OpenRow
  <2>7. OpenRow(i)' <=> OpenRow(i)
    BY <1>1 DEF OpenRow
  <2> QED
    BY <1>1, <2>1, <2>4, <2>5, <2>6, <2>7 DEF Inserted, Untouched
<1>7. DOMAIN db'.available # {}
  BY <1>1, SeedAssumption DEF SeedInv, TablesType, Item
<1> QED
  BY <1>1, <1>4, <1>6, <1>7 DEF AvailabilityInv

LEMMA UpdateSettles ==
  ASSUME SeedInv, AvailabilityInv, UpdateItemAvailability
  PROVE  AvailabilityInv'
<1>1. /\ at = "availability" /\ at' = "audit" /\ circulated' = circulated /\ rows' = rows
      /\ db'.loans = db.loans /\ db'.audit = db.audit
      /\ db'.available = [i \in DOMAIN db.available |-> db.available[i] /\ ~OpenRow(i)]
  BY DEF UpdateItemAvailability, OpenRow, memory, SeedInv, TablesType
<1>2. NextId' = NextId /\ Unaudited' = Unaudited /\ Undisturbed' = Undisturbed
  BY <1>1 DEF NextId, Unaudited, Undisturbed
<1>3. ASSUME NEW i \in Undisturbed PROVE Settled(i)'
  <2>1. OpenLoans(i)' = OpenLoans(i)
    BY <1>1 DEF OpenLoans, Active, Completed
  <2>2. Inserted(i) /\ i \in DOMAIN db.available
    BY <1>1, <1>3 DEF AvailabilityInv, Undisturbed
  <2>3. db'.available[i] = TRUE <=> ~OpenRow(i)
    BY <1>1, <2>2 DEF Inserted
  <2> QED
    BY <2>1, <2>2, <2>3 DEF Inserted, Settled, LentOnce
<1>4. DOMAIN db'.available = DOMAIN db.available
  BY <1>1
<1> QED
  BY <1>1, <1>2, <1>3, <1>4 DEF AvailabilityInv

LEMMA AuditSettles ==
  ASSUME SeedInv, AvailabilityInv, GenerateAuditLogs
  PROVE  AvailabilityInv'
<1>1. /\ at = "audit" /\ at' = "done" /\ circulated' = circulated
      /\ db'.loans = db.loans /\ db'.available = db.available
      /\ db'.audit = [db.audit EXCEPT !["BORROW"] = @ + Len(rows),
                                      !["RETURN"] = @ + Cardinality(Returned(rows))]
  BY DEF GenerateAuditLogs, SeedInv, TablesType
<1>2. Len(rows) \in Nat /\ Cardinality(Returned(rows)) \in Nat
  <2>1. rows \in Seq(LoanRow) /\ Returned(rows) \subseteq 1 .. Len(rows)
    BY DEF SeedInv, MemoryType, Returned
  <2>2. Len(rows) \in Nat
    BY <2>1
  <2>3. IsFiniteSet(1 .. Len(rows))
    BY <2>2, FS_Interval
  <2> QED
    BY <2>1, <2>2, <2>3, FS_Subset, FS_CardinalityType
<1>3. db'.audit \in [{"BORROW", "RETURN"} -> Nat]
  BY <1>1, <1>2 DEF AvailabilityInv
<1>4. \A i \in Undisturbed' : Settled(i)'
  <2>1. Undisturbed' = Undisturbed /\ \A i : Settled(i)' <=> Settled(i)
    BY <1>1 DEF Undisturbed, Settled, LentOnce, OpenLoans, Active, Completed
  <2> QED
    BY <1>1, <2>1 DEF AvailabilityInv
<1>5. DOMAIN db'.available # {}
  BY <1>1, SeedAssumption DEF SeedInv, TablesType, Item
<1> QED
  BY <1>1, <1>3, <1>4, <1>5 DEF AvailabilityInv

\* Killed after its loans are in, and made any, the generator leaves loans that
\* no audit row is of.
LEMMA KillSettles ==
  ASSUME SeedInv, AvailabilityInv, Kill
  PROVE  AvailabilityInv'
<1>1. /\ at \in {"students", "completed", "active", "loans", "availability", "audit"}
      /\ at' = "killed" /\ UNCHANGED <<db, circulated>>
  BY DEF Kill, SeedInv, MemoryType, Steps
<1>2. ASSUME Unaudited = 0, NEW i \in Undisturbed PROVE Settled(i)
  <2>1. CASE at \in {"students", "completed", "active", "loans"}
    BY <1>2, <2>1, UntouchedIsSettled DEF AvailabilityInv
  <2>2. CASE at = "availability"
    BY <1>2, <2>2, InsertedNothing DEF AvailabilityInv, SeedInv, MemoryType
  <2>3. CASE at = "audit"
    BY <1>2, <2>3 DEF AvailabilityInv
  <2> QED
    BY <1>1, <2>1, <2>2, <2>3
<1> QED
  BY <1>1, <1>2, SameTables DEF AvailabilityInv

LEMMA RestartSettles ==
  ASSUME SeedInv, AvailabilityInv, Restart
  PROVE  AvailabilityInv'
<1>1. at = "killed" /\ at' = "items" /\ UNCHANGED <<db, circulated>>
  BY DEF Restart
<1> QED
  BY <1>1, SameTables DEF AvailabilityInv

\* Between two transactions of the generator circulation may do to an item what
\* it will; afterwards what it does to one that is in line leaves it so.
LEMMA CirculationSettles ==
  ASSUME SeedInv, AvailabilityInv, NEW item \in DOMAIN db.available, Circulates(item),
         at' = at, rows' = rows, Unaudited' = Unaudited,
         db'.audit \in [{"BORROW", "RETURN"} -> Nat],
         DOMAIN db'.available = DOMAIN db.available,
         \A i \in DOMAIN db.available : i # item =>
            /\ db'.available[i] = db.available[i] /\ OpenLoans(i)' = OpenLoans(i)
            /\ Untouched(i) => Untouched(i)',
         Settled(item) => Settled(item)'
  PROVE  AvailabilityInv'
<1>1. Undisturbed' \subseteq Undisturbed /\ (at \in Between => item \notin Undisturbed')
  BY DEF Circulates, Undisturbed
<1>2. at \in {"loans", "availability", "audit", "done", "killed"}
  BY DEF Circulates, Between
<1>3. CASE at \in Between
  <2>1. ASSUME NEW i \in Undisturbed'
        PROVE  /\ i \in Undisturbed
               /\ Untouched(i) => Untouched(i)'
               /\ Inserted(i) => Inserted(i)'
               /\ Settled(i) => Settled(i)'
    <3>1. i # item /\ i \in Undisturbed /\ i \in DOMAIN db.available
      BY <1>1, <1>3, <2>1 DEF Undisturbed
    <3>2. OpenRow(i)' <=> OpenRow(i)
      BY DEF OpenRow
    <3> QED
      BY <3>1, <3>2 DEF Inserted, Settled, LentOnce
  <2>2. CASE at = "loans"
    BY <2>1, <2>2 DEF AvailabilityInv
  <2>3. CASE at = "availability"
    BY <2>1, <2>3 DEF AvailabilityInv
  <2>4. CASE at = "audit"
    BY <2>1, <2>4 DEF AvailabilityInv
  <2> QED
    BY <1>3, <2>2, <2>3, <2>4 DEF Between
<1>4. CASE at \in {"done", "killed"}
  <2>1. ASSUME NEW i \in Undisturbed', Settled(i) PROVE Settled(i)'
    <3>1. i \in DOMAIN db.available
      BY <1>1, <2>1 DEF Undisturbed
    <3> QED
      BY <2>1, <3>1 DEF Settled, LentOnce
  <2> QED
    BY <1>1, <1>4, <2>1 DEF AvailabilityInv
<1> QED
  BY <1>2, <1>3, <1>4 DEF Between

LEMMA LendSettles ==
  ASSUME SeedInv, AvailabilityInv, NEW student \in Student, NEW item \in Item, Lend(student, item)
  PROVE  AvailabilityInv'
<1> DEFINE m == NextId + 1
           loan == [student |-> student, item |-> item, borrowed |-> CirculationDay,
                    due |-> CirculationDay + DEFAULT_DUE_DAYS, returned |-> Null]
<1>1. /\ Circulates(item) /\ item \in DOMAIN db.available /\ db.available[item]
      /\ at' = at /\ rows' = rows
      /\ db'.loans = [id \in 1 .. m |-> IF id <= NextId THEN db.loans[id] ELSE loan]
      /\ db'.audit = [db.audit EXCEPT !["BORROW"] = @ + 1]
      /\ db'.available = [db.available EXCEPT ![item] = FALSE]
  BY DEF Lend, memory, SeedInv, TablesType
<1>2. NextId \in Nat /\ DOMAIN db.loans = 1 .. NextId /\ db.available[item] = TRUE
  BY <1>1 DEF SeedInv, TablesType
<1>3. NextId' = m
  <2>1. Cardinality(1 .. m) = m
    BY <1>2, FS_Interval
  <2> QED
    BY <1>1, <2>1 DEF NextId
<1>4. db'.audit \in [{"BORROW", "RETURN"} -> Nat] /\ Unaudited' = Unaudited
  BY <1>1, <1>2, <1>3 DEF AvailabilityInv, Unaudited
<1>5. \A i : OpenLoans(i) = {l \in 1 .. NextId : db.loans[l].returned = Null /\ db.loans[l].item = i}
  BY <1>2 DEF OpenLoans, Active, Completed
<1>6. \A i : OpenLoans(i)' = {l \in 1 .. m : db'.loans[l].returned = Null /\ db'.loans[l].item = i}
  BY <1>1 DEF OpenLoans, Active, Completed
<1>7. /\ \A l \in 1 .. NextId : l \in 1 .. m /\ db'.loans[l] = db.loans[l]
      /\ m \in 1 .. m /\ db'.loans[m] = loan
      /\ \A l \in 1 .. m : l # m => l \in 1 .. NextId
  BY <1>1, <1>2
<1>8. ASSUME NEW i \in DOMAIN db.available, i # item
      PROVE  /\ db'.available[i] = db.available[i] /\ OpenLoans(i)' = OpenLoans(i)
             /\ Untouched(i) => Untouched(i)'
  <2>1. db'.available[i] = db.available[i]
    BY <1>1, <1>8
  <2>2. OpenLoans(i)' = OpenLoans(i)
    <3>1. loan.item = item /\ loan.item # i
      BY <1>8
    <3> HIDE DEF loan, m
    <3>2. ASSUME NEW l PROVE l \in OpenLoans(i)' <=> l \in OpenLoans(i)
      BY <1>5, <1>6, <1>7, <3>1
    <3> QED
      BY <1>5, <1>6, <3>2
  <2>3. Untouched(i) => Untouched(i)'
    BY <1>1, <1>2, <1>7, <1>8, <2>1 DEF Untouched
  <2> QED
    BY <2>1, <2>2, <2>3
<1>9. ASSUME Settled(item) PROVE Settled(item)'
  <2>1. OpenLoans(item) = {}
    BY <1>2, <1>9 DEF Settled
  <2>2. OpenLoans(item)' = {m}
    BY <1>5, <1>6, <1>7, <2>1
  <2>3. db'.available[item] = FALSE
    BY <1>1
  <2> QED
    BY <2>2, <2>3 DEF Settled, LentOnce
<1> QED
  BY <1>1, <1>4, <1>8, <1>9, CirculationSettles

LEMMA TakeBackSettles ==
  ASSUME SeedInv, AvailabilityInv, NEW id \in DOMAIN db.loans, TakeBack(id)
  PROVE  AvailabilityInv'
<1> DEFINE item == db.loans[id].item
<1>1. /\ Circulates(item) /\ item \in DOMAIN db.available /\ db.loans[id].returned = Null
      /\ at' = at /\ rows' = rows
      /\ db'.loans = [db.loans EXCEPT ![id].returned = CirculationDay]
      /\ db'.audit = [db.audit EXCEPT !["RETURN"] = @ + 1]
      /\ db'.available = [db.available EXCEPT ![item] = TRUE]
  BY DEF TakeBack, memory, SeedInv, TablesType
<1>2. NextId' = NextId
  BY <1>1 DEF NextId
<1>3. db'.audit \in [{"BORROW", "RETURN"} -> Nat] /\ Unaudited' = Unaudited
  BY <1>1, <1>2 DEF AvailabilityInv, Unaudited
<1>4. /\ DOMAIN db'.loans = DOMAIN db.loans
      /\ \A l \in DOMAIN db.loans : db'.loans[l].item = db.loans[l].item
      /\ \A l \in DOMAIN db.loans : l # id => db'.loans[l] = db.loans[l]
      /\ db'.loans[id].returned # Null
  BY <1>1, SeedAssumption
<1>5. PICK lent : lent = item
  OBVIOUS
<1> HIDE DEF item
<1>6. ASSUME NEW i \in DOMAIN db.available, i # lent
      PROVE  /\ db'.available[i] = db.available[i] /\ OpenLoans(i)' = OpenLoans(i)
             /\ Untouched(i) => Untouched(i)'
  <2>1. db'.available[i] = db.available[i]
    BY <1>1, <1>5, <1>6
  <2>2. OpenLoans(i)' = OpenLoans(i)
    BY <1>4, <1>5, <1>6 DEF OpenLoans, Active, Completed, item
  <2>3. Untouched(i) => Untouched(i)'
    BY <1>4, <2>1 DEF Untouched
  <2> QED
    BY <2>1, <2>2, <2>3
<1>7. ASSUME Settled(lent) PROVE Settled(lent)'
  <2>1. id \in OpenLoans(lent)
    BY <1>1, <1>5 DEF OpenLoans, Active, Completed, item
  <2>2. OpenLoans(lent) = {id}
    BY <1>7, <2>1 DEF Settled, LentOnce
  <2>3. OpenLoans(lent)' = {}
    BY <1>4, <2>2 DEF OpenLoans, Active, Completed
  <2>4. db'.available[lent] = TRUE
    BY <1>1, <1>5
  <2> QED
    BY <2>3, <2>4 DEF Settled, LentOnce
<1>8. lent \in DOMAIN db.available /\ Circulates(lent) /\ DOMAIN db'.available = DOMAIN db.available
  BY <1>1, <1>5
<1> QED
  BY <1>1, <1>3, <1>6, <1>7, <1>8, CirculationSettles

LEMMA AvailabilityKept ==
  ASSUME SeedInv, AvailabilityInv, [SeedNext]_seedVars
  PROVE  AvailabilityInv'
<1>1. CASE InsertItems \/ GenerateStudents
  BY <1>1, InsertItemsSettles, StudentsSettle
<1>2. ASSUME NEW student \in Student, NEW item \in Item, NEW due \in DUE_DAYS,
             \/ \E days \in RETURN_DAYS : CompletedLoan(student, item, days, due)
             \/ ActiveLoan(student, item, due)
      PROVE  AvailabilityInv'
  <2>1. UNCHANGED <<db, at, circulated>> /\ at \in {"completed", "active"}
    BY <1>2 DEF CompletedLoan, ActiveLoan, Take
  <2> QED
    BY <2>1, PassesSettle
<1>3. CASE CompletedDay \/ ActiveDay
  <2>1. at \in {"completed", "active"} /\ at' \in {"completed", "active", "loans"}
    BY <1>3 DEF CompletedDay, ActiveDay
  <2>2. UNCHANGED <<db, circulated>>
    BY <1>3 DEF CompletedDay, ActiveDay
  <2> QED
    BY <2>1, <2>2, PassesSettle
<1>4. CASE InsertLoans \/ UpdateItemAvailability \/ GenerateAuditLogs
  BY <1>4, InsertLoansSettles, UpdateSettles, AuditSettles
<1>5. CASE Kill \/ Restart
  BY <1>5, KillSettles, RestartSettles
<1>6. CASE \E student \in Student, item \in Item : Lend(student, item)
  BY <1>6, LendSettles
<1>7. CASE \E id \in DOMAIN db.loans : TakeBack(id)
  BY <1>7, TakeBackSettles
<1>8. CASE UNCHANGED seedVars
  <2>1. \A i : OpenRow(i)' <=> OpenRow(i)
    BY <1>8 DEF seedVars, memory, OpenRow
  <2>2. UNCHANGED <<db, circulated, at, rows>>
    BY <1>8 DEF seedVars, memory
  <2>3. \A i : Inserted(i)' <=> Inserted(i)
    BY <2>1, <2>2 DEF Inserted, LentOnce, OpenLoans, Active, Completed
  <2> QED
    BY <2>2, <2>3, SameTables DEF AvailabilityInv
<1> QED
  BY <1>1, <1>2, <1>3, <1>4, <1>5, <1>6, <1>7, <1>8 DEF SeedNext

\* Whatever circulation does beside the generator and wherever that is killed,
\* the available column that validate_dataset.py accepts agrees with the open
\* loans, but for items that were lent or taken back between two transactions.
THEOREM AcceptedIsComplete == SeedSpec => []AcceptedMeansComplete
<1>1. SeedInit => AvailabilityInv
  <2> SUFFICES ASSUME SeedInit PROVE AvailabilityInv
    OBVIOUS
  <2>1. /\ at = "items" /\ DOMAIN db.available = {} /\ DOMAIN db.loans = {}
        /\ db.audit = [a \in {"BORROW", "RETURN"} |-> 0]
    BY DEF SeedInit
  <2>2. Unaudited = 0 /\ Undisturbed = {}
    BY <2>1, FS_EmptySet DEF Unaudited, NextId, Undisturbed
  <2> QED
    BY <2>1, <2>2 DEF AvailabilityInv
<1>2. SeedInv /\ AvailabilityInv /\ [SeedNext]_seedVars => AvailabilityInv'
  BY AvailabilityKept
<1> QED
  BY <1>1, <1>2, SeedInvariant, AvailabilityImpliesAccepted, PTL DEF SeedSpec
-----------------------------------------------------------------------------
(* What the scripts say of one table.                                        *)

\* Phase 4A counts over its rows what the queries count over their loans.
LEMMA RowsAreCounted ==
  ASSUME NEW table, NEW ids, NEW file, RowsOf(file, table, ids)
  PROVE  /\ IsFiniteSet(ids) /\ Cardinality(LateOf(table, ids)) \in Nat
         /\ Len(file) = Cardinality(ids)
         /\ Positives(file) = Cardinality(LateOf(table, ids))
         /\ Negatives(file) = Cardinality(ids) - Cardinality(LateOf(table, ids))
         /\ Negatives(file) = Cardinality(ids \ LateOf(table, ids))
<1> DEFINE late == LateOf(table, ids)
           positive == {n \in DOMAIN file : file[n].label = 1}
<1>1. Len(file) \in Nat /\ DOMAIN file = 1 .. Len(file)
  <2>1. IsSequence(file)
    BY DEF RowsOf
  <2> QED
    BY <2>1, SequenceDomain
<1>2. PICK place \in Bijection(1 .. Len(file), ids) :
         \A n \in 1 .. Len(file) : file[n] = FeatureRow(table, place[n]) /\ place[n] \in ids
  BY DEF RowsOf
<1>3. \A n \in 1 .. Len(file) : file[n].label = IF Overdue(table[place[n]]) THEN 1 ELSE 0
  BY <1>2, FeatureRowNames
<1>4. positive \in SUBSET (1 .. Len(file)) /\ late \in SUBSET ids
  BY <1>1 DEF LateOf
<1>5. \A n \in 1 .. Len(file) : n \in positive <=> place[n] \in late
  BY <1>1, <1>2, <1>3 DEF LateOf
<1>6. Positives(file) = Cardinality(positive)
  BY DEF Positives
<1> HIDE DEF positive, late
<1>7. /\ Cardinality(positive) = Cardinality(late) /\ Cardinality(late) \in Nat
      /\ IsFiniteSet(late) /\ IsFiniteSet(1 .. Len(file))
  <2> DEFINE all == 1 .. Len(file)
  <2>1. /\ IsFiniteSet(all) /\ place \in Bijection(all, ids)
        /\ positive \subseteq all /\ late \subseteq ids /\ IsSource(positive, place, all, late)
    <3>1. IsFiniteSet(all)
      BY <1>1, FS_Interval
    <3>2. positive \subseteq all /\ late \subseteq ids
      BY <1>4
    <3> HIDE DEF all
    <3>3. IsSource(positive, place, all, late)
      BY <1>5 DEF IsSource, all
    <3> QED
      BY <3>1, <3>2, <3>3 DEF all
  <2> HIDE DEF all
  <2>2. /\ Cardinality(positive) = Cardinality(late) /\ Cardinality(late) \in Nat
        /\ IsFiniteSet(late)
    BY <2>1, CountThrough
  <2> QED
    BY <2>1, <2>2 DEF all
<1>8. IsFiniteSet(ids) /\ Cardinality(ids) = Len(file)
  <2>3. IsFiniteSet(ids) /\ Cardinality(1 .. Len(file)) = Cardinality(ids)
    BY <1>7, FS_Bijection DEF ExistsBijection
  <2>4. Cardinality(1 .. Len(file)) = Len(file)
    <3>1. Cardinality(1 .. Len(file)) = IF 1 > Len(file) THEN 0 ELSE Len(file) - 1 + 1
      BY <1>1, FS_Interval
    <3> QED
      BY <1>1, <3>1
  <2> QED
    BY <2>3, <2>4
<1>9. Cardinality(ids \ late) = Cardinality(ids) - Cardinality(late)
  <2>1. Cardinality(ids \ late) = Cardinality(ids) - Cardinality(ids \cap late)
    BY <1>8, FS_Difference
  <2>2. ids \cap late = late
    BY <1>4
  <2> QED
    BY <2>1, <2>2
<1>10. Negatives(file) = Len(file) - Positives(file)
  BY DEF Negatives
<1> QED
  BY <1>6, <1>7, <1>8, <1>9, <1>10 DEF late

\* The features of the history that both scripts count.
LEMMA HistoryIsPrior ==
  ASSUME NEW table, NEW id
  PROVE  /\ PriorOf(table, id).loans = PriorFeatures(table, id).priorLoanCount
         /\ PriorOf(table, id).overdue = PriorFeatures(table, id).priorOverdueCount
         /\ PriorOf(table, id) = [loans |-> PriorOf(table, id).loans, overdue |-> PriorOf(table, id).overdue]
         /\ PriorFeatures(table, id).priorLoanCount = Cardinality(StudentHistory(table, id))
<1> DEFINE history == StudentHistory(table, id)
<1>1. PriorFeatures(table, id).priorLoanCount = Cardinality(history)
  BY DEF PriorFeatures, HistoryFeatures
<1>2. PriorFeatures(table, id).priorOverdueCount = Cardinality({i \in history : Overdue(table[i])})
  BY DEF PriorFeatures, HistoryFeatures
<1>3. PriorOf(table, id) = [loans |-> Cardinality(history), overdue |-> Cardinality(LateOf(table, history))]
  BY DEF PriorOf, StudentHistory
<1>4. LateOf(table, history) = {i \in history : Overdue(table[i])}
  BY DEF LateOf
<1> HIDE DEF history
<1> QED
  BY <1>1, <1>2, <1>3, <1>4 DEF history

TrainLoans(table) == {i \in Completed(table) : table[i].borrowed < TRAIN_CUTOFF}
ValLoans(table) == {i \in Completed(table) : table[i].borrowed \in TRAIN_CUTOFF .. SIMULATED_TODAY - 1}
\* The rows of the validation split that section 6a of phase 3C counts.
ValRowsSeen(file) ==
    LET val == OfSplit(file, "val")
    IN  Picked(val, {n \in DOMAIN val : val[n].borrowed < SIMULATED_TODAY})

Newcomers(file) == {n \in DOMAIN file : file[n].priorLoanCount = 0}

\* The split of phase 4A is the one that phase 3C asks the database for.
LEMMA SplitsAreOfTheQueries ==
  ASSUME NEW table, IsLoanTable(table), NEW file, RowsOf(file, table, Completed(table))
  PROVE  /\ RowsOf(OfSplit(file, "train"), table, TrainLoans(table))
         /\ RowsOf(ValRowsSeen(file), table, ValLoans(table))
<1> DEFINE ids == Completed(table)
           Of(split) == {n \in DOMAIN file : file[n].split = split}
           late == {i \in ids : table[i].borrowed >= TRAIN_CUTOFF}
           val == OfSplit(file, "val")
           seen == {n \in DOMAIN val : val[n].borrowed < SIMULATED_TODAY}
<1>1. TRAIN_CUTOFF \in Int /\ SIMULATED_TODAY \in Int
  BY FeatureAssumption, ChecksAssumption
<1>2. \A i \in ids : table[i].borrowed \in Int
  BY DEF IsLoanTable, Completed
<1>3. OfSplit(file, "train") = Picked(file, Of("train")) /\ val = Picked(file, Of("val"))
  BY DEF OfSplit
<1>4. ValRowsSeen(file) = Picked(val, seen)
  BY DEF ValRowsSeen
<1>5. \A n \in DOMAIN file, i \in ids : file[n] = FeatureRow(table, i) =>
         (n \in Of("train") <=> i \in TrainLoans(table))
  BY FeatureRowNames DEF TrainLoans
<1>6. \A n \in DOMAIN file, i \in ids : file[n] = FeatureRow(table, i) =>
         (n \in Of("val") <=> i \in late)
  <2>1. \A i \in ids : ~(table[i].borrowed < TRAIN_CUTOFF) <=> i \in late
    BY <1>1, <1>2
  <2> HIDE DEF late
  <2> QED
    BY <2>1, FeatureRowNames
<1>7. Of("train") \in SUBSET DOMAIN file /\ Of("val") \in SUBSET DOMAIN file
  OBVIOUS
<1>8. TrainLoans(table) \in SUBSET ids /\ late \in SUBSET ids /\ ValLoans(table) \in SUBSET late
  BY <1>1, <1>2 DEF TrainLoans, ValLoans
<1>9. \A n \in DOMAIN val, i \in late : val[n] = FeatureRow(table, i) =>
         (n \in seen <=> i \in ValLoans(table))
  <2>1. \A i \in late : table[i].borrowed < SIMULATED_TODAY <=> i \in ValLoans(table)
    BY <1>1, <1>2 DEF ValLoans
  <2> HIDE DEF late
  <2> QED
    BY <2>1, FeatureRowNames
<1>10. seen \in SUBSET DOMAIN val
  OBVIOUS
<1> HIDE DEF ids, Of, late, val, seen
<1>11. RowsOf(file, table, ids)
  BY DEF ids
<1>12. RowsOf(OfSplit(file, "train"), table, TrainLoans(table)) /\ RowsOf(val, table, late)
  BY <1>3, <1>5, <1>6, <1>7, <1>8, <1>11, PickedRowsAreOfLoans
<1>13. RowsOf(Picked(val, seen), table, ValLoans(table))
  BY <1>8, <1>9, <1>10, <1>12, PickedRowsAreOfLoans
<1> QED
  BY <1>4, <1>12, <1>13

\* The rows with no prior loan are those of the first loans of their borrowers.
LEMMA NewcomersAreFirstLoans ==
  ASSUME NEW table, NEW file, RowsOf(file, table, Completed(table)), IsFiniteSet(Completed(table))
  PROVE  Cardinality(Newcomers(file)) = Cardinality(FirstLoans(table))
<1> DEFINE ids == Completed(table)
           first == Newcomers(file)
<1>1. Len(file) \in Nat /\ DOMAIN file = 1 .. Len(file)
  <2>1. IsSequence(file)
    BY DEF RowsOf
  <2> QED
    BY <2>1, SequenceDomain
<1>2. PICK place \in Bijection(1 .. Len(file), ids) :
         \A n \in 1 .. Len(file) : file[n] = FeatureRow(table, place[n]) /\ place[n] \in ids
  BY DEF RowsOf
<1>3. ASSUME NEW i \in ids
      PROVE  PriorFeatures(table, i).priorLoanCount = 0 <=> i \in FirstLoans(table)
  <2>1. StudentHistory(table, i) \in SUBSET ids
    BY DEF StudentHistory
  <2>2. IsFiniteSet(StudentHistory(table, i))
    BY <2>1, FS_Subset
  <2>3. Cardinality(StudentHistory(table, i)) = 0 <=> StudentHistory(table, i) = {}
    BY <2>2, FS_EmptySet
  <2>4. StudentHistory(table, i) = {} <=> i \in FirstLoans(table)
    BY DEF StudentHistory, FirstLoans
  <2> QED
    BY <2>3, <2>4, HistoryIsPrior
<1>4. \A n \in 1 .. Len(file) : n \in first <=> place[n] \in FirstLoans(table)
  <2>1. \A n \in 1 .. Len(file) : file[n].priorLoanCount = PriorFeatures(table, place[n]).priorLoanCount
    BY <1>2, FeatureRowNames
  <2> QED
    BY <1>1, <1>2, <1>3, <2>1 DEF Newcomers
<1> DEFINE all == 1 .. Len(file)
<1>5. IsFiniteSet(all) /\ first \subseteq all
  <2>1. IsFiniteSet(all)
    BY <1>1, FS_Interval
  <2>2. first \subseteq all
    BY <1>1 DEF Newcomers
  <2> QED
    BY <2>1, <2>2
<1>6. FirstLoans(table) \subseteq ids
  BY DEF FirstLoans
<1>7. place \in Bijection(all, ids)
  OBVIOUS
<1>8. IsSource(first, place, all, FirstLoans(table))
  BY <1>4 DEF IsSource
<1> HIDE DEF all, ids, first
<1> QED
  BY <1>5, <1>6, <1>7, <1>8, CountThrough DEF first

RowOf(file, loan) == file[CHOOSE n \in DOMAIN file : file[n].loan = loan]

\* A loan's row tells its history as the audit's query does.
LEMMA RowOfLoan ==
  ASSUME NEW table, NEW file, RowsOf(file, table, Completed(table)), NEW l \in Completed(table)
  PROVE  PriorOf(table, l) = [loans |-> RowOf(file, l).priorLoanCount,
                              overdue |-> RowOf(file, l).priorOverdueCount]
<1> DEFINE ids == Completed(table)
           n0 == CHOOSE n \in DOMAIN file : file[n].loan = l
<1>1. DOMAIN file = 1 .. Len(file)
  <2>1. IsSequence(file)
    BY DEF RowsOf
  <2> QED
    BY <2>1, SequenceDomain
<1>2. PICK place \in Bijection(1 .. Len(file), ids) :
         \A n \in 1 .. Len(file) : file[n] = FeatureRow(table, place[n]) /\ place[n] \in ids
  BY DEF RowsOf
<1>3. PICK m \in 1 .. Len(file) : place[m] = l
  BY DEF Bijection, Surjection
<1>4. \A n \in DOMAIN file : file[n].loan = place[n] /\ file[n] = FeatureRow(table, place[n])
  BY <1>1, <1>2, FeatureRowNames
<1>5. n0 \in DOMAIN file /\ file[n0].loan = l
  BY <1>1, <1>3, <1>4
<1> HIDE DEF n0
<1>6. file[n0] = FeatureRow(table, l)
  BY <1>4, <1>5
<1>7. /\ file[n0].priorLoanCount = PriorFeatures(table, l).priorLoanCount
      /\ file[n0].priorOverdueCount = PriorFeatures(table, l).priorOverdueCount
  BY <1>6, FeatureRowNames
<1>8. /\ PriorOf(table, l) = [loans |-> PriorOf(table, l).loans, overdue |-> PriorOf(table, l).overdue]
      /\ PriorOf(table, l).loans = PriorFeatures(table, l).priorLoanCount
      /\ PriorOf(table, l).overdue = PriorFeatures(table, l).priorOverdueCount
  BY HistoryIsPrior
<1>9. PriorOf(table, l) = [loans |-> file[n0].priorLoanCount, overdue |-> file[n0].priorOverdueCount]
  BY <1>7, <1>8
<1> QED
  BY <1>9 DEF n0, RowOf

\* The fields of the audit's report that phase 4A has an answer to.
LEMMA AuditNames ==
  ASSUME NEW table, NEW sample
  PROVE  LET report == AuditReport(table, sample)
             ids == Completed(table)
             late == LateOf(table, ids)
         IN  /\ report.overdue = Cardinality(late)
             /\ report.onTime = Cardinality(ids) - Cardinality(late)
             /\ report.firstLoans = Cardinality(FirstLoans(table))
             /\ report.prior = [i \in sample |-> PriorOf(table, i)]
             /\ report.splits = [c \in SplitCutoffs |-> SplitAt(table, c)]
  BY DEF AuditReport

LEMMA SplitNames ==
  ASSUME NEW table
  PROVE  LET split == SplitAt(table, TRAIN_CUTOFF)
         IN  /\ split.train = Cardinality(TrainLoans(table))
             /\ split.val = Cardinality(ValLoans(table))
             /\ split.trainOverdue = Cardinality(LateOf(table, TrainLoans(table)))
             /\ split.valOverdue = Cardinality(LateOf(table, ValLoans(table)))
  BY DEF SplitAt, TrainLoans, ValLoans

\* What the monitor calls ready has its examples among phase 4A's rows.
LEMMA ReadyHasExamples ==
  ASSUME NEW table, NEW file, RowsOf(file, table, Completed(table)), Ready(table)
  PROVE  /\ Positives(file) >= Limits.min_overdue_examples
         /\ Negatives(file) >= Limits.min_ontime_examples
<1> DEFINE ids == Completed(table)
           late == LateOf(table, ids)
           eligible == Eligible(table)
           lateEligible == LateOf(table, eligible)
<1>1. /\ Cardinality(lateEligible) >= Limits.min_overdue_examples
      /\ Cardinality(eligible \ lateEligible) >= Limits.min_ontime_examples
  <2> DEFINE checks == ReadinessChecks(table)
  <2>1. /\ checks.overdue_examples = (Cardinality(lateEligible) >= Limits.min_overdue_examples)
        /\ checks.ontime_examples = (Cardinality(eligible \ lateEligible) >= Limits.min_ontime_examples)
        /\ {"overdue_examples", "ontime_examples"} \subseteq DOMAIN checks
    BY DEF ReadinessChecks
  <2>2. \A c \in DOMAIN checks : checks[c]
    BY DEF Ready
  <2> HIDE DEF checks, lateEligible, eligible
  <2>3. checks["overdue_examples"] /\ checks["ontime_examples"]
    BY <2>1, <2>2
  <2> QED
    BY <2>1, <2>3
<1>2. lateEligible \in SUBSET late /\ eligible \ lateEligible \in SUBSET (ids \ late)
  BY DEF Eligible, LateOf
<1>3. /\ IsFiniteSet(ids) /\ Positives(file) = Cardinality(late)
      /\ Negatives(file) = Cardinality(ids \ late)
  BY RowsAreCounted
<1>4. late \in SUBSET ids /\ ids \ late \in SUBSET ids
  BY DEF LateOf
<1> HIDE DEF ids, late, eligible, lateEligible
<1>5. IsFiniteSet(late) /\ IsFiniteSet(ids \ late)
  BY <1>3, <1>4, FS_Subset
<1>6. /\ IsFiniteSet(lateEligible) /\ Cardinality(lateEligible) <= Cardinality(late)
      /\ IsFiniteSet(eligible \ lateEligible)
      /\ Cardinality(eligible \ lateEligible) <= Cardinality(ids \ late)
  BY <1>2, <1>5, FS_Subset
<1>7. /\ Cardinality(lateEligible) \in Nat /\ Cardinality(late) \in Nat
      /\ Cardinality(eligible \ lateEligible) \in Nat /\ Cardinality(ids \ late) \in Nat
  BY <1>5, <1>6, FS_CardinalityType
<1>8. Limits.min_overdue_examples \in Nat /\ Limits.min_ontime_examples \in Nat
  BY ChecksAssumption
<1>9. \A a, b, c \in Nat : a >= c /\ a <= b => b >= c
  OBVIOUS
<1> QED
  BY <1>1, <1>3, <1>6, <1>7, <1>8, <1>9

\* The days of the committed loans are numbers.
LoansTyped == \A i \in DOMAIN db.loans : db.loans[i].borrowed \in Nat

\* What ScriptsAgree says, of any table and the rows of phase 4A.
Agreement(table, file, train, val, first) ==
    /\ ~AuditRaises(table) => \A sample \in Samples(table) :
          LET report == AuditReport(table, sample)
              split == report.splits[TRAIN_CUTOFF]
          IN  /\ report.overdue = Positives(file) /\ report.onTime = Negatives(file)
              /\ report.firstLoans = Cardinality(first)
              /\ \A l \in sample : report.prior[l] =
                    [loans |-> RowOf(file, l).priorLoanCount,
                     overdue |-> RowOf(file, l).priorOverdueCount]
              /\ split.train = Len(train) /\ split.val = Len(val)
              /\ split.trainOverdue = Positives(train)
              /\ split.valOverdue = Positives(val)
    /\ Ready(table) => /\ Positives(file) >= Limits.min_overdue_examples
                       /\ Negatives(file) >= Limits.min_ontime_examples

LEMMA ScriptsAgreeOnTable ==
  ASSUME NEW table, IsLoanTable(table), NEW file, file = BuildFeatureDataset(table)
  PROVE  Agreement(table, file, OfSplit(file, "train"), ValRowsSeen(file), Newcomers(file))
<1> DEFINE train == OfSplit(file, "train")
           val == ValRowsSeen(file)
           first == Newcomers(file)
<1> HIDE DEF train, val, first
<1>1. RowsOf(file, table, Completed(table)) /\ IsFiniteSet(Completed(table))
  BY FeatureRowsAreOfLoans
<1>2. RowsOf(train, table, TrainLoans(table)) /\ RowsOf(val, table, ValLoans(table))
  BY <1>1, SplitsAreOfTheQueries DEF train, val
<1>3. Cardinality(first) = Cardinality(FirstLoans(table))
  BY <1>1, NewcomersAreFirstLoans DEF first
<1>4. ASSUME NEW sample \in Samples(table)
      PROVE  LET report == AuditReport(table, sample)
                 split == report.splits[TRAIN_CUTOFF]
             IN  /\ report.overdue = Positives(file) /\ report.onTime = Negatives(file)
                 /\ report.firstLoans = Cardinality(first)
                 /\ \A l \in sample : report.prior[l] =
                        [loans |-> RowOf(file, l).priorLoanCount,
                         overdue |-> RowOf(file, l).priorOverdueCount]
                 /\ split.train = Len(train) /\ split.val = Len(val)
                 /\ split.trainOverdue = Positives(train) /\ split.valOverdue = Positives(val)
  <2> DEFINE report == AuditReport(table, sample)
             split == report.splits[TRAIN_CUTOFF]
             late == LateOf(table, Completed(table))
  <2>1. /\ report.overdue = Cardinality(late)
        /\ report.onTime = Cardinality(Completed(table)) - Cardinality(late)
        /\ report.firstLoans = Cardinality(FirstLoans(table))
        /\ report.prior = [i \in sample |-> PriorOf(table, i)]
        /\ report.splits = [c \in SplitCutoffs |-> SplitAt(table, c)]
    BY AuditNames
  <2> HIDE DEF report
  <2>2. split = SplitAt(table, TRAIN_CUTOFF)
    BY <2>1, ChecksAssumption
  <2> HIDE DEF split
  <2>3. /\ Positives(file) = Cardinality(late)
        /\ Negatives(file) = Cardinality(Completed(table)) - Cardinality(late)
    BY <1>1, RowsAreCounted
  <2> HIDE DEF late
  <2>4. report.overdue = Positives(file) /\ report.onTime = Negatives(file)
    BY <2>1, <2>3
  <2>5. report.firstLoans = Cardinality(first)
    BY <1>3, <2>1
  <2>6. ASSUME NEW l \in sample
        PROVE  report.prior[l] = [loans |-> RowOf(file, l).priorLoanCount,
                                  overdue |-> RowOf(file, l).priorOverdueCount]
    <3>1. l \in Completed(table)
      BY DEF Samples
    <3>2. PriorOf(table, l) = [loans |-> RowOf(file, l).priorLoanCount,
                               overdue |-> RowOf(file, l).priorOverdueCount]
      BY <1>1, <3>1, RowOfLoan
    <3>3. report.prior[l] = PriorOf(table, l)
      BY <2>1
    <3> QED
      BY <3>2, <3>3
  <2>7. /\ split.train = Cardinality(TrainLoans(table))
        /\ split.trainOverdue = Cardinality(LateOf(table, TrainLoans(table)))
        /\ split.val = Cardinality(ValLoans(table))
        /\ split.valOverdue = Cardinality(LateOf(table, ValLoans(table)))
    BY <2>2, SplitNames
  <2>8. /\ Cardinality(TrainLoans(table)) = Len(train)
        /\ Cardinality(LateOf(table, TrainLoans(table))) = Positives(train)
        /\ Cardinality(ValLoans(table)) = Len(val)
        /\ Cardinality(LateOf(table, ValLoans(table))) = Positives(val)
    <3>1. /\ Len(train) = Cardinality(TrainLoans(table))
          /\ Positives(train) = Cardinality(LateOf(table, TrainLoans(table)))
      BY <1>2, RowsAreCounted
    <3>2. /\ Len(val) = Cardinality(ValLoans(table))
          /\ Positives(val) = Cardinality(LateOf(table, ValLoans(table)))
      BY <1>2, RowsAreCounted
    <3> QED
      BY <3>1, <3>2
  <2> QED
    BY <2>4, <2>5, <2>6, <2>7, <2>8 DEF report, split
<1>5. Ready(table) => /\ Positives(file) >= Limits.min_overdue_examples
                      /\ Negatives(file) >= Limits.min_ontime_examples
  BY <1>1, ReadyHasExamples
<1>6. Agreement(table, file, train, val, first)
  BY <1>4, <1>5 DEF Agreement
<1> QED
  BY <1>6 DEF train, val, first

LEMMA ScriptsAgreeOnLoans == SeedInv /\ LoansTyped => ScriptsAgree
<1> SUFFICES ASSUME SeedInv, LoansTyped PROVE ScriptsAgree
  OBVIOUS
<1>1. IsLoanTable(db.loans)
  <2>1. NextId \in Nat /\ DOMAIN db.loans = 1 .. NextId
    BY DEF SeedInv, TablesType
  <2>2. IsFiniteSet(1 .. NextId)
    BY <2>1, FS_Interval
  <2>3. \A i \in DOMAIN db.loans : db.loans[i].borrowed \in Int
    BY DEF LoansTyped
  <2> QED
    BY <2>1, <2>2, <2>3 DEF IsLoanTable
<1> DEFINE file == BuildFeatureDataset(db.loans)
<1>2. Agreement(db.loans, file, OfSplit(file, "train"), ValRowsSeen(file), Newcomers(file))
  BY <1>1, ScriptsAgreeOnTable
<1> QED
  BY <1>2 DEF ScriptsAgree, Agreement, ValRowsSeen, Newcomers, RowOf

LEMMA LoansStayTyped ==
  ASSUME SeedInv, LoansTyped, [SeedNext]_seedVars
  PROVE  LoansTyped'
<1>1. /\ NextId \in Nat /\ DOMAIN db.loans = 1 .. NextId
      /\ db = [loans |-> db.loans, available |-> db.available, students |-> db.students,
               audit |-> db.audit]
      /\ rows \in Seq(LoanRow)
  BY DEF SeedInv, TablesType, MemoryType
<1>2. Len(rows) \in Nat /\ \A n \in 1 .. Len(rows) : rows[n].borrowed \in Nat
  <2>1. Len(rows) \in Nat /\ \A n \in 1 .. Len(rows) : rows[n] \in LoanRow
    BY <1>1, LenProperties, ElementOfSeq
  <2>2. \A r \in LoanRow : r.borrowed \in Nat
    BY DEF LoanRow
  <2> QED
    BY <2>1, <2>2
<1>3. CASE InsertItems \/ GenerateStudents \/ GenerateAuditLogs \/ UpdateItemAvailability
  <2>1. db'.loans = db.loans
    BY <1>1, <1>3 DEF InsertItems, GenerateStudents, GenerateAuditLogs, UpdateItemAvailability
  <2> QED
    BY <2>1 DEF LoansTyped
<1>4. CASE InsertLoans
  <2>1. db'.loans = [id \in 1 .. NextId + Len(rows) |->
                        IF id <= NextId THEN db.loans[id] ELSE rows[id - NextId]]
    BY <1>1, <1>4 DEF InsertLoans
  <2>2. \A id \in 1 .. NextId + Len(rows) :
           (id <= NextId => id \in 1 .. NextId) /\ (~(id <= NextId) => id - NextId \in 1 .. Len(rows))
    BY <1>1, <1>2
  <2> QED
    BY <1>1, <1>2, <2>1, <2>2 DEF LoansTyped
<1>5. ASSUME NEW student \in Student, NEW item \in Item, Lend(student, item) PROVE LoansTyped'
  <2>1. db'.loans = [id \in 1 .. NextId + 1 |-> IF id <= NextId THEN db.loans[id] ELSE
              [student |-> student, item |-> item, borrowed |-> CirculationDay,
               due |-> CirculationDay + DEFAULT_DUE_DAYS, returned |-> Null]]
    BY <1>1, <1>5 DEF Lend
  <2>2. \A id \in 1 .. NextId + 1 : id <= NextId => id \in 1 .. NextId
    BY <1>1
  <2>3. CirculationDay \in Nat
    BY SeedAssumption
  <2> QED
    BY <1>1, <2>1, <2>2, <2>3 DEF LoansTyped
<1>6. ASSUME NEW id \in DOMAIN db.loans, TakeBack(id) PROVE LoansTyped'
  <2>1. db'.loans = [db.loans EXCEPT ![id].returned = CirculationDay]
    BY <1>1, <1>6 DEF TakeBack
  <2>2. DOMAIN db'.loans = DOMAIN db.loans
    BY <2>1
  <2>3. \A i \in DOMAIN db.loans : db'.loans[i].borrowed = db.loans[i].borrowed
    BY <2>1
  <2> QED
    BY <2>2, <2>3 DEF LoansTyped
<1>7. CASE CompletedDay \/ ActiveDay \/ Kill \/ Restart \/ UNCHANGED seedVars
  <2>1. UNCHANGED db
    BY <1>7 DEF CompletedDay, ActiveDay, Kill, Restart, seedVars
  <2> QED
    BY <2>1 DEF LoansTyped
<1>8. CASE \E student \in Student, item \in Item, due \in DUE_DAYS :
              \/ \E days \in RETURN_DAYS : CompletedLoan(student, item, days, due)
              \/ ActiveLoan(student, item, due)
  <2>1. UNCHANGED db
    BY <1>8 DEF CompletedLoan, ActiveLoan, Take
  <2> QED
    BY <2>1 DEF LoansTyped
<1> QED
  BY <1>3, <1>4, <1>5, <1>6, <1>7, <1>8 DEF SeedNext

\* Whatever is committed, also half of a run or what circulation did to it, the
\* audit of phase 3C and phase 4A tell the same of it, and a table that the
\* monitor calls ready has the examples of both classes that it promises.
THEOREM ScriptsTellTheSame == SeedSpec => []ScriptsAgree
<1>1. SeedInit => LoansTyped
  BY DEF SeedInit, LoansTyped
<1>2. SeedInv /\ LoansTyped /\ [SeedNext]_seedVars => LoansTyped'
  BY LoansStayTyped
<1> QED
  BY <1>1, <1>2, SeedInvariant, ScriptsAgreeOnLoans, PTL DEF SeedSpec
=============================================================================

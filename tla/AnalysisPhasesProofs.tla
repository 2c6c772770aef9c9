------------------------ MODULE AnalysisPhasesProofs ------------------------
(***************************************************************************)
(* The files of the analysis scripts, for any tables, kills and order of   *)
(* runs.  A report is never older than the files beside it; what phase 4A  *)
(* knows of the future is only how loans ended that were out; and what a   *)
(* file says stays true of a database that goes on changing: no model is   *)
(* evaluated on a loan that it was fitted on, labels and scores are        *)
(* aligned unless the files are of different rows, the demand grid counts  *)
(* the loans, and the ROC-AUC of phase 4B is the share of the pairs that   *)
(* its scores rank.                                                        *)
(***************************************************************************)
EXTENDS AnalysisPhases, RiskFeaturesProofs

-----------------------------------------------------------------------------
(* What a script writes. *)

\* All the files of a phase, whether a run gets as far or not.
FilesOf(phase) ==
    {Report(phase)} \cup
    CASE phase = "4A" -> {FeaturesAll, FeaturesTrain, FeaturesVal}
      [] phase = "4B" -> {HeuristicTrain, HeuristicVal}
      [] phase = "4C" -> {LrTrain, LrVal}
      [] phase \in {"4D", "4E", "4F"} -> {}
      [] phase \in {"5A", "5B"} ->
            {Demand(phase)} \cup {Forecast(phase, protocol, Windows(phase)[n]) :
                                    protocol \in Protocols, n \in DOMAIN Windows(phase)}

Named(s) == {s[n][1] : n \in 1 .. Len(s)}

\* The report comes last, and after all the other files of its phase.
Planned(phase, todo) ==
    /\ IsSequence(todo) /\ Named(todo) \subseteq FilesOf(phase)
    /\ \A n \in 1 .. Len(todo) : todo[n][1] = Report(phase) => n = Len(todo)

Complete(phase, todo) == Report(phase) \in Named(todo) => FilesOf(phase) \subseteq Named(todo)

LEMMA FilesAreOfPhase ==
  ASSUME NEW phase \in Phases, NEW f \in FilesOf(phase)
  PROVE  f[1] = phase
BY DEF Phases, FilesOf, Report, FeaturesAll, FeaturesTrain, FeaturesVal, HeuristicTrain, HeuristicVal,
       LrTrain, LrVal, Demand, Forecast

LEMMA ConcatIsSequence ==
  ASSUME NEW s, NEW t, IsSequence(s), IsSequence(t)
  PROVE  /\ IsSequence(s \o t) /\ Named(s \o t) = Named(s) \cup Named(t)
         /\ Len(s) \in Nat /\ Len(t) \in Nat /\ Len(s \o t) = Len(s) + Len(t)
         /\ \A n \in 1 .. Len(s) + Len(t) : (s \o t)[n] = IF n <= Len(s) THEN s[n] ELSE t[n - Len(s)]
<1>1. PICK S, T : s \in Seq(S) /\ t \in Seq(T)
  BY DEF IsSequence
<1> DEFINE U == S \cup T
<1>2. s \in Seq(U) /\ t \in Seq(U)
  BY <1>1, SeqMonotonic
<1>3. Len(s) \in Nat /\ Len(t) \in Nat
  BY <1>2, LenProperties
<1>4. /\ s \o t \in Seq(U) /\ Len(s \o t) = Len(s) + Len(t)
      /\ \A n \in 1 .. Len(s) + Len(t) : (s \o t)[n] = IF n <= Len(s) THEN s[n] ELSE t[n - Len(s)]
  BY <1>2, ConcatProperties
<1> HIDE DEF U
<1>5. Named(s) \subseteq Named(s \o t)
  <2> SUFFICES ASSUME NEW n \in 1 .. Len(s) PROVE \E m \in 1 .. Len(s \o t) : s[n] = (s \o t)[m]
    BY DEF Named
  <2> WITNESS n \in 1 .. Len(s \o t)
  <2> QED
    BY <1>3, <1>4
<1>6. Named(t) \subseteq Named(s \o t)
  <2> SUFFICES ASSUME NEW n \in 1 .. Len(t) PROVE \E m \in 1 .. Len(s \o t) : t[n] = (s \o t)[m]
    BY DEF Named
  <2>1. n + Len(s) \in 1 .. Len(s) + Len(t) /\ ~(n + Len(s) <= Len(s)) /\ (n + Len(s)) - Len(s) = n
    BY <1>3
  <2> QED
    BY <1>4, <2>1
<1>7. Named(s \o t) \subseteq Named(s) \cup Named(t)
  <2> SUFFICES ASSUME NEW n \in 1 .. Len(s \o t) PROVE (s \o t)[n][1] \in Named(s) \cup Named(t)
    BY DEF Named
  <2>1. CASE n <= Len(s)
    BY <1>3, <1>4, <2>1 DEF Named
  <2>2. CASE ~(n <= Len(s))
    <3>1. n - Len(s) \in 1 .. Len(t)
      BY <1>3, <1>4, <2>2
    <3> QED
      BY <1>4, <2>2, <3>1 DEF Named
  <2> QED
    BY <2>1, <2>2
<1> QED
  BY <1>3, <1>4, <1>5, <1>6, <1>7 DEF IsSequence

LEMMA ShortSequences ==
  /\ IsSequence(<<>>) /\ Named(<<>>) = {}
  /\ \A a : IsSequence(<<a>>) /\ Len(<<a>>) = 1 /\ Named(<<a>>) = {a[1]}
  /\ \A a, b : IsSequence(<<a, b>>) /\ Named(<<a, b>>) = {a[1], b[1]}
  /\ \A a, b, c : IsSequence(<<a, b, c>>) /\ Named(<<a, b, c>>) = {a[1], b[1], c[1]}
<1>1. IsSequence(<<>>) /\ Named(<<>>) = {}
  <2>1. <<>> \in Seq({}) /\ Len(<<>>) = 0
    BY EmptySeq
  <2> QED
    BY <2>1 DEF IsSequence, Named
<1>2. ASSUME NEW a PROVE IsSequence(<<a>>) /\ Len(<<a>>) = 1 /\ Named(<<a>>) = {a[1]}
  <2> DEFINE s == <<a>>
  <2>1. s \in Seq({a}) /\ Len(s) = 1 /\ s[1] = a
    OBVIOUS
  <2> HIDE DEF s
  <2>2. IsSequence(s)
    BY <2>1 DEF IsSequence
  <2>3. Named(s) = {a[1]}
    BY <2>1 DEF Named
  <2> QED
    BY <2>1, <2>2, <2>3 DEF s
<1>3. ASSUME NEW a, NEW b PROVE IsSequence(<<a, b>>) /\ Named(<<a, b>>) = {a[1], b[1]}
  <2> DEFINE s == <<a, b>>
  <2>1. s \in Seq({a, b}) /\ Len(s) = 2 /\ s[1] = a /\ s[2] = b
    OBVIOUS
  <2> HIDE DEF s
  <2>2. IsSequence(s)
    BY <2>1 DEF IsSequence
  <2>3. Named(s) = {a[1], b[1]}
    <3>1. 1 .. Len(s) = {1, 2}
      BY <2>1
    <3> QED
      BY <2>1, <3>1 DEF Named
  <2> QED
    BY <2>2, <2>3 DEF s
<1>4. ASSUME NEW a, NEW b, NEW c PROVE IsSequence(<<a, b, c>>) /\ Named(<<a, b, c>>) = {a[1], b[1], c[1]}
  <2> DEFINE s == <<a, b, c>>
  <2>1. s \in Seq({a, b, c}) /\ Len(s) = 3 /\ s[1] = a /\ s[2] = b /\ s[3] = c
    OBVIOUS
  <2> HIDE DEF s
  <2>2. IsSequence(s)
    BY <2>1 DEF IsSequence
  <2>3. Named(s) = {a[1], b[1], c[1]}
    <3>1. 1 .. Len(s) = {1, 2, 3}
      BY <2>1
    <3> QED
      BY <2>1, <3>1 DEF Named
  <2> QED
    BY <2>2, <2>3 DEF s
<1> QED
  BY <1>1, <1>2, <1>3, <1>4

\* The report may be added to the other files, or not.
LEMMA ReportComesLast ==
  ASSUME NEW phase \in Phases, NEW s, IsSequence(s),
         Named(s) = FilesOf(phase) \ {Report(phase)}, NEW content
  PROVE  /\ Planned(phase, s) /\ Complete(phase, s)
         /\ Planned(phase, s \o <<<<Report(phase), content>>>>)
         /\ Complete(phase, s \o <<<<Report(phase), content>>>>)
<1> DEFINE last == <<Report(phase), content>>
           t == <<last>>
<1>1. Planned(phase, s) /\ Complete(phase, s)
  BY DEF Planned, Complete, Named
<1>2. IsSequence(t) /\ Len(t) = 1 /\ Named(t) = {Report(phase)}
  BY ShortSequences
<1> HIDE DEF t
<1>3. /\ IsSequence(s \o t) /\ Named(s \o t) = Named(s) \cup {Report(phase)}
      /\ Len(s) \in Nat /\ Len(s \o t) = Len(s) + 1
      /\ \A n \in 1 .. Len(s) + 1 : (s \o t)[n] = IF n <= Len(s) THEN s[n] ELSE t[n - Len(s)]
  BY <1>2, ConcatIsSequence
<1>4. Report(phase) \in FilesOf(phase)
  BY DEF FilesOf
<1>5. ASSUME NEW n \in 1 .. Len(s \o t), (s \o t)[n][1] = Report(phase) PROVE n = Len(s \o t)
  <2>1. CASE n <= Len(s)
    <3>1. n \in 1 .. Len(s) /\ s[n][1] = Report(phase)
      BY <1>3, <1>5, <2>1
    <3>2. Report(phase) \in Named(s)
      BY <3>1 DEF Named
    <3> QED
      BY <3>2
  <2>2. CASE ~(n <= Len(s))
    BY <1>3, <2>2
  <2> QED
    BY <2>1, <2>2
<1> QED
  BY <1>1, <1>3, <1>4, <1>5 DEF Planned, Complete, t

LEMMA NothingIsPlanned == \A phase : Planned(phase, <<>>) /\ Complete(phase, <<>>)
BY ShortSequences, EmptySeq DEF Planned, Complete

\* A phase that writes its report alone.
LEMMA ReportAlone ==
  ASSUME NEW phase \in {"4D", "4E", "4F"}, NEW content
  PROVE  LET todo == <<<<Report(phase), content>>>> IN Planned(phase, todo) /\ Complete(phase, todo)
<1> DEFINE last == <<Report(phase), content>>
           todo == <<last>>
<1>1. IsSequence(todo) /\ Len(todo) = 1 /\ Named(todo) = {Report(phase)} /\ FilesOf(phase) = {Report(phase)}
  BY ShortSequences DEF FilesOf
<1> HIDE DEF todo
<1> QED
  BY <1>1 DEF Planned, Complete, todo

LEMMA FeaturesArePlanned == Planned("4A", Writes4A(table)) /\ Complete("4A", Writes4A(table))
<1> DEFINE rows == BuildFeatureDataset(table)
           s == <<<<FeaturesAll, rows>>, <<FeaturesTrain, OfSplit(rows, "train")>>,
                  <<FeaturesVal, OfSplit(rows, "val")>>>>
           r == [passed |-> ValidateDataset(rows)]
<1>1. IsSequence(s) /\ Named(s) = {FeaturesAll, FeaturesTrain, FeaturesVal}
  BY ShortSequences
<1>2. Named(s) = FilesOf("4A") \ {Report("4A")} /\ "4A" \in Phases
  <2>1. FilesOf("4A") \ {Report("4A")} = {FeaturesAll, FeaturesTrain, FeaturesVal}
    BY DEF FilesOf, Report, FeaturesAll, FeaturesTrain, FeaturesVal
  <2> QED
    BY <1>1, <2>1 DEF Phases
<1>3. Writes4A(table) = s \o (IF ValidationRaises(rows) THEN <<>> ELSE <<<<Report("4A"), r>>>>)
  BY DEF Writes4A
<1> HIDE DEF s, r, rows
<1>4. s \o <<>> = s
  BY <1>1, ConcatEmptySeq DEF IsSequence
<1>5. Writes4A(table) \in {s, s \o <<<<Report("4A"), r>>>>}
  BY <1>3, <1>4
<1> QED
  BY <1>1, <1>2, <1>5, ReportComesLast

LEMMA HeuristicIsPlanned ==
  ASSUME NEW train, NEW val
  PROVE  Planned("4B", Writes4B(train, val)) /\ Complete("4B", Writes4B(train, val))
<1> DEFINE s == <<<<HeuristicTrain, HeuristicRows(train)>>, <<HeuristicVal, HeuristicRows(val)>>>>
           r == [train |-> HeuristicReport(HeuristicRows(train)), val |-> HeuristicReport(HeuristicRows(val))]
<1>1. IsSequence(s) /\ Named(s) = {HeuristicTrain, HeuristicVal}
  BY ShortSequences
<1>2. Named(s) = FilesOf("4B") \ {Report("4B")} /\ "4B" \in Phases
  <2>1. FilesOf("4B") \ {Report("4B")} = {HeuristicTrain, HeuristicVal}
    BY DEF FilesOf, Report, HeuristicTrain, HeuristicVal
  <2> QED
    BY <1>1, <2>1 DEF Phases
<1>3. Writes4B(train, val) =
         IF train = <<>> THEN <<>>
         ELSE s \o IF BothClasses(train) /\ BothClasses(val) THEN <<<<Report("4B"), r>>>> ELSE <<>>
  BY DEF Writes4B
<1> HIDE DEF s, r
<1>4. s \o <<>> = s
  BY <1>1, ConcatEmptySeq DEF IsSequence
<1>5. Writes4B(train, val) \in {<<>>, s, s \o <<<<Report("4B"), r>>>>}
  BY <1>3, <1>4
<1> QED
  BY <1>1, <1>2, <1>5, ReportComesLast, NothingIsPlanned

LEMMA RegressionIsPlanned ==
  ASSUME NEW train, NEW val
  PROVE  Planned("4C", Writes4C(train, val)) /\ Complete("4C", Writes4C(train, val))
<1> DEFINE s == <<<<LrTrain, Loans(train)>>, <<LrVal, Loans(val)>>>>
           r == ReportOf4C(train, val, files[HeuristicVal])
<1>1. IsSequence(s) /\ Named(s) = {LrTrain, LrVal}
  BY ShortSequences
<1>2. Named(s) = FilesOf("4C") \ {Report("4C")} /\ "4C" \in Phases
  <2>1. FilesOf("4C") \ {Report("4C")} = {LrTrain, LrVal}
    BY DEF FilesOf, Report, LrTrain, LrVal
  <2> QED
    BY <1>1, <2>1 DEF Phases
<1>3. Writes4C(train, val) =
         IF train = <<>> THEN <<>>
         ELSE s \o IF HeuristicVal \in DOMAIN files /\ BothClasses(val) THEN <<<<Report("4C"), r>>>> ELSE <<>>
  BY DEF Writes4C
<1> HIDE DEF s, r
<1>4. s \o <<>> = s
  BY <1>1, ConcatEmptySeq DEF IsSequence
<1>5. Writes4C(train, val) \in {<<>>, s, s \o <<<<Report("4C"), r>>>>}
  BY <1>3, <1>4
<1> QED
  BY <1>1, <1>2, <1>5, ReportComesLast, NothingIsPlanned

LEMMA WindowsAreCounted ==
  ASSUME NEW phase \in {"5A", "5B"}
  PROVE  \E n \in Nat : DOMAIN Windows(phase) = 1 .. n
<1>1. <<0>> \in Seq(Nat) /\ MOVING_AVERAGE_WINDOWS \in Seq(Nat)
  <2>1. MOVING_AVERAGE_WINDOWS \in Seq(Nat \ {0})
    BY ForecastAssumption
  <2> QED
    BY <2>1, SeqMonotonic
<1>2. <<0>> \o MOVING_AVERAGE_WINDOWS \in Seq(Nat)
  BY <1>1, ConcatProperties
<1>3. Windows(phase) \in Seq(Nat)
  BY <1>1, <1>2 DEF Windows
<1> QED
  BY <1>3, LenProperties

LEMMA DemandIsPlanned ==
  ASSUME NEW phase \in {"5A", "5B"}
  PROVE  Planned(phase, WritesOfDemand(table, phase)) /\ Complete(phase, WritesOfDemand(table, phase))
<1> DEFINE run == DemandRun(table, phase)
           Content(protocol, n) == run.rows[protocol][Windows(phase)[n]]
           File(protocol, n) == Forecast(phase, protocol, Windows(phase)[n])
           Csvs(protocol) == [n \in DOMAIN Windows(phase) |-> <<File(protocol, n), Content(protocol, n)>>]
           a == <<<<Demand(phase), run.grid>>>>
           r == [bounds |-> run.bounds, regimes |-> run.regimeDemand, train |-> run.train, test |-> run.test,
                 coverage |-> [p \in Protocols |->
                    [w \in DOMAIN run.rows[p] |-> Coverage(run.rows[p][w])]]]
           s == a \o Csvs(Static) \o Csvs(Rolling)
<1>1. WritesOfDemand(table, phase) = IF run.exits THEN <<>> ELSE s \o <<<<Report(phase), r>>>>
  BY DEF WritesOfDemand
<1>2. IsSequence(a) /\ Named(a) = {Demand(phase)}
  BY ShortSequences
<1>3. ASSUME NEW protocol
      PROVE  /\ IsSequence(Csvs(protocol))
             /\ Named(Csvs(protocol)) = {File(protocol, n) : n \in DOMAIN Windows(phase)}
  <2> DEFINE c == Csvs(protocol)
             F(n) == File(protocol, n)
             D == DOMAIN Windows(phase)
             S == {c[n] : n \in D}
  <2>1. PICK k \in Nat : D = 1 .. k
    BY WindowsAreCounted
  <2>2. DOMAIN c = D /\ \A n \in D : c[n][1] = F(n) /\ c[n] \in S
    OBVIOUS
  <2>3. c = [n \in D |-> c[n]]
    OBVIOUS
  <2> HIDE DEF c, F, D
  <2>4. c \in Seq(S)
    <3>1. c \in [1 .. k -> S]
      BY <2>1, <2>2, <2>3
    <3> HIDE DEF S
    <3> QED
      BY <3>1, SeqDef
  <2>5. Len(c) = k
    <3> HIDE DEF S
    <3>1. Len(c) \in Nat /\ DOMAIN c = 1 .. Len(c)
      BY <2>4, LenProperties
    <3> QED
      BY <2>1, <2>2, <3>1
  <2>6. IsSequence(c) /\ Named(c) = {F(n) : n \in D}
    BY <2>1, <2>2, <2>4, <2>5 DEF IsSequence, Named
  <2> QED
    BY <2>6 DEF c, F, D
<1> HIDE DEF Content, a, r, run
<1>4. IsSequence(s) /\ Named(s) = Named(a) \cup Named(Csvs(Static)) \cup Named(Csvs(Rolling))
  <2> HIDE DEF Csvs
  <2>1. IsSequence(a \o Csvs(Static)) /\ Named(a \o Csvs(Static)) = Named(a) \cup Named(Csvs(Static))
    BY <1>2, <1>3, ConcatIsSequence
  <2> QED
    BY <1>3, <2>1, ConcatIsSequence
<1>5. Named(s) = FilesOf(phase) \ {Report(phase)} /\ phase \in Phases
  <2>1. FilesOf(phase) = {Report(phase)} \cup {Demand(phase)}
           \cup {File(protocol, n) : protocol \in Protocols, n \in DOMAIN Windows(phase)}
    BY DEF FilesOf
  <2>2. Demand(phase) # Report(phase)
    BY DEF Demand, Report
  <2>3. \A protocol, n : File(protocol, n) # Report(phase)
    BY DEF Forecast, Report
  <2> HIDE DEF File, s, Csvs
  <2> QED
    BY <1>2, <1>3, <1>4, <2>1, <2>2, <2>3 DEF Protocols, Phases
<1> HIDE DEF s
<1> QED
  BY <1>1, <1>4, <1>5, ReportComesLast, NothingIsPlanned

\* Whatever a script reads, what it goes on to write ends with its report, if it
\* gets there, and has all its other files before it.
LEMMA OutcomesArePlanned ==
  ASSUME NEW phase \in Phases, NEW todo \in Outcomes(phase)
  PROVE  Planned(phase, todo) /\ Complete(phase, todo)
<1> DEFINE train == files[FeaturesTrain].content
           val == files[FeaturesVal].content
<1>1. CASE phase = "4A"
  BY <1>1, FeaturesArePlanned DEF Outcomes
<1>2. CASE phase = "4B"
  <2>1. todo = Writes4B(train, val)
    BY <1>2 DEF Outcomes
  <2> QED
    BY <1>2, <2>1, HeuristicIsPlanned
<1>3. CASE phase = "4C"
  <2>1. todo = Writes4C(train, val)
    BY <1>3 DEF Outcomes
  <2> QED
    BY <1>3, <2>1, RegressionIsPlanned
<1>4. CASE phase = "4D"
  <2>1. PICK scores : todo = Writes4D(train, val, scores)
    BY <1>4 DEF Outcomes
  <2>2. todo = <<>> \/ todo = <<<<Report("4D"), Fit(train, val)>>>>
    BY <2>1 DEF Writes4D
  <2> QED
    BY <1>4, <2>2, NothingIsPlanned, ReportAlone
<1>5. CASE phase = "4E"
  <2>1. PICK scores : todo = Writes4E(train, val, scores)
    BY <1>5 DEF Outcomes
  <2>2. todo = <<>> \/ todo = <<<<Report("4E"), Fit(train, val)>>>>
    BY <2>1 DEF Writes4E
  <2> QED
    BY <1>5, <2>2, NothingIsPlanned, ReportAlone
<1>6. CASE phase = "4F"
  <2>1. PICK rows : todo = Writes4F(rows)
    BY <1>6 DEF Outcomes
  <2>2. todo = <<>> \/ todo = <<<<Report("4F"), Fit(ModelTrain(rows) \o CalibRows(rows), ValRows(rows))>>>>
    BY <2>1 DEF Writes4F
  <2> QED
    BY <1>6, <2>2, NothingIsPlanned, ReportAlone
<1>7. CASE phase \in {"5A", "5B"}
  <2>1. todo = WritesOfDemand(table, phase)
    BY <1>7 DEF Outcomes
  <2> QED
    BY <1>7, <2>1, DemandIsPlanned
<1> QED
  BY <1>1, <1>2, <1>3, <1>4, <1>5, <1>6, <1>7 DEF Phases

\* What is left to write, once the first file is written.
LEMMA TailIsPlanned ==
  ASSUME NEW phase, NEW todo, Planned(phase, todo), todo # <<>>
  PROVE  /\ Head(todo)[1] \in FilesOf(phase) /\ Named(todo) = {Head(todo)[1]} \cup Named(Tail(todo))
         /\ Planned(phase, Tail(todo))
         /\ Head(todo)[1] = Report(phase) => Len(todo) = 1
         /\ Len(todo) = 1 => Named(todo) = {Head(todo)[1]}
         /\ Len(todo) # 1 => Tail(todo) # <<>>
<1>1. PICK S : todo \in Seq(S)
  BY DEF Planned, IsSequence
<1> DEFINE t == Tail(todo)
<1>2. Len(todo) \in Nat \ {0} /\ Head(todo) = todo[1]
  BY <1>1, LenProperties, EmptySeq
<1>3. /\ t \in Seq(S) /\ Len(t) = Len(todo) - 1
      /\ \A i \in 1 .. Len(t) : t[i] = todo[i + 1]
  BY <1>1, HeadTailProperties
<1> HIDE DEF t
<1>4. Named(todo) = {todo[1][1]} \cup Named(t)
  <2>1. ASSUME NEW n \in 1 .. Len(todo) PROVE todo[n][1] \in {todo[1][1]} \cup Named(t)
    <3>1. CASE n = 1
      BY <3>1
    <3>2. CASE n # 1
      <4>1. n - 1 \in 1 .. Len(t) /\ (n - 1) + 1 = n
        BY <1>2, <1>3, <3>2
      <4>2. t[n - 1] = todo[n]
        BY <1>3, <4>1
      <4> QED
        BY <4>1, <4>2 DEF Named
    <3> QED
      BY <3>1, <3>2
  <2>2. ASSUME NEW n \in 1 .. Len(t) PROVE t[n][1] \in Named(todo)
    <3>1. n + 1 \in 1 .. Len(todo) /\ t[n] = todo[n + 1]
      BY <1>2, <1>3
    <3> QED
      BY <3>1 DEF Named
  <2>3. 1 \in 1 .. Len(todo)
    BY <1>2
  <2> QED
    BY <2>1, <2>2, <2>3 DEF Named
<1>5. ASSUME NEW n \in 1 .. Len(t), t[n][1] = Report(phase) PROVE n = Len(t)
  <2>1. n + 1 \in 1 .. Len(todo) /\ todo[n + 1][1] = Report(phase)
    BY <1>2, <1>3, <1>5
  <2>2. n + 1 = Len(todo)
    BY <2>1 DEF Planned
  <2> QED
    BY <1>2, <1>3, <2>2
<1>6. Planned(phase, t)
  BY <1>3, <1>4, <1>5 DEF Planned, IsSequence
<1>7. Head(todo)[1] = Report(phase) => Len(todo) = 1
  <2>1. 1 \in 1 .. Len(todo)
    BY <1>2
  <2> QED
    BY <1>2, <2>1 DEF Planned
<1>8. Len(todo) # 1 => t # <<>>
  BY <1>2, <1>3, EmptySeq
<1>9. Len(todo) = 1 => Named(todo) = {Head(todo)[1]}
  BY <1>2, <1>3, <1>4 DEF Named
<1> QED
  BY <1>2, <1>4, <1>6, <1>7, <1>8, <1>9 DEF Planned, t

-----------------------------------------------------------------------------
(* The invariant: a run that will write its report has written, or has yet   *)
(* to write, every other file that its phase ever wrote.                     *)

JobFits(j) ==
    /\ j = [phase |-> j.phase, run |-> j.run, todo |-> j.todo, from |-> j.from]
    /\ j.phase \in Phases /\ j.run = runs /\ runs \in 1 .. MaxRuns
    /\ Planned(j.phase, j.todo) /\ j.todo # <<>>
    /\ Report(j.phase) \in Named(j.todo) => \A f \in DOMAIN files :
          f[1] = j.phase => files[f].run = runs \/ f \in Named(j.todo)

PhaseInv ==
    /\ AnalysisTypeOK /\ ReportsWrittenLast
    /\ \A f \in DOMAIN files : f \in FilesOf(f[1])
    /\ job # Null => JobFits(job)

LEMMA PhaseTypes ==
  ASSUME PhaseInv
  PROVE  /\ today \in Nat /\ runs \in Nat /\ runs <= MaxRuns /\ IsTable(table, today)
         /\ \A f \in DOMAIN files : f[1] \in Phases /\ files[f].run \in 1 .. runs
BY PhaseAssumption DEF PhaseInv, AnalysisTypeOK

\* A file is put among the others, by the script that runs.
LEMMA FileIsWritten ==
  ASSUME PhaseInv, job # Null, NEW content, NEW file, file = Head(job.todo)[1],
         Put(file, content)
  PROVE  /\ DOMAIN files' = DOMAIN files \cup {file} /\ files'[file].run = runs
         /\ \A f \in DOMAIN files \ {file} : files'[f] = files[f]
         /\ file \in FilesOf(job.phase) /\ file[1] = job.phase /\ job.phase \in Phases
         /\ \A f \in DOMAIN files' :
               f \in FilesOf(f[1]) /\ f[1] \in Phases /\ files'[f].run \in 1 .. runs
         /\ ReportsWrittenLast'
<1>1. JobFits(job) /\ runs \in Nat /\ runs \in 1 .. runs
  BY PhaseTypes DEF PhaseInv, JobFits
<1>2. /\ file \in FilesOf(job.phase) /\ file[1] = job.phase /\ job.phase \in Phases
      /\ file = Report(job.phase) => Named(job.todo) = {file}
  BY <1>1, TailIsPlanned, FilesAreOfPhase DEF JobFits
<1> DEFINE new == Written(content)
<1>3. new.run = runs
  BY <1>1 DEF Written, JobFits
<1> HIDE DEF new
<1>4. /\ DOMAIN files' = DOMAIN files \cup {file} /\ files'[file] = new
      /\ \A f \in DOMAIN files \ {file} : files'[f] = files[f]
  <2>1. files' = [f \in DOMAIN files \cup {file} |-> IF f = file THEN new ELSE files[f]]
    BY DEF Put, new
  <2> QED
    BY <2>1
<1>5. \A f \in DOMAIN files' : f \in FilesOf(f[1]) /\ f[1] \in Phases /\ files'[f].run \in 1 .. runs
  BY <1>1, <1>2, <1>3, <1>4, PhaseTypes DEF PhaseInv
<1>6. ReportsWrittenLast'
  <2> SUFFICES ASSUME NEW r \in DOMAIN files', NEW f \in DOMAIN files', r = Report(r[1]), f[1] = r[1]
               PROVE  files'[f].run >= files'[r].run
    BY DEF ReportsWrittenLast
  <2>1. CASE f = file
    BY <1>1, <1>3, <1>4, <1>5, <2>1
  <2>2. CASE f # file /\ r = file
    <3>1. files[f].run = runs
      BY <1>1, <1>2, <1>4, <2>2 DEF JobFits
    <3> QED
      BY <1>1, <1>3, <1>4, <2>2, <3>1
  <2>3. CASE f # file /\ r # file
    BY <1>4, <2>3 DEF PhaseInv, ReportsWrittenLast
  <2> QED
    BY <2>1, <2>2, <2>3
<1> QED
  BY <1>2, <1>3, <1>4, <1>5, <1>6

LEMMA WriteKeeps ==
  ASSUME PhaseInv, Write
  PROVE  PhaseInv'
<1> DEFINE todo == job.todo
           file == Head(todo)[1]
<1>1. /\ job # Null /\ Put(file, Head(todo)[2])
      /\ job' = IF Len(todo) = 1 THEN Null ELSE [job EXCEPT !.todo = Tail(todo)]
      /\ UNCHANGED <<table, today, runs>>
  BY DEF Write
<1>2. JobFits(job)
  BY <1>1 DEF PhaseInv
<1>3. /\ DOMAIN files' = DOMAIN files \cup {file} /\ files'[file].run = runs
      /\ \A f \in DOMAIN files \ {file} : files'[f] = files[f]
      /\ \A f \in DOMAIN files' : f \in FilesOf(f[1]) /\ f[1] \in Phases /\ files'[f].run \in 1 .. runs
      /\ ReportsWrittenLast'
  BY <1>1, FileIsWritten
<1>5. ASSUME job' # Null PROVE JobFits(job)'
  <2>1. job' = [job EXCEPT !.todo = Tail(todo)] /\ Len(todo) # 1
    BY <1>1, <1>5
  <2>2. job' = [phase |-> job.phase, run |-> job.run, todo |-> Tail(todo), from |-> job.from]
    BY <1>2, <2>1 DEF JobFits
  <2>3. /\ job'.phase = job.phase /\ job'.run = job.run /\ job'.todo = Tail(todo)
        /\ job' = [phase |-> job'.phase, run |-> job'.run, todo |-> job'.todo, from |-> job'.from]
    BY <2>2
  <2>4. /\ Planned(job.phase, Tail(todo)) /\ Tail(todo) # <<>>
        /\ Named(todo) = {file} \cup Named(Tail(todo))
    BY <1>2, <2>1, TailIsPlanned DEF JobFits
  <2>5. Report(job.phase) \in Named(Tail(todo)) => \A f \in DOMAIN files' :
           f[1] = job.phase => files'[f].run = runs \/ f \in Named(Tail(todo))
    BY <1>2, <1>3, <2>4 DEF JobFits
  <2> QED
    BY <1>1, <1>2, <2>3, <2>4, <2>5 DEF JobFits
<1>6. AnalysisTypeOK'
  BY <1>1, <1>3, <1>5, PhaseTypes, PhaseAssumption DEF PhaseInv, AnalysisTypeOK, IsTable, JobFits
<1> QED
  BY <1>3, <1>5, <1>6 DEF PhaseInv

LEMMA KillKeeps ==
  ASSUME PhaseInv, Kill
  PROVE  PhaseInv'
<1> DEFINE file == Head(job.todo)[1]
<1>1. job # Null /\ job' = Null /\ UNCHANGED <<table, today, runs>>
  BY DEF Kill
<1>2. CASE \/ files' = files
           \/ files' = [f \in (DOMAIN files) \ {file} |-> files[f]]
  <2>1. DOMAIN files' \subseteq DOMAIN files /\ \A f \in DOMAIN files' : files'[f] = files[f]
    BY <1>2
  <2>2. /\ ReportsWrittenLast' /\ \A f \in DOMAIN files' : f \in FilesOf(f[1])
        /\ \A f \in DOMAIN files' : f[1] \in Phases /\ files'[f].run \in 1 .. runs
    BY <2>1, PhaseTypes DEF PhaseInv, ReportsWrittenLast
  <2> QED
    BY <1>1, <2>2, PhaseTypes DEF PhaseInv, AnalysisTypeOK, IsTable
<1>3. CASE \E n \in 0 .. Len(Head(job.todo)[2]) : Put(file, SubSeq(Head(job.todo)[2], 1, n))
  <2>1. /\ \A f \in DOMAIN files' : f \in FilesOf(f[1]) /\ f[1] \in Phases /\ files'[f].run \in 1 .. runs
        /\ ReportsWrittenLast'
    BY <1>1, <1>3, FileIsWritten
  <2> QED
    BY <1>1, <2>1, PhaseTypes DEF PhaseInv, AnalysisTypeOK, IsTable
<1> QED
  BY <1>2, <1>3 DEF Kill

LEMMA StartKeeps ==
  ASSUME PhaseInv, NEW phase \in Phases, Start(phase)
  PROVE  PhaseInv'
<1>1. PICK todo \in Outcomes(phase) :
         /\ todo # <<>>
         /\ job' = [phase |-> phase, run |-> runs + 1, todo |-> todo,
                    from |-> IF FeaturesVal \in DOMAIN files THEN files[FeaturesVal].run ELSE 0]
  BY DEF Start
<1>2. runs' = runs + 1 /\ runs < MaxRuns /\ UNCHANGED <<table, today, files>>
  BY DEF Start
<1>3. Planned(phase, todo) /\ Complete(phase, todo)
  BY OutcomesArePlanned
<1>4. runs \in Nat /\ MaxRuns \in Nat /\ runs' \in 1 .. MaxRuns
  BY <1>2, PhaseTypes, PhaseAssumption
<1>5. /\ job'.phase = phase /\ job'.run = runs' /\ job'.todo = todo
      /\ job' = [phase |-> job'.phase, run |-> job'.run, todo |-> job'.todo, from |-> job'.from]
  BY <1>1, <1>2
<1>6. JobFits(job)'
  <2>1. Report(phase) \in Named(todo) => \A f \in DOMAIN files : f[1] = phase => f \in Named(todo)
    BY <1>3 DEF PhaseInv, Complete
  <2> QED
    BY <1>1, <1>2, <1>3, <1>4, <1>5, <2>1 DEF JobFits
<1>7. AnalysisTypeOK'
  <2>1. \A f \in DOMAIN files : files[f].run \in 1 .. runs'
    BY <1>2, <1>4, PhaseTypes
  <2>2. today' \in Nat /\ runs' \in 0 .. MaxRuns /\ IsTable(table, today)'
    BY <1>2, <1>4, PhaseTypes DEF IsTable
  <2> QED
    BY <1>1, <1>2, <1>5, <2>1, <2>2, PhaseTypes DEF AnalysisTypeOK
<1>8. ReportsWrittenLast' /\ \A f \in DOMAIN files' : f \in FilesOf(f[1])
  BY <1>2 DEF PhaseInv, ReportsWrittenLast
<1> QED
  BY <1>6, <1>7, <1>8 DEF PhaseInv

-----------------------------------------------------------------------------
(* Circulation, between the scripts. *)

LEMMA LendKeeps ==
  ASSUME PhaseInv, NEW student \in Student, NEW item \in DOMAIN ItemType, Lend(student, item)
  PROVE  PhaseInv'
<1> DEFINE count == Cardinality(DOMAIN table)
           new == [student |-> student, item |-> item, borrowed |-> today,
                   due |-> today + LOAN_DAYS, returned |-> Null]
<1>1. job = Null /\ UNCHANGED <<today, files, job, runs, kills>>
  BY DEF Lend
<1>2. table' = [i \in DOMAIN table \cup {count + 1} |-> IF i # count + 1 THEN table[i] ELSE new]
  BY DEF Lend
<1>3. /\ IsFiniteSet(DOMAIN table) /\ count \in Nat /\ DOMAIN table = 1 .. count
      /\ table \in [1 .. count -> [student : Student, item : DOMAIN ItemType, borrowed : 0 .. today, due : Nat,
                                   returned : (0 .. today) \cup {Null}]]
  BY PhaseTypes, FS_CardinalityType DEF IsTable
<1>4. new \in [student : Student, item : DOMAIN ItemType, borrowed : 0 .. today, due : Nat,
               returned : (0 .. today) \cup {Null}]
  BY PhaseTypes, PhaseAssumption
<1> HIDE DEF new
<1>5. /\ DOMAIN table' = 1 .. count + 1 /\ IsFiniteSet(DOMAIN table')
      /\ Cardinality(DOMAIN table') = count + 1
  <2>1. DOMAIN table' = DOMAIN table \cup {count + 1} /\ count + 1 \notin DOMAIN table
    BY <1>2, <1>3
  <2>2. (1 .. count) \cup {count + 1} = 1 .. count + 1
    BY <1>3
  <2>3. IsFiniteSet(DOMAIN table') /\ Cardinality(DOMAIN table') = Cardinality(DOMAIN table) + 1
    <3>1. PICK ids, id : ids = DOMAIN table /\ id = count + 1
      OBVIOUS
    <3>2. IsFiniteSet(ids \cup {id}) /\ Cardinality(ids \cup {id}) = Cardinality(ids) + 1
      <4>1. IsFiniteSet(ids) /\ id \notin ids
        BY <1>3, <2>1, <3>1
      <4> QED
        BY <4>1, FS_AddElement
    <3>3. DOMAIN table' = ids \cup {id}
      BY <2>1, <3>1
    <3> QED
      BY <3>1, <3>2, <3>3
  <2> QED
    BY <1>3, <2>1, <2>2, <2>3
<1>6. IsTable(table, today)'
  <2> HIDE DEF count
  <2> QED
    BY <1>1, <1>2, <1>3, <1>4, <1>5 DEF IsTable
<1> QED
  BY <1>1, <1>6 DEF PhaseInv, AnalysisTypeOK, ReportsWrittenLast

LEMMA TakeBackKeeps ==
  ASSUME PhaseInv, NEW id \in DOMAIN table, TakeBack(id)
  PROVE  PhaseInv'
<1> DEFINE R == [student : Student, item : DOMAIN ItemType, borrowed : 0 .. today, due : Nat,
                 returned : (0 .. today) \cup {Null}]
<1>1. /\ job = Null /\ UNCHANGED <<today, files, job, runs, kills>>
      /\ table' = [table EXCEPT ![id].returned = today]
  BY DEF TakeBack
<1>2. /\ IsFiniteSet(DOMAIN table) /\ table \in [1 .. Cardinality(DOMAIN table) -> R]
      /\ today \in 0 .. today
  BY PhaseTypes DEF IsTable
<1>3. [table[id] EXCEPT !.returned = today] \in R
  <2>1. table[id] \in R
    BY <1>2
  <2> QED
    BY <1>2, <2>1
<1>4. table' = [table EXCEPT ![id] = [table[id] EXCEPT !.returned = today]]
  BY <1>1
<1>5. IsTable(table, today)'
  <2>1. DOMAIN table' = DOMAIN table
    BY <1>4
  <2>2. table' \in [1 .. Cardinality(DOMAIN table) -> R]
    <3> HIDE DEF R
    <3> QED
      BY <1>2, <1>3, <1>4
  <2> QED
    BY <1>1, <1>2, <2>1, <2>2 DEF IsTable
<1> QED
  BY <1>1, <1>5 DEF PhaseInv, AnalysisTypeOK, ReportsWrittenLast

LEMMA NextDayKeeps ==
  ASSUME PhaseInv, NextDay
  PROVE  PhaseInv'
<1>1. job = Null /\ UNCHANGED <<table, files, job, runs, kills>> /\ today' = today + 1
  BY DEF NextDay
<1> DEFINE R(day) == [student : Student, item : DOMAIN ItemType, borrowed : 0 .. day, due : Nat,
                      returned : (0 .. day) \cup {Null}]
<1>2. today' \in Nat /\ IsTable(table, today)'
  <2>1. R(today) \subseteq R(today + 1) /\ today + 1 \in Nat
    <3>1. today \in Nat /\ 0 .. today \subseteq 0 .. today + 1
      BY PhaseTypes
    <3> QED
      BY <3>1
  <2>2. IsFiniteSet(DOMAIN table) /\ table \in [1 .. Cardinality(DOMAIN table) -> R(today)]
    BY PhaseTypes DEF IsTable
  <2>3. table \in [1 .. Cardinality(DOMAIN table) -> R(today + 1)]
    <3> HIDE DEF R
    <3> QED
      BY <2>1, <2>2
  <2> QED
    BY <1>1, <2>1, <2>2, <2>3 DEF IsTable
<1> QED
  BY <1>1, <1>2 DEF PhaseInv, AnalysisTypeOK, ReportsWrittenLast

\* The scripts and circulation keep the invariant, in any order and with any
\* script killed at any point.
THEOREM PhaseInvariant == PhaseSpec => []PhaseInv
<1>1. PhaseInit => PhaseInv
  BY PhaseAssumption DEF PhaseInit, PhaseInv, AnalysisTypeOK, ReportsWrittenLast
<1>2. PhaseInv /\ [PhaseNext]_phaseVars => PhaseInv'
  <2> SUFFICES ASSUME PhaseInv, [PhaseNext]_phaseVars PROVE PhaseInv'
    OBVIOUS
  <2>1. CASE \E phase \in Phases : Start(phase)
    BY <2>1, StartKeeps
  <2>2. CASE Write
    BY <2>2, WriteKeeps
  <2>3. CASE Kill
    BY <2>3, KillKeeps
  <2>4. CASE NextDay
    BY <2>4, NextDayKeeps
  <2>5. CASE \E student \in Student, item \in DOMAIN ItemType : Lend(student, item)
    BY <2>5, LendKeeps
  <2>6. CASE \E id \in DOMAIN table : TakeBack(id)
    BY <2>6, TakeBackKeeps
  <2>7. CASE UNCHANGED phaseVars
    BY <2>7 DEF phaseVars, PhaseInv, AnalysisTypeOK, ReportsWrittenLast, IsTable, JobFits
  <2> QED
    BY <2>1, <2>2, <2>3, <2>4, <2>5, <2>6, <2>7 DEF PhaseNext
<1> QED
  BY <1>1, <1>2, PTL DEF PhaseSpec

\* borrow_records stays a table of loans with ids in order, and a file is of a
\* phase and of a run that was started.
THEOREM AnalysisTypeCorrect == PhaseSpec => []AnalysisTypeOK
<1>1. PhaseInv => AnalysisTypeOK
  BY DEF PhaseInv
<1> QED
  BY <1>1, PhaseInvariant, PTL

\* Whatever scripts are run, and whichever are killed, a report lies beside the
\* files that it was made of or newer ones: the phases write it last.
THEOREM ReportsAreLast == PhaseSpec => []ReportsWrittenLast
<1>1. PhaseInv => ReportsWrittenLast
  BY DEF PhaseInv
<1> QED
  BY <1>1, PhaseInvariant, PTL

-----------------------------------------------------------------------------
(* What phase 4A knows too much of. *)

LEMMA TableTypes ==
  ASSUME AnalysisTypeOK, NEW i \in DOMAIN table
  PROVE  table[i].borrowed \in Int /\ (table[i].returned # Null => table[i].returned \in Int)
<1>1. table[i] \in [student : Student, item : DOMAIN ItemType, borrowed : 0 .. today, due : Nat,
                    returned : (0 .. today) \cup {Null}]
  BY DEF AnalysisTypeOK, IsTable
<1>2. 0 .. today \subseteq Int
  BY DEF AnalysisTypeOK
<1> QED
  BY <1>1, <1>2

\* The features depend on the records of the two histories, and on the loan's
\* item and borrow_date, and on nothing else.
LEMMA FeaturesDependOnHistory ==
  ASSUME NEW t, NEW u, NEW id, NEW history, NEW lent,
         \A i \in history : t[i] = u[i], t[id].item = u[id].item, t[id].borrowed = u[id].borrowed
  PROVE  HistoryFeatures(t, id, history, lent) = HistoryFeatures(u, id, history, lent)
<1> DEFINE Late(records, ids) == Cardinality({i \in ids : Overdue(records[i])})
           Same(records) == {i \in history : CategoryOf(records[i].item) = CategoryOf(records[id].item)}
           Back(records) == {i \in history : records[i].returned # Null}
           Kept(records) == [i \in Back(records) |-> records[i].returned - records[i].borrowed]
           Borrowed(records) == {records[i].borrowed : i \in history}
           Kinds(records) == [i \in history |-> CategoryOf(records[i].item)]
<1>1. Same(t) = Same(u) /\ Same(t) \subseteq history
  OBVIOUS
<1>2. Back(t) = Back(u) /\ Kept(t) = Kept(u)
  OBVIOUS
<1>3. Late(t, history) = Late(u, history)
  <2>1. {i \in history : Overdue(t[i])} = {i \in history : Overdue(u[i])}
    OBVIOUS
  <2> QED
    BY <2>1
<1>4. Late(t, Same(t)) = Late(u, Same(u))
  <2> HIDE DEF Same
  <2>1. {i \in Same(t) : Overdue(t[i])} = {i \in Same(u) : Overdue(u[i])}
    BY <1>1
  <2> QED
    BY <2>1
<1>5. Borrowed(t) = Borrowed(u) /\ Kinds(t) = Kinds(u)
  OBVIOUS
<1>6. Before(t, history) = Before(u, history)
  BY DEF Before, InLoanOrder
<1> DEFINE Features(records) ==
        [priorLoanCount |-> Cardinality(history),
         priorOverdueCount |-> Late(records, history),
         historicalOverdueRate |-> Rounded(Late(records, history), Cardinality(history), 10000),
         avgDaysToReturn |-> Rounded(SumFunctionOnSet(Kept(records), Back(records)), Cardinality(Back(records)), 100),
         preferredCategory |-> ModeCategory(Kinds(records), Before(records, history)),
         daysSinceLastBorrow |-> IF history = {} THEN -1 ELSE records[id].borrowed - Max(Borrowed(records)),
         categoryOverdueRate |-> Rounded(Late(records, Same(records)), Cardinality(Same(records)), 10000),
         itemPopularityScore |-> Cardinality(lent)]
<1>7. HistoryFeatures(t, id, history, lent) = Features(t) /\ HistoryFeatures(u, id, history, lent) = Features(u)
  BY DEF HistoryFeatures, PreferredCategory
<1>8. Features(t) = Features(u)
  <2> HIDE DEF Late, Same, Back, Kept, Borrowed, Kinds
  <2> QED
    BY <1>1, <1>2, <1>3, <1>4, <1>5, <1>6
<1> QED
  BY <1>7, <1>8

\* A loan of which nothing earlier was out, of its borrower or of its item, has
\* the features that its borrow_date allows.
LEMMA ClosedHistoryIsKnown ==
  ASSUME AnalysisTypeOK, NEW id \in Completed(table),
         \A i \in DOMAIN table :
            /\ table[i].student = table[id].student \/ table[i].item = table[id].item
            /\ table[i].borrowed < table[id].borrowed
            => table[i].returned # Null /\ table[i].returned <= table[id].borrowed
  PROVE  IsPointInTime(id)
<1> DEFINE day == table[id].borrowed
           known == AsOf(day)
           earlier == {i \in DOMAIN known : known[i].borrowed < day}
           history == {i \in earlier : known[i].student = table[id].student}
           lent == {i \in earlier : known[i].item = table[id].item}
<1>1. id \in DOMAIN table /\ \A i \in DOMAIN table : table[i].borrowed \in Int
  BY TableTypes DEF Completed
<1>2. /\ DOMAIN known = {j \in DOMAIN table : table[j].borrowed <= day}
      /\ \A i \in DOMAIN known :
            known[i] = IF table[i].returned # Null /\ table[i].returned <= day THEN table[i]
                       ELSE [table[i] EXCEPT !.returned = Null]
  BY DEF AsOf
<1>3. \A i \in DOMAIN table : table[i] = [student |-> table[i].student, item |-> table[i].item,
          borrowed |-> table[i].borrowed, due |-> table[i].due, returned |-> table[i].returned]
  BY DEF AnalysisTypeOK, IsTable
<1> HIDE DEF known
<1>4. \A i \in DOMAIN known : /\ known[i].student = table[i].student /\ known[i].item = table[i].item
                              /\ known[i].borrowed = table[i].borrowed
  <2> SUFFICES ASSUME NEW i \in DOMAIN known
               PROVE  /\ known[i].student = table[i].student /\ known[i].item = table[i].item
                      /\ known[i].borrowed = table[i].borrowed
    OBVIOUS
  <2>1. table[i] = [student |-> table[i].student, item |-> table[i].item,
          borrowed |-> table[i].borrowed, due |-> table[i].due, returned |-> table[i].returned]
    BY <1>2, <1>3
  <2>2. known[i] = table[i] \/ known[i] = [table[i] EXCEPT !.returned = Null]
    BY <1>2
  <2> QED
    BY <2>1, <2>2
<1>5. earlier = {i \in DOMAIN table : table[i].borrowed < day}
  BY <1>1, <1>2, <1>4
<1> HIDE DEF earlier
<1>6. history = StudentHistory(table, id) /\ lent = ItemHistory(table, id)
  BY <1>2, <1>4, <1>5 DEF StudentHistory, ItemHistory, Completed, earlier
<1>7. \A i \in history : table[i] = known[i]
  BY <1>2, <1>4, <1>5 DEF earlier
<1>8. table[id].item = known[id].item /\ table[id].borrowed = known[id].borrowed
  BY <1>1, <1>2, <1>4
<1>9. PointInTimeFeatures(id) = HistoryFeatures(known, id, history, lent)
  BY DEF PointInTimeFeatures, known, earlier
<1> HIDE DEF history, lent
<1> QED
  BY <1>6, <1>7, <1>8, <1>9, FeaturesDependOnHistory DEF IsPointInTime, PriorFeatures

\* For every table: where a feature of phase 4A is not what the borrow_date
\* allows, an earlier loan of the borrower or of the item was out on that day.
THEOREM LeaksAreOpenLoans == PhaseSpec => []OnlyOpenLoansLeak
<1>1. AnalysisTypeOK => OnlyOpenLoansLeak
  <2> SUFFICES ASSUME AnalysisTypeOK, NEW id \in Completed(table), ~IsPointInTime(id)
               PROVE  \E i \in DOMAIN table :
                         /\ table[i].student = table[id].student \/ table[i].item = table[id].item
                         /\ table[i].borrowed < table[id].borrowed
                         /\ table[i].returned # Null => table[i].returned > table[id].borrowed
    BY DEF OnlyOpenLoansLeak
  <2>1. PICK i \in DOMAIN table :
           /\ table[i].student = table[id].student \/ table[i].item = table[id].item
           /\ table[i].borrowed < table[id].borrowed
           /\ ~(table[i].returned # Null /\ table[i].returned <= table[id].borrowed)
    BY ClosedHistoryIsKnown
  <2>2. table[i].returned # Null => table[i].returned \in Int /\ table[id].borrowed \in Int
    BY TableTypes DEF Completed
  <2> QED
    BY <2>1, <2>2
<1> QED
  BY <1>1, AnalysisTypeCorrect, PTL

-----------------------------------------------------------------------------
(* What the files hold. *)

Entries(s) == {s[n] : n \in 1 .. Len(s)}

LEMMA EntriesOfShort ==
  /\ Entries(<<>>) = {}
  /\ \A a : Entries(<<a>>) = {a}
  /\ \A a, b : Entries(<<a, b>>) = {a, b}
  /\ \A a, b, c : Entries(<<a, b, c>>) = {a, b, c}
<1>1. Entries(<<>>) = {}
  <2>1. Len(<<>>) = 0
    BY EmptySeq
  <2> QED
    BY <2>1 DEF Entries
<1>2. ASSUME NEW a PROVE Entries(<<a>>) = {a}
  <2> DEFINE s == <<a>>
  <2>1. 1 .. Len(s) = {1} /\ s[1] = a
    OBVIOUS
  <2> HIDE DEF s
  <2>2. Entries(s) = {a}
    BY <2>1 DEF Entries
  <2> QED
    BY <2>2 DEF s
<1>3. ASSUME NEW a, NEW b PROVE Entries(<<a, b>>) = {a, b}
  <2> DEFINE s == <<a, b>>
  <2>1. 1 .. Len(s) = {1, 2} /\ s[1] = a /\ s[2] = b
    OBVIOUS
  <2> HIDE DEF s
  <2>2. Entries(s) = {a, b}
    BY <2>1 DEF Entries
  <2> QED
    BY <2>2 DEF s
<1>4. ASSUME NEW a, NEW b, NEW c PROVE Entries(<<a, b, c>>) = {a, b, c}
  <2> DEFINE s == <<a, b, c>>
  <2>1. 1 .. Len(s) = {1, 2, 3} /\ s[1] = a /\ s[2] = b /\ s[3] = c
    OBVIOUS
  <2> HIDE DEF s
  <2>2. Entries(s) = {a, b, c}
    BY <2>1 DEF Entries
  <2> QED
    BY <2>2 DEF s
<1> QED
  BY <1>1, <1>2, <1>3, <1>4

LEMMA EntriesOfConcat ==
  ASSUME NEW s, NEW t, IsSequence(s), IsSequence(t)
  PROVE  Entries(s \o t) \subseteq Entries(s) \cup Entries(t)
<1>1. /\ Len(s) \in Nat /\ Len(t) \in Nat /\ Len(s \o t) = Len(s) + Len(t)
      /\ \A n \in 1 .. Len(s) + Len(t) : (s \o t)[n] = IF n <= Len(s) THEN s[n] ELSE t[n - Len(s)]
  BY ConcatIsSequence
<1> SUFFICES ASSUME NEW n \in 1 .. Len(s \o t) PROVE (s \o t)[n] \in Entries(s) \cup Entries(t)
  BY DEF Entries
<1>2. CASE n <= Len(s)
  BY <1>1, <1>2 DEF Entries
<1>3. CASE ~(n <= Len(s))
  <2>1. n - Len(s) \in 1 .. Len(t)
    BY <1>1, <1>3
  <2> QED
    BY <1>1, <1>3, <2>1 DEF Entries
<1> QED
  BY <1>2, <1>3

-----------------------------------------------------------------------------
(* What is true of the files' content, whatever becomes of the database.     *)

FeatureFiles == {FeaturesAll, FeaturesTrain, FeaturesVal}
HoldoutReports == {Report("4C"), Report("4D"), Report("4E"), Report("4F")}

\* Rows of loans of the table, each loan once, with its borrow_date.
RowsOfTable(rows) ==
    /\ IsSequence(rows)
    /\ \A n \in 1 .. Len(rows) :
          /\ rows[n].loan \in DOMAIN table
          /\ rows[n].borrowed = table[rows[n].loan].borrowed
    /\ \A m, n \in 1 .. Len(rows) : rows[m].loan = rows[n].loan => m = n

OnItsSide(file, rows) == \A n \in 1 .. Len(rows) :
    /\ file = FeaturesTrain => rows[n].borrowed < TRAIN_CUTOFF
    /\ file = FeaturesVal => rows[n].borrowed >= TRAIN_CUTOFF

\* What of a grid no later loan can change.
GridHolds(grid) ==
    LET records == LoadBorrowData(table)
        last == LastMonth({k[1] : k \in DOMAIN grid})
    IN  \A k \in DOMAIN grid :
            /\ k[1] \in Month /\ last \in Month
            /\ CompareMonths(k[1], last) <= 0 /\ CompareMonths(last, MonthKey(today)) <= 0
            /\ \E m \in Months(records) : CompareMonths(m, k[1]) <= 0
            /\ \E m \in Months(records) : CompareMonths(k[1], m) <= 0
            /\ k[1] # last => grid[k] = Cardinality({i \in DOMAIN records :
                    records[i] = [month |-> k[1], series |-> k[2]]})

Sound(file, content) ==
    /\ file \in FeatureFiles => RowsOfTable(content) /\ OnItsSide(file, content)
    /\ file \in HoldoutReports => content.fitted \cap content.evaluated = {}
    /\ file = Report("4C") => (content.sameRows =>
          \A n \in DOMAIN content.pairs : content.pairs[n][1] = content.pairs[n][2])
    /\ file \in {Demand("5A"), Demand("5B")} => GridHolds(content)

\* The scored rows are those of a file of feature rows, as far as they go.
ScoredRowsOf(scored, rows) ==
    /\ IsSequence(scored) /\ Len(scored) <= Len(rows)
    /\ \A n \in 1 .. Len(scored) : scored[n].loan = rows[n].loan

JobIsSound(j) ==
    /\ j.from \in Nat /\ j.from < j.run
    /\ \A e \in Entries(j.todo) :
          /\ Sound(e[1], e[2])
          /\ e[1] = HeuristicVal =>
                /\ FeaturesVal \in DOMAIN files /\ files[FeaturesVal].run = j.from
                /\ ScoredRowsOf(e[2], files[FeaturesVal].content)

FilesAreSound ==
    /\ \A f \in DOMAIN files :
          /\ Sound(f, files[f].content)
          /\ files[f].from \in Nat /\ files[f].from < files[f].run
    /\ HeuristicVal \in DOMAIN files /\ FeaturesVal \in DOMAIN files =>
          (files[HeuristicVal].from = files[FeaturesVal].run =>
              ScoredRowsOf(files[HeuristicVal].content, files[FeaturesVal].content))

\* A row for each returned loan, in the order of their days.
LEMMA FeatureRowsAreOfTable ==
  ASSUME AnalysisTypeOK
  PROVE  LET rows == BuildFeatureDataset(table)
         IN  /\ RowsOfTable(rows)
             /\ \A n \in 1 .. Len(rows) :
                   rows[n].split = IF rows[n].borrowed < TRAIN_CUTOFF THEN "train" ELSE "val"
<1> DEFINE ids == Completed(table)
           rows == BuildFeatureDataset(table)
<1>1. IsLoanTable(table)
  <2>1. IsFiniteSet(DOMAIN table) /\ DOMAIN table = 1 .. Cardinality(DOMAIN table)
    BY DEF AnalysisTypeOK, IsTable
  <2>2. Cardinality(DOMAIN table) \in Int
    BY <2>1, FS_CardinalityType
  <2> QED
    BY <2>1, <2>2, TableTypes DEF IsLoanTable
<1>2. RowsOf(rows, table, ids) /\ ids \subseteq DOMAIN table
  BY <1>1, FeatureRowsAreOfLoans
<1> HIDE DEF ids, rows
<1>3. PICK place \in Bijection(1 .. Len(rows), ids) :
         \A n \in 1 .. Len(rows) : rows[n] = FeatureRow(table, place[n]) /\ place[n] \in ids
  BY <1>2 DEF RowsOf
<1>4. \A m, n \in 1 .. Len(rows) : place[m] = place[n] => m = n
  BY DEF Bijection, Injection, IsInjective
<1>5. \A n \in 1 .. Len(rows) :
         /\ rows[n].loan = place[n] /\ rows[n].borrowed = table[place[n]].borrowed
         /\ rows[n].split = IF table[place[n]].borrowed < TRAIN_CUTOFF THEN "train" ELSE "val"
  BY <1>3, FeatureRowNames
<1>6. IsSequence(rows)
  BY <1>2 DEF RowsOf
<1> QED
  BY <1>2, <1>3, <1>4, <1>5, <1>6 DEF RowsOfTable, rows

LEMMA PickedRowsOfTable ==
  ASSUME NEW rows, RowsOfTable(rows), NEW places \in SUBSET DOMAIN rows
  PROVE  LET picked == Picked(rows, places)
         IN  /\ RowsOfTable(picked)
             /\ \A k \in 1 .. Len(picked) : \E n \in places : picked[k] = rows[n]
<1> DEFINE picked == Picked(rows, places)
<1>1. IsSequence(rows) /\ DOMAIN rows = 1 .. Len(rows)
  BY SequenceDomain DEF RowsOfTable
<1>2. /\ IsSequence(picked) /\ Len(picked) = Cardinality(places)
      /\ \E place \in Bijection(1 .. Len(picked), places) :
            /\ \A k \in 1 .. Len(picked) : picked[k] = rows[place[k]] /\ place[k] \in places
            /\ \A j, k \in 1 .. Len(picked) : place[j] = place[k] => j = k
  <2>1. IsSequence(rows)
    BY <1>1
  <2> QED
    BY <2>1, PickedRows
<1> HIDE DEF picked
<1>3. PICK place \in Bijection(1 .. Len(picked), places) :
         /\ \A k \in 1 .. Len(picked) : picked[k] = rows[place[k]] /\ place[k] \in places
         /\ \A j, k \in 1 .. Len(picked) : place[j] = place[k] => j = k
  BY <1>2
<1>4. \A k \in 1 .. Len(picked) : place[k] \in places /\ place[k] \in 1 .. Len(rows)
  BY <1>1, <1>3
<1>5. \A k \in 1 .. Len(picked) :
         picked[k].loan \in DOMAIN table /\ picked[k].borrowed = table[picked[k].loan].borrowed
  BY <1>3, <1>4 DEF RowsOfTable
<1>6. ASSUME NEW j \in 1 .. Len(picked), NEW k \in 1 .. Len(picked), picked[j].loan = picked[k].loan
      PROVE  j = k
  <2>1. rows[place[j]].loan = rows[place[k]].loan
    BY <1>3, <1>6
  <2>2. place[j] = place[k]
    BY <1>4, <2>1 DEF RowsOfTable
  <2> QED
    BY <1>3, <2>2
<1>7. RowsOfTable(picked)
  BY <1>2, <1>5, <1>6 DEF RowsOfTable
<1> QED
  BY <1>3, <1>4, <1>7 DEF picked

LEMMA EntriesOf4A ==
  ASSUME NEW records
  PROVE  LET rows == BuildFeatureDataset(records)
         IN  Entries(Writes4A(records)) \subseteq
                {<<FeaturesAll, rows>>, <<FeaturesTrain, OfSplit(rows, "train")>>,
                 <<FeaturesVal, OfSplit(rows, "val")>>,
                 <<Report("4A"), [passed |-> ValidateDataset(rows)]>>}
<1> DEFINE rows == BuildFeatureDataset(records)
           train == OfSplit(rows, "train")
           val == OfSplit(rows, "val")
           report == [passed |-> ValidateDataset(rows)]
           s == <<<<FeaturesAll, rows>>, <<FeaturesTrain, train>>, <<FeaturesVal, val>>>>
           r == <<<<Report("4A"), report>>>>
<1> HIDE DEF rows, train, val, report
<1>1. IsSequence(s) /\ Entries(s) = {<<FeaturesAll, rows>>, <<FeaturesTrain, train>>, <<FeaturesVal, val>>}
  BY ShortSequences, EntriesOfShort
<1>2. Writes4A(records) = s \o (IF ValidationRaises(rows) THEN <<>> ELSE r)
  BY DEF Writes4A, rows, train, val, report
<1>3. IsSequence(r) /\ IsSequence(<<>>) /\ Entries(r) = {<<Report("4A"), report>>} /\ Entries(<<>>) = {}
  BY ShortSequences, EntriesOfShort
<1> HIDE DEF s, r
<1>4. Writes4A(records) = s \o r \/ Writes4A(records) = s \o <<>>
  BY <1>2
<1>5. Entries(Writes4A(records)) \subseteq Entries(s) \cup Entries(r)
  BY <1>1, <1>3, <1>4, EntriesOfConcat
<1>6. Entries(Writes4A(records)) \subseteq
         {<<FeaturesAll, rows>>, <<FeaturesTrain, train>>, <<FeaturesVal, val>>, <<Report("4A"), report>>}
  BY <1>1, <1>3, <1>5
<1> QED
  BY <1>6 DEF rows, train, val, report

LEMMA FeaturesAreSound ==
  ASSUME AnalysisTypeOK, NEW e \in Entries(Writes4A(table))
  PROVE  Sound(e[1], e[2])
<1> DEFINE rows == BuildFeatureDataset(table)
           train == OfSplit(rows, "train")
           val == OfSplit(rows, "val")
           report == [passed |-> ValidateDataset(rows)]
<1>1. /\ RowsOfTable(rows)
      /\ \A n \in 1 .. Len(rows) : rows[n].split = IF rows[n].borrowed < TRAIN_CUTOFF THEN "train" ELSE "val"
  BY FeatureRowsAreOfTable
<1>2. \A n \in 1 .. Len(rows) : rows[n].borrowed \in Int
  BY <1>1, TableTypes DEF RowsOfTable
<1>3. DOMAIN rows = 1 .. Len(rows)
  BY <1>1, SequenceDomain DEF RowsOfTable
<1> HIDE DEF rows
<1>4. /\ RowsOfTable(train) /\ \A k \in 1 .. Len(train) : train[k].borrowed < TRAIN_CUTOFF
      /\ RowsOfTable(val) /\ \A k \in 1 .. Len(val) : val[k].borrowed >= TRAIN_CUTOFF
  <2> DEFINE Of(split) == {n \in DOMAIN rows : rows[n].split = split}
  <2>1. ASSUME NEW split
        PROVE  /\ RowsOfTable(OfSplit(rows, split))
               /\ \A k \in 1 .. Len(OfSplit(rows, split)) : \E n \in Of(split) : OfSplit(rows, split)[k] = rows[n]
    <3>1. Of(split) \in SUBSET DOMAIN rows /\ OfSplit(rows, split) = Picked(rows, Of(split))
      BY DEF OfSplit
    <3> HIDE DEF Of
    <3> QED
      BY <1>1, <3>1, PickedRowsOfTable
  <2>2. \A n \in Of("train") : rows[n].borrowed < TRAIN_CUTOFF
    BY <1>1, <1>3
  <2>3. \A n \in Of("val") : rows[n].borrowed >= TRAIN_CUTOFF
    BY <1>1, <1>2, <1>3, FeatureAssumption
  <2> HIDE DEF Of
  <2> QED
    BY <2>1, <2>2, <2>3
<1> HIDE DEF train, val
<1>5. Sound(FeaturesAll, rows) /\ Sound(FeaturesTrain, train) /\ Sound(FeaturesVal, val)
  BY <1>1, <1>4 DEF Sound, OnItsSide, FeatureFiles, HoldoutReports, FeaturesAll, FeaturesTrain, FeaturesVal,
                    Report, Demand
<1>6. Sound(Report("4A"), report)
  BY DEF Sound, FeatureFiles, HoldoutReports, FeaturesAll, FeaturesTrain, FeaturesVal, Report, Demand
<1>7. e \in {<<FeaturesAll, rows>>, <<FeaturesTrain, train>>, <<FeaturesVal, val>>, <<Report("4A"), report>>}
  BY EntriesOf4A DEF rows, train, val, report
<1> HIDE DEF report
<1> QED
  BY <1>5, <1>6, <1>7

\* Phase 4B scores the rows that it read, one by one.
LEMMA HeuristicRowsAreOf ==
  ASSUME NEW rows, IsSequence(rows)
  PROVE  ScoredRowsOf(HeuristicRows(rows), rows)
<1> DEFINE scored == HeuristicRows(rows)
<1>1. Len(rows) \in Nat /\ DOMAIN rows = 1 .. Len(rows)
  BY SequenceDomain
<1>2. /\ scored = [n \in 1 .. Len(rows) |-> scored[n]]
      /\ \A n \in 1 .. Len(rows) : scored[n].loan = rows[n].loan
  BY <1>1 DEF HeuristicRows
<1> HIDE DEF scored
<1>3. IsSequence(scored) /\ Len(scored) = Len(rows)
  BY <1>1, <1>2, CountedIsSequence
<1> QED
  BY <1>1, <1>2, <1>3 DEF ScoredRowsOf, scored

LEMMA OtherFilesAreSound ==
  ASSUME NEW file \in {HeuristicTrain, HeuristicVal, LrTrain, LrVal, Report("4B"), Report("5A"), Report("5B")},
         NEW content
  PROVE  Sound(file, content)
BY DEF Sound, FeatureFiles, HoldoutReports, FeaturesAll, FeaturesTrain, FeaturesVal, HeuristicTrain,
       HeuristicVal, LrTrain, LrVal, Report, Demand

LEMMA EntriesOf4B ==
  ASSUME NEW train, NEW val
  PROVE  LET scored == HeuristicRows(val)
             report == [train |-> HeuristicReport(HeuristicRows(train)), val |-> HeuristicReport(scored)]
         IN  /\ Entries(Writes4B(train, val)) \subseteq
                   {<<HeuristicTrain, HeuristicRows(train)>>, <<HeuristicVal, scored>>, <<Report("4B"), report>>}
             /\ <<Report("4B"), report>> \in Entries(Writes4B(train, val)) => BothClasses(val)
<1> DEFINE scored == HeuristicRows(val)
           report == [train |-> HeuristicReport(HeuristicRows(train)), val |-> HeuristicReport(scored)]
           s == <<<<HeuristicTrain, HeuristicRows(train)>>, <<HeuristicVal, scored>>>>
           r == <<<<Report("4B"), report>>>>
<1>1. Writes4B(train, val) =
         IF train = <<>> THEN <<>> ELSE s \o IF BothClasses(train) /\ BothClasses(val) THEN r ELSE <<>>
  BY DEF Writes4B
<1> HIDE DEF scored, report
<1>2. /\ IsSequence(s) /\ Entries(s) = {<<HeuristicTrain, HeuristicRows(train)>>, <<HeuristicVal, scored>>}
      /\ IsSequence(r) /\ Entries(r) = {<<Report("4B"), report>>}
      /\ IsSequence(<<>>) /\ Entries(<<>>) = {}
  BY ShortSequences, EntriesOfShort
<1> HIDE DEF s, r
<1>3. Writes4B(train, val) \in {<<>>, s \o r, s \o <<>>}
  BY <1>1
<1>4. Entries(Writes4B(train, val)) \subseteq Entries(s) \cup Entries(r)
  BY <1>2, <1>3, EntriesOfConcat
<1>5. <<Report("4B"), report>> \notin Entries(s)
  BY <1>2 DEF HeuristicTrain, HeuristicVal, Report
<1>6. ~BothClasses(val) => Entries(Writes4B(train, val)) \subseteq Entries(s)
  <2>1. ~BothClasses(val) => Writes4B(train, val) \in {<<>>, s \o <<>>}
    BY <1>1
  <2>2. Entries(s \o <<>>) \subseteq Entries(s) \cup {}
    BY <1>2, EntriesOfConcat
  <2> QED
    BY <1>2, <2>1, <2>2
<1>7. /\ Entries(Writes4B(train, val)) \subseteq
            {<<HeuristicTrain, HeuristicRows(train)>>, <<HeuristicVal, scored>>, <<Report("4B"), report>>}
      /\ <<Report("4B"), report>> \in Entries(Writes4B(train, val)) => BothClasses(val)
  BY <1>2, <1>4, <1>5, <1>6
<1> QED
  BY <1>7 DEF scored, report

LEMMA HeuristicIsSound ==
  ASSUME NEW train, NEW val, IsSequence(val), NEW e \in Entries(Writes4B(train, val))
  PROVE  Sound(e[1], e[2]) /\ (e[1] = HeuristicVal => ScoredRowsOf(e[2], val))
<1> DEFINE scored == HeuristicRows(val)
           report == [train |-> HeuristicReport(HeuristicRows(train)), val |-> HeuristicReport(scored)]
<1>1. ScoredRowsOf(scored, val)
  BY HeuristicRowsAreOf
<1>2. e \in {<<HeuristicTrain, HeuristicRows(train)>>, <<HeuristicVal, scored>>, <<Report("4B"), report>>}
  BY EntriesOf4B
<1> HIDE DEF scored, report
<1>3. HeuristicTrain # HeuristicVal /\ Report("4B") # HeuristicVal
  BY DEF HeuristicTrain, HeuristicVal, Report
<1> QED
  BY <1>1, <1>2, <1>3, OtherFilesAreSound

LEMMA LoanSetIsOf ==
  ASSUME NEW rows, IsSequence(rows)
  PROVE  LoanSet(rows) = {rows[n].loan : n \in 1 .. Len(rows)}
BY SequenceDomain DEF LoanSet

\* Where the heuristic's rows are the first of val's, get_heuristic_scores finds
\* each score at the place of its own loan.
LEMMA ScoresAreAligned ==
  ASSUME NEW val, RowsOfTable(val), NEW scored, ScoredRowsOf(scored, val)
  PROVE  LET found == LookupScores(val, scored)
         IN  /\ DOMAIN found = 1 .. Len(scored)
             /\ \A n \in 1 .. Len(scored) : found[n].loan = val[n].loan
<1> DEFINE places == {n \in DOMAIN val : val[n].loan \in LoanSet(scored)}
           first == Picked(Loans(val), places)
           found == LookupScores(val, scored)
           Here(n, h) == /\ scored[h].loan = first[n]
                         /\ \A e \in 1 .. h - 1 : scored[e].loan # first[n]
<1>1. /\ IsSequence(val) /\ DOMAIN val = 1 .. Len(val) /\ Len(val) \in Nat
      /\ IsSequence(scored) /\ DOMAIN scored = 1 .. Len(scored) /\ Len(scored) \in Nat
      /\ Len(scored) <= Len(val)
      /\ \A n \in 1 .. Len(scored) : n \in 1 .. Len(val) /\ scored[n].loan = val[n].loan
  BY SequenceDomain DEF RowsOfTable, ScoredRowsOf
<1>2. \A m, n \in 1 .. Len(val) : val[m].loan = val[n].loan => m = n
  BY DEF RowsOfTable
<1>3. places = 1 .. Len(scored)
  <2>1. LoanSet(scored) = {val[n].loan : n \in 1 .. Len(scored)}
    BY <1>1, LoanSetIsOf
  <2>2. ASSUME NEW n \in 1 .. Len(val) PROVE val[n].loan \in LoanSet(scored) <=> n \in 1 .. Len(scored)
    BY <1>1, <1>2, <2>1
  <2> QED
    BY <1>1, <2>2
<1>4. first = [n \in 1 .. Len(scored) |-> val[n].loan]
  <2>1. first = [n \in 1 .. Len(scored) |-> Loans(val)[n]]
    BY <1>1, <1>3, PickedPrefix
  <2>2. \A n \in 1 .. Len(scored) : Loans(val)[n] = val[n].loan
    BY <1>1 DEF Loans
  <2> QED
    BY <2>1, <2>2
<1>5. found = [n \in DOMAIN first |-> scored[CHOOSE h \in DOMAIN scored : Here(n, h)]]
  BY DEF LookupScores
<1> HIDE DEF found, first, Here
<1>6. ASSUME NEW n \in 1 .. Len(scored)
      PROVE  \A h \in DOMAIN scored : Here(n, h) <=> h = n
  <2>1. first[n] = val[n].loan
    BY <1>4
  <2>2. \A h \in 1 .. Len(scored) : scored[h].loan = first[n] <=> h = n
    BY <1>1, <1>2, <2>1
  <2>3. \A e \in 1 .. n - 1 : e \in 1 .. Len(scored) /\ e # n
    BY <1>1
  <2> QED
    BY <1>1, <2>2, <2>3 DEF Here
<1>7. \A n \in 1 .. Len(scored) : found[n] = scored[n]
  <2> SUFFICES ASSUME NEW n \in 1 .. Len(scored) PROVE found[n] = scored[n]
    OBVIOUS
  <2>1. (CHOOSE h \in DOMAIN scored : Here(n, h)) = n
    BY <1>1, <1>6
  <2> QED
    BY <1>4, <1>5, <2>1
<1>8. DOMAIN found = 1 .. Len(scored)
  BY <1>4, <1>5
<1> QED
  BY <1>1, <1>7, <1>8 DEF found

\* Rows of loans before the cutoff and of loans from it on share no loan, even if
\* they were written at different times: a loan's borrow_date never changes.
LEMMA SidesAreDisjoint ==
  ASSUME AnalysisTypeOK, NEW a, NEW b, RowsOfTable(a), RowsOfTable(b),
         \A n \in 1 .. Len(a) : a[n].borrowed < TRAIN_CUTOFF,
         \A n \in 1 .. Len(b) : b[n].borrowed >= TRAIN_CUTOFF
  PROVE  LoanSet(a) \cap LoanSet(b) = {}
<1> SUFFICES ASSUME NEW m \in 1 .. Len(a), NEW n \in 1 .. Len(b), a[m].loan = b[n].loan PROVE FALSE
  <2>1. IsSequence(a) /\ IsSequence(b)
    BY DEF RowsOfTable
  <2> QED
    BY <2>1, LoanSetIsOf
<1>1. a[m].borrowed = b[n].borrowed /\ a[m].borrowed \in Int
  BY TableTypes DEF RowsOfTable
<1> QED
  BY <1>1, FeatureAssumption

\* What phase 4C says of its two sides, and of whose score is counted for whom.
LEMMA ComparisonIsSound ==
  ASSUME AnalysisTypeOK, NEW train, NEW val, RowsOfTable(train), RowsOfTable(val),
         OnItsSide(FeaturesTrain, train), OnItsSide(FeaturesVal, val), NEW heuristic,
         heuristic.from = files[FeaturesVal].run => ScoredRowsOf(heuristic.content, val)
  PROVE  Sound(Report("4C"), ReportOf4C(train, val, heuristic))
<1> DEFINE scored == LookupScores(val, heuristic.content)
           r == ReportOf4C(train, val, heuristic)
           pairs == [n \in Paired(val, scored) |-> <<val[n].loan, scored[n].loan>>]
<1>1. /\ r.fitted = LoanSet(train) /\ r.evaluated = LoanSet(val) /\ r.pairs = pairs
      /\ r.sameRows <=> heuristic.from = files[FeaturesVal].run
  BY DEF ReportOf4C
<1> HIDE DEF r
<1>2. r.fitted \cap r.evaluated = {}
  BY <1>1, SidesAreDisjoint DEF OnItsSide
<1>3. ASSUME r.sameRows, NEW n \in DOMAIN r.pairs PROVE r.pairs[n][1] = r.pairs[n][2]
  <2>1. /\ DOMAIN scored = 1 .. Len(heuristic.content)
        /\ \A k \in 1 .. Len(heuristic.content) : scored[k].loan = val[k].loan
    BY <1>1, <1>3, ScoresAreAligned
  <2>2. /\ IsSequence(val) /\ IsSequence(heuristic.content) /\ Len(val) \in Nat
        /\ Len(heuristic.content) \in Nat
    BY <1>1, <1>3, SequenceDomain DEF RowsOfTable, ScoredRowsOf
  <2>3. Len(scored) = Len(heuristic.content)
    <3>1. scored = [k \in 1 .. Len(heuristic.content) |-> scored[k]]
      BY <2>1 DEF LookupScores
    <3> HIDE DEF scored
    <3> QED
      BY <2>2, <3>1, CountedIsSequence
  <2> HIDE DEF scored
  <2>4. ASSUME NEW a \in Nat, NEW b \in Nat PROVE Min({a, b}) \in Nat /\ Min({a, b}) <= b
    BY DEF Min
  <2>5. n \in 1 .. Min({Len(val), Len(scored)}) /\ pairs[n] = <<val[n].loan, scored[n].loan>>
    BY <1>1, <1>3 DEF Paired
  <2>6. n \in 1 .. Len(scored)
    <3>1. PICK least : least = Min({Len(val), Len(scored)})
      OBVIOUS
    <3>2. least \in Nat /\ least <= Len(scored) /\ Len(scored) \in Nat
      BY <2>2, <2>3, <2>4, <3>1
    <3> QED
      BY <2>5, <3>1, <3>2
  <2> QED
    BY <1>1, <2>1, <2>3, <2>5, <2>6
<1> QED
  BY <1>2, <1>3 DEF Sound, FeatureFiles, HoldoutReports, FeaturesAll, FeaturesTrain, FeaturesVal, Report, Demand, r

\* The other reports on a regression: the two sides of its split.
LEMMA FitIsSound ==
  ASSUME AnalysisTypeOK, NEW phase \in {"4D", "4E", "4F"}, NEW a, NEW b,
         LoanSet(a) \cap LoanSet(b) = {}
  PROVE  Sound(Report(phase), Fit(a, b))
BY DEF Sound, FeatureFiles, HoldoutReports, FeaturesAll, FeaturesTrain, FeaturesVal, Report, Demand, Fit

LEMMA ComparedIsSound ==
  ASSUME AnalysisTypeOK, NEW train, NEW val, RowsOfTable(train), RowsOfTable(val),
         OnItsSide(FeaturesTrain, train), OnItsSide(FeaturesVal, val),
         HeuristicVal \in DOMAIN files /\ files[HeuristicVal].from = files[FeaturesVal].run =>
            ScoredRowsOf(files[HeuristicVal].content, val),
         NEW e \in Entries(Writes4C(train, val))
  PROVE  Sound(e[1], e[2])
<1> DEFINE report == ReportOf4C(train, val, files[HeuristicVal])
           s == <<<<LrTrain, Loans(train)>>, <<LrVal, Loans(val)>>>>
           r == <<<<Report("4C"), report>>>>
           reports == HeuristicVal \in DOMAIN files /\ BothClasses(val)
<1>1. Writes4C(train, val) = IF train = <<>> THEN <<>> ELSE s \o IF reports THEN r ELSE <<>>
  BY DEF Writes4C
<1>2. reports => Sound(Report("4C"), report)
  BY ComparisonIsSound
<1> HIDE DEF report
<1>3. /\ IsSequence(s) /\ Entries(s) = {<<LrTrain, Loans(train)>>, <<LrVal, Loans(val)>>}
      /\ IsSequence(r) /\ Entries(r) = {<<Report("4C"), report>>}
      /\ IsSequence(<<>>) /\ Entries(<<>>) = {}
  BY ShortSequences, EntriesOfShort
<1> HIDE DEF s, r, reports
<1>4. /\ Writes4C(train, val) \in {<<>>, s \o r, s \o <<>>}
      /\ Writes4C(train, val) = <<>> \/ Writes4C(train, val) = s \o <<>> \/ reports
  BY <1>1
<1>5. e \in Entries(s) \/ (reports /\ e \in Entries(r))
  BY <1>3, <1>4, EntriesOfConcat
<1> QED
  BY <1>2, <1>3, <1>5, OtherFilesAreSound

\* Phase 4F splits the rows of one file at two days.
LEMMA CalibrationIsSound ==
  ASSUME AnalysisTypeOK, NEW rows, RowsOfTable(rows), NEW e \in Entries(Writes4F(rows))
  PROVE  Sound(e[1], e[2])
<1> DEFINE model == ModelTrain(rows)
           calib == CalibRows(rows)
           val == ValRows(rows)
<1>1. IsSequence(rows) /\ DOMAIN rows = 1 .. Len(rows)
  BY SequenceDomain DEF RowsOfTable
<1>2. \A n \in 1 .. Len(rows) : rows[n].borrowed \in Int
  BY TableTypes DEF RowsOfTable
<1>3. TRAIN_CUTOFF \in Int /\ CALIBRATION_CUTOFF \in Int /\ CALIBRATION_CUTOFF <= TRAIN_CUTOFF
  BY FeatureAssumption, PhaseAssumption
<1>4. RowsOfTable(model) /\ \A k \in 1 .. Len(model) : model[k].borrowed < TRAIN_CUTOFF
  <2> DEFINE places == {n \in DOMAIN rows : rows[n].borrowed < CALIBRATION_CUTOFF}
  <2>1. places \in SUBSET DOMAIN rows /\ model = Picked(rows, places)
    BY DEF ModelTrain
  <2>2. \A n \in places : rows[n].borrowed < TRAIN_CUTOFF
    BY <1>1, <1>2, <1>3
  <2> HIDE DEF places, model
  <2> QED
    BY <2>1, <2>2, PickedRowsOfTable
<1>5. RowsOfTable(calib) /\ \A k \in 1 .. Len(calib) : calib[k].borrowed < TRAIN_CUTOFF
  <2> DEFINE places == {n \in DOMAIN rows :
         CALIBRATION_CUTOFF <= rows[n].borrowed /\ rows[n].borrowed < TRAIN_CUTOFF}
  <2>1. places \in SUBSET DOMAIN rows /\ calib = Picked(rows, places)
    BY DEF CalibRows
  <2>2. \A n \in places : rows[n].borrowed < TRAIN_CUTOFF
    OBVIOUS
  <2> HIDE DEF places, calib
  <2> QED
    BY <2>1, <2>2, PickedRowsOfTable
<1>6. RowsOfTable(val) /\ \A k \in 1 .. Len(val) : val[k].borrowed >= TRAIN_CUTOFF
  <2> DEFINE places == {n \in DOMAIN rows : rows[n].borrowed >= TRAIN_CUTOFF}
  <2>1. places \in SUBSET DOMAIN rows /\ val = Picked(rows, places)
    BY DEF ValRows
  <2>2. \A n \in places : rows[n].borrowed >= TRAIN_CUTOFF
    OBVIOUS
  <2> HIDE DEF places, val
  <2> QED
    BY <2>1, <2>2, PickedRowsOfTable
<1>7. Writes4F(rows) = <<>> \/ Writes4F(rows) = <<<<Report("4F"), Fit(model \o calib, val)>>>>
  BY DEF Writes4F
<1> HIDE DEF model, calib, val
<1>8. LoanSet(model) \cap LoanSet(val) = {} /\ LoanSet(calib) \cap LoanSet(val) = {}
  BY <1>4, <1>5, <1>6, SidesAreDisjoint
<1>9. LoanSet(model \o calib) \subseteq LoanSet(model) \cup LoanSet(calib)
  <2>1. IsSequence(model) /\ IsSequence(calib)
    BY <1>4, <1>5 DEF RowsOfTable
  <2>2. IsSequence(model \o calib) /\ Entries(model \o calib) \subseteq Entries(model) \cup Entries(calib)
    BY <2>1, ConcatIsSequence, EntriesOfConcat
  <2>3. ASSUME NEW s, IsSequence(s) PROVE LoanSet(s) = {row.loan : row \in Entries(s)}
    BY <2>3, LoanSetIsOf DEF Entries
  <2> QED
    BY <2>1, <2>2, <2>3
<1>10. e = <<Report("4F"), Fit(model \o calib, val)>>
  BY <1>7, EntriesOfShort
<1>11. LoanSet(model \o calib) \cap LoanSet(val) = {}
  BY <1>8, <1>9
<1> QED
  BY <1>10, <1>11, FitIsSound

\* A later day is in no earlier month.
LEMMA DaysInOrder ==
  ASSUME NEW a \in Nat, NEW b \in Nat, a <= b
  PROVE  /\ MonthKey(a) \in Month /\ MonthKey(b) \in Month
         /\ CompareMonths(MonthKey(a), MonthKey(b)) <= 0
<1>1. PICK d \in Nat \ {0} : d = DaysPerMonth
  BY ForecastAssumption
<1> DEFINE p == a \div d
           q == b \div d
<1>2. /\ p \in Int /\ d * p <= a /\ a < d * (p + 1)
      /\ q \in Int /\ d * q <= b /\ b < d * (q + 1)
  OBVIOUS
<1> HIDE DEF p, q
<1>3. p <= q
  <2> SUFFICES ASSUME p >= q + 1 PROVE FALSE
    BY <1>2
  <2>1. PICK x \in Nat : p = (q + 1) + x
    <3>1. p - (q + 1) \in Nat /\ p = (q + 1) + (p - (q + 1))
      BY <1>2
    <3> QED
      BY <3>1
  <2>2. d * p = d * (q + 1) + d * x /\ d * x >= 0 /\ d * (q + 1) \in Int
    BY <1>2, <2>1
  <2> QED
    BY <1>2, <2>2
<1>4. Key(p) \in Month /\ Key(q) \in Month /\ Total(Key(p)) = p /\ Total(Key(q)) = q
  BY <1>2, KeyOfTotal
<1>5. MonthKey(a) = Key(p) /\ MonthKey(b) = Key(q)
  BY <1>1 DEF MonthKey, p, q
<1> QED
  BY <1>2, <1>3, <1>4, <1>5 DEF CompareMonths

LEMMA ObservedMonths ==
  ASSUME AnalysisTypeOK
  PROVE  LET records == LoadBorrowData(table)
         IN  /\ DOMAIN records \subseteq DOMAIN table /\ Months(records) \subseteq Month
             /\ IsFiniteSet(Months(records))
             /\ \A m \in Months(records) : CompareMonths(m, MonthKey(today)) <= 0
             /\ MonthKey(today) \in Month
             /\ \A i \in DOMAIN records :
                   records[i] = [month |-> records[i].month, series |-> records[i].series]
<1> DEFINE records == LoadBorrowData(table)
<1>1. /\ DOMAIN records = {j \in DOMAIN table : table[j].item # Null}
      /\ \A i \in DOMAIN records : records[i] =
            [month |-> MonthKey(table[i].borrowed), series |-> SeriesKey(table[i].item)]
  BY DEF LoadBorrowData, ClassifyBorrowRow
<1> HIDE DEF records
<1>2. \A i \in DOMAIN records : records[i].month = MonthKey(table[i].borrowed)
                                /\ records[i] = [month |-> records[i].month, series |-> records[i].series]
  <2> SUFFICES ASSUME NEW i \in DOMAIN records
               PROVE  records[i].month = MonthKey(table[i].borrowed)
                      /\ records[i] = [month |-> records[i].month, series |-> records[i].series]
    OBVIOUS
  <2>1. records[i] = [month |-> MonthKey(table[i].borrowed), series |-> SeriesKey(table[i].item)]
    BY <1>1
  <2> QED
    BY <2>1
<1>3. \A i \in DOMAIN table : table[i].borrowed \in 0 .. today
  BY DEF AnalysisTypeOK, IsTable
<1>4. today \in Nat /\ MonthKey(today) \in Month
  <2>1. today \in Nat
    BY DEF AnalysisTypeOK
  <2> QED
    BY <2>1, DaysInOrder
<1>5. \A m \in Months(records) : m \in Month /\ CompareMonths(m, MonthKey(today)) <= 0
  <2> SUFFICES ASSUME NEW i \in DOMAIN records
               PROVE  records[i].month \in Month /\ CompareMonths(records[i].month, MonthKey(today)) <= 0
    BY DEF Months
  <2>1. table[i].borrowed \in Nat /\ table[i].borrowed <= today
    BY <1>1, <1>3, <1>4
  <2> QED
    BY <1>2, <1>4, <2>1, DaysInOrder
<1>6. IsFiniteSet(Months(records))
  <2>1. IsFiniteSet(DOMAIN table)
    BY DEF AnalysisTypeOK, IsTable
  <2>2. IsFiniteSet(DOMAIN records)
    BY <1>1, <2>1, FS_Subset
  <2>3. [i \in DOMAIN records |-> records[i].month] \in Surjection(DOMAIN records, Months(records))
    BY DEF Surjection, Months
  <2> QED
    BY <2>2, <2>3, FS_Surjection
<1> QED
  BY <1>1, <1>2, <1>4, <1>5, <1>6 DEF records

\* A grid that phase 5A or 5B makes counts every month but the last for good.
LEMMA GridOfRunHolds ==
  ASSUME AnalysisTypeOK, NEW phase, ~DemandRun(table, phase).exits
  PROVE  GridHolds(DemandRun(table, phase).grid)
<1> DEFINE records == LoadBorrowData(table)
           M == Months(records)
           bounds == ResolveGridBounds(records)
           first == bounds.first
           last == bounds.last
           kept == FilterRecordsToRange(records, first, last)
           grid == DensifyMonthlyGrid(AggregateMonthlyDemand(kept), first, last)
           K == {k[1] : k \in DOMAIN grid}
<1>1. DOMAIN records # {} /\ DemandRun(table, phase).grid = grid
  BY DEF DemandRun
<1>2. /\ M \subseteq Month /\ IsFiniteSet(M) /\ M # {} /\ MonthKey(today) \in Month
      /\ \A m \in M : CompareMonths(m, MonthKey(today)) <= 0
      /\ \A i \in DOMAIN records :
            records[i] = [month |-> records[i].month, series |-> records[i].series]
  <2>1. M # {}
    BY <1>1 DEF Months
  <2> QED
    BY <2>1, ObservedMonths
<1>3. /\ first \in Month /\ last \in Month
      /\ \E m \in M : CompareMonths(m, first) <= 0
      /\ \E m \in M : CompareMonths(last, m) <= 0
  BY <1>2, BoundsAreObserved
<1>4. /\ DOMAIN grid = MonthSequence(first, last) \X SeriesIn(kept)
      /\ \A k \in DOMAIN grid : grid[k] = Cardinality(LoansAt(records, k))
  <2>1. Months(records) \subseteq Month /\ first \in Month /\ last \in Month
    BY <1>2, <1>3
  <2> HIDE DEF records, first, last
  <2> QED
    BY <2>1, GridCountsLoans
<1> HIDE DEF records, M, first, last, grid
<1>5. \A m \in Month : Total(m) \in Int
  BY TotalOfKey
<1>6. \A m \in K : m \in Month /\ CompareMonths(first, m) <= 0 /\ CompareMonths(m, last) <= 0
  BY <1>3, <1>4, MonthSequenceHasNoGaps
<1>7. IsFiniteSet(K) /\ K \in SUBSET Month
  <2>1. K \subseteq MonthSequence(first, last)
    BY <1>4
  <2>2. IsFiniteSet(MonthSequence(first, last))
    <3> DEFINE T == Total(first) .. Total(last)
    <3>1. IsFiniteSet(T)
      BY <1>3, <1>5, FS_Interval
    <3>2. [t \in T |-> Key(t)] \in Surjection(T, MonthSequence(first, last))
      BY DEF Surjection, MonthSequence
    <3> QED
      BY <3>1, <3>2, FS_Surjection
  <2>3. IsFiniteSet(K)
    BY <2>1, <2>2, FS_Subset
  <2> QED
    BY <1>6, <2>3
<1> DEFINE most == LastMonth(K)
<1>8. ASSUME NEW k \in DOMAIN grid
      PROVE  /\ k[1] \in Month /\ most \in Month
             /\ CompareMonths(k[1], most) <= 0 /\ CompareMonths(most, MonthKey(today)) <= 0
             /\ \E m \in M : CompareMonths(m, k[1]) <= 0
             /\ \E m \in M : CompareMonths(k[1], m) <= 0
             /\ grid[k] = Cardinality({i \in DOMAIN records :
                    records[i] = [month |-> k[1], series |-> k[2]]})
  <2>1. k[1] \in K
    OBVIOUS
  <2>2. most \in K /\ \A o \in K : CompareMonths(most, o) >= 0
    BY <1>7, <2>1, LastExists DEF LastMonth
  <2> HIDE DEF K, most
  <2>3. PICK least \in M : CompareMonths(least, first) <= 0
    BY <1>3
  <2>4. PICK greatest \in M : CompareMonths(last, greatest) <= 0
    BY <1>3
  <2>5. /\ k[1] \in Month /\ most \in Month /\ least \in Month /\ greatest \in Month
        /\ CompareMonths(first, k[1]) <= 0 /\ CompareMonths(k[1], last) <= 0
        /\ CompareMonths(most, last) <= 0 /\ CompareMonths(most, k[1]) >= 0
        /\ CompareMonths(greatest, MonthKey(today)) <= 0
    BY <1>2, <1>6, <2>1, <2>2
  <2>6. /\ CompareMonths(k[1], most) <= 0 /\ CompareMonths(most, MonthKey(today)) <= 0
        /\ CompareMonths(least, k[1]) <= 0 /\ CompareMonths(k[1], greatest) <= 0
    <3>1. \A a, b, c \in Int : a - b <= 0 /\ b - c <= 0 => a - c <= 0
      OBVIOUS
    <3>2. \A a, b \in Int : a - b >= 0 => b - a <= 0
      OBVIOUS
    <3>3. \A m \in {k[1], most, least, greatest, first, last, MonthKey(today)} : Total(m) \in Int
      BY <1>2, <1>3, <1>5, <2>5
    <3> DEFINE tk == Total(k[1])
               tm == Total(most)
               tl == Total(least)
               tg == Total(greatest)
               tf == Total(first)
               te == Total(last)
               td == Total(MonthKey(today))
    <3>4. /\ tk \in Int /\ tm \in Int /\ tl \in Int /\ tg \in Int /\ tf \in Int /\ te \in Int /\ td \in Int
          /\ tl - tf <= 0 /\ te - tg <= 0 /\ tf - tk <= 0 /\ tk - te <= 0 /\ tm - te <= 0 /\ tm - tk >= 0
          /\ tg - td <= 0
      BY <2>3, <2>4, <2>5, <3>3 DEF CompareMonths
    <3> HIDE DEF tk, tm, tl, tg, tf, te, td
    <3>5. tk - tm <= 0 /\ tm - td <= 0 /\ tl - tk <= 0 /\ tk - tg <= 0
      BY <3>4
    <3> QED
      BY <3>5 DEF CompareMonths, tk, tm, tl, tg, td
  <2>7. \A i \in DOMAIN records : records[i] = [month |-> k[1], series |-> k[2]] <=>
           records[i].month = k[1] /\ records[i].series = k[2]
    BY <1>2
  <2>8. LoansAt(records, k) = {i \in DOMAIN records : records[i] = [month |-> k[1], series |-> k[2]]}
    BY <2>7 DEF LoansAt
  <2> QED
    BY <1>4, <2>3, <2>4, <2>5, <2>6, <2>8
<1> QED
  BY <1>1, <1>8 DEF GridHolds, records, M

\* The forecast files of a protocol, one for each window.
ForecastFiles(phase, protocol, forecasts) == [n \in DOMAIN Windows(phase) |->
    <<Forecast(phase, protocol, Windows(phase)[n]), forecasts[Windows(phase)[n]]>>]

LEMMA ForecastsAreCounted ==
  ASSUME NEW phase \in {"5A", "5B"}, NEW protocol, NEW forecasts
  PROVE  /\ IsSequence(ForecastFiles(phase, protocol, forecasts))
         /\ \A e \in Entries(ForecastFiles(phase, protocol, forecasts)) :
               \E n \in DOMAIN Windows(phase) : e[1] = Forecast(phase, protocol, Windows(phase)[n])
<1> DEFINE csvs == ForecastFiles(phase, protocol, forecasts)
<1>1. PICK k \in Nat : DOMAIN Windows(phase) = 1 .. k
  BY WindowsAreCounted
<1>2. csvs = [n \in 1 .. k |-> csvs[n]]
  BY <1>1 DEF ForecastFiles
<1>3. \A n \in 1 .. k : csvs[n][1] = Forecast(phase, protocol, Windows(phase)[n])
  BY <1>1 DEF ForecastFiles
<1> HIDE DEF csvs
<1>4. IsSequence(csvs) /\ Len(csvs) = k
  BY <1>2, CountedIsSequence
<1> QED
  BY <1>1, <1>3, <1>4 DEF Entries, csvs

LEMMA DemandIsSound ==
  ASSUME AnalysisTypeOK, NEW phase \in {"5A", "5B"}, NEW e \in Entries(WritesOfDemand(table, phase))
  PROVE  Sound(e[1], e[2])
<1> DEFINE run == DemandRun(table, phase)
           Csvs(protocol) == [n \in DOMAIN Windows(phase) |->
              <<Forecast(phase, protocol, Windows(phase)[n]), run.rows[protocol][Windows(phase)[n]]>>]
           a == <<<<Demand(phase), run.grid>>>>
           report == [bounds |-> run.bounds, regimes |-> run.regimeDemand, train |-> run.train,
                      test |-> run.test, coverage |-> [p \in Protocols |->
                         [w \in DOMAIN run.rows[p] |-> Coverage(run.rows[p][w])]]]
           r == <<<<Report(phase), report>>>>
<1>1. WritesOfDemand(table, phase) = IF run.exits THEN <<>> ELSE a \o Csvs(Static) \o Csvs(Rolling) \o r
  BY DEF WritesOfDemand
<1>2. Entries(<<>>) = {}
  BY EntriesOfShort
<1>3. ~run.exits /\ e \in Entries(a \o Csvs(Static) \o Csvs(Rolling) \o r)
  <2> HIDE DEF run, Csvs, a, r
  <2> QED
    BY <1>1, <1>2
<1>4. GridHolds(run.grid)
  BY <1>3, GridOfRunHolds
<1> HIDE DEF report
<1>5. IsSequence(a) /\ Entries(a) = {<<Demand(phase), run.grid>>}
  BY ShortSequences, EntriesOfShort
<1>6. IsSequence(r) /\ Entries(r) = {<<Report(phase), report>>}
  BY ShortSequences, EntriesOfShort
<1>7. ASSUME NEW protocol
      PROVE  /\ IsSequence(Csvs(protocol))
             /\ \A x \in Entries(Csvs(protocol)) : \E window : x[1] = Forecast(phase, protocol, window)
  <2>1. Csvs(protocol) = ForecastFiles(phase, protocol, run.rows[protocol])
    BY DEF ForecastFiles
  <2> HIDE DEF run, Csvs
  <2> QED
    BY <2>1, ForecastsAreCounted
<1> HIDE DEF run, Csvs, a, r
<1>8. e \in Entries(a) \cup Entries(Csvs(Static)) \cup Entries(Csvs(Rolling)) \cup Entries(r)
  <2> DEFINE b == a \o Csvs(Static)
             c == b \o Csvs(Rolling)
  <2>1. IsSequence(b) /\ Entries(b) \subseteq Entries(a) \cup Entries(Csvs(Static))
    BY <1>5, <1>7, ConcatIsSequence, EntriesOfConcat
  <2> HIDE DEF b
  <2>2. IsSequence(c) /\ Entries(c) \subseteq Entries(b) \cup Entries(Csvs(Rolling))
    BY <1>7, <2>1, ConcatIsSequence, EntriesOfConcat
  <2> HIDE DEF c
  <2>3. Entries(c \o r) \subseteq Entries(c) \cup Entries(r)
    BY <1>6, <2>2, EntriesOfConcat
  <2> QED
    BY <1>3, <2>1, <2>2, <2>3 DEF b, c
<1>9. CASE e = <<Demand(phase), run.grid>>
  BY <1>4, <1>9 DEF Sound, FeatureFiles, HoldoutReports, FeaturesAll, FeaturesTrain, FeaturesVal, Report, Demand
<1>10. CASE e = <<Report(phase), report>>
  BY <1>10, OtherFilesAreSound
<1>11. CASE \E protocol, window : e[1] = Forecast(phase, protocol, window)
  <2>1. PICK protocol, window : e[1] = Forecast(phase, protocol, window)
    BY <1>11
  <2>2. e[1] \notin FeatureFiles /\ e[1] \notin HoldoutReports /\ e[1] \notin {Demand("5A"), Demand("5B")}
    BY <2>1 DEF FeatureFiles, HoldoutReports, FeaturesAll, FeaturesTrain, FeaturesVal, Report, Demand, Forecast
  <2> QED
    BY <2>2 DEF Sound, HoldoutReports
<1> QED
  BY <1>5, <1>6, <1>7, <1>8, <1>9, <1>10, <1>11

FilesHold == PhaseInv /\ FilesAreSound

\* All that a script may go on to write holds, if what it reads does.
LEMMA OutcomesAreSound ==
  ASSUME FilesHold, NEW phase \in Phases, Needs(phase) \subseteq DOMAIN files,
         NEW todo \in Outcomes(phase), NEW e \in Entries(todo)
  PROVE  /\ Sound(e[1], e[2])
         /\ e[1] = HeuristicVal =>
               FeaturesVal \in DOMAIN files /\ ScoredRowsOf(e[2], files[FeaturesVal].content)
<1> DEFINE train == files[FeaturesTrain].content
           val == files[FeaturesVal].content
<1>1. AnalysisTypeOK /\ \A f \in DOMAIN files : Sound(f, files[f].content)
  BY DEF FilesHold, PhaseInv, FilesAreSound
<1>2. phase \in {"4B", "4C", "4D", "4E"} =>
         /\ FeaturesTrain \in DOMAIN files /\ FeaturesVal \in DOMAIN files
         /\ RowsOfTable(train) /\ OnItsSide(FeaturesTrain, train)
         /\ RowsOfTable(val) /\ OnItsSide(FeaturesVal, val) /\ IsSequence(val)
  BY <1>1 DEF Needs, Sound, FeatureFiles, RowsOfTable
<1>3. e[1] = HeuristicVal => phase = "4B"
  <2>1. e[1] \in Named(todo)
    BY DEF Entries, Named
  <2>2. e[1] \in FilesOf(phase)
    BY <2>1, OutcomesArePlanned DEF Planned
  <2>3. e[1][1] = phase
    BY <2>2, FilesAreOfPhase
  <2> QED
    BY <2>3 DEF HeuristicVal
<1>4. CASE phase = "4A"
  BY <1>1, <1>3, <1>4, FeaturesAreSound DEF Outcomes
<1>5. CASE phase = "4B"
  <2>1. todo = Writes4B(train, val)
    BY <1>5 DEF Outcomes
  <2> HIDE DEF train, val
  <2>2. Sound(e[1], e[2]) /\ (e[1] = HeuristicVal => ScoredRowsOf(e[2], val))
    BY <1>2, <1>5, <2>1, HeuristicIsSound
  <2> QED
    BY <1>2, <1>5, <2>2 DEF val
<1>6. CASE phase = "4C"
  <2>1. todo = Writes4C(train, val)
    BY <1>6 DEF Outcomes
  <2>2. HeuristicVal \in DOMAIN files /\ files[HeuristicVal].from = files[FeaturesVal].run =>
           ScoredRowsOf(files[HeuristicVal].content, val)
    BY <1>2, <1>6 DEF FilesHold, FilesAreSound
  <2> HIDE DEF train, val
  <2>3. Sound(e[1], e[2])
    BY <1>1, <1>2, <1>6, <2>1, <2>2, ComparedIsSound
  <2> QED
    BY <1>3, <1>6, <2>3
<1>7. CASE phase \in {"4D", "4E"}
  <2>1. todo = <<>> \/ todo = <<<<Report(phase), Fit(train, val)>>>>
    BY <1>7 DEF Outcomes, Writes4D, Writes4E
  <2>2. e = <<Report(phase), Fit(train, val)>>
    BY <2>1, EntriesOfShort
  <2> HIDE DEF train, val
  <2>3. LoanSet(train) \cap LoanSet(val) = {}
    BY <1>1, <1>2, <1>7, SidesAreDisjoint DEF OnItsSide
  <2>4. Sound(Report(phase), Fit(train, val))
    BY <1>1, <1>7, <2>3, FitIsSound
  <2> QED
    BY <1>3, <1>7, <2>2, <2>4
<1>8. CASE phase = "4F"
  <2> DEFINE rows == files[FeaturesAll].content
  <2>1. todo = Writes4F(rows)
    BY <1>8 DEF Outcomes
  <2>2. RowsOfTable(rows)
    BY <1>1, <1>8 DEF Needs, Sound, FeatureFiles
  <2> HIDE DEF rows
  <2> QED
    BY <1>1, <1>3, <1>8, <2>1, <2>2, CalibrationIsSound
<1>9. CASE phase \in {"5A", "5B"}
  <2>1. todo = WritesOfDemand(table, phase)
    BY <1>9 DEF Outcomes
  <2> QED
    BY <1>1, <1>3, <1>9, <2>1, DemandIsSound
<1> QED
  BY <1>4, <1>5, <1>6, <1>7, <1>8, <1>9 DEF Phases

-----------------------------------------------------------------------------
(* Circulation cannot make what was written untrue.                          *)

\* Loans are only added, of today, and neither their item nor their day changes.
TableGrows ==
    /\ today \in Nat /\ today' \in Nat /\ today <= today'
    /\ DOMAIN table \subseteq DOMAIN table'
    /\ \A i \in DOMAIN table :
          table'[i].borrowed = table[i].borrowed /\ table'[i].item = table[i].item
    /\ \A i \in DOMAIN table' \ DOMAIN table : table'[i].borrowed = today

LEMMA CirculationGrows ==
  ASSUME AnalysisTypeOK,
         \/ \E student \in Student, item \in DOMAIN ItemType : Lend(student, item)
         \/ \E id \in DOMAIN table : TakeBack(id)
         \/ NextDay
  PROVE  TableGrows /\ UNCHANGED <<files, job>>
<1>1. /\ today \in Nat
      /\ \A i \in DOMAIN table : table[i] \in [student : Student, item : DOMAIN ItemType,
            borrowed : 0 .. today, due : Nat, returned : (0 .. today) \cup {Null}]
  BY DEF AnalysisTypeOK, IsTable
<1>2. ASSUME NEW student \in Student, NEW item \in DOMAIN ItemType, Lend(student, item)
      PROVE  TableGrows /\ UNCHANGED <<files, job>>
  <2> DEFINE id == Cardinality(DOMAIN table) + 1
             new == [student |-> student, item |-> item, borrowed |-> today,
                     due |-> today + LOAN_DAYS, returned |-> Null]
  <2>1. /\ table' = [i \in DOMAIN table \cup {id} |-> IF i # id THEN table[i] ELSE new]
        /\ UNCHANGED <<today, files, job>>
    BY <1>2 DEF Lend
  <2>2. id \notin DOMAIN table
    <3>1. /\ IsFiniteSet(DOMAIN table) /\ DOMAIN table = 1 .. Cardinality(DOMAIN table)
      BY DEF AnalysisTypeOK, IsTable
    <3>2. Cardinality(DOMAIN table) \in Nat
      BY <3>1, FS_CardinalityType
    <3> QED
      BY <3>1, <3>2
  <2>3. new.borrowed = today
    OBVIOUS
  <2> HIDE DEF id, new
  <2>4. \A i \in DOMAIN table : table'[i] = table[i]
    BY <2>1, <2>2
  <2>5. DOMAIN table' \ DOMAIN table = {id} /\ table'[id] = new
    BY <2>1, <2>2
  <2> QED
    BY <1>1, <2>1, <2>3, <2>4, <2>5 DEF TableGrows
<1>3. ASSUME NEW id \in DOMAIN table, TakeBack(id)
      PROVE  TableGrows /\ UNCHANGED <<files, job>>
  <2>1. table' = [table EXCEPT ![id].returned = today] /\ UNCHANGED <<today, files, job>>
    BY <1>3 DEF TakeBack
  <2>2. DOMAIN table' = DOMAIN table
    BY <2>1
  <2>3. ASSUME NEW i \in DOMAIN table
        PROVE  table'[i].borrowed = table[i].borrowed /\ table'[i].item = table[i].item
    <3>1. table'[i] = table[i] \/ table'[i] = [table[i] EXCEPT !.returned = today]
      BY <2>1
    <3> QED
      BY <1>1, <3>1
  <2> QED
    BY <1>1, <2>1, <2>2, <2>3 DEF TableGrows
<1>4. ASSUME NextDay PROVE TableGrows /\ UNCHANGED <<files, job>>
  BY <1>1, <1>4 DEF NextDay, TableGrows
<1> QED
  BY <1>2, <1>3, <1>4

LEMMA RowsStayOfTable ==
  ASSUME TableGrows, NEW rows, RowsOfTable(rows)
  PROVE  RowsOfTable(rows)'
BY DEF TableGrows, RowsOfTable

LEMMA GridStays ==
  ASSUME AnalysisTypeOK, AnalysisTypeOK', TableGrows, NEW grid, GridHolds(grid)
  PROVE  GridHolds(grid)'
<1> DEFINE old == LoadBorrowData(table)
           new == LoadBorrowData(table')
           last == LastMonth({k[1] : k \in DOMAIN grid})
           Cell(k) == [month |-> k[1], series |-> k[2]]
<1>1. /\ DOMAIN old = {j \in DOMAIN table : table[j].item # Null}
      /\ \A i \in DOMAIN old : old[i] =
            [month |-> MonthKey(table[i].borrowed), series |-> SeriesKey(table[i].item)]
      /\ DOMAIN new = {j \in DOMAIN table' : table'[j].item # Null}
      /\ \A i \in DOMAIN new : new[i] =
            [month |-> MonthKey(table'[i].borrowed), series |-> SeriesKey(table'[i].item)]
  BY DEF LoadBorrowData, ClassifyBorrowRow
<1> HIDE DEF old, new
<1>2. /\ \A i \in DOMAIN old : i \in DOMAIN new /\ new[i] = old[i]
      /\ \A i \in DOMAIN new : i \notin DOMAIN old => new[i].month = MonthKey(today)
  <2>1. ASSUME NEW i \in DOMAIN old PROVE i \in DOMAIN new /\ new[i] = old[i]
    <3>1. i \in DOMAIN table /\ i \in DOMAIN table' /\ table'[i].borrowed = table[i].borrowed
          /\ table'[i].item = table[i].item
      BY <1>1 DEF TableGrows
    <3> QED
      BY <1>1, <3>1
  <2>2. ASSUME NEW i \in DOMAIN new, i \notin DOMAIN old PROVE new[i].month = MonthKey(today)
    <3>1. i \in DOMAIN table' /\ i \notin DOMAIN table
      BY <1>1, <2>2 DEF TableGrows
    <3>2. table'[i].borrowed = today
      BY <3>1 DEF TableGrows
    <3>3. new[i] = [month |-> MonthKey(table'[i].borrowed), series |-> SeriesKey(table'[i].item)]
      BY <1>1, <2>2
    <3>4. new[i].month = MonthKey(table'[i].borrowed)
      BY <3>3
    <3> QED
      BY <3>2, <3>4
  <2> QED
    BY <2>1, <2>2
<1>3. Months(old) \subseteq Months(new)
  BY <1>2 DEF Months
<1>4. /\ MonthKey(today) \in Month /\ MonthKey(today') \in Month
      /\ CompareMonths(MonthKey(today), MonthKey(today')) <= 0
  BY DaysInOrder DEF TableGrows
<1>5. \A k \in DOMAIN grid :
         /\ k[1] \in Month /\ last \in Month
         /\ CompareMonths(k[1], last) <= 0 /\ CompareMonths(last, MonthKey(today)) <= 0
         /\ \E m \in Months(old) : CompareMonths(m, k[1]) <= 0
         /\ \E m \in Months(old) : CompareMonths(k[1], m) <= 0
         /\ k[1] # last => grid[k] = Cardinality({i \in DOMAIN old : old[i] = Cell(k)})
  BY DEF GridHolds, old
<1> HIDE DEF last
<1>6. ASSUME NEW k \in DOMAIN grid
      PROVE  /\ CompareMonths(last, MonthKey(today')) <= 0
             /\ k[1] # last => k[1] # MonthKey(today)
  <2>1. k[1] \in Month /\ last \in Month
    BY <1>5
  <2>2. /\ Total(k[1]) \in Int /\ Total(last) \in Int /\ Total(MonthKey(today)) \in Int
        /\ Total(MonthKey(today')) \in Int /\ Key(Total(k[1])) = k[1] /\ Key(Total(last)) = last
    BY <1>4, <2>1, TotalOfKey
  <2>3. /\ Total(k[1]) - Total(last) <= 0 /\ Total(last) - Total(MonthKey(today)) <= 0
        /\ Total(MonthKey(today)) - Total(MonthKey(today')) <= 0
    BY <1>4, <1>5 DEF CompareMonths
  <2>4. Total(last) - Total(MonthKey(today')) <= 0
    BY <2>2, <2>3
  <2>5. k[1] = MonthKey(today) => Total(k[1]) = Total(last)
    BY <2>2, <2>3
  <2> QED
    BY <2>2, <2>4, <2>5 DEF CompareMonths
<1>7. ASSUME NEW k \in DOMAIN grid, k[1] # last
      PROVE  {i \in DOMAIN new : new[i] = Cell(k)} = {i \in DOMAIN old : old[i] = Cell(k)}
  <2>1. Cell(k).month = k[1]
    OBVIOUS
  <2>2. k[1] # MonthKey(today)
    BY <1>6, <1>7
  <2> HIDE DEF Cell
  <2>3. \A i \in DOMAIN new : new[i] = Cell(k) => i \in DOMAIN old
    BY <1>2, <2>1, <2>2
  <2> QED
    BY <1>2, <2>3
<1> HIDE DEF Cell
<1>8. \A k \in DOMAIN grid :
         /\ k[1] \in Month /\ last \in Month
         /\ CompareMonths(k[1], last) <= 0 /\ CompareMonths(last, MonthKey(today')) <= 0
         /\ \E m \in Months(new) : CompareMonths(m, k[1]) <= 0
         /\ \E m \in Months(new) : CompareMonths(k[1], m) <= 0
         /\ k[1] # last => grid[k] = Cardinality({i \in DOMAIN new : new[i] = Cell(k)})
  BY <1>3, <1>5, <1>6, <1>7
<1> QED
  BY <1>8 DEF GridHolds, new, last, Cell

LEMMA CirculationKeepsContent ==
  ASSUME FilesHold, AnalysisTypeOK', TableGrows, UNCHANGED files
  PROVE  FilesAreSound'
<1>1. ASSUME NEW file, NEW content, Sound(file, content) PROVE Sound(file, content)'
  BY <1>1, RowsStayOfTable, GridStays DEF Sound, OnItsSide, FilesHold, PhaseInv
<1>2. \A f \in DOMAIN files : Sound(f, files[f].content)'
  <2> SUFFICES ASSUME NEW f \in DOMAIN files PROVE Sound(f, files[f].content)'
    OBVIOUS
  <2>1. PICK content : content = files[f].content
    OBVIOUS
  <2>2. Sound(f, content)
    BY <2>1 DEF FilesHold, FilesAreSound
  <2>3. Sound(f, content)'
    BY <1>1, <2>2
  <2>4. files'[f].content = content
    BY <2>1
  <2> QED
    BY <2>3, <2>4
<1> QED
  BY <1>2 DEF FilesHold, FilesAreSound, ScoredRowsOf

-----------------------------------------------------------------------------
(* The scripts keep what was written true.                                   *)

ContentInv == FilesHold /\ (job # Null => JobIsSound(job))

\* A file of rows that was cut is one of fewer rows, each where it was.
LEMMA CutKeepsRows ==
  ASSUME NEW rows, IsSequence(rows), NEW n \in 0 .. Len(rows)
  PROVE  LET cut == SubSeq(rows, 1, n)
         IN  /\ IsSequence(cut) /\ Len(cut) = n /\ n <= Len(rows)
             /\ \A k \in 1 .. n : cut[k] = rows[k] /\ k \in 1 .. Len(rows)
<1> DEFINE S == {rows[k] : k \in 1 .. Len(rows)}
<1>1. Len(rows) \in Nat /\ n \in Int /\ \A k \in 1 .. n : k \in 1 .. Len(rows) /\ rows[k] \in S
  BY SequenceDomain
<1> HIDE DEF S
<1>2. /\ SubSeq(rows, 1, n) \in Seq(S)
      /\ Len(SubSeq(rows, 1, n)) = IF 1 <= n THEN n - 1 + 1 ELSE 0
      /\ \A k \in 1 .. n - 1 + 1 : SubSeq(rows, 1, n)[k] = rows[1 + k - 1]
  BY <1>1, SubSeqProperties
<1> QED
  BY <1>1, <1>2 DEF IsSequence

LEMMA CutIsSound ==
  ASSUME NEW file \in FeatureFiles \cup {HeuristicVal}, NEW rows, IsSequence(rows), Sound(file, rows),
         NEW n \in 0 .. Len(rows)
  PROVE  Sound(file, SubSeq(rows, 1, n))
<1>1. PICK cut : cut = SubSeq(rows, 1, n)
  OBVIOUS
<1>2. /\ IsSequence(cut) /\ Len(cut) = n
      /\ \A k \in 1 .. n : cut[k] = rows[k] /\ k \in 1 .. Len(rows)
  BY <1>1, CutKeepsRows
<1>3. CASE file \in FeatureFiles
  <2>1. RowsOfTable(rows) /\ OnItsSide(file, rows)
    BY <1>3 DEF Sound
  <2>2. RowsOfTable(cut) /\ OnItsSide(file, cut)
    BY <1>2, <2>1 DEF RowsOfTable, OnItsSide
  <2> QED
    BY <1>1, <1>3, <2>2 DEF Sound, FeatureFiles, HoldoutReports, FeaturesAll, FeaturesTrain, FeaturesVal,
                            Report, Demand
<1>4. CASE file = HeuristicVal
  BY <1>4, OtherFilesAreSound
<1> QED
  BY <1>3, <1>4

\* What holds goes on to hold while the table stays as it is.
LEMMA SoundStays ==
  ASSUME UNCHANGED <<table, today>>, NEW file, NEW content, Sound(file, content)
  PROVE  Sound(file, content)'
BY DEF Sound, RowsOfTable, OnItsSide, GridHolds

\* A file is written of which what is to hold is known.
LEMMA ContentIsWritten ==
  ASSUME ContentInv, job # Null, NEW content, NEW file, file = Head(job.todo)[1], Put(file, content),
         UNCHANGED <<table, today>>, Sound(file, content),
         file = HeuristicVal =>
            /\ FeaturesVal \in DOMAIN files /\ files[FeaturesVal].run = job.from
            /\ ScoredRowsOf(content, files[FeaturesVal].content)
  PROVE  FilesAreSound'
<1>1. /\ DOMAIN files' = DOMAIN files \cup {file}
      /\ \A f \in DOMAIN files \ {file} : files'[f] = files[f]
      /\ file \in FilesOf(job.phase) /\ file[1] = job.phase /\ job.phase \in Phases
  BY FileIsWritten DEF ContentInv, FilesHold
<1>2. files'[file] = [run |-> job.run, from |-> job.from, content |-> content]
  BY DEF Put, Written
<1>3. /\ files'[file].run = job.run /\ files'[file].from = job.from /\ files'[file].content = content
      /\ job.from \in Nat /\ job.from < job.run /\ job.run = runs
  BY <1>2 DEF ContentInv, FilesHold, PhaseInv, JobFits, JobIsSound
<1>4. ASSUME NEW f \in DOMAIN files'
      PROVE  /\ Sound(f, files[f].content)'
             /\ files'[f].from \in Nat /\ files'[f].from < files'[f].run
  <2>1. PICK written : written = files'[f].content
    OBVIOUS
  <2>2. Sound(f, written)
    BY <1>1, <1>3, <2>1 DEF ContentInv, FilesHold, FilesAreSound
  <2>3. Sound(f, written)'
    BY <2>2, SoundStays
  <2>4. files'[f].from \in Nat /\ files'[f].from < files'[f].run
    BY <1>1, <1>3 DEF ContentInv, FilesHold, FilesAreSound
  <2> QED
    BY <2>1, <2>3, <2>4
<1>5. ASSUME HeuristicVal \in DOMAIN files', FeaturesVal \in DOMAIN files',
             files'[HeuristicVal].from = files'[FeaturesVal].run
      PROVE  ScoredRowsOf(files'[HeuristicVal].content, files'[FeaturesVal].content)
  <2>1. HeuristicVal # FeaturesVal
    BY DEF HeuristicVal, FeaturesVal
  <2>2. CASE file = HeuristicVal
    BY <1>1, <1>3, <2>1, <2>2
  <2>3. CASE file = FeaturesVal
    <3>1. HeuristicVal \in DOMAIN files /\ files'[HeuristicVal] = files[HeuristicVal]
      BY <1>1, <1>5, <2>1, <2>3
    <3>2. files[HeuristicVal].run \in 1 .. runs /\ runs \in Nat
      BY <3>1, PhaseTypes DEF ContentInv, FilesHold
    <3>3. files[HeuristicVal].from \in Nat /\ files[HeuristicVal].from < files[HeuristicVal].run
      BY <3>1 DEF ContentInv, FilesHold, FilesAreSound
    <3> QED
      BY <1>3, <1>5, <2>3, <3>1, <3>2, <3>3
  <2>4. CASE file # HeuristicVal /\ file # FeaturesVal
    <3>1. /\ HeuristicVal \in DOMAIN files /\ files'[HeuristicVal] = files[HeuristicVal]
          /\ FeaturesVal \in DOMAIN files /\ files'[FeaturesVal] = files[FeaturesVal]
      BY <1>1, <1>5, <2>4
    <3> QED
      BY <1>5, <3>1 DEF ContentInv, FilesHold, FilesAreSound
  <2> QED
    BY <2>2, <2>3, <2>4
<1> QED
  BY <1>4, <1>5 DEF FilesAreSound, ScoredRowsOf

LEMMA HeadAndTailEntries ==
  ASSUME NEW s, IsSequence(s), s # <<>>
  PROVE  Head(s) \in Entries(s) /\ Entries(Tail(s)) \subseteq Entries(s)
<1>1. PICK S : s \in Seq(S)
  BY DEF IsSequence
<1>2. /\ Len(s) \in Nat \ {0} /\ Head(s) = s[1] /\ Len(Tail(s)) = Len(s) - 1
      /\ \A k \in 1 .. Len(Tail(s)) : Tail(s)[k] = s[k + 1] /\ k + 1 \in 1 .. Len(s)
  BY <1>1, HeadTailProperties, LenProperties, EmptySeq
<1>3. 1 \in 1 .. Len(s)
  BY <1>2
<1> QED
  BY <1>2, <1>3 DEF Entries

LEMMA NextEntry ==
  ASSUME ContentInv, job # Null
  PROVE  LET e == Head(job.todo)
         IN  /\ Sound(e[1], e[2])
             /\ e[1] = HeuristicVal =>
                   /\ FeaturesVal \in DOMAIN files /\ files[FeaturesVal].run = job.from
                   /\ ScoredRowsOf(e[2], files[FeaturesVal].content)
<1>1. IsSequence(job.todo) /\ job.todo # <<>>
  BY DEF ContentInv, FilesHold, PhaseInv, JobFits, Planned
<1>2. Head(job.todo) \in Entries(job.todo)
  BY <1>1, HeadAndTailEntries
<1> QED
  BY <1>2 DEF ContentInv, JobIsSound

LEMMA WriteKeepsContent ==
  ASSUME ContentInv, Write
  PROVE  ContentInv'
<1> DEFINE file == Head(job.todo)[1]
           content == Head(job.todo)[2]
<1>1. /\ job # Null /\ Put(file, content) /\ UNCHANGED <<table, today, runs>>
      /\ job' = IF Len(job.todo) = 1 THEN Null ELSE [job EXCEPT !.todo = Tail(job.todo)]
  BY DEF Write
<1>2. PhaseInv' /\ PhaseInv /\ JobFits(job) /\ JobIsSound(job)
  BY <1>1, WriteKeeps DEF ContentInv, FilesHold, PhaseInv
<1>3. FilesAreSound'
  BY <1>1, NextEntry, ContentIsWritten
<1>4. ASSUME job' # Null PROVE JobIsSound(job)'
  <2>1. job' = [phase |-> job.phase, run |-> job.run, todo |-> Tail(job.todo), from |-> job.from]
    <3>1. job' = [job EXCEPT !.todo = Tail(job.todo)]
      BY <1>1, <1>4
    <3> QED
      BY <1>2, <3>1 DEF JobFits
  <2>2. job'.run = job.run /\ job'.todo = Tail(job.todo) /\ job'.from = job.from
    BY <2>1
  <2>3. Entries(Tail(job.todo)) \subseteq Entries(job.todo)
    BY <1>2, HeadAndTailEntries DEF JobFits, Planned
  <2>4. /\ DOMAIN files' = DOMAIN files \cup {file} /\ file[1] = job.phase
        /\ \A f \in DOMAIN files \ {file} : files'[f] = files[f]
    BY <1>1, <1>2, FileIsWritten
  <2>5. ASSUME NEW e \in Entries(Tail(job.todo))
        PROVE  /\ Sound(e[1], e[2])'
               /\ e[1] = HeuristicVal =>
                     /\ FeaturesVal \in DOMAIN files' /\ files'[FeaturesVal].run = job.from
                     /\ ScoredRowsOf(e[2], files'[FeaturesVal].content)
    <3>1. e \in Entries(job.todo)
      BY <2>3
    <3>2. Sound(e[1], e[2])'
      BY <1>1, <1>2, <3>1, SoundStays DEF JobIsSound
    <3>3. ASSUME e[1] = HeuristicVal PROVE FeaturesVal # file
      <4>1. e[1] \in Named(job.todo)
        BY <3>1 DEF Entries, Named
      <4>2. HeuristicVal[1] = job.phase
        BY <1>2, <3>3, <4>1, FilesAreOfPhase DEF JobFits, Planned
      <4> QED
        BY <2>4, <4>2 DEF HeuristicVal, FeaturesVal
    <3> QED
      BY <1>2, <2>4, <3>1, <3>2, <3>3 DEF JobIsSound
  <2>6. job.from \in Nat /\ job.from < job.run
    BY <1>2 DEF JobIsSound
  <2> QED
    BY <2>2, <2>5, <2>6 DEF JobIsSound, ScoredRowsOf
<1> QED
  BY <1>2, <1>3, <1>4 DEF ContentInv, FilesHold

LEMMA KillKeepsContent ==
  ASSUME ContentInv, Kill
  PROVE  ContentInv'
<1> DEFINE file == Head(job.todo)[1]
           content == Head(job.todo)[2]
<1>1. job # Null /\ job' = Null /\ UNCHANGED <<table, today, runs>>
  BY DEF Kill
<1>2. PhaseInv'
  BY KillKeeps DEF ContentInv, FilesHold
<1>3. CASE \/ files' = files
           \/ files' = [f \in (DOMAIN files) \ {file} |-> files[f]]
  <2>1. DOMAIN files' \subseteq DOMAIN files /\ \A f \in DOMAIN files' : files'[f] = files[f]
    BY <1>3
  <2>2. ASSUME NEW f \in DOMAIN files' PROVE Sound(f, files[f].content)'
    <3>1. PICK written : written = files'[f].content
      OBVIOUS
    <3>2. Sound(f, written)
      BY <2>1, <3>1 DEF ContentInv, FilesHold, FilesAreSound
    <3> QED
      BY <1>1, <3>1, <3>2, SoundStays
  <2>3. FilesAreSound'
    BY <2>1, <2>2 DEF ContentInv, FilesHold, FilesAreSound, ScoredRowsOf
  <2> QED
    BY <1>1, <1>2, <2>3 DEF ContentInv, FilesHold
<1>4. ASSUME file \in {FeaturesAll, FeaturesTrain, FeaturesVal, HeuristicVal},
             NEW n \in 0 .. Len(content), Put(file, SubSeq(content, 1, n))
      PROVE  ContentInv'
  <2>1. /\ Sound(file, content)
        /\ file = HeuristicVal =>
              /\ FeaturesVal \in DOMAIN files /\ files[FeaturesVal].run = job.from
              /\ ScoredRowsOf(content, files[FeaturesVal].content)
    BY <1>1, NextEntry
  <2>2. IsSequence(content)
    BY <1>4, <2>1 DEF Sound, FeatureFiles, RowsOfTable, ScoredRowsOf
  <2>3. PICK cut : cut = SubSeq(content, 1, n)
    OBVIOUS
  <2>4. Sound(file, cut)
    BY <1>4, <2>1, <2>2, <2>3, CutIsSound DEF FeatureFiles
  <2>5. ASSUME file = HeuristicVal PROVE ScoredRowsOf(cut, files[FeaturesVal].content)
    <3>1. /\ IsSequence(cut) /\ Len(cut) = n /\ n <= Len(content)
          /\ \A k \in 1 .. n : cut[k] = content[k] /\ k \in 1 .. Len(content)
      BY <2>2, <2>3, CutKeepsRows
    <3>2. PICK rows : rows = files[FeaturesVal].content
      OBVIOUS
    <3>3. /\ RowsOfTable(rows) /\ Len(rows) \in Nat /\ Len(content) \in Nat
      <4>1. Sound(FeaturesVal, rows)
        BY <2>1, <2>5, <3>2 DEF ContentInv, FilesHold, FilesAreSound
      <4>2. RowsOfTable(rows)
        BY <4>1 DEF Sound, FeatureFiles
      <4> QED
        BY <2>2, <4>2, SequenceDomain DEF RowsOfTable
    <3>4. ScoredRowsOf(content, rows)
      BY <2>1, <2>5, <3>2
    <3> HIDE DEF content
    <3>5. ScoredRowsOf(cut, rows)
      BY <3>1, <3>3, <3>4 DEF ScoredRowsOf
    <3> QED
      BY <3>2, <3>5
  <2>6. FilesAreSound'
    <3> HIDE DEF content
    <3>1. Put(file, cut)
      BY <1>4, <2>3
    <3> QED
      BY <1>1, <2>1, <2>4, <2>5, <3>1, ContentIsWritten
  <2> QED
    BY <1>1, <1>2, <2>6 DEF ContentInv, FilesHold
<1> QED
  BY <1>3, <1>4 DEF Kill

LEMMA StartKeepsContent ==
  ASSUME ContentInv, NEW phase \in Phases, Start(phase)
  PROVE  ContentInv'
<1>1. /\ runs' = runs + 1 /\ UNCHANGED <<table, today, files>>
      /\ \E todo \in IF Needs(phase) \subseteq DOMAIN files THEN Outcomes(phase) ELSE {<<>>} :
            /\ todo # <<>>
            /\ job' = [phase |-> phase, run |-> runs + 1, todo |-> todo,
                       from |-> IF FeaturesVal \in DOMAIN files THEN files[FeaturesVal].run ELSE 0]
  BY DEF Start
<1>2. PICK todo \in IF Needs(phase) \subseteq DOMAIN files THEN Outcomes(phase) ELSE {<<>>} :
         /\ todo # <<>>
         /\ job' = [phase |-> phase, run |-> runs + 1, todo |-> todo,
                    from |-> IF FeaturesVal \in DOMAIN files THEN files[FeaturesVal].run ELSE 0]
  BY <1>1
<1>3. Needs(phase) \subseteq DOMAIN files /\ todo \in Outcomes(phase)
  BY <1>2
<1>4. PICK from : from = IF FeaturesVal \in DOMAIN files THEN files[FeaturesVal].run ELSE 0
  OBVIOUS
<1>5. job'.run = runs + 1 /\ job'.todo = todo /\ job'.from = from
  BY <1>2, <1>4
<1>6. runs \in Nat /\ from \in Nat /\ from < runs + 1
  <2>1. runs \in Nat /\ \A f \in DOMAIN files : files[f].run \in 1 .. runs
    BY PhaseTypes DEF ContentInv, FilesHold
  <2> QED
    BY <1>4, <2>1
<1>7. ASSUME NEW e \in Entries(todo)
      PROVE  /\ Sound(e[1], e[2])'
             /\ e[1] = HeuristicVal =>
                   /\ FeaturesVal \in DOMAIN files /\ files[FeaturesVal].run = from
                   /\ ScoredRowsOf(e[2], files[FeaturesVal].content)
  <2>1. /\ Sound(e[1], e[2])
        /\ e[1] = HeuristicVal =>
              FeaturesVal \in DOMAIN files /\ ScoredRowsOf(e[2], files[FeaturesVal].content)
    BY <1>3, OutcomesAreSound DEF ContentInv
  <2>2. Sound(e[1], e[2])'
    BY <1>1, <2>1, SoundStays
  <2> QED
    BY <1>4, <2>1, <2>2
<1>8. JobIsSound(job)'
  BY <1>1, <1>5, <1>6, <1>7 DEF JobIsSound, ScoredRowsOf
<1>9. FilesAreSound'
  <2>1. ASSUME NEW f \in DOMAIN files PROVE Sound(f, files[f].content)'
    <3>1. PICK written : written = files[f].content
      OBVIOUS
    <3>2. Sound(f, written)
      BY <3>1 DEF ContentInv, FilesHold, FilesAreSound
    <3>3. Sound(f, written)' /\ files'[f].content = written
      BY <1>1, <3>1, <3>2, SoundStays
    <3> QED
      BY <3>3
  <2> QED
    BY <1>1, <2>1 DEF ContentInv, FilesHold, FilesAreSound, ScoredRowsOf
<1>10. PhaseInv'
  BY StartKeeps DEF ContentInv, FilesHold
<1> QED
  BY <1>8, <1>9, <1>10 DEF ContentInv, FilesHold

\* Every file goes on to hold what it held when it was written, in any order of
\* runs, over a database that goes on changing.
THEOREM ContentInvariant == PhaseSpec => []ContentInv
<1>1. PhaseInit => ContentInv
  BY PhaseAssumption DEF PhaseInit, ContentInv, FilesHold, FilesAreSound, PhaseInv, AnalysisTypeOK,
                         ReportsWrittenLast
<1>2. ContentInv /\ [PhaseNext]_phaseVars => ContentInv'
  <2> SUFFICES ASSUME ContentInv, [PhaseNext]_phaseVars PROVE ContentInv'
    OBVIOUS
  <2>1. CASE \E phase \in Phases : Start(phase)
    BY <2>1, StartKeepsContent
  <2>2. CASE Write
    BY <2>2, WriteKeepsContent
  <2>3. CASE Kill
    BY <2>3, KillKeepsContent
  <2>4. CASE \/ \E student \in Student, item \in DOMAIN ItemType : Lend(student, item)
             \/ \E id \in DOMAIN table : TakeBack(id)
             \/ NextDay
    <3>1. PhaseInv'
      BY <2>4, LendKeeps, TakeBackKeeps, NextDayKeeps DEF ContentInv, FilesHold
    <3>2. TableGrows /\ UNCHANGED <<files, job>> /\ job = Null
      <4>1. job = Null
        BY <2>4 DEF Lend, TakeBack, NextDay
      <4> QED
        BY <2>4, <4>1, CirculationGrows DEF ContentInv, FilesHold, PhaseInv
    <3>3. FilesAreSound'
      BY <3>1, <3>2, CirculationKeepsContent DEF ContentInv, PhaseInv
    <3> QED
      BY <3>1, <3>2, <3>3 DEF ContentInv, FilesHold
  <2>5. CASE UNCHANGED phaseVars
    <3>1. PhaseInv'
      BY <2>5 DEF ContentInv, FilesHold, phaseVars, PhaseInv, AnalysisTypeOK, ReportsWrittenLast, IsTable, JobFits
    <3>2. UNCHANGED <<table, today, files, job>>
      BY <2>5 DEF phaseVars
    <3>3. \A file, content : Sound(file, content) => Sound(file, content)'
      BY <3>2, SoundStays
    <3>4. FilesAreSound' /\ (job' # Null => JobIsSound(job)')
      BY <3>2, <3>3 DEF ContentInv, FilesHold, FilesAreSound, JobIsSound, ScoredRowsOf
    <3> QED
      BY <3>1, <3>4 DEF ContentInv, FilesHold
  <2> QED
    BY <2>1, <2>2, <2>3, <2>4, <2>5 DEF PhaseNext
<1> QED
  BY <1>1, <1>2, PTL DEF PhaseSpec

\* No loan that a regression was fitted on is among those it is evaluated on,
\* also where the two sides are files of runs on different days.
THEOREM HoldoutStaysUntouched == PhaseSpec => []HoldoutUntouched
<1>1. ContentInv => HoldoutUntouched
  BY DEF ContentInv, FilesHold, FilesAreSound, Sound, HoldoutReports, HoldoutUntouched
<1> QED
  BY <1>1, ContentInvariant, PTL

\* Where phase 4C says that both files were made of the same rows, each label is
\* counted with the score of its own loan, though the heuristic's file be cut.
THEOREM AlignedUnlessStale == PhaseSpec => []MisalignedOnlyIfStale
<1>1. ContentInv => MisalignedOnlyIfStale
  BY DEF ContentInv, FilesHold, FilesAreSound, Sound, MisalignedOnlyIfStale
<1> QED
  BY <1>1, ContentInvariant, PTL

\* A demand file remains true of a database that has more loans since: it may
\* count too few loans only in its last month.
THEOREM GridStaysTruthful == PhaseSpec => []GridIsTruthful
<1>1. ContentInv => GridIsTruthful
  <2> SUFFICES ASSUME ContentInv, NEW phase \in {"5A", "5B"}, Demand(phase) \in DOMAIN files,
                      NEW k \in DOMAIN files[Demand(phase)].content
               PROVE  LET grid == files[Demand(phase)].content
                          records == LoadBorrowData(table)
                          last == LastMonth({key[1] : key \in DOMAIN grid})
                      IN  /\ CompareMonths(FirstMonth(Months(records)), k[1]) <= 0
                          /\ CompareMonths(k[1], LastMonth(Months(records))) <= 0
                          /\ k[1] # last => grid[k] = Cardinality({i \in DOMAIN records :
                                records[i] = [month |-> k[1], series |-> k[2]]})
    BY DEF GridIsTruthful
  <2> DEFINE grid == files[Demand(phase)].content
             records == LoadBorrowData(table)
             M == Months(records)
             last == LastMonth({key[1] : key \in DOMAIN grid})
             count == Cardinality({i \in DOMAIN records :
                                records[i] = [month |-> k[1], series |-> k[2]]})
  <2>1. GridHolds(grid)
    BY DEF ContentInv, FilesHold, FilesAreSound, Sound
  <2>2. /\ k[1] \in Month
        /\ \E m \in M : CompareMonths(m, k[1]) <= 0
        /\ \E m \in M : CompareMonths(k[1], m) <= 0
        /\ k[1] # last => grid[k] = count
    BY <2>1 DEF GridHolds
  <2>3. M \subseteq Month /\ IsFiniteSet(M)
    BY ObservedMonths DEF ContentInv, FilesHold, PhaseInv
  <2> HIDE DEF records, grid, last, count
  <2>4. /\ FirstMonth(M) \in M /\ LastMonth(M) \in M
        /\ \A o \in M : CompareMonths(FirstMonth(M), o) <= 0 /\ CompareMonths(o, LastMonth(M)) <= 0
    BY <2>2, <2>3, ObservedRange
  <2>5. PICK a \in M, b \in M : CompareMonths(a, k[1]) <= 0 /\ CompareMonths(k[1], b) <= 0
    BY <2>2
  <2> HIDE DEF M
  <2>6. CompareMonths(FirstMonth(M), k[1]) <= 0 /\ CompareMonths(k[1], LastMonth(M)) <= 0
    <3>1. \A m \in {k[1], a, b, FirstMonth(M), LastMonth(M)} : Total(m) \in Int
      BY <2>2, <2>3, <2>4, TotalOfKey
    <3>2. /\ CompareMonths(FirstMonth(M), a) <= 0 /\ CompareMonths(a, k[1]) <= 0
          /\ CompareMonths(k[1], b) <= 0 /\ CompareMonths(b, LastMonth(M)) <= 0
      BY <2>4, <2>5
    <3> QED
      BY <3>1, <3>2 DEF CompareMonths
  <2> QED
    BY <2>2, <2>6 DEF M, records, grid, last, count
<1> QED
  BY <1>1, ContentInvariant, PTL

-----------------------------------------------------------------------------
(* The area under the ROC curve.                                             *)

\* A label and a score for each row.
IsScored(labels, scores) ==
    /\ Len(labels) \in Nat /\ DOMAIN labels = 1 .. Len(labels)
    /\ Len(scores) = Len(labels) /\ DOMAIN scores = DOMAIN labels
    /\ \A i \in DOMAIN scores : scores[i] \in Int

OverdueAbove(labels, scores, v) == {i \in DOMAIN labels : labels[i] = 1 /\ scores[i] > v}
OverdueAt(labels, scores, v) == {i \in DOMAIN labels : labels[i] = 1 /\ scores[i] = v}
OnTimeAt(labels, scores, v) == {i \in DOMAIN labels : labels[i] = 0 /\ scores[i] = v}

\* The pairs of an overdue and an on-time row whose on-time row has a score of
\* these, and the score puts them in order, or does not tell them apart.
PairsIn(labels, scores, values) == {p \in (DOMAIN labels) \X (DOMAIN labels) :
    labels[p[1]] = 1 /\ labels[p[2]] = 0 /\ scores[p[2]] \in values}
Ordered(labels, scores, values) ==
    {p \in PairsIn(labels, scores, values) : scores[p[1]] > scores[p[2]]}
Tied(labels, scores, values) ==
    {p \in PairsIn(labels, scores, values) : scores[p[1]] = scores[p[2]]}
Ranks(labels, scores, values) ==
    2 * Cardinality(Ordered(labels, scores, values)) + Cardinality(Tied(labels, scores, values))

\* The loop of compute_roc_auc: the trapezoid of one score, and their sum.
Cumulated(labels, scores, label, least) ==
    Cardinality({i \in Paired(labels, scores) : labels[i] = label /\ scores[i] >= least})
Trapezoid(labels, scores, v) ==
    (Cumulated(labels, scores, 0, v) - Cumulated(labels, scores, 0, v + 1))
    * (Cumulated(labels, scores, 1, v) + Cumulated(labels, scores, 1, v + 1))
Values(labels, scores) == {scores[i] : i \in Paired(labels, scores)}
Areas(labels, scores) == CHOOSE areas : areas = [s \in SUBSET Values(labels, scores) |->
    IF s = {} THEN 0
    ELSE Trapezoid(labels, scores, CHOOSE v \in s : TRUE) + areas[s \ {CHOOSE v \in s : TRUE}]]

LEMMA AreaIsSum ==
  ASSUME NEW labels, NEW scores
  PROVE  RocArea(labels, scores) = Areas(labels, scores)[Values(labels, scores)]
  BY DEF RocArea, MapThenSumSet, MapThenFoldSet, Areas, Values, Trapezoid, Cumulated

LEMMA AllArePaired ==
  ASSUME NEW labels, NEW scores, IsScored(labels, scores)
  PROVE  /\ Paired(labels, scores) = DOMAIN labels /\ IsFiniteSet(DOMAIN labels)
         /\ DOMAIN labels \subseteq Nat
<1> DEFINE n == Len(labels)
<1>1. n \in Nat /\ DOMAIN labels = 1 .. n
  BY DEF IsScored
<1>2. Min({n, n}) = n
  <2>1. {n, n} = {n} /\ n <= n
    BY <1>1
  <2> HIDE DEF n
  <2> QED
    BY <1>1, <2>1 DEF Min
<1>3. Paired(labels, scores) = 1 .. n
  BY <1>2 DEF Paired, IsScored
<1> HIDE DEF n
<1>4. IsFiniteSet(1 .. n)
  BY <1>1, FS_Interval
<1> QED
  BY <1>1, <1>3, <1>4

\* A trapezoid counts the pairs of its on-time rows.
LEMMA TrapezoidIsPairs ==
  ASSUME NEW labels, NEW scores, IsScored(labels, scores), NEW v \in Int
  PROVE  LET above == Cardinality(OverdueAbove(labels, scores, v))
             at == Cardinality(OverdueAt(labels, scores, v))
             onTime == Cardinality(OnTimeAt(labels, scores, v))
         IN  /\ above \in Nat /\ at \in Nat /\ onTime \in Nat
             /\ IsFiniteSet(OverdueAbove(labels, scores, v))
             /\ IsFiniteSet(OverdueAt(labels, scores, v)) /\ IsFiniteSet(OnTimeAt(labels, scores, v))
             /\ Trapezoid(labels, scores, v) = 2 * (above * onTime) + at * onTime
<1> DEFINE D == DOMAIN labels
           A == OverdueAbove(labels, scores, v)
           E == OverdueAt(labels, scores, v)
           N == OnTimeAt(labels, scores, v)
           From(label, least) == {i \in D : labels[i] = label /\ scores[i] >= least}
<1>1. IsFiniteSet(D) /\ \A i \in D : scores[i] \in Int
  BY AllArePaired DEF IsScored
<1>2. /\ Cumulated(labels, scores, 0, v) = Cardinality(From(0, v))
      /\ Cumulated(labels, scores, 0, v + 1) = Cardinality(From(0, v + 1))
      /\ Cumulated(labels, scores, 1, v) = Cardinality(From(1, v))
      /\ Cumulated(labels, scores, 1, v + 1) = Cardinality(From(1, v + 1))
  BY AllArePaired DEF Cumulated
<1>3. /\ From(0, v) = From(0, v + 1) \cup N /\ From(0, v + 1) \cap N = {}
      /\ From(1, v + 1) = A /\ From(1, v) = A \cup E /\ A \cap E = {}
  BY <1>1 DEF OverdueAbove, OverdueAt, OnTimeAt
<1>4. /\ A \in SUBSET D /\ E \in SUBSET D /\ N \in SUBSET D /\ From(0, v + 1) \in SUBSET D
  BY DEF OverdueAbove, OverdueAt, OnTimeAt
<1> DEFINE L == From(0, v + 1)
<1> HIDE DEF D, A, E, N, L, From
<1>5. IsFiniteSet(A) /\ IsFiniteSet(E) /\ IsFiniteSet(N) /\ IsFiniteSet(L)
  BY <1>1, <1>4, FS_Subset DEF L
<1>6. /\ Cardinality(A) \in Nat /\ Cardinality(E) \in Nat /\ Cardinality(N) \in Nat
      /\ Cardinality(L) \in Nat
  BY <1>5, FS_CardinalityType
<1>7. Cardinality(A \cup E) = Cardinality(A) + Cardinality(E) - 0
  BY <1>3, <1>5, FS_Union, FS_EmptySet
<1>8. Cardinality(L \cup N) = Cardinality(L) + Cardinality(N) - 0
  BY <1>3, <1>5, FS_Union, FS_EmptySet DEF L
<1>9. Trapezoid(labels, scores, v) =
         (Cardinality(L \cup N) - Cardinality(L)) * (Cardinality(A \cup E) + Cardinality(A))
  BY <1>2, <1>3 DEF Trapezoid, L
<1>10. \A a, e, k, l \in Nat :
          ((l + k - 0) - l) * ((a + e - 0) + a) = 2 * (a * k) + e * k
  OBVIOUS
<1>11. Trapezoid(labels, scores, v) =
          2 * (Cardinality(A) * Cardinality(N)) + Cardinality(E) * Cardinality(N)
  BY <1>6, <1>7, <1>8, <1>9, <1>10
<1> QED
  BY <1>5, <1>6, <1>11 DEF A, E, N

\* Adding a score adds the pairs of its on-time rows.
LEMMA RanksGrow ==
  ASSUME NEW labels, NEW scores, IsScored(labels, scores),
         NEW s, s \subseteq Int, NEW v \in s
  PROVE  /\ Ranks(labels, scores, s \ {v}) \in Nat
         /\ Ranks(labels, scores, s) = Trapezoid(labels, scores, v) + Ranks(labels, scores, s \ {v})
<1> DEFINE D == DOMAIN labels
           A == OverdueAbove(labels, scores, v)
           E == OverdueAt(labels, scores, v)
           N == OnTimeAt(labels, scores, v)
           t == s \ {v}
           O == Ordered(labels, scores, t)
           T == Tied(labels, scores, t)
<1>1. IsFiniteSet(D) /\ \A i \in D : scores[i] \in Int
  BY AllArePaired DEF IsScored
<1>2. /\ Cardinality(A) \in Nat /\ Cardinality(E) \in Nat /\ Cardinality(N) \in Nat
      /\ IsFiniteSet(A) /\ IsFiniteSet(E) /\ IsFiniteSet(N)
      /\ Trapezoid(labels, scores, v) = 2 * (Cardinality(A) * Cardinality(N)) + Cardinality(E) * Cardinality(N)
  BY TrapezoidIsPairs
<1>3. Ordered(labels, scores, s) = O \cup (A \X N) /\ O \cap (A \X N) = {}
  BY DEF Ordered, PairsIn, OverdueAbove, OnTimeAt
<1>4. Tied(labels, scores, s) = T \cup (E \X N) /\ T \cap (E \X N) = {}
  BY DEF Tied, PairsIn, OverdueAt, OnTimeAt
<1>5. O \in SUBSET (D \X D) /\ T \in SUBSET (D \X D)
  BY DEF Ordered, Tied, PairsIn
<1>6. Ranks(labels, scores, t) = 2 * Cardinality(O) + Cardinality(T)
  BY DEF Ranks
<1>7. Ranks(labels, scores, s) = 2 * Cardinality(O \cup (A \X N)) + Cardinality(T \cup (E \X N))
  BY <1>3, <1>4 DEF Ranks
<1> HIDE DEF D, A, E, N, t, O, T
<1>8. IsFiniteSet(D \X D)
  BY <1>1, FS_Product
<1>9. IsFiniteSet(O) /\ IsFiniteSet(T)
  BY <1>5, <1>8, FS_Subset
<1>10. Cardinality(O) \in Nat /\ Cardinality(T) \in Nat
  BY <1>9, FS_CardinalityType
<1>11. /\ IsFiniteSet(A \X N) /\ Cardinality(A \X N) = Cardinality(A) * Cardinality(N)
       /\ IsFiniteSet(E \X N) /\ Cardinality(E \X N) = Cardinality(E) * Cardinality(N)
  BY <1>2, FS_Product
<1>12. Cardinality(O \cup (A \X N)) = Cardinality(O) + Cardinality(A) * Cardinality(N) - 0
  BY <1>3, <1>9, <1>11, FS_Union, FS_EmptySet
<1>13. Cardinality(T \cup (E \X N)) = Cardinality(T) + Cardinality(E) * Cardinality(N) - 0
  BY <1>4, <1>9, <1>11, FS_Union, FS_EmptySet
<1>14. \A o, u, p, q \in Nat : 2 * (o + p - 0) + (u + q - 0) = (2 * p + q) + (2 * o + u)
  OBVIOUS
<1>15. Cardinality(A) * Cardinality(N) \in Nat /\ Cardinality(E) * Cardinality(N) \in Nat
  BY <1>2
<1>16. Ranks(labels, scores, s) = Trapezoid(labels, scores, v) + Ranks(labels, scores, t)
  <2>1. Ranks(labels, scores, s) =
           2 * (Cardinality(O) + Cardinality(A) * Cardinality(N) - 0)
           + (Cardinality(T) + Cardinality(E) * Cardinality(N) - 0)
    BY <1>7, <1>12, <1>13
  <2>2. 2 * (Cardinality(O) + Cardinality(A) * Cardinality(N) - 0)
           + (Cardinality(T) + Cardinality(E) * Cardinality(N) - 0)
        = (2 * (Cardinality(A) * Cardinality(N)) + Cardinality(E) * Cardinality(N))
           + (2 * Cardinality(O) + Cardinality(T))
    BY <1>10, <1>14, <1>15
  <2> QED
    BY <1>2, <1>6, <2>1, <2>2
<1> QED
  BY <1>6, <1>10, <1>16 DEF t

\* The trapezoids of any scores count the pairs of their on-time rows: shown for
\* a least set of scores that would do otherwise.
LEMMA AreasAreRanks ==
  ASSUME NEW labels, NEW scores, IsScored(labels, scores)
  PROVE  Areas(labels, scores)[Values(labels, scores)] = Ranks(labels, scores, Values(labels, scores))
<1> DEFINE V == Values(labels, scores)
           areas == Areas(labels, scores)
           Rank(s) == Ranks(labels, scores, s)
           Area(v) == Trapezoid(labels, scores, v)
           Taken(s) == CHOOSE v \in s : TRUE
           Sums(f) == f = [s \in SUBSET V |-> IF s = {} THEN 0 ELSE Area(Taken(s)) + f[s \ {Taken(s)}]]
           ranks == [s \in SUBSET V |-> Rank(s)]
<1>1. V \subseteq Int /\ IsFiniteSet(V)
  <2>1. V = {scores[i] : i \in DOMAIN labels}
    BY AllArePaired DEF Values
  <2>2. IsFiniteSet(DOMAIN labels)
    BY AllArePaired
  <2> DEFINE f == [i \in DOMAIN labels |-> scores[i]]
  <2>3. f \in Surjection(DOMAIN labels, V)
    BY <2>1 DEF Surjection
  <2> HIDE DEF f
  <2>4. IsFiniteSet(V)
    BY <2>2, <2>3, FS_Surjection
  <2> QED
    BY <2>1, <2>4 DEF IsScored
<1>2. Rank({}) = 0
  <2>1. Ordered(labels, scores, {}) = {} /\ Tied(labels, scores, {}) = {}
    BY DEF Ordered, Tied, PairsIn
  <2>2. Cardinality({}) = 0
    BY FS_EmptySet
  <2>3. Rank({}) = 2 * 0 + 0
    BY <2>1, <2>2 DEF Ranks
  <2> QED
    BY <2>3
<1>3. ASSUME NEW s \in SUBSET V, s # {}
      PROVE  Taken(s) \in s /\ Rank(s) = Area(Taken(s)) + Rank(s \ {Taken(s)})
  <2>1. Taken(s) \in s
    BY <1>3
  <2> HIDE DEF Taken
  <2> QED
    BY <1>1, <2>1, RanksGrow
<1>4. areas = CHOOSE f : Sums(f)
  BY DEF Areas
<1> HIDE DEF V, areas, Rank, Area, Taken
<1>5. \A s \in SUBSET V : ranks[s] = Rank(s) /\ s \ {Taken(s)} \in SUBSET V
  OBVIOUS
<1>6. Sums(ranks)
  <2>1. \A s \in SUBSET V :
           ranks[s] = IF s = {} THEN 0 ELSE Area(Taken(s)) + ranks[s \ {Taken(s)}]
    BY <1>2, <1>3, <1>5
  <2>2. ranks = [s \in SUBSET V |-> ranks[s]]
    OBVIOUS
  <2> HIDE DEF ranks
  <2> QED
    BY <2>1, <2>2
<1>7. Sums(areas)
  <2> HIDE DEF Sums
  <2> QED
    BY <1>4, <1>6
<1>8. \A s \in SUBSET V : areas[s] = IF s = {} THEN 0 ELSE Area(Taken(s)) + areas[s \ {Taken(s)}]
  BY <1>7
<1> HIDE DEF Sums, ranks
<1> DEFINE Wrong == {s \in FiniteSubsetsOf(V) : areas[s] # Rank(s)}
<1>9. Wrong = {}
  <2> SUFFICES ASSUME Wrong # {} PROVE FALSE
    OBVIOUS
  <2>1. PICK s \in Wrong : \A t \in Wrong : ~(<<t, s>> \in StrictSubsetOrdering(V))
    <3>1. IsWellFoundedOn(StrictSubsetOrdering(V), FiniteSubsetsOf(V))
      BY FS_StrictSubsetOrderingWellFounded
    <3>2. Wrong \subseteq FiniteSubsetsOf(V)
      OBVIOUS
    <3> HIDE DEF Wrong
    <3> QED
      BY <3>1, <3>2, WFMin
  <2>2. s \in SUBSET V /\ IsFiniteSet(s) /\ areas[s] # Rank(s)
    BY DEF FiniteSubsetsOf
  <2>3. s # {}
    BY <1>2, <1>8, <2>2
  <2>4. Taken(s) \in s
    BY <1>3, <2>2, <2>3
  <2>5. IsFiniteSet(s \ {Taken(s)}) /\ s \ {Taken(s)} \in SUBSET V /\ s \ {Taken(s)} # s
    BY <2>2, <2>4, FS_RemoveElement
  <2>6. areas[s \ {Taken(s)}] = Rank(s \ {Taken(s)})
    BY <2>1, <2>2, <2>5 DEF FiniteSubsetsOf, StrictSubsetOrdering
  <2> QED
    BY <1>3, <1>8, <2>2, <2>3, <2>6
<1>10. V \in FiniteSubsetsOf(V)
  BY <1>1 DEF FiniteSubsetsOf
<1>11. areas[V] = Rank(V)
  BY <1>9, <1>10
<1> QED
  BY <1>11 DEF areas, V, Rank

\* The trapezoids of compute_roc_auc add up to the pairs of an overdue and an
\* on-time row that the score puts in order, ties one half, for all rows whatever.
THEOREM AreaIsRankedPairs ==
  ASSUME NEW labels, NEW scores, IsScored(labels, scores)
  PROVE  RocArea(labels, scores) = RankedPairs(labels, scores)
<1> DEFINE V == Values(labels, scores)
<1>1. V = {scores[i] : i \in DOMAIN labels}
  BY AllArePaired DEF Values
<1>2. RocArea(labels, scores) = Ranks(labels, scores, V)
  BY AreaIsSum, AreasAreRanks
<1> DEFINE all == {p \in (DOMAIN labels) \X (DOMAIN labels) : labels[p[1]] = 1 /\ labels[p[2]] = 0}
<1>3. PairsIn(labels, scores, V) = all
  BY <1>1 DEF PairsIn
<1>4. /\ Ordered(labels, scores, V) = {p \in all : scores[p[1]] > scores[p[2]]}
      /\ Tied(labels, scores, V) = {p \in all : scores[p[1]] = scores[p[2]]}
  BY <1>3 DEF Ordered, Tied
<1>5. RankedPairs(labels, scores) =
         2 * Cardinality(Ordered(labels, scores, V)) + Cardinality(Tied(labels, scores, V))
  BY <1>4 DEF RankedPairs
<1> QED
  BY <1>2, <1>5 DEF Ranks

-----------------------------------------------------------------------------
(* The report of phase 4B and the scores that it is of.                      *)

ScoresOf(rows) == [n \in DOMAIN rows |-> rows[n].score]

RanksIn(report, scored) == report.val.auc =
    <<RankedPairs(Labels(scored), ScoresOf(scored)), 2 * Positives(scored) * Negatives(scored)>>

\* Rows with all that the heuristic asks for.
Scorable(rows) == IsSequence(rows) /\ \A n \in 1 .. Len(rows) : HeuristicScore(rows[n]) \in Int

LEMMA RateIsNumber == \A n, d \in Nat : Rounded(n, d, 10000) \in Int
<1> SUFFICES ASSUME NEW n \in Nat, NEW d \in Nat PROVE Rounded(n, d, 10000) \in Int
  OBVIOUS
<1>1. CASE d = 0
  BY <1>1 DEF Rounded
<1>2. CASE d # 0
  <2> DEFINE a == 2 * n * 10000 + d
             b == 2 * d
  <2>1. a \in Int /\ b \in Int /\ b > 0
    BY <1>2
  <2> HIDE DEF a, b
  <2>2. a \div b \in Int
    BY <2>1
  <2> QED
    BY <1>2, <2>2 DEF Rounded, a, b
<1> QED
  BY <1>1, <1>2

LEMMA ScoreOfRow ==
  ASSUME NEW loans, NEW id, IsFiniteSet(DOMAIN loans),
         loans[id].borrowed \in Int, loans[id].due \in Int
  PROVE  HeuristicScore(FeatureRow(loans, id)) \in Int
<1> DEFINE history == StudentHistory(loans, id)
           lent == ItemHistory(loans, id)
           late(ids) == Cardinality({i \in ids : Overdue(loans[i])})
           same == {i \in history : CategoryOf(loans[i].item) = CategoryOf(loans[id].item)}
           prior == HistoryFeatures(loans, id, history, lent)
           loan == LoanFeatures(loans[id])
           row == FeatureRow(loans, id)
<1>1. /\ row.priorLoanCount = prior.priorLoanCount /\ row.priorOverdueCount = prior.priorOverdueCount
      /\ row.historicalOverdueRate = prior.historicalOverdueRate
      /\ row.categoryOverdueRate = prior.categoryOverdueRate
      /\ row.loanDuration = loan.loanDuration
  <2>1. prior = PriorFeatures(loans, id)
    BY DEF PriorFeatures
  <2> HIDE DEF prior, loan
  <2> QED
    BY <2>1 DEF FeatureRow, loan
<1>2. /\ prior.priorOverdueCount = late(history)
      /\ prior.historicalOverdueRate = Rounded(late(history), Cardinality(history), 10000)
      /\ prior.categoryOverdueRate = Rounded(late(same), Cardinality(same), 10000)
  <2> HIDE DEF history, lent
  <2> QED
    BY DEF HistoryFeatures
<1>3. history \in SUBSET DOMAIN loans
  BY DEF StudentHistory, Completed
<1> HIDE DEF history, lent, prior, row
<1>4. ASSUME NEW ids \in SUBSET history PROVE Cardinality(ids) \in Nat
  BY <1>3, FS_Subset, FS_CardinalityType
<1>5. /\ late(history) \in Nat /\ Cardinality(history) \in Nat
      /\ late(same) \in Nat /\ Cardinality(same) \in Nat
  <2>1. /\ same \in SUBSET history /\ {i \in history : Overdue(loans[i])} \in SUBSET history
        /\ {i \in same : Overdue(loans[i])} \in SUBSET history
    OBVIOUS
  <2> HIDE DEF same
  <2> QED
    BY <1>4, <2>1
<1> HIDE DEF late, same
<1>6. row.historicalOverdueRate \in Int /\ row.categoryOverdueRate \in Int /\ row.priorOverdueCount \in Int
  BY <1>1, <1>2, <1>5, RateIsNumber
<1>7. row.loanDuration \in Int
  BY <1>1 DEF LoanFeatures
<1>8. OverdueBoost(row) \in Int /\ DurationBoost(row) \in Int /\ CategoryBoost(row) \in Int
  <2>1. OverdueBoost(row) \in Int
    BY <1>6 DEF OverdueBoost
  <2>2. DurationBoost(row) \in Int
    BY <1>7 DEF DurationBoost
  <2>3. CategoryBoost(row) \in Int
    BY <1>6 DEF CategoryBoost
  <2> QED
    BY <2>1, <2>2, <2>3
<1> DEFINE base == IF row.priorLoanCount = 0 THEN 3500 ELSE row.historicalOverdueRate
           sum == base + OverdueBoost(row) + DurationBoost(row) + CategoryBoost(row)
<1>9. sum \in Int
  BY <1>6, <1>8
<1>10. HeuristicScore(row) = Min({sum, 10000})
  BY DEF HeuristicScore
<1> HIDE DEF sum
<1>11. Min({sum, 10000}) \in Int
  <2>1. CASE sum <= 10000
    <3>1. \E a \in {sum, 10000} : \A b \in {sum, 10000} : a <= b
      BY <1>9, <2>1
    <3> QED
      BY <1>9, <3>1 DEF Min
  <2>2. CASE 10000 <= sum
    <3>1. \E a \in {sum, 10000} : \A b \in {sum, 10000} : a <= b
      BY <1>9, <2>2
    <3> QED
      BY <1>9, <3>1 DEF Min
  <2> QED
    BY <1>9, <2>1, <2>2
<1> QED
  BY <1>10, <1>11 DEF row

\* The rows that phase 4A writes can be scored, and so can a file of them that
\* was cut.
LEMMA ValIsScorable ==
  ASSUME AnalysisTypeOK
  PROVE  Scorable(OfSplit(BuildFeatureDataset(table), "val"))
<1> DEFINE ids == Completed(table)
           rows == BuildFeatureDataset(table)
           places == {n \in DOMAIN rows : rows[n].split = "val"}
           val == OfSplit(rows, "val")
<1>1. ASSUME NEW i \in DOMAIN table PROVE table[i].borrowed \in Int /\ table[i].due \in Int
  <2>1. table[i] \in [student : Student, item : DOMAIN ItemType, borrowed : 0 .. today, due : Nat,
                      returned : (0 .. today) \cup {Null}]
    BY DEF AnalysisTypeOK, IsTable
  <2> QED
    BY <2>1
<1>2. IsFiniteSet(DOMAIN table) /\ IsLoanTable(table)
  <2>1. IsFiniteSet(DOMAIN table) /\ DOMAIN table = 1 .. Cardinality(DOMAIN table)
    BY DEF AnalysisTypeOK, IsTable
  <2>2. Cardinality(DOMAIN table) \in Int
    BY <2>1, FS_CardinalityType
  <2> QED
    BY <1>1, <2>1, <2>2 DEF IsLoanTable
<1>3. RowsOf(rows, table, ids) /\ ids \subseteq DOMAIN table
  BY <1>2, FeatureRowsAreOfLoans
<1> HIDE DEF ids
<1>4. places \in SUBSET DOMAIN rows /\ val = Picked(rows, places)
  BY DEF OfSplit
<1> HIDE DEF rows, val, places
<1>5. ASSUME NEW n \in DOMAIN rows PROVE HeuristicScore(rows[n]) \in Int
  <2>1. IsSequence(rows) /\ n \in 1 .. Len(rows)
    BY <1>3, SequenceDomain DEF RowsOf
  <2>2. PICK i \in ids : rows[n] = FeatureRow(table, i)
    BY <1>3, <2>1 DEF RowsOf
  <2> QED
    BY <1>1, <1>2, <1>3, <2>2, ScoreOfRow
<1>6. /\ IsSequence(val)
      /\ \E place : \A k \in 1 .. Len(val) : val[k] = rows[place[k]] /\ place[k] \in places
  BY <1>3, <1>4, PickedRows DEF RowsOf
<1>7. Scorable(val)
  BY <1>4, <1>5, <1>6 DEF Scorable
<1> QED
  BY <1>7 DEF val, rows

LEMMA CutIsScorable ==
  ASSUME NEW rows, Scorable(rows), NEW n \in 0 .. Len(rows)
  PROVE  Scorable(SubSeq(rows, 1, n))
<1>1. PICK cut : cut = SubSeq(rows, 1, n)
  OBVIOUS
<1>2. /\ IsSequence(cut) /\ Len(cut) = n
      /\ \A k \in 1 .. n : cut[k] = rows[k] /\ k \in 1 .. Len(rows)
  BY <1>1, CutKeepsRows DEF Scorable
<1>3. Scorable(cut)
  BY <1>2 DEF Scorable
<1> QED
  BY <1>1, <1>3

\* What phase 4B reports of the scores that it wrote.
LEMMA ReportRanks ==
  ASSUME NEW val, Scorable(val), BothClasses(val), NEW train
  PROVE  RanksIn([train |-> train, val |-> HeuristicReport(HeuristicRows(val))], HeuristicRows(val))
<1> DEFINE n == Len(val)
           scored == HeuristicRows(val)
           labels == Labels(scored)
           scores == ScoresOf(scored)
           pos == Cardinality({i \in DOMAIN labels : labels[i] = 1})
           neg == Len(labels) - pos
<1>1. n \in Nat /\ DOMAIN val = 1 .. n
  BY SequenceDomain DEF Scorable
<1>2. /\ scored = [k \in 1 .. n |-> scored[k]]
      /\ \A k \in 1 .. n : scored[k].label = val[k].label /\ scored[k].score = HeuristicScore(val[k])
  BY <1>1 DEF HeuristicRows
<1>3. HeuristicReport(scored).auc = RocAuc(labels, scores)
  BY DEF HeuristicReport, ScoresOf
<1> HIDE DEF scored
<1>4. DOMAIN scored = 1 .. n /\ Len(scored) = n
  BY <1>1, <1>2, CountedIsSequence
<1>5. labels = [k \in 1 .. n |-> scored[k].label] /\ scores = [k \in 1 .. n |-> scored[k].score]
  BY <1>4 DEF Labels, ScoresOf
<1>6. pos = Positives(scored)
  <2>1. {i \in DOMAIN labels : labels[i] = 1} = {i \in DOMAIN scored : scored[i].label = 1}
    BY <1>4, <1>5
  <2> QED
    BY <2>1 DEF Positives
<1>7. Positives(scored) = Positives(val)
  <2>1. {i \in DOMAIN scored : scored[i].label = 1} = {i \in DOMAIN val : val[i].label = 1}
    BY <1>1, <1>2, <1>4
  <2> QED
    BY <2>1 DEF Positives
<1> HIDE DEF labels, scores, pos
<1>8. Len(labels) = n /\ Len(scores) = n
  <2>1. labels = [k \in 1 .. n |-> labels[k]] /\ scores = [k \in 1 .. n |-> scores[k]]
    BY <1>5
  <2> HIDE DEF n
  <2> QED
    BY <1>1, <2>1, CountedIsSequence
<1>9. IsScored(labels, scores)
  BY <1>1, <1>2, <1>5, <1>8 DEF IsScored, Scorable
<1>10. neg = Negatives(scored) /\ Negatives(scored) = Negatives(val)
  BY <1>4, <1>6, <1>7, <1>8 DEF Negatives
<1>11. pos # 0 /\ neg # 0
  BY <1>6, <1>7, <1>10 DEF BothClasses
<1>12. RocAuc(labels, scores) = <<RocArea(labels, scores), 2 * pos * neg>>
  BY <1>11 DEF RocAuc, pos
<1>13. RocAuc(labels, scores) =
          <<RankedPairs(labels, scores), 2 * Positives(scored) * Negatives(scored)>>
  BY <1>6, <1>9, <1>10, <1>12, AreaIsRankedPairs
<1> QED
  BY <1>3, <1>13 DEF RanksIn, scored, labels, scores

\* A report that is yet to be written is of the scores that are written before
\* it, and until then there is no report of this run.
JobRanks(j) ==
    /\ j.phase = "4B" /\ Report("4B") \in DOMAIN files => files[Report("4B")].run < runs
    /\ \A e \in Entries(j.todo) :
          /\ e[1] = FeaturesVal => Scorable(e[2])
          /\ e[1] = Report("4B") =>
                /\ \A d \in Entries(j.todo) : d[1] = HeuristicVal => RanksIn(e[2], d[2])
                /\ \/ HeuristicVal \in Named(j.todo)
                   \/ HeuristicVal \in DOMAIN files => RanksIn(e[2], files[HeuristicVal].content)

FilesRank ==
    /\ FeaturesVal \in DOMAIN files => Scorable(files[FeaturesVal].content)
    /\ Report("4B") \in DOMAIN files /\ HeuristicVal \in DOMAIN files =>
          (files[Report("4B")].run = files[HeuristicVal].run =>
              RanksIn(files[Report("4B")].content, files[HeuristicVal].content))

AucInv == PhaseInv /\ FilesRank /\ (job # Null => JobRanks(job))

LEMMA RankedFiles ==
  /\ FeaturesVal[1] = "4A" /\ HeuristicVal[1] = "4B" /\ Report("4B")[1] = "4B"
  /\ HeuristicVal # Report("4B") /\ FeaturesVal # Report("4B") /\ FeaturesVal # HeuristicVal
  /\ HeuristicTrain \notin {HeuristicVal, Report("4B")}
  /\ FeaturesVal \notin {FeaturesAll, FeaturesTrain, Report("4A")}
BY DEF FeaturesAll, FeaturesTrain, FeaturesVal, HeuristicTrain, HeuristicVal, Report

\* What a script goes on to write, when it has started.
LEMMA OutcomesRank ==
  ASSUME AucInv, NEW phase \in Phases, Needs(phase) \subseteq DOMAIN files,
         NEW todo \in Outcomes(phase), NEW e \in Entries(todo)
  PROVE  /\ e[1] = FeaturesVal => Scorable(e[2])
         /\ e[1] = Report("4B") =>
               /\ \A d \in Entries(todo) : d[1] = HeuristicVal => RanksIn(e[2], d[2])
               /\ HeuristicVal \in Named(todo)
<1>1. ASSUME NEW d \in Entries(todo) PROVE d[1] \in Named(todo) /\ d[1] \in FilesOf(phase) /\ d[1][1] = phase
  <2>1. d[1] \in Named(todo)
    BY DEF Entries, Named
  <2>2. d[1] \in FilesOf(phase)
    BY <2>1, OutcomesArePlanned DEF Planned
  <2> QED
    BY <2>1, <2>2, FilesAreOfPhase
<1>2. CASE phase = "4A"
  <2> DEFINE rows == BuildFeatureDataset(table)
             all == rows
             train == OfSplit(rows, "train")
             val == OfSplit(rows, "val")
             report == [passed |-> ValidateDataset(rows)]
  <2>1. todo = Writes4A(table)
    BY <1>2 DEF Outcomes
  <2>2. e \in {<<FeaturesAll, all>>, <<FeaturesTrain, train>>, <<FeaturesVal, val>>, <<Report("4A"), report>>}
    BY <2>1, EntriesOf4A
  <2>3. Scorable(val)
    BY ValIsScorable DEF AucInv, PhaseInv
  <2> HIDE DEF all, train, val, report
  <2> QED
    BY <1>1, <1>2, <2>2, <2>3, RankedFiles
<1>3. CASE phase = "4B"
  <2> DEFINE train == files[FeaturesTrain].content
             val == files[FeaturesVal].content
             scored == HeuristicRows(val)
             other == HeuristicReport(HeuristicRows(train))
             report == [train |-> other, val |-> HeuristicReport(scored)]
             first == HeuristicRows(train)
  <2>1. todo = Writes4B(train, val)
    BY <1>3 DEF Outcomes
  <2>2. Scorable(val)
    BY <1>3 DEF AucInv, FilesRank, Needs
  <2> HIDE DEF train, val
  <2>3. /\ Entries(todo) \subseteq {<<HeuristicTrain, first>>, <<HeuristicVal, scored>>, <<Report("4B"), report>>}
        /\ <<Report("4B"), report>> \in Entries(todo) => BothClasses(val)
    BY <2>1, EntriesOf4B
  <2>4. BothClasses(val) => RanksIn(report, scored)
    BY <2>2, ReportRanks
  <2> HIDE DEF scored, report, first
  <2>5. ASSUME e[1] = Report("4B")
        PROVE  /\ \A d \in Entries(todo) : d[1] = HeuristicVal => RanksIn(e[2], d[2])
               /\ HeuristicVal \in Named(todo)
    <3>1. e = <<Report("4B"), report>>
      BY <2>3, <2>5, RankedFiles
    <3>2. RanksIn(report, scored)
      BY <2>3, <2>4, <3>1
    <3>3. ASSUME NEW d \in Entries(todo), d[1] = HeuristicVal PROVE d = <<HeuristicVal, scored>>
      BY <2>3, <3>3, RankedFiles
    <3>4. FilesOf("4B") \subseteq Named(todo)
      <4>1. Complete("4B", todo)
        BY <1>3, OutcomesArePlanned
      <4> QED
        BY <1>1, <2>5, <4>1 DEF Complete
    <3> QED
      BY <3>1, <3>2, <3>3, <3>4 DEF FilesOf
  <2> QED
    BY <1>1, <1>3, <2>5, RankedFiles
<1>4. CASE phase \notin {"4A", "4B"}
  BY <1>1, <1>4, RankedFiles
<1> QED
  BY <1>2, <1>3, <1>4

LEMMA StartRanks ==
  ASSUME AucInv, NEW phase \in Phases, Start(phase)
  PROVE  AucInv'
<1>1. PICK todo \in IF Needs(phase) \subseteq DOMAIN files THEN Outcomes(phase) ELSE {<<>>} :
         /\ todo # <<>>
         /\ job' = [phase |-> phase, run |-> runs + 1, todo |-> todo,
                    from |-> IF FeaturesVal \in DOMAIN files THEN files[FeaturesVal].run ELSE 0]
  BY DEF Start
<1>2. Needs(phase) \subseteq DOMAIN files /\ todo \in Outcomes(phase)
  BY <1>1
<1>3. job'.phase = phase /\ job'.todo = todo
  BY <1>1
<1>4. runs' = runs + 1 /\ UNCHANGED <<table, today, files>>
  BY DEF Start
<1>5. \A f \in DOMAIN files : files[f].run < runs'
  <2>1. runs \in Nat /\ \A f \in DOMAIN files : files[f].run \in 1 .. runs
    BY PhaseTypes DEF AucInv
  <2> QED
    BY <1>4, <2>1
<1>6. ASSUME NEW e \in Entries(todo)
      PROVE  /\ e[1] = FeaturesVal => Scorable(e[2])
             /\ e[1] = Report("4B") =>
                   /\ \A d \in Entries(todo) : d[1] = HeuristicVal => RanksIn(e[2], d[2])
                   /\ HeuristicVal \in Named(todo)
  BY <1>2, OutcomesRank
<1>7. JobRanks(job)'
  BY <1>3, <1>4, <1>5, <1>6 DEF JobRanks
<1>8. FilesRank' /\ PhaseInv'
  BY <1>4, StartKeeps DEF AucInv, FilesRank
<1> QED
  BY <1>7, <1>8 DEF AucInv

\* A file is written, or a part of it: the scores of a run make the report of an
\* earlier run another run's.
LEMMA FilesRankWhenWritten ==
  ASSUME AucInv, job # Null, NEW content, NEW file, file = Head(job.todo)[1], Put(file, content),
         runs' = runs,
         file = FeaturesVal => Scorable(content),
         file = Report("4B") /\ HeuristicVal \in DOMAIN files => RanksIn(content, files[HeuristicVal].content)
  PROVE  FilesRank' /\ files'[file].content = content
<1>1. /\ DOMAIN files' = DOMAIN files \cup {file} /\ files'[file].run = runs
      /\ \A f \in DOMAIN files \ {file} : files'[f] = files[f]
      /\ file[1] = job.phase
  BY FileIsWritten DEF AucInv
<1>2. files'[file].content = content
  <2> DEFINE new == Written(content)
  <2>1. new.content = content
    BY DEF Written
  <2>2. files' = [f \in DOMAIN files \cup {file} |-> IF f = file THEN new ELSE files[f]]
    BY DEF Put
  <2> HIDE DEF new
  <2> QED
    BY <2>1, <2>2
<1>3. FeaturesVal \in DOMAIN files' => Scorable(files'[FeaturesVal].content)
  <2>1. CASE file = FeaturesVal
    BY <1>2, <2>1
  <2>2. CASE file # FeaturesVal
    BY <1>1, <2>2 DEF AucInv, FilesRank
  <2> QED
    BY <2>1, <2>2
<1>4. ASSUME Report("4B") \in DOMAIN files', HeuristicVal \in DOMAIN files',
             files'[Report("4B")].run = files'[HeuristicVal].run
      PROVE  RanksIn(files'[Report("4B")].content, files'[HeuristicVal].content)
  <2>1. CASE file = Report("4B")
    <3>1. HeuristicVal \in DOMAIN files /\ files'[HeuristicVal] = files[HeuristicVal]
      BY <1>1, <1>4, <2>1, RankedFiles
    <3> QED
      BY <1>2, <2>1, <3>1
  <2>2. CASE file = HeuristicVal
    <3>1. Report("4B") \in DOMAIN files /\ files'[Report("4B")] = files[Report("4B")]
      BY <1>1, <1>4, <2>2, RankedFiles
    <3>2. files[Report("4B")].run < runs
      BY <1>1, <2>2, <3>1, RankedFiles DEF AucInv, JobRanks
    <3>3. runs \in Nat /\ files[Report("4B")].run \in 1 .. runs
      BY <3>1, PhaseTypes DEF AucInv
    <3> QED
      BY <1>1, <1>4, <2>2, <3>1, <3>2, <3>3
  <2>3. CASE file # Report("4B") /\ file # HeuristicVal
    <3>1. /\ Report("4B") \in DOMAIN files /\ files'[Report("4B")] = files[Report("4B")]
          /\ HeuristicVal \in DOMAIN files /\ files'[HeuristicVal] = files[HeuristicVal]
      BY <1>1, <1>4, <2>3
    <3> QED
      BY <1>4, <3>1 DEF AucInv, FilesRank
  <2> QED
    BY <2>1, <2>2, <2>3
<1> QED
  BY <1>2, <1>3, <1>4 DEF FilesRank

LEMMA NextRanks ==
  ASSUME AucInv, job # Null
  PROVE  LET e == Head(job.todo)
         IN  /\ e \in Entries(job.todo) /\ Entries(Tail(job.todo)) \subseteq Entries(job.todo)
             /\ e[1] = FeaturesVal => Scorable(e[2])
             /\ e[1] = Report("4B") /\ HeuristicVal \in DOMAIN files =>
                   RanksIn(e[2], files[HeuristicVal].content)
<1>1. JobFits(job) /\ JobRanks(job)
  BY DEF AucInv, PhaseInv
<1> DEFINE e == Head(job.todo)
<1>2. e \in Entries(job.todo) /\ Entries(Tail(job.todo)) \subseteq Entries(job.todo)
  BY <1>1, HeadAndTailEntries DEF JobFits, Planned
<1>3. e[1] \in FilesOf(job.phase) /\ (e[1] = Report(job.phase) => Named(job.todo) = {e[1]})
  BY <1>1, TailIsPlanned DEF JobFits
<1>4. e[1][1] = job.phase
  BY <1>1, <1>3, FilesAreOfPhase DEF JobFits
<1>5. e[1] = Report("4B") => HeuristicVal \notin Named(job.todo)
  BY <1>3, <1>4, RankedFiles
<1> HIDE DEF e
<1>6. /\ e[1] = FeaturesVal => Scorable(e[2])
      /\ e[1] = Report("4B") /\ HeuristicVal \in DOMAIN files =>
            RanksIn(e[2], files[HeuristicVal].content)
  BY <1>1, <1>2, <1>5 DEF JobRanks
<1> QED
  BY <1>2, <1>6 DEF e

LEMMA WriteRanks ==
  ASSUME AucInv, Write
  PROVE  AucInv'
<1> DEFINE file == Head(job.todo)[1]
           content == Head(job.todo)[2]
<1>1. /\ job # Null /\ Put(file, content) /\ runs' = runs
      /\ job' = IF Len(job.todo) = 1 THEN Null ELSE [job EXCEPT !.todo = Tail(job.todo)]
  BY DEF Write
<1>2. PhaseInv' /\ JobFits(job) /\ JobRanks(job)
  BY <1>1, WriteKeeps DEF AucInv, PhaseInv
<1>3. /\ Head(job.todo) \in Entries(job.todo) /\ Entries(Tail(job.todo)) \subseteq Entries(job.todo)
      /\ file = FeaturesVal => Scorable(content)
      /\ file = Report("4B") /\ HeuristicVal \in DOMAIN files => RanksIn(content, files[HeuristicVal].content)
  BY <1>1, NextRanks
<1>4. PICK f, c : f = file /\ c = content
  OBVIOUS
<1>5. FilesRank' /\ files'[file].content = content
  <2>1. FilesRank' /\ files'[f].content = c
    BY <1>1, <1>3, <1>4, FilesRankWhenWritten
  <2> QED
    BY <1>4, <2>1
<1>6. /\ DOMAIN files' = DOMAIN files \cup {file} /\ file[1] = job.phase
      /\ \A g \in DOMAIN files \ {file} : files'[g] = files[g]
  BY <1>1, <1>4, FileIsWritten DEF AucInv
<1>7. ASSUME job' # Null PROVE JobRanks(job)'
  <2>1. job' = [phase |-> job.phase, run |-> job.run, todo |-> Tail(job.todo), from |-> job.from]
    <3>1. job' = [job EXCEPT !.todo = Tail(job.todo)]
      BY <1>1, <1>7
    <3> QED
      BY <1>2, <3>1 DEF JobFits
  <2>2. job'.phase = job.phase /\ job'.todo = Tail(job.todo)
    BY <2>1
  <2>3. /\ Named(job.todo) = {file} \cup Named(Tail(job.todo))
        /\ file = Report(job.phase) => Len(job.todo) = 1
    BY <1>2, TailIsPlanned DEF JobFits
  <2>4. file # Report("4B")
    BY <1>1, <1>6, <1>7, <2>3, RankedFiles
  <2>5. job.phase = "4B" /\ Report("4B") \in DOMAIN files' => files'[Report("4B")].run < runs'
    BY <1>1, <1>2, <1>6, <2>4 DEF JobRanks
  <2>6. ASSUME NEW e \in Entries(Tail(job.todo)), e[1] = Report("4B")
        PROVE  /\ \A d \in Entries(Tail(job.todo)) : d[1] = HeuristicVal => RanksIn(e[2], d[2])
               /\ \/ HeuristicVal \in Named(Tail(job.todo))
                  \/ HeuristicVal \in DOMAIN files' => RanksIn(e[2], files'[HeuristicVal].content)
    <3>1. /\ e \in Entries(job.todo)
          /\ \A d \in Entries(job.todo) : d[1] = HeuristicVal => RanksIn(e[2], d[2])
          /\ \/ HeuristicVal \in Named(job.todo)
             \/ HeuristicVal \in DOMAIN files => RanksIn(e[2], files[HeuristicVal].content)
      BY <1>2, <1>3, <2>6 DEF JobRanks
    <3>2. CASE file = HeuristicVal
      <4>1. RanksIn(e[2], content)
        BY <1>3, <3>1, <3>2
      <4> QED
        BY <1>3, <1>5, <3>1, <3>2, <4>1
    <3>3. CASE file # HeuristicVal
      BY <1>3, <1>6, <2>3, <3>1, <3>3
    <3> QED
      BY <3>2, <3>3
  <2> QED
    BY <1>2, <1>3, <2>2, <2>5, <2>6 DEF JobRanks
<1> QED
  BY <1>2, <1>5, <1>7 DEF AucInv

LEMMA KillRanks ==
  ASSUME AucInv, Kill
  PROVE  AucInv'
<1> DEFINE file == Head(job.todo)[1]
           content == Head(job.todo)[2]
<1>1. job # Null /\ job' = Null /\ runs' = runs /\ PhaseInv'
  BY KillKeeps DEF Kill, AucInv
<1>2. CASE \/ files' = files
           \/ files' = [f \in (DOMAIN files) \ {file} |-> files[f]]
  <2>1. DOMAIN files' \subseteq DOMAIN files /\ \A f \in DOMAIN files' : files'[f] = files[f]
    BY <1>2
  <2> QED
    BY <1>1, <2>1 DEF AucInv, FilesRank
<1>3. ASSUME file \in {FeaturesAll, FeaturesTrain, FeaturesVal, HeuristicVal},
             NEW n \in 0 .. Len(content), Put(file, SubSeq(content, 1, n))
      PROVE  AucInv'
  <2>1. file # Report("4B")
    <3> HIDE DEF file
    <3> QED
      BY <1>3, RankedFiles DEF FeaturesAll, FeaturesTrain, Report
  <2>2. PICK f, cut : f = file /\ cut = SubSeq(content, 1, n)
    OBVIOUS
  <2>3. f = FeaturesVal => Scorable(cut)
    <3>1. f = FeaturesVal => Scorable(content)
      BY <1>1, <2>2, NextRanks
    <3> HIDE DEF content
    <3> QED
      BY <1>3, <2>2, <3>1, CutIsScorable
  <2>4. Put(f, cut)
    BY <1>3, <2>2
  <2>5. FilesRank'
    BY <1>1, <2>1, <2>2, <2>3, <2>4, FilesRankWhenWritten
  <2> QED
    BY <1>1, <2>5 DEF AucInv
<1> QED
  BY <1>2, <1>3 DEF Kill

\* The report of phase 4B is of the scores beside it, when both are of one run.
THEOREM AucInvariant == PhaseSpec => []AucInv
<1>1. PhaseInit => AucInv
  BY PhaseAssumption DEF PhaseInit, AucInv, FilesRank, PhaseInv, AnalysisTypeOK, ReportsWrittenLast
<1>2. AucInv /\ [PhaseNext]_phaseVars => AucInv'
  <2> SUFFICES ASSUME AucInv, [PhaseNext]_phaseVars PROVE AucInv'
    OBVIOUS
  <2>1. CASE \E phase \in Phases : Start(phase)
    BY <2>1, StartRanks
  <2>2. CASE Write
    BY <2>2, WriteRanks
  <2>3. CASE Kill
    BY <2>3, KillRanks
  <2>4. CASE \/ \E student \in Student, item \in DOMAIN ItemType : Lend(student, item)
             \/ \E id \in DOMAIN table : TakeBack(id)
             \/ NextDay
    <3>1. PhaseInv'
      BY <2>4, LendKeeps, TakeBackKeeps, NextDayKeeps DEF AucInv
    <3>2. UNCHANGED <<files, job, runs>>
      BY <2>4 DEF Lend, TakeBack, NextDay
    <3> QED
      BY <3>1, <3>2 DEF AucInv, FilesRank, JobRanks
  <2>5. CASE UNCHANGED phaseVars
    <3>1. PhaseInv'
      BY <2>5 DEF AucInv, phaseVars, PhaseInv, AnalysisTypeOK, ReportsWrittenLast, IsTable, JobFits
    <3> QED
      BY <2>5, <3>1 DEF AucInv, FilesRank, JobRanks, phaseVars
  <2> QED
    BY <2>1, <2>2, <2>3, <2>4, <2>5 DEF PhaseNext
<1> QED
  BY <1>1, <1>2, PTL DEF PhaseSpec

\* The ROC-AUC that phase 4B reports is the share of the pairs of an overdue and
\* an on-time loan that its scores put in order, also beside files of other runs.
THEOREM ReportedAucIsRank == PhaseSpec => []AucIsRank
<1>1. AucInv => AucIsRank
  BY DEF AucInv, FilesRank, RanksIn, ScoresOf, AucIsRank
<1> QED
  BY <1>1, AucInvariant, PTL
=============================================================================

----------------------------- MODULE RiskScoring -----------------------------
(***************************************************************************)
(* The scores of phases 4B to 4F and how they are measured, as operators:  *)
(* the heuristic of 4B, the confusion counts at a threshold and the area   *)
(* under the ROC curve, which every later phase has a copy of.  Scores     *)
(* and thresholds are in ten-thousandths.  labels and scores are sequences *)
(* paired by position, and zip stops at the end of the shorter one.        *)
(***************************************************************************)
EXTENDS Integers, Sequences, FiniteSets, FiniteSetsExt

None == "None"

-----------------------------------------------------------------------------
(* The heuristic of phase 4B. *)

OverdueBoost(row) ==
    CASE row.priorOverdueCount >= 4 -> 1500
      [] row.priorOverdueCount \in 2 .. 3 -> 800
      [] row.priorOverdueCount < 2 -> 0

DurationBoost(row) ==
    CASE row.loanDuration >= 28 -> 1000
      [] row.loanDuration \in 21 .. 27 -> 500
      [] row.loanDuration < 21 -> 0

CategoryBoost(row) ==
    CASE row.categoryOverdueRate >= 4000 -> 800
      [] row.categoryOverdueRate \in 3500 .. 3999 -> 300
      [] row.categoryOverdueRate < 3500 -> 0

HeuristicScore(row) ==
    LET base == IF row.priorLoanCount = 0 THEN 3500 ELSE row.historicalOverdueRate
    IN  Min({base + OverdueBoost(row) + DurationBoost(row) + CategoryBoost(row), 10000})

RiskTier(score) ==
    CASE score >= 5500 -> "HIGH"
      [] score \in 3500 .. 5499 -> "MEDIUM"
      [] score < 3500 -> "LOW"

-----------------------------------------------------------------------------
(* Measures. *)

Paired(labels, scores) == 1 .. Min({Len(labels), Len(scores)})

ComputeMetrics(labels, scores, threshold) ==
    LET Of(label, flagged) == Cardinality({i \in Paired(labels, scores) :
            labels[i] = label /\ (scores[i] >= threshold) = flagged})
    IN  [tp |-> Of(1, TRUE), fp |-> Of(0, TRUE), tn |-> Of(0, FALSE), fn |-> Of(1, FALSE)]

\* recall >= percent, where a recall of no overdue loan is 0.
RecallAtLeast(m, percent) == m.tp + m.fn > 0 /\ 100 * m.tp >= percent * (m.tp + m.fn)

\* Mutant: the scores are gone through from the lowest.
RocAreaAscending(labels, scores) ==
    LET Cum(label, most) == Cardinality({i \in Paired(labels, scores) :
            labels[i] = label /\ scores[i] <= most})
        Step(s) == (Cum(0, s) - Cum(0, s - 1)) * (Cum(1, s) + Cum(1, s - 1))
    IN  MapThenSumSet(Step, {scores[i] : i \in Paired(labels, scores)})

\* The trapezoids below the curve: one step per distinct score, highest first,
\* with tp_cum and fp_cum before and after it.  The area is this over
\* 2 * pos * neg.
RocArea(labels, scores) ==
    LET Cum(label, least) == Cardinality({i \in Paired(labels, scores) :
            labels[i] = label /\ scores[i] >= least})
        Step(s) == (Cum(0, s) - Cum(0, s + 1)) * (Cum(1, s) + Cum(1, s + 1))
    IN  MapThenSumSet(Step, {scores[i] : i \in Paired(labels, scores)})

\* compute_roc_auc of phases 4B, 4C, 4D and 4F: one half where one class is missing.
RocAuc(labels, scores) ==
    LET pos == Cardinality({i \in DOMAIN labels : labels[i] = 1})
        neg == Len(labels) - pos
    IN  IF pos = 0 \/ neg = 0 THEN <<1, 2>> ELSE <<RocArea(labels, scores), 2 * pos * neg>>

\* The copy of phase 4E, which has no value for it.
RocAuc4E(labels, scores) ==
    IF \A i, j \in DOMAIN labels : labels[i] = labels[j] THEN None ELSE RocAuc(labels, scores)

\* What the area is said to be: how many pairs of an overdue and an on-time
\* loan the score puts in order, a tie counting one half.
RankedPairs(labels, scores) ==
    LET pairs == {p \in (DOMAIN labels) \X (DOMAIN labels) : labels[p[1]] = 1 /\ labels[p[2]] = 0}
    IN  2 * Cardinality({p \in pairs : scores[p[1]] > scores[p[2]]})
        + Cardinality({p \in pairs : scores[p[1]] = scores[p[2]]})
==============================================================================

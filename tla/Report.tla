------------------------------- MODULE Report -------------------------------
(***************************************************************************)
(* What the report makes of the results: the score and the grade of a live *)
(* proxy (checker.rate), the best of them, and the groups of Breakdown.    *)
(* Scores are computed in floating point; here the unit is one point over  *)
(* 10 * attempts, in which every term of the sum is a whole number, and    *)
(* times are in milliseconds.                                              *)
(***************************************************************************)
EXTENDS Integers, FiniteSets, SequencesExt

(* Both rate and representativeLatency take the median ping before the     *)
(* time of resPQ, and the whole probe last; 0 is a time not measured.      *)
LatencyOf(m) == IF m.ping > 0 THEN m.ping ELSE IF m.respq > 0 THEN m.respq ELSE m.total

(* Tenths of a point for the latency alone.                                *)
Base(latency) ==
  IF latency <= 100 THEN 1000 ELSE IF latency >= 1000 THEN 100 ELSE 1100 - latency

(* m.loss is in percent.                                                   *)
Score(m) ==
  LET failed == IF m.attempts > 1 THEN 200 * (m.attempts - m.successes) ELSE 0
      sum == m.attempts * (Base(LatencyOf(m)) - 2 * m.jitter - 15 * m.loss) - failed
      unit == 10 * m.attempts
      clamped == IF sum < 0 THEN 0 ELSE IF sum > 100 * unit THEN 100 * unit ELSE sum
  IN  (2 * clamped + unit) \div (2 * unit)

Grade(score) == IF score >= 85 THEN "A" ELSE IF score >= 70 THEN "B"
                ELSE IF score >= 50 THEN "C" ELSE "D"

None == [live |-> FALSE]

Beats(r, best) == r.score > best.score \/ (r.score = best.score /\ r.latency < best.latency)

BestOf(rs) ==
  FoldLeft(LAMBDA best, r : IF r.live /\ (best = None \/ Beats(r, best)) THEN r ELSE best,
           None, rs)

(* A result without a label (no geo data, no error kind) is in no group.   *)
Labelled(rs) == SelectSeq(rs, LAMBDA r : r.label # "")

GroupOf(label, rs) ==
  [label |-> label,
   live  |-> Cardinality({i \in DOMAIN rs : rs[i].label = label /\ rs[i].live}),
   total |-> Cardinality({i \in DOMAIN rs : rs[i].label = label})]

Groups(rs) == {GroupOf(r.label, rs) : r \in ToSet(Labelled(rs))}

Before(g, h) == g.live > h.live \/ (g.live = h.live /\ g.total > h.total)

(* sort.Slice is not stable: groups with the same numbers come in any      *)
(* order.                                                                  *)
GroupBy(rs) ==
  {gs \in SetToSeqs(Groups(rs)) : \A i, j \in DOMAIN gs : i < j => ~Before(gs[j], gs[i])}

Breakdown(rs, limit) ==
  {IF Len(gs) > limit /\ limit > 0 THEN SubSeq(gs, 1, limit) ELSE gs : gs \in GroupBy(rs)}
=============================================================================

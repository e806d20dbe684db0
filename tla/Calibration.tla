---------------------------- MODULE Calibration ----------------------------
(***************************************************************************)
(* How the quantiles of a model become an interval and a probability:      *)
(* what is fitted after a training (services/ml/app/calibration.py) and    *)
(* what the service makes of it (inference.py).                            *)
(*                                                                         *)
(* A row of the out-of-fold forecasts is [q, y, lead, fold], q its three   *)
(* quantiles, lead empty where it is not known.  Rows are kept by their    *)
(* numbers: a sequence, or what a mask leaves of one.  Scales are whole    *)
(* multiples of 1/Unit, an interval is kept in units of 1/Unit,            *)
(* probabilities are in thousandths.                                       *)
(***************************************************************************)
EXTENDS Integers, Sequences, SequencesExt, FiniteSetsExt

CONSTANTS
  Unit,         \* the resolution of scales
  LateAfter,    \* LATE_S
  LeadEdges,    \* LEAD_EDGES, an increasing sequence
  MinBin,       \* MIN_BIN_N
  MinFit        \* MIN_FIT_N

ASSUME CalibrationAssumption ==
  /\ Unit \in Nat \ {0} /\ MinBin \in Nat \ {0} /\ MinFit \in Nat \ {0}
  /\ Len(LeadEdges) > 1 /\ \A i \in 1..(Len(LeadEdges) - 1) : LeadEdges[i] < LeadEdges[i + 1]

(* Rows whose scores need no rounding: the distances of the quantiles from *)
(* the median divide Unit.                                                 *)
OofRows ==
  {r \in [q: Seq(Int), y: Int, lead: SUBSET Int, fold: Int] :
     /\ Len(r.q) = 3 /\ r.q[1] < r.q[2] /\ r.q[2] < r.q[3]
     /\ Unit % (r.q[2] - r.q[1]) = 0 /\ Unit % (r.q[3] - r.q[2]) = 0
     /\ \A l, k \in r.lead : l = k}

Larger(a, b) == IF a >= b THEN a ELSE b
Smaller(a, b) == IF a <= b THEN a ELSE b
CeilDiv(a, b) == (a + b - 1) \div b

-----------------------------------------------------------------------------
(* The interval and the probability of one forecast (inference.py).        *)

(* lead_bin_index: bins (lo, hi], numbered from 1; no lead, no bin.        *)
BinOf(lead, cuts) == {1 + Cardinality({i \in DOMAIN cuts : cuts[i] < l}) : l \in lead}

(* widen: both distances from the median, in units of 1/Unit.              *)
Widen(q, scale) ==
  <<Unit * q[2] - scale * (q[2] - q[1]), Unit * q[2], Unit * q[2] + scale * (q[3] - q[2])>>

(* p_exceed: the distribution is straight between the quantiles and beyond *)
(* them; an interval without width is a step.                              *)
Slope(d, width) == IF width = 0 THEN 1000 * d ELSE (400 * d) \div width
PExceed(w) ==
  LET x == Unit * LateAfter
      below == IF x <= w[2] THEN 100 + Slope(x - w[1], w[2] - w[1])
                            ELSE 500 + Slope(x - w[2], w[3] - w[2])
  IN 1000 - Larger(0, Smaller(below, 1000))

(* Calibration.p_late: between two knots a straight line, level outside.   *)
PLate(iso, p) ==
  LET left == {x \in DOMAIN iso : x <= p}
      right == {x \in DOMAIN iso : x >= p}
  IN IF left = {} THEN iso[Min(right)]
     ELSE IF right = {} \/ Max(left) = Min(right) THEN iso[Max(left)]
     ELSE iso[Max(left)] + ((p - Max(left)) * (iso[Min(right)] - iso[Max(left)]))
                            \div (Min(right) - Max(left))

(* Calibration.scale_for: the cuts are the upper ends of all bins but one. *)
Cuts(bins) == [i \in {k \in DOMAIN bins : k + 1 \in DOMAIN bins} |-> bins[i].hi]
ScaleFor(art, lead) ==
  LET of == BinOf(lead, Cuts(art.bins))
  IN IF of = {} THEN art.global ELSE art.bins[CHOOSE b \in of : TRUE].scale

-----------------------------------------------------------------------------
(* Fitting (calibration.py).                                               *)

(* lead_bins: neighbours are merged from the left until a bin is full, and *)
(* what is left at the end joins the last one.                             *)
LeadBins(leads) ==
  LET edges == LeadEdges
      cuts == SubSeq(edges, 2, Len(edges) - 1)
      Count(i) == Cardinality({k \in DOMAIN leads : i \in BinOf(leads[k], cuts)})
      Grown(a, i) ==
        IF a.n + Count(i) < MinBin THEN [a EXCEPT !.n = @ + Count(i)]
        ELSE [bins |-> Append(a.bins, [lo |-> edges[a.start], hi |-> edges[i + 1]]),
              start |-> i + 1, n |-> 0]
      last == FoldLeft(Grown, [bins |-> <<>>, start |-> 1, n |-> 0],
                       [i \in 1..(Len(edges) - 1) |-> i])
      full == last.bins
      end == edges[Len(edges)]
  IN IF last.start = Len(edges) THEN full
     ELSE IF full = <<>> THEN <<[lo |-> edges[1], hi |-> end]>>
     ELSE [full EXCEPT ![Len(full)].hi = end]

(* conformal_scale: the score of a row is the scale at which its interval  *)
(* reaches y; the scale is the higher of their quantiles of level          *)
(* ceil((n + 1) * 0.8) / n, the least score with its place's number of     *)
(* scores up to it.                                                        *)
RowScore(row) ==
  Larger(CeilDiv(Unit * (row.q[2] - row.y), row.q[2] - row.q[1]),
         CeilDiv(Unit * (row.y - row.q[2]), row.q[3] - row.q[2]))
ScoredUpTo(rows, s) == {i \in DOMAIN rows : RowScore(rows[i]) <= s}
ScoreAt(rows, place) ==
  Min({s \in {RowScore(rows[i]) : i \in DOMAIN rows} : Cardinality(ScoredUpTo(rows, s)) >= place})

\* Mistake: the middle of the scores.
MedianScale(rows) == ScoreAt(rows, (Cardinality(DOMAIN rows) + 1) \div 2)

Place(n) == 1 + CeilDiv((n - 1) * Smaller(n, CeilDiv(8 * (n + 1), 10)), n)
ConformalScale(rows) == ScoreAt(rows, Place(Cardinality(DOMAIN rows)))

(* fit_isotonic: the best rising function of p, by the max-min formula.    *)
FitIsotonic(ps, events) ==
  LET xs == ToSet(ps)
      Share(a, b) ==
        LET in == {i \in DOMAIN ps : a <= ps[i] /\ ps[i] <= b}
        IN (1000 * Cardinality({i \in in : events[i]})) \div Cardinality(in)
  IN [x \in xs |-> Max({Min({Share(a, b) : b \in {c \in xs : c >= x}}) : a \in {c \in xs : c <= x}})]

(* fit: a bin with few rows takes the scale of all rows.                   *)
Fit(rows, bins) ==
  LET In(b) == Restrict(rows, {i \in DOMAIN rows : b \in BinOf(rows[i].lead, Cuts(bins))})
      global == ConformalScale(rows)
      scaled == [b \in DOMAIN bins |->
                   [lo |-> bins[b].lo, hi |-> bins[b].hi,
                    scale |-> IF Cardinality(DOMAIN In(b)) >= MinFit THEN ConformalScale(In(b)) ELSE global]]
      p == [i \in DOMAIN rows |->
              PExceed(Widen(rows[i].q, ScaleFor([bins |-> scaled, global |-> global], rows[i].lead)))]
  IN [bins |-> scaled, global |-> global,
      iso |-> FitIsotonic(p, [i \in DOMAIN rows |-> rows[i].y > LateAfter])]

(* evaluate: the artifact of all rows.                                     *)
LeadsOf(rows) == [i \in DOMAIN rows |-> rows[i].lead]
Artifact(rows) == Fit(rows, LeadBins(LeadsOf(rows)))

Interval(art, row) == Widen(row.q, ScaleFor(art, row.lead))
Covers(w, y) == w[1] <= Unit * y /\ Unit * y <= w[3]

\* Mistake: the calibration of a row has seen the row.
CrossFitSeesAll(rows) ==
  [i \in DOMAIN rows |-> Interval(Artifact(rows), rows[i])]

(* _cross_fit: each row is calibrated by the rows of the other folds.      *)
CrossFit(rows) ==
  LET Others(f) == Restrict(rows, {i \in DOMAIN rows : rows[i].fold # f})
      bins == LeadBins(LeadsOf(rows))
      fitted == [f \in {rows[i].fold : i \in DOMAIN rows} |-> Fit(Others(f), bins)]
  IN [i \in DOMAIN rows |-> Interval(fitted[rows[i].fold], rows[i])]

(* train.py, _calibration: the scale for all leads, used without a file:   *)
(* on a grid from 1 to 5 the first that comes nearest to 80%.              *)
IntervalScale(rows) ==
  LET Off(s) == LET hit == {i \in DOMAIN rows : Covers(Widen(rows[i].q, s), rows[i].y)}
                IN 10 * Cardinality(hit) - 8 * Len(rows)
      Apart(s) == IF Off(s) < 0 THEN -Off(s) ELSE Off(s)
      grid == Unit..(5 * Unit)
  IN Min({s \in grid : \A o \in grid : Apart(s) <= Apart(o)})
=============================================================================

------------------------------ MODULE TripLine ------------------------------
(***************************************************************************)
(* The line of a trip (transit_core/route_line.py): the polyline through   *)
(* its stops, the projection of a point on it, and the planned time of any *)
(* place on it.                                                            *)
(*                                                                         *)
(* Metres and seconds are those of the code.  The streets are one road: a  *)
(* point is [x, off], off metres beside the road at x, distances are       *)
(* |dx| + |doff|, and a course is 1 or -1 along the road, or 0 for none.   *)
(***************************************************************************)
EXTENDS Integers, Sequences, FiniteSets

Abs(n) == IF n < 0 THEN -n ELSE n
Clip(n, lo, hi) == IF n < lo THEN lo ELSE IF n > hi THEN hi ELSE n
Larger(a, b) == IF a > b THEN a ELSE b
Smaller(a, b) == IF a < b THEN a ELSE b

(* _line: the places x of the stops, their planned times tb and the way    *)
(* cum along the line to each of them.                                     *)
Line(x, tb) ==
  LET cum[i \in 1..Len(x)] == IF i = 1 THEN 0 ELSE cum[i - 1] + Abs(x[i] - x[i - 1])
  IN [x |-> x, tb |-> tb, cum |-> [i \in 1..Len(x) |-> cum[i]]]

Stops(line) == 1..Len(line.x)
Segments(line) == 1..(Len(line.x) - 1)
SegLen(line, k) == line.cum[k + 1] - line.cum[k]
Length(line) == line.cum[Len(line.x)]
TStart(line) == line.tb[1]
TEnd(line) == line.tb[Len(line.tb)]

(* build_lines: a trip of one stop has no line; what _line builds.         *)
IsLine(line) ==
  /\ line.x \in Seq(Int) /\ line.tb \in Seq(Int) /\ line.cum \in Seq(Int)
  /\ Len(line.x) >= 2 /\ Len(line.tb) = Len(line.x) /\ Len(line.cum) = Len(line.x)
  /\ \A k \in Segments(line) : line.tb[k] <= line.tb[k + 1]
  /\ line.cum[1] = 0
  /\ \A k \in Segments(line) : SegLen(line, k) = Abs(line.x[k + 1] - line.x[k])

Heading(line, k) ==
  IF line.x[k + 1] > line.x[k] THEN 1 ELSE IF line.x[k + 1] < line.x[k] THEN -1 ELSE 0

(* np.searchsorted on cum, from the left and from the right.               *)
Before(line, s) == Cardinality({i \in Stops(line) : line.cum[i] < s})
UpTo(line, s) == Cardinality({i \in Stops(line) : line.cum[i] <= s})

(* Segments that meet the way from lo to hi: the first one at the least.   *)
Window(line, lo, hi) ==
  LET first == Larger(UpTo(line, lo), 1)
  IN first..Smaller(Larger(Before(line, hi), first), Len(line.x) - 1)

(* The projection on segment k: the way s along the line, the distance and *)
(* whether the course agrees with the segment (1), opposes it (-1) or is   *)
(* not known (0).                                                          *)
Project(line, k, p, course) ==
  LET along == Clip((p.x - line.x[k]) * Heading(line, k), 0, SegLen(line, k))
  IN [s    |-> line.cum[k] + along,
      dist |-> Abs(line.x[k] + Heading(line, k) * along - p.x) + p.off,
      cos  |-> course * Heading(line, k)]

(* The time planned for the place s by interpolation.  At a stop, or at    *)
(* several in one place, the plan is the window of their times, and at the *)
(* first stop of a trip it has no beginning.                               *)
PlannedAt(line, s, t) ==
  LET first == Before(line, s) + 1
      last == UpTo(line, s)
      k == Clip(first - 1, 1, Len(line.x) - 1)
  IN IF first > last
     THEN line.tb[k]
          + ((s - line.cum[k]) * (line.tb[k + 1] - line.tb[k])) \div SegLen(line, k)
     ELSE IF first = 1 THEN Smaller(t, line.tb[last])
     ELSE Clip(t, line.tb[first], line.tb[last])

(* np.interp of the planned times, which the scores compare a time with.   *)
Interp(line, s) ==
  LET k == Clip(UpTo(line, s), 1, Len(line.x) - 1)
  IN IF SegLen(line, k) = 0 THEN line.tb[k + 1]
     ELSE line.tb[k]
          + ((s - line.cum[k]) * (line.tb[k + 1] - line.tb[k])) \div SegLen(line, k)

(* stops_around: the stop behind s, and the next one if there is one.      *)
PrevStop(line, s) == Clip(UpTo(line, s), 1, Len(line.x))
NextStop(line, s) == IF PrevStop(line, s) = Len(line.x) THEN {} ELSE {PrevStop(line, s) + 1}

(* schedule_deviation_s: before the start of the trip there is none.       *)
Deviation(line, s, t) == IF t < TStart(line) THEN 0 ELSE t - PlannedAt(line, s, t)
=============================================================================

------------------------- MODULE RouteMatcher_proofs -------------------------
(***************************************************************************)
(* Safety of the map matcher for every plan, every stream of points and    *)
(* every threshold.  What is published and what the next point is tracked  *)
(* from are one and the same, and only a new search takes a vehicle back.  *)
(***************************************************************************)
EXTENDS RouteMatcher, FiniteSetTheorems, WellFoundedInduction, TLAPS

-----------------------------------------------------------------------------
(* The natural numbers are well ordered, so they allow induction.          *)

LEMMA Least ==
  ASSUME NEW S \in SUBSET Nat, S # {}
  PROVE  \E x \in S : \A y \in S : x <= y
<1> DEFINE R == OpToRel(<, Nat)
<1>1. IsWellFoundedOn(R, Nat)
  BY NatLessThanWellFounded
<1> HIDE DEF R
<1>2. PICK x \in S : \A y \in S : ~(<<y, x>> \in R)
  BY <1>1, WFMin
<1>3. \A n, m \in Nat : <<n, m>> \in R <=> n < m
  BY DEF R, OpToRel
<1>4. ASSUME NEW y \in S PROVE x <= y
  <2>1. x \in Nat /\ y \in Nat /\ ~(y < x)
    BY <1>2, <1>3
  <2>2. QED
    BY <2>1
<1>5. QED
  BY <1>4

LEMMA Induction ==
  ASSUME NEW S, 0 \in S, \A n \in Nat : n \in S => n + 1 \in S
  PROVE  \A n \in Nat : n \in S
<1> SUFFICES ASSUME Nat \ S # {} PROVE FALSE
  OBVIOUS
<1>1. PICK x \in Nat \ S : \A y \in Nat \ S : x <= y
  BY Least
<1>2. x # 0 /\ x - 1 \in Nat /\ ~(x <= x - 1)
  BY <1>1
<1>3. x - 1 \in S
  BY <1>1, <1>2
<1>4. (x - 1) + 1 = x
  BY <1>1
<1>5. QED
  BY <1>1, <1>2, <1>3, <1>4

-----------------------------------------------------------------------------
(* Lines.                                                                  *)

PointType == [t : Int, x : Int, off : Nat, speed : Nat, course : {-1, 1}]

LEMMA LineFacts ==
  ASSUME NEW line, IsLine(line)
  PROVE  /\ Len(line.x) \in Nat /\ Len(line.x) >= 2
         /\ \A i \in Stops(line) : line.x[i] \in Int /\ line.tb[i] \in Int /\ line.cum[i] \in Int
         /\ \A k \in Segments(line) : /\ k \in Stops(line) /\ k + 1 \in Stops(line)
                                     /\ SegLen(line, k) \in Nat
         /\ TStart(line) \in Int /\ TEnd(line) \in Int
<1>1. /\ Len(line.x) \in Nat /\ Len(line.x) >= 2
      /\ Len(line.tb) = Len(line.x) /\ Len(line.cum) = Len(line.x)
      /\ line.x \in Seq(Int) /\ line.tb \in Seq(Int) /\ line.cum \in Seq(Int)
  BY DEF IsLine
<1>2. \A i \in Stops(line) : line.x[i] \in Int /\ line.tb[i] \in Int /\ line.cum[i] \in Int
  <2>1. \A s \in Seq(Int) : \A i \in 1..Len(s) : s[i] \in Int
    OBVIOUS
  <2>2. QED
    BY <1>1, <2>1 DEF Stops
<1>3. \A k \in Segments(line) : k \in Stops(line) /\ k + 1 \in Stops(line)
  BY <1>1 DEF Segments, Stops
<1>4. \A k \in Segments(line) : SegLen(line, k) \in Nat
  <2>1. SUFFICES ASSUME NEW k \in Segments(line) PROVE SegLen(line, k) \in Nat
    OBVIOUS
  <2>2. line.x[k + 1] - line.x[k] \in Int
    BY <1>2, <1>3
  <2>3. \A n \in Int : Abs(n) \in Nat
    BY DEF Abs
  <2>4. SegLen(line, k) = Abs(line.x[k + 1] - line.x[k])
    BY DEF IsLine
  <2>5. QED
    BY <2>2, <2>3, <2>4
<1>5. 1 \in Stops(line) /\ Len(line.tb) \in Stops(line)
  BY <1>1 DEF Stops
<1>6. QED
  BY <1>1, <1>2, <1>3, <1>4, <1>5 DEF TStart, TEnd

(* The way along a line grows from stop to stop.                           *)
LEMMA CumGrows ==
  ASSUME NEW line, IsLine(line), NEW i \in Stops(line), NEW j \in Stops(line), i <= j
  PROVE  line.cum[i] <= line.cum[j]
<1> DEFINE S == {d \in Nat : i + d \in Stops(line) => line.cum[i] <= line.cum[i + d]}
<1>1. i \in Nat /\ j \in Nat /\ Len(line.x) \in Nat
  BY LineFacts DEF Stops
<1>2. line.cum[i] \in Int
  BY LineFacts
<1>3. 0 \in S
  BY <1>1, <1>2
<1>4. ASSUME NEW d \in Nat, d \in S PROVE d + 1 \in S
  <2>1. SUFFICES ASSUME i + (d + 1) \in Stops(line)
                 PROVE  line.cum[i] <= line.cum[i + (d + 1)]
    OBVIOUS
  <2>2. i + d \in Segments(line) /\ i + d \in Stops(line) /\ i + (d + 1) = (i + d) + 1
    BY <1>1, <2>1 DEF Stops, Segments
  <2>3. /\ line.cum[i] <= line.cum[i + d]
        /\ line.cum[i + d] \in Int /\ line.cum[(i + d) + 1] \in Int
        /\ line.cum[(i + d) + 1] - line.cum[i + d] \in Nat
    BY <1>4, <2>2, LineFacts DEF SegLen
  <2>4. QED
    BY <1>2, <2>2, <2>3
<1>5. j - i \in S
  <2> HIDE DEF S
  <2>1. j - i \in Nat
    BY <1>1
  <2>2. QED
    BY <1>3, <1>4, <2>1, Induction
<1>6. i + (j - i) = j
  BY <1>1
<1>7. QED
  BY <1>5, <1>6

LEMMA CumRange ==
  ASSUME NEW line, IsLine(line), NEW i \in Stops(line)
  PROVE  line.cum[i] \in 0..Length(line) /\ Length(line) \in Nat
<1>1. 1 \in Stops(line) /\ Len(line.x) \in Stops(line) /\ 1 <= i /\ i <= Len(line.x)
  BY LineFacts DEF Stops
<1>2. line.cum[1] = 0 /\ line.cum[1] <= line.cum[i] /\ line.cum[i] <= Length(line)
  BY <1>1, CumGrows DEF Length, IsLine
<1>3. line.cum[i] \in Int /\ Length(line) \in Int
  BY <1>1, LineFacts DEF Length
<1>4. QED
  BY <1>2, <1>3

(* A projection lies on the line.                                          *)
LEMMA ProjectType ==
  ASSUME NEW line, IsLine(line), NEW k \in Segments(line), NEW p \in PointType,
         NEW course \in {-1, 0, 1}
  PROVE  LET c == Project(line, k, p, course)
         IN c.s \in 0..Length(line) /\ c.dist \in Nat /\ c.cos \in {-1, 0, 1}
<1> DEFINE h == Heading(line, k)
           along == Clip((p.x - line.x[k]) * h, 0, SegLen(line, k))
<1>1. /\ k \in Stops(line) /\ k + 1 \in Stops(line) /\ SegLen(line, k) \in Nat
      /\ line.x[k] \in Int /\ line.cum[k] \in Int /\ line.cum[k + 1] \in Int
  BY LineFacts
<1>2. h \in {-1, 0, 1}
  BY DEF Heading
<1>3. p.x \in Int /\ p.off \in Nat
  BY DEF PointType
<1> HIDE DEF h
<1>4. (p.x - line.x[k]) * h \in Int
  BY <1>1, <1>2, <1>3
<1>5. along \in 0..SegLen(line, k)
  <2> DEFINE e == (p.x - line.x[k]) * h
  <2>1. e \in Int
    BY <1>4
  <2> HIDE DEF e
  <2>2. Clip(e, 0, SegLen(line, k)) \in 0..SegLen(line, k)
    BY <1>1, <2>1 DEF Clip
  <2>3. QED
    BY <2>2 DEF e
<1> HIDE DEF along
<1>6. line.cum[k] + along \in 0..Length(line)
  <2>1. /\ line.cum[k] \in 0..Length(line) /\ line.cum[k + 1] \in 0..Length(line)
        /\ Length(line) \in Nat
    BY <1>1, CumRange
  <2>2. QED
    BY <1>5, <2>1 DEF SegLen
<1>7. Abs(line.x[k] + h * along - p.x) + p.off \in Nat
  <2>1. along \in Int
    BY <1>1, <1>5
  <2>2. h * along \in Int
    BY <1>2, <2>1
  <2>3. line.x[k] + h * along - p.x \in Int
    BY <1>1, <1>3, <2>2
  <2>4. Abs(line.x[k] + h * along - p.x) \in Nat
    BY <2>3 DEF Abs
  <2>5. QED
    BY <1>3, <2>4
<1>8. course * h \in {-1, 0, 1}
  BY <1>2
<1>9. QED
  BY <1>6, <1>7, <1>8 DEF Project, h, along

LEMMA UpToType ==
  ASSUME NEW line, IsLine(line), NEW s \in Int
  PROVE  /\ UpTo(line, s) \in Nat /\ Before(line, s) \in Nat
         /\ s < Length(line) => UpTo(line, s) <= Len(line.x) - 1
<1> DEFINE upTo == {i \in Stops(line) : line.cum[i] <= s}
           before == {i \in Stops(line) : line.cum[i] < s}
<1>1. Len(line.x) \in Nat /\ Len(line.x) >= 2
  BY LineFacts
<1>2. IsFiniteSet(Stops(line))
  BY <1>1, FS_Interval DEF Stops
<1>3. IsFiniteSet(upTo) /\ IsFiniteSet(before)
  BY <1>2, FS_Subset
<1>4. UpTo(line, s) \in Nat /\ Before(line, s) \in Nat
  BY <1>3, FS_CardinalityType DEF UpTo, Before
<1>5. ASSUME s < Length(line) PROVE UpTo(line, s) <= Len(line.x) - 1
  <2>1. upTo \in SUBSET (1..(Len(line.x) - 1))
    <3>1. ~(Length(line) <= s) /\ Len(line.x) \in Stops(line)
      BY <1>1, <1>5, LineFacts DEF Length, Stops
    <3>2. Len(line.x) \notin upTo
      BY <3>1 DEF Length
    <3>3. QED
      BY <1>1, <3>2 DEF Stops
  <2> HIDE DEF upTo
  <2>2. IsFiniteSet(1..(Len(line.x) - 1)) /\ Cardinality(1..(Len(line.x) - 1)) = Len(line.x) - 1
    BY SMTT(30), <1>1, FS_Interval
  <2>3. Cardinality(upTo) <= Len(line.x) - 1
    BY ZenonT(30), <2>1, <2>2, FS_Subset
  <2>4. QED
    BY <2>3 DEF UpTo, upTo
<1>6. QED
  BY <1>4, <1>5

(* A window of segments is one of the line, and empty only beyond its end. *)
LEMMA WindowType ==
  ASSUME NEW line, IsLine(line), NEW lo \in Int, NEW hi \in Int
  PROVE  /\ Window(line, lo, hi) \subseteq Segments(line)
         /\ lo < Length(line) => Window(line, lo, hi) # {}
<1> DEFINE first == Larger(UpTo(line, lo), 1)
           end == Smaller(Larger(Before(line, hi), first), Len(line.x) - 1)
<1>1. Len(line.x) \in Nat /\ Len(line.x) >= 2
  BY LineFacts
<1>2. /\ UpTo(line, lo) \in Nat /\ Before(line, hi) \in Nat
      /\ lo < Length(line) => UpTo(line, lo) <= Len(line.x) - 1
  BY UpToType
<1>3. first \in Nat /\ first >= 1 /\ end \in Int /\ end <= Len(line.x) - 1
  BY <1>1, <1>2 DEF Larger, Smaller
<1>4. lo < Length(line) => first <= end
  BY <1>1, <1>2 DEF Larger, Smaller
<1>5. Window(line, lo, hi) = first..end /\ Segments(line) = 1..(Len(line.x) - 1)
  BY DEF Window, Segments
<1> HIDE DEF first, end
<1>6. first..end \subseteq 1..(Len(line.x) - 1) /\ (first <= end => first \in first..end)
  BY <1>1, <1>3
<1>7. QED
  BY <1>4, <1>5, <1>6

LEMMA InterpType ==
  ASSUME NEW line, IsLine(line), NEW s \in Int
  PROVE  Interp(line, s) \in Int
<1> DEFINE k == Clip(UpTo(line, s), 1, Len(line.x) - 1)
<1>1. k \in Segments(line)
  <2>1. UpTo(line, s) \in Nat /\ Len(line.x) \in Nat /\ Len(line.x) >= 2
    BY UpToType, LineFacts
  <2>2. QED
    BY <2>1 DEF Clip, Segments
<1>2. Interp(line, s) = IF SegLen(line, k) = 0 THEN line.tb[k + 1]
        ELSE line.tb[k]
             + ((s - line.cum[k]) * (line.tb[k + 1] - line.tb[k])) \div SegLen(line, k)
  BY DEF Interp
<1> HIDE DEF k
<1>3. /\ line.tb[k] \in Int /\ line.tb[k + 1] \in Int /\ line.cum[k] \in Int
      /\ SegLen(line, k) \in Nat
  BY <1>1, LineFacts
<1>4. (s - line.cum[k]) * (line.tb[k + 1] - line.tb[k]) \in Int
  BY <1>3
<1>5. \A a \in Int, b \in Nat \ {0} : a \div b \in Int
  OBVIOUS
<1>6. QED
  BY <1>2, <1>3, <1>4, <1>5

-----------------------------------------------------------------------------
(* Candidates.                                                             *)

Ranked(c) == c.line \in Nat /\ c.seg \in Nat /\ c.score \in Nat

(* A candidate is a place on the line of a trip.                           *)
Placed(c) ==
  /\ c.line \in 1..Len(Lines) /\ c.seg \in Nat /\ c.score \in Nat
  /\ c.s \in 0..Length(Lines[c.line]) /\ c.dist \in Nat /\ c.cos \in {-1, 0, 1}

(* The best candidate is one of them, however many there are.              *)
LEMMA BestExists ==
  ASSUME NEW cands, cands # {}, \A c \in cands : Ranked(c)
  PROVE  Best(cands) \in cands
<1>1. PICK lo \in {c.score : c \in cands} : \A y \in {c.score : c \in cands} : lo <= y
  BY Least DEF Ranked
<1> DEFINE best == {c \in cands : c.score = lo}
<1>2. PICK li \in {c.line : c \in best} : \A y \in {c.line : c \in best} : li <= y
  BY <1>1, Least DEF Ranked
<1> DEFINE first == {c \in best : c.line = li}
<1>3. PICK sg \in {c.seg : c \in first} : \A y \in {c.seg : c \in first} : sg <= y
  <2>1. first # {} /\ {c.seg : c \in first} \in SUBSET Nat
    BY <1>2 DEF Ranked
  <2> HIDE DEF first
  <2>2. {c.seg : c \in first} # {}
    BY <2>1
  <2>3. QED
    BY <2>1, <2>2, Least
<1>4. PICK c \in first : c.seg = sg
  BY <1>3
<1>5. ASSUME NEW d \in cands PROVE Beats(c, d)
  <2>1. Ranked(c) /\ Ranked(d) /\ c.score = lo /\ c.line = li /\ lo <= d.score
    BY <1>1, <1>4
  <2>2. CASE d.score # lo
    BY <2>1, <2>2 DEF Beats, Ranked
  <2>3. CASE d.score = lo
    <3>1. li <= d.line
      BY <1>2, <2>3
    <3>2. d.line = li => sg <= d.seg
      BY <1>3, <2>3
    <3>3. QED
      BY <1>4, <2>1, <2>3, <3>1, <3>2 DEF Beats, Ranked
  <2>4. QED
    BY <2>2, <2>3
<1>6. QED
  BY <1>4, <1>5 DEF Best

LEMMA LinesFacts ==
  /\ Len(Lines) \in Nat /\ Len(Lines) >= 1
  /\ \A i \in 1..Len(Lines) :
       /\ IsLine(Lines[i]) /\ Length(Lines[i]) \in Nat /\ Length(Lines[i]) > 0
       /\ TStart(Lines[i]) \in Int /\ TEnd(Lines[i]) \in Int
<1>1. Len(Lines) \in Nat /\ Len(Lines) >= 1
  BY MatcherAssumption
<1>2. SUFFICES ASSUME NEW i \in 1..Len(Lines)
               PROVE  /\ IsLine(Lines[i]) /\ Length(Lines[i]) \in Nat /\ Length(Lines[i]) > 0
                      /\ TStart(Lines[i]) \in Int /\ TEnd(Lines[i]) \in Int
  BY <1>1
<1>3. IsLine(Lines[i]) /\ Length(Lines[i]) > 0
  BY MatcherAssumption
<1>4. 1 \in Stops(Lines[i])
  BY <1>3, LineFacts DEF Stops
<1>5. QED
  BY <1>3, <1>4, LineFacts, CumRange

LEMMA ScoreType ==
  ASSUME NEW line, IsLine(line), NEW c, c.s \in Int, c.dist \in Nat, c.cos \in {-1, 0, 1},
         NEW t \in Int, NEW prior \in {0, 1, 4}
  PROVE  Score(line, c, t, prior) \in Nat
<1>1. Interp(line, c.s) \in Int
  BY InterpType
<1>2. Abs(t - Interp(line, c.s)) \in Nat
  BY <1>1 DEF Abs
<1>3. prior * Abs(t - Interp(line, c.s)) \in Nat
  BY <1>2
<1>4. (IF c.cos = 0 THEN 0 ELSE 800 * (1 - c.cos)) \in Nat
  OBVIOUS
<1>5. 20 * c.dist \in Nat
  OBVIOUS
<1>6. QED
  BY <1>3, <1>4, <1>5 DEF Score

LEMMA CandidatesType ==
  ASSUME NEW i \in 1..Len(Lines), NEW segs, segs \subseteq Segments(Lines[i]),
         NEW p \in PointType, NEW prior \in {0, 1, 4}
  PROVE  /\ \A c \in Candidates(i, segs, p, prior) : Placed(c) /\ c.line = i
         /\ segs # {} => Candidates(i, segs, p, prior) # {}
<1>1. IsLine(Lines[i])
  BY LinesFacts
<1>2. Course(p) \in {-1, 0, 1} /\ p.t \in Int
  BY DEF Course, PointType
<1>3. ASSUME NEW k \in segs
      PROVE  LET c == Project(Lines[i], k, p, Course(p))
             IN Placed([line |-> i, seg |-> k, s |-> c.s, dist |-> c.dist, cos |-> c.cos,
                        score |-> Score(Lines[i], c, p.t, prior)])
  <2> DEFINE c == Project(Lines[i], k, p, Course(p))
  <2>1. c.s \in 0..Length(Lines[i]) /\ c.dist \in Nat /\ c.cos \in {-1, 0, 1}
    BY <1>1, <1>2, ProjectType
  <2> HIDE DEF c
  <2>2. Score(Lines[i], c, p.t, prior) \in Nat
    <3>1. c.s \in Int
      BY <2>1, LinesFacts
    <3>2. QED
      BY <1>1, <1>2, <2>1, <3>1, ScoreType
  <2>3. k \in Nat
    BY <1>1, LineFacts DEF Segments
  <2>4. QED
    BY <2>1, <2>2, <2>3 DEF c, Placed
<1>4. ASSUME NEW c \in Candidates(i, segs, p, prior) PROVE Placed(c) /\ c.line = i
  <2>1. PICK k \in segs :
          c = LET d == Project(Lines[i], k, p, Course(p))
              IN [line |-> i, seg |-> k, s |-> d.s, dist |-> d.dist, cos |-> d.cos,
                  score |-> Score(Lines[i], d, p.t, prior)]
    BY DEF Candidates
  <2>2. c.line = i
    BY <2>1
  <2>3. Placed(c)
    BY <1>3, <2>1
  <2>4. QED
    BY <2>2, <2>3
<1>5. segs # {} => Candidates(i, segs, p, prior) # {}
  BY DEF Candidates
<1>6. QED
  BY <1>4, <1>5

LEMMA PlacedRanked == ASSUME NEW c, Placed(c) PROVE Ranked(c)
  BY LinesFacts DEF Placed, Ranked

(* Searching anew: what is found lies on a trip.                           *)
LEMMA AcquireType ==
  ASSUME NEW p \in PointType, AcquireCandidates(p) # {}
  PROVE  Placed(Best(AcquireCandidates(p)))
<1>1. \A c \in AcquireCandidates(p) : Placed(c)
  <2>1. SUFFICES ASSUME NEW c \in AcquireCandidates(p) PROVE Placed(c)
    OBVIOUS
  <2>2. PICK i \in 1..Len(Lines) : c \in Candidates(i, Segments(Lines[i]), p, 4)
    BY DEF AcquireCandidates
  <2>3. \A d \in Candidates(i, Segments(Lines[i]), p, 4) : Placed(d)
    BY CandidatesType
  <2>4. QED
    BY <2>2, <2>3
<1>2. QED
  BY <1>1, BestExists, PlacedRanked

(* Tracking: there always is a candidate, on this trip or the next one.    *)
LEMMA TrackedType ==
  ASSUME cur \in 1..Len(Lines), progress \in 0..Length(Lines[cur]),
         NEW p \in PointType, Elapsed(p) \in Int
  PROVE  /\ Placed(Tracked(p))
         /\ Tracked(p).line = cur \/ (Tracked(p).line = cur + 1 /\ cur < Len(Lines))
<1> DEFINE dt == Elapsed(p)
           line == Lines[cur]
           segs == Window(line, progress - 300, progress + Reach(dt))
           own == {[c EXCEPT !.score = @ + BackPenalty(progress, c.s)] :
                     c \in Candidates(cur, segs, p, 1)}
           next == Candidates(cur + 1, Window(Lines[cur + 1], 0, Reach(dt)), p, 1)
<1>1. IsLine(line) /\ progress \in Int /\ progress - 300 < Length(line)
  BY LinesFacts
<1>2. Reach(dt) \in Int
  BY DEF Reach
<1>3. segs \subseteq Segments(line) /\ segs # {}
  BY <1>1, <1>2, WindowType
<1> HIDE DEF segs
<1>4. /\ \A c \in Candidates(cur, segs, p, 1) : Placed(c) /\ c.line = cur
      /\ Candidates(cur, segs, p, 1) # {}
  BY <1>3, CandidatesType
<1>5. \A c \in own : Placed(c) /\ c.line = cur
  <2>1. SUFFICES ASSUME NEW c \in Candidates(cur, segs, p, 1)
                 PROVE  LET d == [c EXCEPT !.score = @ + BackPenalty(progress, c.s)]
                        IN Placed(d) /\ d.line = cur
    OBVIOUS
  <2>2. Placed(c) /\ c.line = cur
    BY <1>4
  <2>3. c.s \in Int
    BY <2>2, LinesFacts DEF Placed
  <2>4. BackPenalty(progress, c.s) \in Nat
    BY <1>1, <2>3 DEF BackPenalty, Larger
  <2>5. c = [line |-> c.line, seg |-> c.seg, s |-> c.s, dist |-> c.dist, cos |-> c.cos,
             score |-> c.score]
    BY DEF Candidates
  <2>6. QED
    BY <2>2, <2>4, <2>5 DEF Placed
<1>6. own # {}
  BY <1>4
<1>7. cur < Len(Lines) => \A c \in next : Placed(c) /\ c.line = cur + 1
  <2>1. SUFFICES ASSUME cur < Len(Lines) PROVE \A c \in next : Placed(c) /\ c.line = cur + 1
    OBVIOUS
  <2>2. cur + 1 \in 1..Len(Lines)
    BY <2>1, LinesFacts
  <2>3. Window(Lines[cur + 1], 0, Reach(dt)) \subseteq Segments(Lines[cur + 1])
    BY <1>2, <2>2, LinesFacts, WindowType
  <2>4. QED
    BY <2>2, <2>3, CandidatesType
<1>8. /\ own \subseteq TrackCandidates(p, dt)
      /\ \A c \in TrackCandidates(p, dt) : c \in own \/ (cur < Len(Lines) /\ c \in next)
  BY DEF TrackCandidates, segs
<1> HIDE DEF own, next, dt
<1>9. /\ \A c \in TrackCandidates(p, dt) :
           Placed(c) /\ (c.line = cur \/ (c.line = cur + 1 /\ cur < Len(Lines)))
      /\ TrackCandidates(p, dt) # {}
  BY <1>5, <1>6, <1>7, <1>8
<1>10. Tracked(p) \in TrackCandidates(p, dt)
  BY <1>9, BestExists, PlacedRanked DEF Tracked, dt
<1>11. QED
  BY <1>9, <1>10

(* The beginning of the next trip, where a standing vehicle may be.        *)
LEMMA NextStartType ==
  ASSUME NEW p \in PointType, cur \in 1..Len(Lines), cur < Len(Lines)
  PROVE  Placed(Best(NextStart(p))) /\ Best(NextStart(p)).line = cur + 1
<1> DEFINE q == [p EXCEPT !.speed = 0]
           segs == Window(Lines[cur + 1], 0, ArriveM)
<1>1. q \in PointType
  BY DEF PointType
<1>2. cur + 1 \in 1..Len(Lines)
  BY LinesFacts
<1>3. segs \subseteq Segments(Lines[cur + 1]) /\ segs # {}
  <2>1. ArriveM \in Int /\ IsLine(Lines[cur + 1]) /\ 0 < Length(Lines[cur + 1])
    BY <1>2, LinesFacts DEF ArriveM
  <2>2. QED
    BY <2>1, WindowType
<1>4. NextStart(p) = Candidates(cur + 1, segs, q, 0)
  BY DEF NextStart
<1> HIDE DEF q, segs
<1>5. /\ \A c \in NextStart(p) : Placed(c) /\ c.line = cur + 1
      /\ NextStart(p) # {}
  BY <1>1, <1>2, <1>3, <1>4, CandidatesType
<1>6. Best(NextStart(p)) \in NextStart(p)
  BY <1>5, BestExists, PlacedRanked
<1>7. QED
  BY <1>5, <1>6

-----------------------------------------------------------------------------
(* The inductive invariant.  The points off the route are counted up to    *)
(* the limit only while a trip is followed.                                *)

NotGivenUp == cur # 0 => lost < LostN

IInv == TypeOK /\ MatchIsCurrent /\ NotGivenUp

(* What no step may do unless it searches anew.                            *)
Forward ==
  /\ (~acquired' /\ cur # 0) =>
       \/ cur' = cur /\ progress' >= progress
       \/ cur' = cur + 1
  /\ anchor # <<>> => anchor'[1].t >= anchor[1].t

Anchors == [t : Int, x : Int, off : Nat]

LEMMA AtMostOne ==
  ASSUME NEW S, NEW s \in Seq(S), Len(s) <= 1, s # <<>>
  PROVE  s = <<s[1]>> /\ s[1] \in S /\ DOMAIN s = {1}
<1>1. Len(s) = 1
  <2>1. Len(s) \in Nat /\ (Len(s) = 0 => s = <<>>)
    OBVIOUS
  <2>2. QED
    BY SMTT(30), <2>1
<1>2. s[1] \in S /\ s = <<s[1]>>
  BY <1>1
<1>3. DOMAIN s = {1}
  BY <1>1
<1>4. QED
  BY <1>2, <1>3

(* What holds of the state and of a point that is not late.                *)
LEMMA Facts ==
  ASSUME IInv, NEW p \in Points
  PROVE  /\ p \in PointType /\ p.t \in Int
         /\ ResyncN \in Nat /\ ResyncN > 0 /\ LostN \in Nat /\ LostN > 0
         /\ anchor # <<>> => anchor[1] \in Anchors
         /\ anchor # <<>> /\ ~Late(p) => Elapsed(p) \in Int /\ anchor[1].t <= p.t
         /\ cur # 0 => /\ cur \in 1..Len(Lines) /\ progress \in 0..Length(Lines[cur])
                       /\ anchor # <<>> /\ last # <<>> /\ last = <<last[1]>>
                       /\ last[1] \in Matches /\ DOMAIN last = {1}
<1>1. p \in PointType /\ p.t \in Int /\ ResyncN \in Nat /\ ResyncN > 0 /\ LostN \in Nat /\ LostN > 0
  BY MatcherAssumption DEF PointType
<1>2. anchor # <<>> => anchor[1] \in Anchors
  BY AtMostOne DEF IInv, TypeOK, Anchors
<1>3. anchor # <<>> /\ ~Late(p) => Elapsed(p) \in Int /\ anchor[1].t <= p.t
  BY <1>1, <1>2 DEF Late, Elapsed, Anchors
<1>4. cur # 0 => cur \in 1..Len(Lines)
  BY LinesFacts DEF IInv, TypeOK
<1>5. last # <<>> => last = <<last[1]>> /\ last[1] \in Matches /\ DOMAIN last = {1}
  BY AtMostOne DEF IInv, TypeOK
<1>6. QED
  BY <1>1, <1>2, <1>3, <1>4, <1>5 DEF IInv, MatchIsCurrent

LEMMA MoveAnchorType ==
  ASSUME NEW p \in PointType, MoveAnchor(p), ResyncN \in Nat, ResyncN > 0
  PROVE  /\ anchor' \in Seq(Anchors) /\ Len(anchor') <= 1 /\ anchor' # <<>>
         /\ anchor'[1].t = p.t /\ rejects' \in 0..(ResyncN - 1)
<1>1. [t |-> p.t, x |-> p.x, off |-> p.off] \in Anchors
  BY DEF PointType, Anchors
<1>2. anchor' = <<[t |-> p.t, x |-> p.x, off |-> p.off]>> /\ rejects' = 0
  BY DEF MoveAnchor
<1>3. QED
  BY <1>1, <1>2

(* A match of a place on a trip.                                           *)
LEMMA MatchType ==
  ASSUME NEW t \in Int, NEW i \in 1..Len(Lines), NEW s \in Int, NEW on \in BOOLEAN,
         NEW sure \in BOOLEAN, last' = <<[t |-> t, line |-> i, s |-> s, on |-> on, sure |-> sure]>>
  PROVE  /\ last' \in Seq(Matches) /\ Len(last') <= 1 /\ last' # <<>>
         /\ last'[1].t = t /\ last'[1].line = i /\ last'[1].s = s
<1> DEFINE m == [t |-> t, line |-> i, s |-> s, on |-> on, sure |-> sure]
<1>1. m \in Matches
  BY DEF Matches
<1>2. m.t = t /\ m.line = i /\ m.s = s
  OBVIOUS
<1> HIDE DEF m
<1>3. last' = <<m>>
  BY DEF m
<1>4. QED
  BY <1>1, <1>2, <1>3

LEMMA PublishType ==
  ASSUME NEW p \in PointType, NEW i \in 1..Len(Lines), NEW s \in Int, NEW dist \in Nat,
         NEW cos \in {-1, 0, 1}, NEW n \in 0..2, Publish(p, i, s, dist, cos, n)
  PROVE  /\ last' \in Seq(Matches) /\ Len(last') <= 1 /\ last' # <<>>
         /\ last'[1].t = p.t /\ last'[1].line = i /\ last'[1].s = s
         /\ since' = n
<1> DEFINE on == dist <= OnRouteM
           sure == Sure(dist, cos, n)
<1>1. on \in BOOLEAN /\ sure \in BOOLEAN
  <2>1. on \in BOOLEAN
    OBVIOUS
  <2>2. sure \in BOOLEAN
    BY Zenon DEF Sure
  <2>3. QED
    BY <2>1, <2>2
<1>2. last' = <<[t |-> p.t, line |-> i, s |-> s, on |-> on, sure |-> sure]>> /\ since' = n
  BY DEF Publish
<1>3. p.t \in Int
  BY DEF PointType
<1> HIDE DEF on, sure
<1>4. QED
  BY <1>1, <1>2, <1>3, MatchType

(* The parts of the next state of a step that leaves a trip followed.      *)
LEMMA FollowedState ==
  ASSUME cur' \in 1..Len(Lines), progress' \in 0..Length(Lines[cur']),
         anchor' \in Seq(Anchors), Len(anchor') <= 1, anchor' # <<>>,
         last' \in Seq(Matches), Len(last') <= 1, last' # <<>>,
         last'[1].line = cur', last'[1].s = progress', last'[1].t = anchor'[1].t,
         rejects' \in 0..(ResyncN - 1), lost' \in 0..LostN, lost' < LostN,
         since' \in 0..2, acquired' \in BOOLEAN
  PROVE  IInv'
<1>1. cur' \in 0..Len(Lines) /\ cur' # 0
  BY LinesFacts
<1>2. progress' \in Int
  BY LinesFacts
<1>3. TypeOK'
  BY <1>1, <1>2 DEF TypeOK, Anchors
<1>4. QED
  BY <1>1, <1>3 DEF IInv, MatchIsCurrent, NotGivenUp

-----------------------------------------------------------------------------
(* The steps.                                                              *)

LEMMA DropStep ==
  ASSUME IInv, NEW p \in Points, DropLate(p) \/ DropOutlier(p)
  PROVE  IInv' /\ Forward
<1>1. /\ UNCHANGED <<cur, progress, anchor, lost, since, last>>
      /\ acquired' = FALSE
      /\ rejects' = rejects \/ (rejects' = rejects + 1 /\ rejects + 1 < ResyncN)
  BY DEF DropLate, DropOutlier, matcher, Rejected
<1>2. TypeOK'
  <2>1. rejects' \in 0..(ResyncN - 1)
    BY <1>1, MatcherAssumption DEF IInv, TypeOK
  <2>2. QED
    BY <1>1, <2>1 DEF IInv, TypeOK
<1>3. IInv'
  BY <1>1, <1>2 DEF IInv, MatchIsCurrent, NotGivenUp
<1>4. Forward
  <2>1. anchor # <<>> => anchor[1].t \in Int
    BY Facts DEF Anchors
  <2>2. progress \in Int
    BY DEF IInv, TypeOK
  <2>3. QED
    BY <1>1, <2>1, <2>2 DEF Forward
<1>5. QED
  BY <1>3, <1>4

LEMMA StillStep ==
  ASSUME IInv, NEW p \in Points, StandStill(p)
  PROVE  IInv' /\ Forward
<1>1. /\ cur \in 1..Len(Lines) /\ progress \in 0..Length(Lines[cur])
      /\ anchor # <<>> /\ anchor[1] \in Anchors /\ anchor[1].t <= p.t
      /\ p \in PointType /\ p.t \in Int
      /\ last # <<>> /\ last = <<last[1]>> /\ last[1] \in Matches /\ DOMAIN last = {1}
      /\ ResyncN \in Nat /\ ResyncN > 0
  BY Facts DEF StandStill, Taken, Still
<1>2. /\ anchor' \in Seq(Anchors) /\ Len(anchor') <= 1 /\ anchor' # <<>>
      /\ anchor'[1].t = p.t /\ rejects' \in 0..(ResyncN - 1)
      /\ acquired' = FALSE
      /\ lost' \in 0..LostN /\ lost' < LostN
  <2> DEFINE a == [anchor[1] EXCEPT !.t = p.t]
  <2>1. a \in Anchors /\ a.t = p.t
    BY <1>1 DEF Anchors
  <2> HIDE DEF a
  <2>2. anchor' = <<a>> /\ rejects' = 0 /\ acquired' = FALSE /\ lost' = lost
    BY DEF StandStill, a
  <2>3. lost \in 0..LostN /\ lost < LostN
    BY <1>1 DEF IInv, TypeOK, NotGivenUp
  <2>4. QED
    BY <1>1, <2>1, <2>2, <2>3
<1>3. CASE Rolls(p)
  <2> DEFINE c == Best(NextStart(p))
  <2>1. Placed(c) /\ c.line = cur + 1 /\ cur < Len(Lines)
    BY <1>1, <1>3, NextStartType DEF Rolls
  <2> HIDE DEF c
  <2>2. cur' = cur + 1 /\ progress' = c.s /\ Publish(p, cur + 1, c.s, c.dist, 0, 0)
    BY <1>3 DEF StandStill, c
  <2>3. cur + 1 \in 1..Len(Lines) /\ c.s \in Int /\ c.dist \in Nat
        /\ c.s \in 0..Length(Lines[cur + 1])
    BY <2>1, LinesFacts DEF Placed
  <2>4. /\ last' \in Seq(Matches) /\ Len(last') <= 1 /\ last' # <<>>
        /\ last'[1].t = p.t /\ last'[1].line = cur + 1 /\ last'[1].s = c.s
        /\ since' = 0
    BY SMTT(30), <1>1, <2>2, <2>3, PublishType
  <2>5. /\ cur' \in 1..Len(Lines) /\ progress' \in 0..Length(Lines[cur'])
        /\ last'[1].line = cur' /\ last'[1].s = progress' /\ last'[1].t = anchor'[1].t
        /\ since' \in 0..2
    BY <1>2, <2>2, <2>3, <2>4
  <2>6. acquired' \in BOOLEAN
    BY <1>2, Zenon
  <2>7. IInv'
    BY <1>2, <2>4, <2>5, <2>6, FollowedState
  <2>8. QED
    BY <1>1, <1>2, <2>2, <2>7 DEF Forward
<1>4. CASE ~Rolls(p)
  <2> DEFINE m == [last[1] EXCEPT !.t = p.t]
  <2>1. m \in Matches /\ m.t = p.t /\ m.line = last[1].line /\ m.s = last[1].s
    BY <1>1 DEF Matches
  <2>2. /\ last' = [i \in DOMAIN last |-> [last[i] EXCEPT !.t = p.t]]
        /\ UNCHANGED <<cur, progress, since>>
    BY <1>4 DEF StandStill
  <2>3. last' = <<m>>
    BY <1>1, <2>2
  <2> HIDE DEF m
  <2>4. /\ last' \in Seq(Matches) /\ Len(last') <= 1 /\ last' # <<>>
        /\ last'[1].t = p.t /\ last'[1].line = cur /\ last'[1].s = progress
    BY <1>1, <2>1, <2>3 DEF IInv, MatchIsCurrent
  <2>5. since' \in 0..2
    BY <2>2 DEF IInv, TypeOK
  <2>6. IInv'
    BY <1>1, <1>2, <2>2, <2>4, <2>5, FollowedState
  <2>7. QED
    BY <1>1, <1>2, <2>2, <2>6, LinesFacts DEF Forward
<1>5. QED
  BY <1>3, <1>4

(* A search: the losses it is given stay below the limit, or it is their   *)
(* number that made it search.                                             *)
LEMMA AcquireStep ==
  ASSUME IInv, NEW p \in Points, ~Late(p), NEW losses \in 0..LostN, Acquire(p, losses)
  PROVE  IInv' /\ Forward
<1>1. /\ p \in PointType /\ p.t \in Int /\ ResyncN \in Nat /\ ResyncN > 0
      /\ LostN \in Nat /\ LostN > 0
      /\ anchor # <<>> => anchor[1].t <= p.t
  BY Facts
<1>2. /\ anchor' \in Seq(Anchors) /\ Len(anchor') <= 1 /\ anchor' # <<>>
      /\ anchor'[1].t = p.t /\ rejects' \in 0..(ResyncN - 1)
      /\ acquired' = TRUE
  BY <1>1, MoveAnchorType DEF Acquire
<1>3. Forward
  BY <1>1, <1>2 DEF Forward
<1> DEFINE cands == AcquireCandidates(p)
           c == Best(cands)
<1>4. CASE cands = {} \/ c.dist > AcquireMaxM
  <2>1. cur' = 0 /\ lost' = losses /\ UNCHANGED <<progress, since, last>>
    BY <1>4 DEF Acquire
  <2>2. TypeOK'
    BY <1>2, <2>1, LinesFacts DEF IInv, TypeOK, Anchors
  <2>3. QED
    BY <1>3, <2>1, <2>2 DEF IInv, MatchIsCurrent, NotGivenUp
<1>5. CASE ~(cands = {} \/ c.dist > AcquireMaxM)
  <2>1. Placed(c)
    BY <1>1, <1>5, AcquireType
  <2>2. /\ cur' = c.line /\ progress' = c.s /\ lost' = 0
        /\ Publish(p, c.line, c.s, c.dist, c.cos, 0)
    BY <1>5 DEF Acquire
  <2> HIDE DEF c
  <2>3. /\ c.line \in 1..Len(Lines) /\ c.s \in Int /\ c.s \in 0..Length(Lines[c.line])
        /\ c.dist \in Nat /\ c.cos \in {-1, 0, 1}
    BY <2>1, LinesFacts DEF Placed
  <2>4. /\ last' \in Seq(Matches) /\ Len(last') <= 1 /\ last' # <<>>
        /\ last'[1].t = p.t /\ last'[1].line = c.line /\ last'[1].s = c.s
        /\ since' = 0
    BY <1>1, <2>2, <2>3, PublishType
  <2>5. lost' \in 0..LostN /\ lost' < LostN
    BY <1>1, <2>2
  <2>6. IInv'
    BY <1>2, <2>2, <2>3, <2>4, <2>5, FollowedState
  <2>7. QED
    BY <1>3, <2>6
<1>6. QED
  BY <1>4, <1>5

LEMMA FollowStep ==
  ASSUME IInv, NEW p \in Points, Follow(p)
  PROVE  IInv' /\ Forward
<1>1. /\ cur \in 1..Len(Lines) /\ progress \in 0..Length(Lines[cur])
      /\ anchor # <<>> /\ anchor[1].t <= p.t /\ Elapsed(p) \in Int
      /\ p \in PointType /\ ResyncN \in Nat /\ ResyncN > 0 /\ LostN \in Nat /\ LostN > 0
  BY Facts DEF Follow, Moving, Taken, MustAcquire
<1>2. /\ anchor' \in Seq(Anchors) /\ Len(anchor') <= 1 /\ anchor' # <<>>
      /\ anchor'[1].t = p.t /\ rejects' \in 0..(ResyncN - 1)
      /\ acquired' = FALSE /\ lost' = 0
  BY <1>1, MoveAnchorType DEF Follow
<1> DEFINE c == Tracked(p)
<1>3. Placed(c) /\ (c.line = cur \/ (c.line = cur + 1 /\ cur < Len(Lines)))
  BY <1>1, TrackedType
<1> DEFINE s == IF c.line = cur THEN Larger(progress, c.s) ELSE c.s
           n == IF c.line = cur THEN Smaller(since + 1, 2) ELSE 1
<1>4. cur' = c.line /\ progress' = s /\ Publish(p, c.line, s, c.dist, c.cos, n)
  BY DEF Follow, Followed
<1> HIDE DEF c
<1>5. /\ c.line \in 1..Len(Lines) /\ c.s \in Int /\ c.s \in 0..Length(Lines[c.line])
      /\ c.dist \in Nat /\ c.cos \in {-1, 0, 1}
  BY <1>3, LinesFacts DEF Placed
<1>6. s \in 0..Length(Lines[c.line]) /\ s \in Int /\ (c.line = cur => s >= progress)
  <2>1. Length(Lines[cur]) \in Nat /\ progress \in Int
    BY <1>1, LinesFacts
  <2>2. CASE c.line = cur
    BY <1>1, <1>5, <2>1, <2>2 DEF Larger
  <2>3. CASE c.line # cur
    BY <1>5, <2>3
  <2>4. QED
    BY <2>2, <2>3
<1>7. n \in 0..2
  BY DEF IInv, TypeOK, Smaller
<1> HIDE DEF s, n
<1>8. /\ last' \in Seq(Matches) /\ Len(last') <= 1 /\ last' # <<>>
      /\ last'[1].t = p.t /\ last'[1].line = c.line /\ last'[1].s = s
      /\ since' = n
  <2>1. Publish(p, c.line, s, c.dist, c.cos, n) /\ p \in PointType
    BY <1>1, <1>4
  <2> DEFINE line == c.line
             dist == c.dist
             cos == c.cos
  <2>2. line \in 1..Len(Lines) /\ dist \in Nat /\ cos \in {-1, 0, 1}
    BY <1>5
  <2>3. Publish(p, line, s, dist, cos, n)
    BY <2>1
  <2> HIDE DEF line, dist, cos
  <2>4. /\ last' \in Seq(Matches) /\ Len(last') <= 1 /\ last' # <<>>
        /\ last'[1].t = p.t /\ last'[1].line = line /\ last'[1].s = s
        /\ since' = n
    BY <1>6, <1>7, <2>1, <2>2, <2>3, PublishType
  <2>5. QED
    BY <2>4 DEF line
<1>9. lost' \in 0..LostN /\ lost' < LostN
  BY <1>1, <1>2
<1>10. IInv'
  BY <1>2, <1>4, <1>5, <1>6, <1>7, <1>8, <1>9, FollowedState
<1>11. QED
  BY <1>1, <1>2, <1>3, <1>4, <1>6, <1>10 DEF Forward

LEMMA FarStep ==
  ASSUME IInv, NEW p \in Points, FarAway(p)
  PROVE  IInv' /\ Forward
<1>1. /\ cur \in 1..Len(Lines) /\ progress \in 0..Length(Lines[cur])
      /\ anchor # <<>> /\ anchor[1].t <= p.t /\ ~Late(p) /\ p.t \in Int
      /\ p \in PointType /\ ResyncN \in Nat /\ ResyncN > 0 /\ LostN \in Nat /\ LostN > 0
  BY Facts DEF FarAway, Moving, Taken, MustAcquire
<1>2. lost \in 0..LostN /\ lost < LostN
  BY <1>1 DEF IInv, TypeOK, NotGivenUp
<1>3. CASE lost + 1 < LostN
  <2>1. /\ MoveAnchor(p) /\ lost' = lost + 1 /\ acquired' = FALSE
        /\ last' = <<[t |-> p.t, line |-> cur, s |-> progress, on |-> FALSE, sure |-> FALSE]>>
        /\ UNCHANGED <<cur, progress, since>>
    BY <1>3 DEF FarAway
  <2>2. /\ anchor' \in Seq(Anchors) /\ Len(anchor') <= 1 /\ anchor' # <<>>
        /\ anchor'[1].t = p.t /\ rejects' \in 0..(ResyncN - 1)
    BY <1>1, <2>1, MoveAnchorType
  <2>3. progress \in Int
    BY <1>1, LinesFacts
  <2>4. /\ last' \in Seq(Matches) /\ Len(last') <= 1 /\ last' # <<>>
        /\ last'[1].t = p.t /\ last'[1].line = cur /\ last'[1].s = progress
    BY <1>1, <2>1, <2>3, MatchType
  <2>5. lost' \in 0..LostN /\ lost' < LostN /\ since' \in 0..2
    BY <1>1, <1>2, <1>3, <2>1 DEF IInv, TypeOK
  <2>6. IInv'
    BY <1>1, <2>1, <2>2, <2>4, <2>5, FollowedState
  <2>7. QED
    BY <1>1, <2>1, <2>2, <2>3, <2>6 DEF Forward
<1>4. CASE ~(lost + 1 < LostN)
  <2>1. lost + 1 \in 0..LostN
    BY <1>1, <1>2
  <2>2. Acquire(p, lost + 1)
    BY <1>4 DEF FarAway
  <2>3. QED
    BY <1>1, <2>1, <2>2, AcquireStep
<1>5. QED
  BY <1>3, <1>4

LEMMA NextStep == ASSUME IInv, Next PROVE IInv' /\ Forward
<1>1. PICK p \in Points : Update(p)
  BY DEF Next
<1>2. SearchAnew(p) => ~Late(p) /\ Acquire(p, lost) /\ lost \in 0..LostN
  BY DEF SearchAnew, Moving, Taken, IInv, TypeOK
<1>3. QED
  BY <1>1, <1>2, DropStep, StillStep, AcquireStep, FollowStep, FarStep DEF Update

LEMMA InitIInv == Init => IInv
<1> SUFFICES ASSUME Init PROVE IInv
  OBVIOUS
<1>1. /\ cur = 0 /\ progress = 0 /\ anchor = <<>> /\ rejects = 0 /\ lost = 0 /\ since = 0
      /\ last = <<>> /\ acquired = FALSE
  BY DEF Init
<1>2. ResyncN \in Nat /\ ResyncN > 0 /\ LostN \in Nat /\ LostN > 0
  BY MatcherAssumption
<1>3. <<>> \in Seq(Anchors) /\ <<>> \in Seq(Matches) /\ Len(<<>>) = 0
  OBVIOUS
<1>4. TypeOK
  <2>1. cur \in 0..Len(Lines) /\ progress \in Int /\ since \in 0..2
    BY <1>1, LinesFacts
  <2>2. rejects \in 0..(ResyncN - 1) /\ lost \in 0..LostN
    BY <1>1, <1>2
  <2>3. anchor \in Seq(Anchors) /\ Len(anchor) <= 1 /\ last \in Seq(Matches) /\ Len(last) <= 1
    BY <1>1, <1>3
  <2>4. acquired \in BOOLEAN
    BY <1>1, Zenon
  <2>5. QED
    BY <2>1, <2>2, <2>3, <2>4 DEF TypeOK, Anchors
<1>5. QED
  BY <1>1, <1>4 DEF IInv, MatchIsCurrent, NotGivenUp

LEMMA NextIInv == IInv /\ [Next]_vars => IInv'
<1> SUFFICES ASSUME IInv, [Next]_vars PROVE IInv'
  OBVIOUS
<1>1. CASE Next
  BY <1>1, NextStep
<1>2. CASE UNCHANGED vars
  BY <1>2 DEF vars, matcher, IInv, TypeOK, MatchIsCurrent, NotGivenUp
<1>3. QED
  BY <1>1, <1>2

-----------------------------------------------------------------------------
(* What follows.                                                           *)

(* Every variable of the matcher keeps its type.                           *)
THEOREM TypeCorrect == Spec => []TypeOK
<1>1. IInv => TypeOK
  BY DEF IInv
<1>2. QED
  BY <1>1, InitIInv, NextIInv, PTL DEF Spec

(* While a trip is followed, the match that is published and the state the *)
(* next point is tracked from agree, and the place is on the trip's line.  *)
THEOREM PublishedIsTracked == Spec => []MatchIsCurrent
<1>1. IInv => MatchIsCurrent
  BY DEF IInv
<1>2. QED
  BY <1>1, InitIInv, NextIInv, PTL DEF Spec

(* Without a new search a vehicle never goes back on its trip nor to an    *)
(* earlier one, and time never goes back.                                  *)
THEOREM NeverBack == Spec => ForwardUnlessAcquired
<1>1. IInv /\ [Next]_vars =>
        [/\ (~acquired' /\ cur # 0) =>
              \/ cur' = cur /\ progress' >= progress
              \/ cur' = cur + 1
         /\ anchor # <<>> => anchor'[1].t >= anchor[1].t]_vars
  BY NextStep DEF Forward
<1>2. QED
  BY <1>1, InitIInv, NextIInv, PTL DEF Spec, ForwardUnlessAcquired
=============================================================================

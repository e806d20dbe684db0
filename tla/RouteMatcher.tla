---------------------------- MODULE RouteMatcher ----------------------------
(***************************************************************************)
(* Online map matching of one vehicle (transit_core/matching.py, called by *)
(* VehicleRecord.add for every point): the current trip, the progress on   *)
(* its line, the anchor against which outliers and standing still are      *)
(* judged, and the match that is published.                                *)
(*                                                                         *)
(* A point is [t, x, off, speed, course]: the time in it, its place, the   *)
(* speed in km/h and the course, 1 or -1.  Points come in any order of     *)
(* their times.  Invalid points change nothing and are left out.           *)
(***************************************************************************)
EXTENDS TripLine

CONSTANTS
  Lines,    \* the lines of the vehicle's trips, in the order of the plan
  Points,   \* valid points the terminal may send
  ResyncN,  \* RESYNC_N
  LostN     \* LOST_N

(* A next trip whose stops are all in one place would have no segment in   *)
(* the window of its beginning, on which argmin fails in the code.         *)
ASSUME MatcherAssumption ==
  /\ Len(Lines) >= 1
  /\ \A i \in 1..Len(Lines) : IsLine(Lines[i]) /\ Length(Lines[i]) > 0
  /\ Points \subseteq [t : Int, x : Int, off : Nat, speed : Nat, course : {-1, 1}]
  /\ ResyncN \in Nat \ {0} /\ LostN \in Nat \ {0}

VARIABLES
  cur,       \* RouteMatcher._cur: 0 for None
  progress,  \* _progress
  anchor,    \* _anchor: none or one [t, x, off]
  rejects,   \* _rejects
  lost,      \* _lost
  since,     \* _since_acq, up to WARM_N - 1, where it stops to matter
  last,      \* last, and VehicleRecord.match: none or one [t, line, s, on, sure]
  acquired   \* match_track's acquired: this point made _acquire search

matcher == <<cur, progress, anchor, rejects, lost, since>>
vars == <<matcher, last, acquired>>

Matches == [t : Int, line : 1..Len(Lines), s : Int, on : BOOLEAN, sure : BOOLEAN]
TypeOK ==
  /\ cur \in 0..Len(Lines)
  /\ progress \in Int
  /\ anchor \in Seq([t : Int, x : Int, off : Nat]) /\ Len(anchor) <= 1
  /\ rejects \in 0..(ResyncN - 1)
  /\ lost \in 0..LostN
  /\ since \in 0..2
  /\ last \in Seq(Matches) /\ Len(last) <= 1
  /\ acquired \in BOOLEAN

Init ==
  /\ cur = 0 /\ progress = 0 /\ anchor = <<>>
  /\ rejects = 0 /\ lost = 0 /\ since = 0
  /\ last = <<>> /\ acquired = FALSE

-----------------------------------------------------------------------------
(* Candidates and their scores, in twentieths of a metre.                  *)

OnRouteM == 120
LostM == 400
AcquireMaxM == 300
ArriveM == 60
EndZoneM == 400
OverdueS == 1800

(* cross distance + course against the segment + prior of the schedule     *)
Score(line, c, t, prior) ==
  20 * c.dist
  + (IF c.cos = 0 THEN 0 ELSE 800 * (1 - c.cos))
  + prior * Abs(t - Interp(line, c.s))

(* + going back by more than BACK_TOL_M from the progress.                 *)
BackPenalty(from, s) == 40 * Larger(from - s - 30, 0)

\* The course of a slow vehicle is not used.
Course(p) == IF p.speed >= 5 THEN p.course ELSE 0

Candidates(i, segs, p, prior) ==
  {LET c == Project(Lines[i], k, p, Course(p))
   IN [line |-> i, seg |-> k, s |-> c.s, dist |-> c.dist, cos |-> c.cos,
       score |-> Score(Lines[i], c, p.t, prior)] : k \in segs}

(* _best and the comparisons between trips: the least score, the earlier   *)
(* trip and segment among equals.                                          *)
Beats(a, b) ==
  \/ a.score < b.score
  \/ a.score = b.score /\ a.line < b.line
  \/ a.score = b.score /\ a.line = b.line /\ a.seg <= b.seg

Best(cands) == CHOOSE c \in cands : \A d \in cands : Beats(c, d)

(* How far the vehicle may have come in dt seconds, and AHEAD_M.           *)
Reach(dt) == (100 * dt) \div 3 + 300

\* Mistake: going back costs nothing, and the progress follows.
FollowedBack(c) == c.s

(* The progress never decreases on a trip that is followed.                *)
Followed(c) == Larger(progress, c.s)

(* _track: the current line around the progress, and near its end, or      *)
(* after its planned end, the beginning of the next one.                   *)
TrackCandidates(p, dt) ==
  LET line == Lines[cur]
      own == {[c EXCEPT !.score = @ + BackPenalty(progress, c.s)] :
                c \in Candidates(cur, Window(line, progress - 300, progress + Reach(dt)), p, 1)}
      mayTurn == /\ cur < Len(Lines)
                 /\ Length(line) - progress < EndZoneM \/ p.t > TEnd(line)
                 /\ p.t >= TStart(Lines[cur + 1]) - 1800
  IN own \cup (IF mayTurn
               THEN Candidates(cur + 1, Window(Lines[cur + 1], 0, Reach(dt)), p, 1)
               ELSE {})

(* _acquire: trips whose time it may be, on the whole of their lines.      *)
AcquireCandidates(p) ==
  UNION {Candidates(i, Segments(Lines[i]), p, 4) :
           i \in {j \in 1..Len(Lines) :
                    TStart(Lines[j]) - 1800 <= p.t /\ p.t <= TEnd(Lines[j]) + 1200}}

-----------------------------------------------------------------------------
(* _screen: the point against the anchor.                                  *)

Elapsed(p) == p.t - anchor[1].t
Moved(p) == Abs(p.x - anchor[1].x) + Abs(p.off - anchor[1].off)

Late(p) == anchor # <<>> /\ Elapsed(p) < 0

(* Further than 120 km/h, or 80 after a long gap, could bring it.          *)
Jumps(p) ==
  /\ anchor # <<>>
  /\ IF Elapsed(p) <= 60 THEN 3 * (Moved(p) - 50) > 100 * Elapsed(p)
                         ELSE 9 * (Moved(p) - 50) > 200 * Elapsed(p)

Rejected(p) == Jumps(p) /\ rejects + 1 < ResyncN
Resyncs(p) == Jumps(p) /\ rejects + 1 >= ResyncN

Still(p) == anchor # <<>> /\ p.speed < 3 /\ Moved(p) < 30 /\ cur # 0 /\ ~Resyncs(p)

-----------------------------------------------------------------------------
(* What becomes of a point.                                                *)

(* confidence >= MIN_CONFIDENCE: exp(-dist / 80), a third for each of the  *)
(* first WARM_N matches and a half for driving against the line.           *)
Sure(dist, cos, n) ==
  \/ n = 1 /\ cos >= 0 /\ dist <= 23
  \/ n = 2 /\ IF cos >= 0 THEN dist <= 55 ELSE dist = 0

Publish(p, i, s, dist, cos, n) ==
  /\ since' = n
  /\ last' = <<[t |-> p.t, line |-> i, s |-> s,
                on |-> dist <= OnRouteM, sure |-> Sure(dist, cos, n)]>>

MoveAnchor(p) ==
  /\ anchor' = <<[t |-> p.t, x |-> p.x, off |-> p.off]>>
  /\ rejects' = 0

(* A point of the past is dropped, and does not count against the anchor.  *)
DropLate(p) ==
  /\ Late(p)
  /\ acquired' = FALSE
  /\ UNCHANGED <<matcher, last>>

DropOutlier(p) ==
  /\ ~Late(p) /\ Rejected(p)
  /\ rejects' = rejects + 1
  /\ acquired' = FALSE
  /\ UNCHANGED <<cur, progress, anchor, lost, since, last>>

Taken(p) == ~Late(p) /\ ~Rejected(p)

(* _roll_to_next: standing at the end after the planned arrival.           *)
NextStart(p) == Candidates(cur + 1, Window(Lines[cur + 1], 0, ArriveM), [p EXCEPT !.speed = 0], 0)

Rolls(p) ==
  /\ cur < Len(Lines)
  /\ Length(Lines[cur]) - progress <= ArriveM
  /\ p.t >= TEnd(Lines[cur])
  /\ Best(NextStart(p)).dist <= OnRouteM

StandStill(p) ==
  /\ Taken(p) /\ Still(p)
  /\ anchor' = <<[anchor[1] EXCEPT !.t = p.t]>>
  /\ rejects' = 0
  /\ acquired' = FALSE
  /\ UNCHANGED lost
  /\ IF Rolls(p)
     THEN LET c == Best(NextStart(p))
          IN /\ cur' = cur + 1 /\ progress' = c.s
             /\ Publish(p, cur + 1, c.s, c.dist, 0, 0)
     ELSE /\ last' = [i \in DOMAIN last |-> [last[i] EXCEPT !.t = p.t]]
          /\ UNCHANGED <<cur, progress, since>>

Moving(p) == Taken(p) /\ ~Still(p)

\* Mistake: the trip is kept when the search finds none.
AcquireOrKeep(p, losses) ==
  LET cands == AcquireCandidates(p)
      c == Best(cands)
  IN /\ MoveAnchor(p)
     /\ acquired' = TRUE
     /\ IF cands = {} \/ c.dist > AcquireMaxM
        THEN lost' = losses /\ UNCHANGED <<cur, progress, since, last>>
        ELSE /\ cur' = c.line /\ progress' = c.s /\ lost' = 0
             /\ Publish(p, c.line, c.s, c.dist, c.cos, 0)

(* The search finds a trip, or the vehicle is on none; then what was       *)
(* published last stays.                                                   *)
Acquire(p, losses) ==
  LET cands == AcquireCandidates(p)
      c == Best(cands)
  IN /\ MoveAnchor(p)
     /\ acquired' = TRUE
     /\ IF cands = {} \/ c.dist > AcquireMaxM
        THEN cur' = 0 /\ lost' = losses /\ UNCHANGED <<progress, since, last>>
        ELSE /\ cur' = c.line /\ progress' = c.s /\ lost' = 0
             /\ Publish(p, c.line, c.s, c.dist, c.cos, 0)

(* No trip, no anchor, an anchor that was itself the outlier, or a trip    *)
(* that should have ended half an hour ago.                                *)
MustAcquire(p) ==
  cur # 0 /\ anchor # <<>> => Resyncs(p) \/ p.t > TEnd(Lines[cur]) + OverdueS

SearchAnew(p) == Moving(p) /\ MustAcquire(p) /\ Acquire(p, lost)

Tracked(p) == Best(TrackCandidates(p, Elapsed(p)))

Follow(p) ==
  /\ Moving(p) /\ ~MustAcquire(p)
  /\ Tracked(p).dist <= LostM
  /\ MoveAnchor(p)
  /\ lost' = 0
  /\ acquired' = FALSE
  /\ LET c == Tracked(p)
         s == IF c.line = cur THEN Followed(c) ELSE c.s
         n == IF c.line = cur THEN Smaller(since + 1, 2) ELSE 1
     IN cur' = c.line /\ progress' = s /\ Publish(p, c.line, s, c.dist, c.cos, n)

FarAway(p) ==
  /\ Moving(p) /\ ~MustAcquire(p)
  /\ Tracked(p).dist > LostM
  /\ IF lost + 1 < LostN
     THEN /\ MoveAnchor(p)
          /\ lost' = lost + 1
          /\ acquired' = FALSE
          /\ last' = <<[t |-> p.t, line |-> cur, s |-> progress, on |-> FALSE, sure |-> FALSE]>>
          /\ UNCHANGED <<cur, progress, since>>
     ELSE Acquire(p, lost + 1)

Update(p) ==
  DropLate(p) \/ DropOutlier(p) \/ StandStill(p) \/ SearchAnew(p) \/ Follow(p) \/ FarAway(p)

Next == \E p \in Points : Update(p)

Spec == Init /\ [][Next]_vars

(* matched_now at time now: the deviation shown to the dispatcher is that  *)
(* of the last match while the match is fresh, on the route and sure.      *)
Shown(m) == m # <<>> /\ m[1].on /\ m[1].sure
MatchedNow(now) ==
  IF Shown(last) /\ now - last[1].t <= 120
  THEN {Deviation(Lines[last[1].line], last[1].s, last[1].t)} ELSE {}

-----------------------------------------------------------------------------
(* While a trip is followed, what is published is the trip and the         *)
(* progress the next point will be tracked from, of the time late points   *)
(* are told by; a search that finds nothing ends the following.            *)
MatchIsCurrent ==
  cur # 0 =>
    /\ anchor # <<>> /\ last # <<>>
    /\ last[1].line = cur /\ last[1].s = progress /\ last[1].t = anchor[1].t
    /\ progress \in 0..Length(Lines[cur])

(* match_track's promise: only a point that made the matcher search anew   *)
(* takes the vehicle back on a trip, or from a trip to another than the    *)
(* next one; and time never goes back.                                     *)
ForwardUnlessAcquired ==
  [][/\ (~acquired' /\ cur # 0) =>
          \/ cur' = cur /\ progress' >= progress
          \/ cur' = cur + 1
     /\ anchor # <<>> => anchor'[1].t >= anchor[1].t]_vars

=============================================================================

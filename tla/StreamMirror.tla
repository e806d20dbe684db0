---------------------------- MODULE StreamMirror ----------------------------
(***************************************************************************)
(* What the stream promises its dashboards.  The copy of each dashboard is *)
(* a state that was published; while it is connected it goes through all   *)
(* published states in their order, and a new connection continues with    *)
(* the present one.  A connection may end at any moment: some of what was  *)
(* on its way may still be shown then, but nothing with a gap before it.   *)
(*                                                                         *)
(* The publisher may fail to announce a change of an incident.  What is    *)
(* published is silent about it from then on; all the rest is still exact. *)
(***************************************************************************)
EXTENDS Naturals, Sequences

CONSTANTS
  Dashboards,
  States        \* what can be published, and what is shown before anything:
                \* among other things the incidents, and those it is silent about

VARIABLES
  published,    \* the present state
  copies,       \* what each dashboard shows
  pending,      \* the published states on their way to each dashboard
  subscribed    \* the dashboards that will get the next state too

vars == <<published, copies, pending, subscribed>>

Init ==
  /\ published \in States
  /\ copies \in [Dashboards -> States]
  /\ pending = [d \in Dashboards |-> <<>>]
  /\ subscribed = {}

IsPrefixOf(s, t) == Len(s) <= Len(t) /\ s = SubSeq(t, 1, Len(s))

(* What a step adds to the states on their way to d.                       *)
Added(d) == SubSeq(pending'[d], Len(pending[d]) + 1, Len(pending'[d]))

(* One or more states are published at once.  Every subscriber gets all of *)
(* them, or is cut off and gets none.                                      *)
Publish ==
  /\ published' \in States
  /\ subscribed' \subseteq subscribed
  /\ pending' = [d \in Dashboards |-> pending'[d]]
  /\ \A d \in subscribed' :
       /\ IsPrefixOf(pending[d], pending'[d])
       /\ Added(d) # <<>>
       /\ pending'[d][Len(pending'[d])] = published'
       /\ \A e \in subscribed' : Added(e) = Added(d)
  /\ \A d \in Dashboards \ subscribed' : IsPrefixOf(pending'[d], pending[d])
  /\ UNCHANGED copies

SilentAbout(i, p) ==
  [p EXCEPT !.incidents = [j \in DOMAIN @ \ {i} |-> @[j]], !.withdrawn = @ \cup {i}]

(* A change of an incident is lost: nobody hears of it.                    *)
Lapse ==
  /\ \E i \in DOMAIN published.incidents : published' = SilentAbout(i, published)
  /\ UNCHANGED <<copies, pending, subscribed>>

Subscribe(d) ==
  /\ subscribed' = subscribed \cup {d}
  /\ pending' = [pending EXCEPT ![d] = <<published>>]
  /\ UNCHANGED <<published, copies>>

Show(d) ==
  /\ pending[d] # <<>>
  /\ copies' = [copies EXCEPT ![d] = Head(pending[d])]
  /\ pending' = [pending EXCEPT ![d] = Tail(@)]
  /\ UNCHANGED <<published, subscribed>>

CutOff(d) ==
  /\ subscribed' = subscribed \ {d}
  /\ \E n \in 0..Len(pending[d]) : pending' = [pending EXCEPT ![d] = SubSeq(@, 1, n)]
  /\ UNCHANGED <<published, copies>>

(* The publisher starts again and has lost all its subscribers.            *)
Restart ==
  /\ published' \in States
  /\ subscribed' = {}
  /\ pending' = [d \in Dashboards |-> <<>>]
  /\ UNCHANGED copies

Next ==
  \/ Publish \/ Lapse \/ Restart
  \/ \E d \in Dashboards : Subscribe(d) \/ Show(d) \/ CutOff(d)

Spec == Init /\ [][Next]_vars
=============================================================================

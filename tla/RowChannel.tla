----------------------------- MODULE RowChannel -----------------------------
(***************************************************************************)
(* What the way of telematics from the replayer's terminal to the worker   *)
(* of the backend promises: every connection is a channel that may lose    *)
(* rows, but never repeats, changes or reorders them, and a row travels    *)
(* on one connection only.  Nothing is promised between connections.       *)
(***************************************************************************)
EXTENDS Integers, Sequences

CONSTANT Conns

VARIABLES
  given,   \* the number of rows handed over
  chan,    \* the rows on their way, by connection
  last     \* the row delivered last, by connection

channel == <<given, chan, last>>

ChannelInit ==
  /\ given = 0
  /\ chan = [c \in Conns |-> <<>>]
  /\ last = [c \in Conns |-> 0]

Put(c) ==
  /\ given' = given + 1
  /\ UNCHANGED last
  /\ chan' = [chan EXCEPT ![c] = Append(@, given + 1)]

Refuse == given' = given + 1 /\ UNCHANGED <<chan, last>>

(* What may be left of a sequence when some of its elements are lost.      *)
Increasing(n, m) == {f \in [1..n -> 1..m] : \A i, j \in 1..n : i < j => f[i] < f[j]}

Thinned[s \in Seq(Nat)] ==
  UNION {{[i \in 1..n |-> s[f[i]]] : f \in Increasing(n, Len(s))} : n \in 0..Len(s)}

Lose ==
  /\ UNCHANGED <<given, last>>
  /\ chan' \in [Conns -> Seq(Nat)]
  /\ \A c \in Conns : chan'[c] \in Thinned[chan[c]]

Take(c) ==
  /\ UNCHANGED given
  /\ chan[c] # <<>>
  /\ last' = [last EXCEPT ![c] = Head(chan[c])]
  /\ chan' = [chan EXCEPT ![c] = Tail(@)]

ChannelNext == Refuse \/ Lose \/ \E c \in Conns : Put(c) \/ Take(c)

ChannelSpec == ChannelInit /\ [][ChannelNext]_channel

-----------------------------------------------------------------------------
(* The rows of a connection are delivered in the order they were handed    *)
(* over, each at most once.                                                *)
DeliveredInOrder == [][\A c \in Conns : last[c] <= last'[c]]_channel

(* What is on its way was handed over, is newer than what was delivered on *)
(* its connection, in order, and is on no other connection.                *)
ChannelInv ==
  /\ \A c \in Conns : \A i \in 1..Len(chan[c]) :
       /\ chan[c][i] \in (last[c] + 1)..given
       /\ \A j \in 1..(i - 1) : chan[c][j] < chan[c][i]
  /\ \A c, d \in Conns : \A i \in 1..Len(chan[c]), j \in 1..Len(chan[d]) :
       c # d => chan[c][i] # chan[d][j]
=============================================================================

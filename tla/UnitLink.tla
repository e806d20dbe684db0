------------------------------ MODULE UnitLink ------------------------------
(***************************************************************************)
(* The connection of one terminal of the replayer (replayer/link.py): the  *)
(* rows the engine hands to send, the queue, the pump that writes them,    *)
(* and the four counters of LinkStats.                                     *)
(*                                                                         *)
(* The event loop runs one of them at a time; a step ends where the code   *)
(* awaits.  Rows are numbered in the order they are handed over.           *)
(***************************************************************************)
EXTENDS Integers, Sequences

CONSTANTS
  QueueMax,     \* QUEUE_MAX
  MaxRows,      \* bound: rows handed to send
  MaxConnects   \* bound: connections made

ASSUME LinkAssumption == QueueMax \in Nat \ {0} /\ MaxRows \in Nat /\ MaxConnects \in Nat

VARIABLES
  phase,       \* run, _serve and _pump: where they wait
  queue,       \* UnitLink._queue
  hand,        \* the row of the pump between writer.write and the end of drain
  handed,      \* ghost: how many rows send was called with
  sent,        \* LinkStats.packets_sent
  dropped,     \* LinkStats.dropped
  connects,    \* LinkStats.connects
  reconnects   \* LinkStats.reconnects

counters == <<sent, dropped, connects, reconnects>>
link == <<phase, queue, hand, handed, counters>>

Phases == {"away", "hello", "pump", "drain", "closing"}

LinkTypeOK ==
  /\ phase \in Phases
  /\ queue \in Seq(Nat) /\ Len(queue) <= QueueMax
  /\ hand \in Seq(Nat) /\ Len(hand) = (IF phase = "drain" THEN 1 ELSE 0)
  /\ handed \in Nat /\ sent \in Nat /\ dropped \in Nat
  /\ connects \in Nat /\ reconnects \in Nat

LinkInit ==
  /\ phase = "away" /\ queue = <<>> /\ hand = <<>> /\ handed = 0
  /\ sent = 0 /\ dropped = 0 /\ connects = 0 /\ reconnects = 0

Connected == phase \in {"pump", "drain"}

(* send: without a connection, or with a full queue, the row is dropped.   *)
Send ==
  /\ handed < MaxRows
  /\ handed' = handed + 1
  /\ IF Connected /\ Len(queue) < QueueMax
     THEN queue' = Append(queue, handed + 1) /\ UNCHANGED dropped
     ELSE dropped' = dropped + 1 /\ UNCHANGED queue
  /\ UNCHANGED <<phase, hand, sent, connects, reconnects>>

(* open_connection succeeds and _serve writes the handshake.  An attempt   *)
(* that fails changes nothing but the pause before the next one.           *)
Connect ==
  /\ phase = "away"
  /\ connects < MaxConnects
  /\ phase' = "hello"
  /\ connects' = connects + 1
  /\ UNCHANGED <<queue, hand, handed, sent, dropped, reconnects>>

Ready ==
  /\ phase = "hello"
  /\ phase' = "pump"
  /\ UNCHANGED <<queue, hand, handed, counters>>

\* Mistake: the pump waits for a full queue.
TakeRowBatch ==
  /\ phase = "pump" /\ Len(queue) = QueueMax
  /\ phase' = "drain"
  /\ hand' = <<Head(queue)>>
  /\ queue' = Tail(queue)
  /\ UNCHANGED <<handed, counters>>

TakeRow ==
  /\ phase = "pump" /\ queue # <<>>
  /\ phase' = "drain"
  /\ hand' = <<Head(queue)>>
  /\ queue' = Tail(queue)
  /\ UNCHANGED <<handed, counters>>

(* drain has returned: the row counts as sent, whoever reads the bytes.    *)
Drained ==
  /\ phase = "drain"
  /\ phase' = "pump"
  /\ hand' = <<>>
  /\ sent' = sent + 1
  /\ UNCHANGED <<queue, handed, dropped, connects, reconnects>>

\* Mistake: the rows of a broken connection leave the queue uncounted.
LeaveServeUncounted(rest) ==
  /\ phase' = "closing"
  /\ queue' = <<>> /\ hand' = <<>>
  /\ UNCHANGED <<handed, sent, dropped, connects, reconnects>>

\* Mistake: the rows of a broken connection stay for the next one.
LeaveServeKeeps(rest) ==
  /\ phase' = "closing"
  /\ queue' = rest /\ hand' = <<>>
  /\ UNCHANGED <<handed, sent, dropped, connects, reconnects>>

(* The finally of _serve: what is still queued is dropped.                 *)
LeaveServe(rest) ==
  /\ phase' = "closing"
  /\ dropped' = dropped + Len(rest)
  /\ queue' = <<>> /\ hand' = <<>>
  /\ UNCHANGED <<handed, sent, connects, reconnects>>

HelloFails == phase = "hello" /\ LeaveServe(queue)

(* write or drain raises with a row in hand: nobody counts that row.       *)
DrainFails == phase = "drain" /\ LeaveServe(queue)

(* The row cannot be encoded: it has left the queue, nothing is written.   *)
EncodeFails == phase = "pump" /\ queue # <<>> /\ LeaveServe(Tail(queue))

(* The peer has closed.  Rows may be in the queue: those put after the     *)
(* wait of the pump has ended and before the pump goes on.                 *)
PeerClosed == phase = "pump" /\ LeaveServe(queue)

(* wait_closed is over.                                                    *)
Closed ==
  /\ phase = "closing"
  /\ phase' = "away"
  /\ reconnects' = reconnects + 1
  /\ UNCHANGED <<queue, hand, handed, sent, dropped, connects>>

LinkNext ==
  \/ Send \/ Connect \/ Ready \/ TakeRow \/ Drained
  \/ HelloFails \/ DrainFails \/ EncodeFails \/ PeerClosed \/ Closed

LinkSpec == LinkInit /\ [][LinkNext]_link

-----------------------------------------------------------------------------
(* Rows handed over that no counter and no queue knows of.                 *)
Escaped == handed - (sent + dropped + Len(queue) + Len(hand))

Ended == reconnects + (IF phase = "closing" THEN 1 ELSE 0)

(* Every row handed over is sent, dropped, queued or in hand, but for at   *)
(* most one row of each connection that has ended, and a connection that   *)
(* has ended is one of those made.                                         *)
RowsAccounted ==
  /\ Escaped \in 0..Ended
  /\ Ended + (IF phase \in {"hello", "pump", "drain"} THEN 1 ELSE 0) = connects

(* Without a connection nothing waits: a row handed over before a break is *)
(* never sent after it.                                                    *)
NothingWaitsOffline == ~Connected => queue = <<>>
=============================================================================

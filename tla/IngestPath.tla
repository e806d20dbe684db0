----------------------------- MODULE IngestPath -----------------------------
(***************************************************************************)
(* From the terminal to the store: the link of the replayer (UnitLink),    *)
(* the bytes of its TCP connections (Ndtp), the NDTP server and its        *)
(* counters (ingest/server.py, stats.py), the ingest queue that drops the  *)
(* oldest frame, and the worker that takes frames from it (worker.py).     *)
(*                                                                         *)
(* A terminal that is not the replayer's, on connection 0, writes whatever *)
(* it likes: noise, damaged frames, cut or unknown cells.                  *)
(***************************************************************************)
EXTENDS UnitLink, Ndtp, FiniteSets, SequencesExt

CONSTANTS
  IngestMax,   \* settings.queue_max
  Unread,      \* bound: how many bytes a read may leave in the socket
  Foreign      \* what the other terminal may write: sequences of bytes

ASSUME IngestAssumption == IngestMax \in Nat \ {0} /\ Unread \subseteq Nat /\ Foreign \subseteq Seq(Nat)

VARIABLES
  wire,        \* bytes written and not yet read, by connection
  open,        \* connections whose handler runs
  buf,         \* FrameDecoder._buf, by connection
  ingest,      \* the queue of the server: [conn, row]
  stats,       \* IngestStats: connections, reconnects, dropped
  handshaken,  \* IngestStats._handshaken: the replayer's unit is in it
  last,        \* ghost: the row the worker took last, by connection
  owed,        \* ghost: rows put, but for those taken or cleared
  got,         \* ghost: all that was read, by connection
  whole        \* ghost: all the frames decoded, by connection

streams == <<wire, open, buf, got, whole>>
server == <<ingest, stats, handshaken, owed>>
vars == <<link, streams, server, last>>

Other == 0
Conns == 1..MaxConnects
Rows == 1..MaxRows

TypeOK ==
  /\ LinkTypeOK
  /\ open \subseteq Conns \cup {Other}
  /\ \A c \in Conns \cup {Other} : \A s \in {wire[c], buf[c], got[c]} : s \in Seq(Nat)
  /\ Len(ingest) <= IngestMax
  /\ stats \in [connections : 0..(MaxConnects + 1), reconnects : Nat, dropped : Nat]
  /\ handshaken \in BOOLEAN
  /\ last \in [Conns -> Nat]
  /\ owed \in Nat

NoStats == [connections |-> 0, reconnects |-> 0, dropped |-> 0]
NoBytes == [c \in Conns \cup {Other} |-> <<>>]

Init ==
  /\ LinkInit
  /\ \E f \in Foreign : wire = [NoBytes EXCEPT ![Other] = f]
  /\ open = {Other}
  /\ buf = NoBytes /\ got = NoBytes /\ whole = NoBytes
  /\ ingest = <<>> /\ handshaken = FALSE
  /\ stats = [NoStats EXCEPT !.connections = 1]
  /\ last = [c \in Conns |-> 0]
  /\ owed = 0

-----------------------------------------------------------------------------
(* The terminal's side.  What is written to a closed connection is lost.   *)

Current == connects

Write(frame) ==
  wire' = IF Current \in open THEN [wire EXCEPT ![Current] = @ \o frame] ELSE wire

(* Accepting a connection starts its handler, which counts itself.  Bound: *)
(* the other terminal comes first.                                         *)
LinkConnects ==
  /\ Other \notin open
  /\ Connect
  /\ wire' = [wire EXCEPT ![connects + 1] = EncodeHandshake]
  /\ open' = open \cup {connects + 1}
  /\ stats' = [stats EXCEPT !.connections = @ + 1]
  /\ UNCHANGED <<buf, got, whole, ingest, handshaken, owed, last>>

LinkWrites ==
  /\ TakeRow
  /\ Write(EncodeRealtime(Head(queue), <<>>))
  /\ UNCHANGED <<open, buf, got, whole, server, last>>

DrainEnds ==
  /\ Drained \/ DrainFails
  /\ UNCHANGED <<streams, server, last>>

LinkSteps ==
  /\ \/ Send \/ Ready \/ Closed
     \/ HelloFails \/ EncodeFails
     \/ Current \notin open /\ PeerClosed
  /\ UNCHANGED <<streams, server, last>>

-----------------------------------------------------------------------------
(* IngestServer.handle and _on_frames.                                     *)

(* Frames with a bad checksum are answered with an error and not stored.   *)
Handshakes(frames) == {i \in DOMAIN frames : frames[i].crcOk /\ frames[i].kind = ConnRequest}
RowIn(frame) == IF frame.crcOk /\ frame.kind # ConnRequest THEN frame.nav ELSE <<>>

\* Mistake: the queue has no limit.
PutUnbounded(q) == q

(* DropOldestQueue.put, for every frame of a chunk: the newest stay.       *)
Put(q) == IF Len(q) > IngestMax THEN From(q, Len(q) - IngestMax + 1) ELSE q

(* The rows that a list of frames puts into the queue.                     *)
RowsOf[frames \in Seq(Frames)] == FlattenSeq([i \in DOMAIN frames |-> RowIn(frames[i])])

(* One of the replayer's handshakes is the first, the rest are reconnects. *)
Reconnects(frames) ==
  LET n == Cardinality(Handshakes(frames))
  IN IF n > 0 /\ ~handshaken THEN n - 1 ELSE n

StoreFrames(c, frames) ==
  \E rows \in {RowsOf[frames]} :
  \E all \in {ingest \o [i \in DOMAIN rows |-> [conn |-> c, row |-> rows[i]]]} :
    /\ ingest' = Put(all)
    /\ owed' = owed + Len(rows)
    /\ stats' = [stats EXCEPT
         !.reconnects = @ + (IF c = Other THEN 0 ELSE Reconnects(frames)),
         !.dropped = @ + Len(all) - Len(Put(all))]
    /\ handshaken' = (handshaken \/ (c # Other /\ Handshakes(frames) # {}))

Read(c) ==
  /\ c \in open
  /\ \E n \in {Len(wire[c]) - u : u \in Unread} \cap 1..Len(wire[c]) :
       /\ wire' = [wire EXCEPT ![c] = From(@, n + 1)]
       /\ got' = [got EXCEPT ![c] = @ \o SubSeq(wire[c], 1, n)]
       /\ \E fed \in {Feed(buf[c], SubSeq(wire[c], 1, n))} :
            /\ buf' = [buf EXCEPT ![c] = fed.buf]
            /\ whole' = [whole EXCEPT ![c] = @ \o fed.frames]
            /\ StoreFrames(c, fed.frames)
  /\ UNCHANGED <<link, open, last>>

(* The end of a handler: the link has closed and all is read, or the       *)
(* connection is reset with bytes unread.                                  *)
HandlerEnds(c) ==
  /\ c \in open
  /\ open' = open \ {c}
  /\ wire' = [wire EXCEPT ![c] = <<>>]
  /\ buf' = [buf EXCEPT ![c] = <<>>]
  /\ got' = [got EXCEPT ![c] = <<>>]
  /\ whole' = [whole EXCEPT ![c] = <<>>]
  /\ stats' = [stats EXCEPT !.connections = @ - 1]
  /\ UNCHANGED <<link, ingest, handshaken, owed, last>>

-----------------------------------------------------------------------------
(* run_worker takes the next frame; Runtime._reset_session clears the      *)
(* queue of what is left of the old session.                               *)

WorkerTakes ==
  /\ ingest # <<>>
  /\ last' = [c \in Conns |-> IF c = Head(ingest).conn THEN Head(ingest).row ELSE last[c]]
  /\ ingest' = Tail(ingest)
  /\ owed' = owed - 1
  /\ UNCHANGED <<link, streams, stats, handshaken>>

QueueCleared ==
  /\ ingest # <<>>
  /\ ingest' = <<>>
  /\ owed' = owed - Len(ingest)
  /\ UNCHANGED <<link, streams, stats, handshaken, last>>

Next ==
  \/ LinkConnects \/ LinkWrites \/ DrainEnds \/ LinkSteps
  \/ \E c \in open : Read(c) \/ HandlerEnds(c)
  \/ WorkerTakes \/ QueueCleared

Spec == Init /\ [][Next]_vars

(* The pump goes on when there are rows and when drain has returned or     *)
(* raised; the loop of the backend reads what has come and runs the worker. *)
Fairness ==
  /\ WF_vars(LinkWrites \/ DrainEnds)
  /\ WF_vars(WorkerTakes \/ \E c \in open : Read(c))

FairSpec == Spec /\ Fairness

-----------------------------------------------------------------------------
(* However the stream is cut into chunks, the frames decoded and the bytes *)
(* kept are those of the whole stream read at once: half a signature or a  *)
(* header at the end of a chunk is neither lost nor taken twice.           *)
CutAnywhere ==
  \A c \in open :
    LET once == Feed(<<>>, got[c])
    IN once.buf = buf[c] /\ once.frames = whole[c]

(* Every row the server has put into its queue was taken by the worker,    *)
(* cleared by a new session, is still there, or is counted as dropped; and *)
(* the queue never grows beyond its limit.                                 *)
FramesAccounted ==
  /\ owed = stats.dropped + Len(ingest)
  /\ Len(ingest) <= IngestMax

(* The rows of one connection on their way: in the ingest queue, in the    *)
(* bytes its handler has or will read, and in the queue of the link.       *)
Queued(c, q) == FlattenSeq([i \in DOMAIN q |-> IF q[i].conn = c THEN <<q[i].row>> ELSE <<>>])
OnWay(c) ==
  Queued(c, ingest)
  \o (IF wire[c] = <<>> THEN <<>> ELSE RowsOf[Feed(buf[c], wire[c]).frames])
  \o (IF c = Current THEN queue ELSE <<>>)

(* Between the terminal and the worker, the bytes, chunks, handlers and    *)
(* queues make a lossy channel per connection: see RowChannel.             *)
Channel == INSTANCE RowChannel WITH
  Conns <- Conns,
  given <- handed,
  chan  <- [c \in Conns |-> OnWay(c)],
  last  <- last

ImplementsChannel == Channel!ChannelSpec

(* No byte and no row waits for ever: when no more rows are handed over,    *)
(* whatever connections break meanwhile, the queues and sockets run empty.  *)
EverythingDrains ==
  <>[](queue = <<>> /\ hand = <<>> /\ ingest = <<>> /\ \A c \in Conns : wire[c] = <<>>)
=============================================================================

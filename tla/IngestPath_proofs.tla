-------------------------- MODULE IngestPath_proofs --------------------------
(***************************************************************************)
(* The way of a row from UnitLink.send to run_worker, for every limit of   *)
(* its queues, every number of rows and connections, and whatever another  *)
(* terminal writes.  In order: the link alone; a principle of existence    *)
(* for functions defined by recursion over sequences, with which the       *)
(* flattening of a sequence, decode_cells and Cut get their equations;     *)
(* the decoder, up to CutConcat: bytes may be cut anywhere; the frames the *)
(* terminal writes; the inductive invariant IngestInv; the refinement of   *)
(* RowChannel.                                                             *)
(***************************************************************************)
EXTENDS IngestPath, SequenceTheorems, FiniteSetTheorems, WellFoundedInduction, TLAPS

-----------------------------------------------------------------------------
(* The link of a terminal, for every length of its queue and every number  *)
(* of rows and connections: what its counters account for.                 *)

LinkInv == LinkTypeOK /\ RowsAccounted /\ NothingWaitsOffline

(* A connection that ends loses no row but the one in hand, or the one     *)
(* that could not be encoded.                                              *)
LEMMA LeaveServeStep ==
  ASSUME LinkInv, phase \in {"hello", "pump", "drain"},
         NEW rest \in Seq(Nat), LeaveServe(rest),
         Len(rest) \in {Len(queue), Len(queue) - 1},
         Len(queue) + Len(hand) - Len(rest) \in {0, 1}
  PROVE  LinkInv'
<1> USE LinkAssumption DEF LinkInv, LinkTypeOK, LeaveServe
<1>1. Len(queue) \in Nat /\ Len(hand) \in Nat /\ Len(rest) \in Nat
  OBVIOUS
<1>2. Escaped' = Escaped + (Len(queue) + Len(hand) - Len(rest))
  BY <1>1 DEF Escaped
<1>3. Ended' = Ended + 1
  BY DEF Ended
<1>4. RowsAccounted'
  BY SMTT(30), <1>1, <1>2, <1>3 DEF RowsAccounted, Ended, Escaped
<1>5. LinkTypeOK'
  BY <1>1 DEF Phases
<1>6. NothingWaitsOffline'
  BY DEF NothingWaitsOffline
<1> QED
  BY <1>4, <1>5, <1>6

LEMMA OneMore ==
  \A a, s, d, q, h \in Nat :
    /\ (a + 1) - (s + d + (q + 1) + h) = a - (s + d + q + h)
    /\ (a + 1) - (s + (d + 1) + q + h) = a - (s + d + q + h)
  OBVIOUS

LEMMA LinkInvInit == LinkInit => LinkInv
<1> SUFFICES ASSUME LinkInit PROVE LinkInv
  OBVIOUS
<1>1. queue = <<>> /\ hand = <<>> /\ Len(queue) = 0 /\ Len(hand) = 0
  BY DEF LinkInit
<1>2. LinkTypeOK
  BY <1>1, LinkAssumption DEF LinkInit, LinkTypeOK, Phases
<1>3. Ended = 0 /\ (IF phase \in {"hello", "pump", "drain"} THEN 1 ELSE 0) = 0
  BY DEF LinkInit, Ended
<1>4. Escaped = 0
  <2>1. handed = 0 /\ sent = 0 /\ dropped = 0
    BY DEF LinkInit
  <2> QED
    BY ONLY <1>1, <2>1, 0 - (0 + 0 + 0 + 0) = 0 DEF Escaped
<1>5. RowsAccounted
  BY <1>3, <1>4 DEF LinkInit, RowsAccounted
<1> QED
  BY <1>1, <1>2, <1>5 DEF LinkInv, NothingWaitsOffline

(* Every row handed over is accounted for but for at most one of each      *)
(* connection that ended, and nothing waits for the next connection.       *)
LEMMA LinkInvStep == LinkInv /\ [LinkNext]_link => LinkInv'
<1> SUFFICES ASSUME LinkInv, [LinkNext]_link PROVE LinkInv'
  OBVIOUS
<1> USE LinkAssumption DEF LinkInv, LinkTypeOK, counters
<1>0. Len(queue) \in Nat /\ Len(hand) \in Nat
  OBVIOUS
<1>00. handed \in Nat /\ sent \in Nat /\ dropped \in Nat
  OBVIOUS
<1>1. CASE Send
  <2>1. CASE Connected /\ Len(queue) < QueueMax
    <3>1. queue' = Append(queue, handed + 1) /\ dropped' = dropped
      BY <1>1, <2>1 DEF Send
    <3>2. queue' \in Seq(Nat) /\ Len(queue') = Len(queue) + 1
      BY <3>1
    <3>3. LinkTypeOK'
      BY <1>0, <1>1, <2>1, <3>1, <3>2 DEF Send
    <3>8. handed' = handed + 1 /\ sent' = sent /\ hand' = hand
      BY <1>1 DEF Send
    <3>4. Escaped' = Escaped
      BY ONLY <1>0, <1>00, <3>1, <3>2, <3>8, OneMore DEF Escaped
    <3>7. Ended' = Ended
      BY <1>1 DEF Send, Ended
    <3>5. RowsAccounted'
      BY <1>1, <3>4, <3>7 DEF Send, RowsAccounted
    <3>6. NothingWaitsOffline'
      BY <1>1, <2>1 DEF Send, NothingWaitsOffline, Connected
    <3> QED
      BY <3>3, <3>5, <3>6
  <2>2. CASE ~(Connected /\ Len(queue) < QueueMax)
    <3>1. queue' = queue /\ dropped' = dropped + 1
      BY <1>1, <2>2 DEF Send
    <3>2. LinkTypeOK'
      BY <1>1, <3>1 DEF Send
    <3>8. handed' = handed + 1 /\ sent' = sent /\ hand' = hand
      BY <1>1 DEF Send
    <3>3. Escaped' = Escaped
      BY ONLY <1>0, <1>00, <3>1, <3>8, OneMore DEF Escaped
    <3>7. Ended' = Ended
      BY <1>1 DEF Send, Ended
    <3>4. RowsAccounted' /\ NothingWaitsOffline'
      BY <1>1, <3>1, <3>3, <3>7 DEF Send, RowsAccounted, NothingWaitsOffline, Connected
    <3> QED
      BY <3>2, <3>4
  <2> QED
    BY <2>1, <2>2
<1>2. CASE Connect
  BY <1>0, <1>2 DEF Connect, RowsAccounted, NothingWaitsOffline, Escaped, Ended, Connected, Phases
<1>3. CASE Ready
  BY <1>0, <1>3 DEF Ready, RowsAccounted, NothingWaitsOffline, Escaped, Ended, Connected, Phases
<1>4. CASE TakeRow
  <2>1. /\ queue' \in Seq(Nat) /\ Len(queue') = Len(queue) - 1
        /\ hand' \in Seq(Nat) /\ Len(hand') = 1 /\ Len(hand) = 0
    BY <1>4 DEF TakeRow
  <2> QED
    BY SMTT(30), <1>0, <1>4, <2>1
    DEF TakeRow, RowsAccounted, NothingWaitsOffline, Escaped, Ended, Connected, Phases
<1>5. CASE Drained
  BY <1>0, <1>5 DEF Drained, RowsAccounted, NothingWaitsOffline, Escaped, Ended, Connected, Phases
<1>6. CASE HelloFails
  BY <1>0, <1>6, LeaveServeStep DEF HelloFails
<1>7. CASE DrainFails
  BY <1>0, <1>7, LeaveServeStep DEF DrainFails
<1>8. CASE EncodeFails
  <2>1. Tail(queue) \in Seq(Nat) /\ Len(Tail(queue)) = Len(queue) - 1
    BY <1>8 DEF EncodeFails
  <2> QED
    <3>1. phase = "pump" /\ LeaveServe(Tail(queue)) /\ Len(hand) = 0
      BY <1>8 DEF EncodeFails
    <3>2. /\ Len(Tail(queue)) \in {Len(queue), Len(queue) - 1}
          /\ Len(queue) + Len(hand) - Len(Tail(queue)) \in {0, 1}
      BY <1>0, <2>1, <3>1
    <3> QED
      BY ZenonT(20), <2>1, <3>1, <3>2, LeaveServeStep
<1>9. CASE PeerClosed
  BY <1>0, <1>9, LeaveServeStep DEF PeerClosed
<1>10. CASE Closed
  BY <1>0, <1>10 DEF Closed, RowsAccounted, NothingWaitsOffline, Escaped, Ended, Connected, Phases
<1>11. CASE UNCHANGED link
  BY <1>11 DEF link, RowsAccounted, NothingWaitsOffline, Escaped, Ended, Connected
<1> QED
  BY <1>1, <1>2, <1>3, <1>4, <1>5, <1>6, <1>7, <1>8, <1>9, <1>10, <1>11 DEF LinkNext

(* The counters of the link account for every row handed over, but for at  *)
(* most one row of every connection that has ended.                        *)
THEOREM LinkSafe == LinkSpec => [](LinkTypeOK /\ RowsAccounted /\ NothingWaitsOffline)
  BY LinkInvInit, LinkInvStep, PTL DEF LinkSpec, LinkInv

-----------------------------------------------------------------------------
(* Induction, and functions that are defined by themselves.                *)

LEMMA Least ==
  ASSUME NEW T \in SUBSET Nat, T # {}
  PROVE  \E x \in T : \A y \in T : x <= y
<1> DEFINE R == OpToRel(<, Nat)
<1>1. IsWellFoundedOn(R, Nat)
  BY NatLessThanWellFounded
<1> HIDE DEF R
<1>2. PICK x \in T : \A y \in T : ~(<<y, x>> \in R)
  BY <1>1, WFMin
<1>3. \A n, m \in Nat : <<n, m>> \in R <=> n < m
  BY DEF R, OpToRel
<1>4. ASSUME NEW y \in T PROVE x <= y
  <2>1. x \in Nat /\ y \in Nat /\ ~(y < x)
    BY <1>2, <1>3
  <2>2. QED
    BY <2>1
<1>5. QED
  BY <1>4

LEMMA Induction ==
  ASSUME NEW T, 0 \in T, \A n \in Nat : n \in T => n + 1 \in T
  PROVE  \A n \in Nat : n \in T
<1> SUFFICES ASSUME Nat \ T # {} PROVE FALSE
  OBVIOUS
<1>1. PICK x \in Nat \ T : \A y \in Nat \ T : x <= y
  BY Least
<1>2. x # 0 /\ x - 1 \in Nat /\ ~(x <= x - 1)
  BY <1>1
<1>3. x - 1 \in T
  BY <1>1, <1>2
<1>4. (x - 1) + 1 = x
  BY <1>1
<1>5. QED
  BY <1>1, <1>2, <1>3, <1>4

(* A function that is defined by itself at another argument exists, when   *)
(* the arguments get smaller: the last argument is of the base.            *)
Defined(f, D, Done, Base, Pred, Step) ==
  f = [x \in D |-> IF x \in Done THEN Base[x] ELSE Step[<<x, f[Pred[x]]>>]]

LEMMA Recursion ==
  ASSUME NEW D, NEW V, NEW Done, NEW Size \in [D -> Nat], NEW Base \in [D -> V],
         NEW Pred \in [D -> D], NEW Step \in [D \X V -> V],
         \A x \in D \ Done : Size[Pred[x]] < Size[x]
  PROVE  \E f \in [D -> V] : Defined(f, D, Done, Base, Pred, Step)
<1> DEFINE Val(f, x) == IF x \in Done THEN Base[x] ELSE Step[<<x, f[Pred[x]]>>]
           UpTo(n) == {f \in [D -> V] : \A x \in D : Size[x] < n => f[x] = Val(f, x)}
           Agree(x) == \A a, b \in Nat : \A f \in UpTo(a), g \in UpTo(b) :
                         Size[x] < a /\ Size[x] < b => f[x] = g[x]
<1>1. \A f \in [D -> V], x \in D : Val(f, x) \in V
  OBVIOUS
<1>2. \A f, g \in [D -> V], x \in D :
        (x \notin Done => f[Pred[x]] = g[Pred[x]]) => Val(f, x) = Val(g, x)
  OBVIOUS
<1>3. \A n \in Nat : UpTo(n) # {}
  <2> DEFINE T == {n \in Nat : UpTo(n) # {}}
  <2>1. 0 \in T
    <3>1. \A x \in D : ~(Size[x] < 0)
      OBVIOUS
    <3>2. Base \in UpTo(0)
      BY <3>1
    <3> QED
      BY <3>2
  <2>2. ASSUME NEW n \in Nat, n \in T PROVE n + 1 \in T
    <3>1. PICK f \in UpTo(n) : TRUE
      BY <2>2
    <3> DEFINE g == [x \in D |-> IF Size[x] < n THEN f[x] ELSE Val(f, x)]
    <3>2. f \in [D -> V] /\ \A x \in D : Size[x] < n => f[x] = Val(f, x)
      BY <3>1
    <3>3. g \in [D -> V]
      BY <1>1, <3>2
    <3>4. ASSUME NEW x \in D, Size[x] < n + 1 PROVE g[x] = Val(g, x)
      <4>1. x \notin Done => g[Pred[x]] = f[Pred[x]]
        <5>1. SUFFICES ASSUME x \notin Done PROVE Size[Pred[x]] < n
          OBVIOUS
        <5>2. Size[Pred[x]] \in Nat /\ Size[x] \in Nat /\ Size[Pred[x]] < Size[x]
          BY <5>1
        <5> QED
          BY <3>4, <5>2
      <4>2. Val(g, x) = Val(f, x)
        BY <1>2, <3>2, <3>3, <4>1
      <4>3. g[x] = Val(f, x)
        BY <3>2
      <4> QED
        BY <4>2, <4>3
    <3>5. g \in UpTo(n + 1)
      BY <3>3, <3>4
    <3> HIDE DEF UpTo
    <3> QED
      BY <3>5
  <2> HIDE DEF T
  <2>3. \A n \in Nat : n \in T
    BY <2>1, <2>2, Induction
  <2> QED
    BY <2>3 DEF T
<1>4. \A m \in Nat : \A x \in D : Size[x] < m => Agree(x)
  <2> DEFINE T == {m \in Nat : \A x \in D : Size[x] < m => Agree(x)}
  <2>1. 0 \in T
    <3>1. \A x \in D : ~(Size[x] < 0)
      OBVIOUS
    <3> HIDE DEF Agree
    <3> QED
      BY <3>1
  <2>2. ASSUME NEW m \in Nat, m \in T PROVE m + 1 \in T
    <3>0. \A x \in D : Size[x] < m => Agree(x)
      BY <2>2
    <3>1. ASSUME NEW x \in D, Size[x] < m + 1 PROVE Agree(x)
      <4>1. SUFFICES ASSUME NEW a \in Nat, NEW b \in Nat, NEW f \in UpTo(a), NEW g \in UpTo(b),
                            Size[x] < a, Size[x] < b
                     PROVE  f[x] = g[x]
        <5> HIDE DEF UpTo
        <5> QED
          OBVIOUS
      <4>2. f \in [D -> V] /\ g \in [D -> V] /\ f[x] = Val(f, x) /\ g[x] = Val(g, x)
        BY <4>1
      <4>3. x \notin Done => f[Pred[x]] = g[Pred[x]]
        <5>1. SUFFICES ASSUME x \notin Done PROVE f[Pred[x]] = g[Pred[x]]
          OBVIOUS
        <5> DEFINE y == Pred[x]
        <5>2. y \in D /\ Size[y] \in Nat /\ Size[x] \in Nat /\ Size[y] < Size[x]
          BY <5>1
        <5>3. Size[y] < m /\ Size[y] < a /\ Size[y] < b
          BY <3>1, <4>1, <5>2
        <5>4. Agree(y)
          <6> HIDE DEF Agree, y
          <6> QED
            BY <3>0, <5>2, <5>3
        <5>5. f[y] = g[y]
          <6> HIDE DEF y, UpTo
          <6> QED
            BY <5>3, <5>4
        <5> QED
          BY <5>5
      <4> QED
        BY <1>2, <4>2, <4>3
    <3> HIDE DEF Agree
    <3> QED
      BY <3>1
  <2> HIDE DEF T
  <2>3. \A m \in Nat : m \in T
    BY <2>1, <2>2, Induction
  <2> QED
    BY <2>3 DEF T
<1> DEFINE At(x) == CHOOSE f \in UpTo(Size[x] + 1) : TRUE
           h == [x \in D |-> At(x)[x]]
<1>5. \A x \in D : At(x) \in UpTo(Size[x] + 1) /\ Size[x] + 1 \in Nat /\ Size[x] < Size[x] + 1
  <2>1. SUFFICES ASSUME NEW x \in D
                 PROVE  /\ At(x) \in UpTo(Size[x] + 1) /\ Size[x] + 1 \in Nat
                        /\ Size[x] < Size[x] + 1
    OBVIOUS
  <2>2. Size[x] + 1 \in Nat /\ Size[x] < Size[x] + 1
    OBVIOUS
  <2>3. UpTo(Size[x] + 1) # {}
    BY <1>3, <2>2
  <2> QED
    BY <2>2, <2>3
<1> HIDE DEF At
<1>6. h \in [D -> V]
  BY <1>5
<1>7. ASSUME NEW x \in D PROVE h[x] = Val(h, x)
  <2>1. /\ At(x) \in [D -> V] /\ At(x)[x] = Val(At(x), x)
    BY <1>5
  <2>2. x \notin Done => h[Pred[x]] = At(x)[Pred[x]]
    <3>1. SUFFICES ASSUME x \notin Done PROVE At(Pred[x])[Pred[x]] = At(x)[Pred[x]]
      OBVIOUS
    <3> DEFINE y == Pred[x]
    <3>2. y \in D /\ Size[y] \in Nat /\ Size[x] \in Nat /\ Size[y] < Size[x]
      BY <3>1
    <3>3. Size[y] < Size[x] + 1 /\ Size[y] < Size[y] + 1
      BY <3>2
    <3>4. Agree(y)
      <4> HIDE DEF Agree, y
      <4> QED
        BY <1>4, <3>2, <3>3
    <3>5. At(y)[y] = At(x)[y]
      <4> HIDE DEF y, UpTo
      <4> QED
        BY <1>5, <3>2, <3>3, <3>4
    <3> QED
      BY <3>5
  <2>3. Val(h, x) = Val(At(x), x)
    BY <1>2, <1>6, <2>1, <2>2
  <2> QED
    BY <2>1, <2>3
<1> QED
  <2>1. h = [x \in D |-> Val(h, x)]
    BY <1>7
  <2> QED
    BY <1>6, <2>1 DEF Defined

-----------------------------------------------------------------------------
(* Sequences of sequences put together.                                    *)

LEMMA FlattenIs ==
  ASSUME NEW T, NEW d \in Seq(Seq(T)), d # <<>>
  PROVE  \E h \in [1..Len(d) -> Seq(T)] :
           /\ \A i \in 1..Len(d) : h[i] = IF i = 1 THEN d[i] ELSE h[i - 1] \o d[i]
           /\ FlattenSeq(d) = h[Len(d)]
<1> DEFINE D == 1..Len(d)
           Size == [i \in D |-> i]
           Base == [i \in D |-> d[i]]
           Pred == [i \in D |-> IF i = 1 THEN 1 ELSE i - 1]
           Step == [z \in D \X Seq(T) |-> z[2] \o d[z[1]]]
           h == CHOOSE f : f = [i \in D |-> IF i = 1 THEN d[i] ELSE f[i - 1] \o d[i]]
<1>1. Len(d) \in Nat /\ Len(d) # 0 /\ \A i \in D : d[i] \in Seq(T) /\ i \in Nat
  OBVIOUS
<1>2. /\ Size \in [D -> Nat] /\ Base \in [D -> Seq(T)] /\ Pred \in [D -> D]
      /\ \A i \in D \ {1} : Size[Pred[i]] < Size[i]
  BY <1>1
<1>3. Step \in [D \X Seq(T) -> Seq(T)]
  BY <1>1
<1>4. \E f \in [D -> Seq(T)] :
        f = [i \in D |-> IF i \in {1} THEN Base[i] ELSE Step[<<i, f[Pred[i]]>>]]
  <2> DEFINE V == Seq(T)
             Done == {1}
  <2>1. /\ \A i \in D \ Done : Size[Pred[i]] < Size[i]
        /\ Base \in [D -> V] /\ Step \in [D \X V -> V]
    BY <1>2, <1>3
  <2> HIDE DEF D, Size, Base, Pred, Step, V, Done
  <2>3. Size \in [D -> Nat]
    BY <1>2
  <2>4. Pred \in [D -> D]
    BY <1>2
  <2>5. Base \in [D -> V]
    BY <2>1
  <2>6. Step \in [D \X V -> V]
    BY <2>1
  <2>7. \A i \in D \ Done : Size[Pred[i]] < Size[i]
    BY <2>1
  <2>2. \E f \in [D -> V] : Defined(f, D, Done, Base, Pred, Step)
    BY <2>3, <2>4, <2>5, <2>6, <2>7, Recursion
  <2> QED
    BY <2>2 DEF Done, V, Defined
<1>5. PICK f \in [D -> Seq(T)] :
        f = [i \in D |-> IF i \in {1} THEN Base[i] ELSE Step[<<i, f[Pred[i]]>>]]
  BY <1>4
<1>6. ASSUME NEW i \in D
      PROVE  (IF i \in {1} THEN Base[i] ELSE Step[<<i, f[Pred[i]]>>])
               = (IF i = 1 THEN d[i] ELSE f[i - 1] \o d[i])
  <2>1. CASE i = 1
    BY <2>1
  <2>2. CASE i # 1
    <3>1. Pred[i] = i - 1 /\ i - 1 \in D
      BY <1>1, <2>2
    <3>2. <<i, f[i - 1]>> \in D \X Seq(T)
      BY ZenonT(20), <3>1
    <3> QED
      BY <2>2, <3>1, <3>2
  <2> QED
    BY <2>1, <2>2
<1>7. f = [i \in D |-> IF i = 1 THEN d[i] ELSE f[i - 1] \o d[i]]
  BY ZenonT(20), <1>5, <1>6
<1>8. h = [i \in D |-> IF i = 1 THEN d[i] ELSE h[i - 1] \o d[i]]
  <2> HIDE DEF D
  <2> QED
    BY ZenonT(20), <1>7
<1>9. FlattenSeq(d) = h[Len(d)]
  BY <1>1 DEF FlattenSeq
<1>10. h \in [D -> Seq(T)]
  <2> HIDE DEF h
  <2> DEFINE Typed == {n \in Nat : n \in D => h[n] \in Seq(T)}
  <2>1. 0 \in Typed
    OBVIOUS
  <2>2. ASSUME NEW n \in Nat, n \in Typed PROVE n + 1 \in Typed
    <3>1. SUFFICES ASSUME n + 1 \in D PROVE h[n + 1] \in Seq(T)
      OBVIOUS
    <3>2. CASE n = 0
      BY <1>1, <1>8, <3>1, <3>2
    <3>3. CASE n # 0
      <4>1. n \in D /\ (n + 1) - 1 = n /\ n + 1 # 1
        BY <1>1, <3>1, <3>3
      <4>2. h[n] \in Seq(T) /\ d[n + 1] \in Seq(T)
        BY <1>1, <2>2, <3>1, <4>1
      <4>3. h[n + 1] = h[n] \o d[n + 1]
        BY <1>8, <3>1, <4>1
      <4> QED
        BY <4>2, <4>3
    <3> QED
      BY <3>2, <3>3
  <2> HIDE DEF Typed
  <2>3. \A n \in Nat : n \in Typed
    BY <2>1, <2>2, Induction
  <2>4. \A n \in D : h[n] \in Seq(T)
    BY <1>1, <2>3 DEF Typed
  <2> QED
    BY <1>8, <2>4
<1> HIDE DEF h
<1> QED
  BY <1>8, <1>9, <1>10

LEMMA FlattenEmpty == FlattenSeq(<<>>) = <<>>
  BY DEF FlattenSeq

LEMMA FlattenType ==
  ASSUME NEW T, NEW d \in Seq(Seq(T))
  PROVE  FlattenSeq(d) \in Seq(T)
<1>1. CASE d = <<>>
  <2>1. FlattenSeq(d) = <<>>
    BY Zenon, <1>1, FlattenEmpty
  <2> QED
    BY <2>1
<1>2. CASE d # <<>>
  <2>1. PICK h \in [1..Len(d) -> Seq(T)] : FlattenSeq(d) = h[Len(d)]
    BY <1>2, FlattenIs
  <2>2. Len(d) \in 1..Len(d)
    BY <1>2
  <2> QED
    BY <2>1, <2>2
<1> QED
  BY <1>1, <1>2

LEMMA FlattenOne ==
  ASSUME NEW T, NEW s \in Seq(T)
  PROVE  FlattenSeq(<<s>>) = s
<1>1. <<s>> \in Seq(Seq(T)) /\ <<s>> # <<>> /\ Len(<<s>>) = 1
  OBVIOUS
<1>2. PICK h \in [1..Len(<<s>>) -> Seq(T)] :
        /\ \A i \in 1..Len(<<s>>) : h[i] = IF i = 1 THEN <<s>>[i] ELSE h[i - 1] \o <<s>>[i]
        /\ FlattenSeq(<<s>>) = h[Len(<<s>>)]
  BY <1>1, FlattenIs
<1> QED
  BY <1>1, <1>2

LEMMA FlattenConcat ==
  ASSUME NEW T, NEW a \in Seq(Seq(T)), NEW b \in Seq(Seq(T))
  PROVE  FlattenSeq(a \o b) = FlattenSeq(a) \o FlattenSeq(b)
<1>1. FlattenSeq(a) \in Seq(T) /\ FlattenSeq(b) \in Seq(T)
  BY FlattenType
<1>2. CASE a = <<>>
  <2>1. a \o b = b
    BY <1>2
  <2> QED
    BY <1>1, <1>2, <2>1, FlattenEmpty
<1>3. CASE b = <<>>
  <2>1. a \o b = a
    BY <1>3
  <2> QED
    BY <1>1, <1>3, <2>1, FlattenEmpty
<1>4. CASE a # <<>> /\ b # <<>>
  <2> DEFINE c == a \o b
             m == Len(a)
             k == Len(b)
  <2>1. /\ m \in Nat /\ m # 0 /\ k \in Nat /\ k # 0
        /\ c \in Seq(Seq(T)) /\ c # <<>> /\ Len(c) = m + k
        /\ \A i \in 1..m : i \in 1..(m + k) /\ c[i] = a[i]
        /\ \A i \in 1..k : m + i \in 1..(m + k) /\ c[m + i] = b[i]
    BY <1>4
  <2>2. PICK f \in [1..m -> Seq(T)] :
          /\ \A i \in 1..m : f[i] = IF i = 1 THEN a[i] ELSE f[i - 1] \o a[i]
          /\ FlattenSeq(a) = f[m]
    BY <1>4, FlattenIs
  <2>3. PICK g \in [1..k -> Seq(T)] :
          /\ \A i \in 1..k : g[i] = IF i = 1 THEN b[i] ELSE g[i - 1] \o b[i]
          /\ FlattenSeq(b) = g[k]
    BY <1>4, FlattenIs
  <2>4. PICK h \in [1..(m + k) -> Seq(T)] :
          /\ \A i \in 1..(m + k) : h[i] = IF i = 1 THEN c[i] ELSE h[i - 1] \o c[i]
          /\ FlattenSeq(c) = h[m + k]
    <3>1. \E h \in [1..Len(c) -> Seq(T)] :
            /\ \A i \in 1..Len(c) : h[i] = IF i = 1 THEN c[i] ELSE h[i - 1] \o c[i]
            /\ FlattenSeq(c) = h[Len(c)]
      <4> HIDE DEF c
      <4> QED
        BY <2>1, FlattenIs
    <3>2. Len(c) = m + k
      BY <2>1
    <3> HIDE DEF c, m, k
    <3> QED
      BY ZenonT(30), <3>1, <3>2
  <2> HIDE DEF c, m, k
  <2> DEFINE Left == {n \in Nat : n \in 1..m => h[n] = f[n]}
  <2>5. \A n \in Nat : n \in Left
    <3>1. 0 \in Left
      OBVIOUS
    <3>2. ASSUME NEW n \in Nat, n \in Left PROVE n + 1 \in Left
      <4>1. SUFFICES ASSUME n + 1 \in 1..m PROVE h[n + 1] = f[n + 1]
        OBVIOUS
      <4>2. n + 1 \in 1..(m + k) /\ c[n + 1] = a[n + 1] /\ (n + 1) - 1 = n
        BY <2>1, <4>1
      <4>3. h[n + 1] = IF n + 1 = 1 THEN c[n + 1] ELSE h[(n + 1) - 1] \o c[n + 1]
        BY <2>4, <4>2
      <4>4. f[n + 1] = IF n + 1 = 1 THEN a[n + 1] ELSE f[(n + 1) - 1] \o a[n + 1]
        BY <2>2, <4>1
      <4>5. n + 1 # 1 => n \in 1..m
        BY <2>1, <4>1
      <4>6. n + 1 # 1 => h[n] = f[n]
        BY <3>2, <4>5
      <4> QED
        BY <4>2, <4>3, <4>4, <4>6
    <3> HIDE DEF Left
    <3> QED
      BY <3>1, <3>2, Induction
  <2>6. h[m] = f[m] /\ m \in 1..m
    BY <2>1, <2>5
  <2> HIDE DEF Left
  <2> DEFINE At(n) == h[m + n] = f[m] \o g[n]
             Right == {n \in Nat : n \in 1..k => At(n)}
  <2>7. \A n \in Nat : n \in Right
    <3>1. 0 \in Right
      OBVIOUS
    <3>2. ASSUME NEW n \in Nat, n \in Right PROVE n + 1 \in Right
      <4>1. SUFFICES ASSUME n + 1 \in 1..k PROVE At(n + 1)
        <5> HIDE DEF At
        <5> QED
          OBVIOUS
      <4>0. (m + (n + 1)) - 1 = m + n /\ m + (n + 1) # 1
        BY <2>1, <4>1
      <4>2. m + (n + 1) \in 1..(m + k) /\ c[m + (n + 1)] = b[n + 1]
        BY <2>1, <4>1
      <4>3. h[m + (n + 1)] = h[m + n] \o b[n + 1]
        BY <2>4, <4>0, <4>2
      <4>4. g[n + 1] = IF n + 1 = 1 THEN b[n + 1] ELSE g[(n + 1) - 1] \o b[n + 1]
        BY <2>3, <4>1
      <4>5. CASE n = 0
        <5>1. m + n = m /\ n + 1 = 1
          BY <2>1, <4>5
        <5> QED
          BY <2>6, <4>3, <4>4, <5>1
      <4>6. CASE n # 0
        <5>1. n \in 1..k /\ (n + 1) - 1 = n /\ n + 1 # 1
          BY <2>1, <4>1, <4>6
        <5>2. h[m + n] = f[m] \o g[n]
          BY <3>2, <5>1
        <5>3. g[n + 1] = g[n] \o b[n + 1]
          BY <4>4, <5>1
        <5>4. f[m] \in Seq(T) /\ g[n] \in Seq(T)
          BY <2>2, <2>3, <2>6, <5>1
        <5>6. b[n + 1] \in Seq(T)
          BY <4>1 DEF k
        <5>5. (f[m] \o g[n]) \o b[n + 1] = f[m] \o (g[n] \o b[n + 1])
          <6> DEFINE p == f[m]
                     q == g[n]
                     r == b[n + 1]
          <6>1. p \in Seq(T) /\ q \in Seq(T) /\ r \in Seq(T)
            BY <5>4, <5>6
          <6> HIDE DEF p, q, r
          <6>2. (p \o q) \o r = p \o (q \o r)
            BY SMTT(30), <6>1, ConcatAssociative
          <6> QED
            BY <6>2 DEF p, q, r
        <5> QED
          BY <4>3, <5>2, <5>3, <5>5
      <4> QED
        BY <4>5, <4>6
    <3> HIDE DEF Right
    <3> QED
      BY <3>1, <3>2, Induction
  <2>8. k \in Nat /\ k \in 1..k
    BY <2>1
  <2>9. At(k)
    <3> HIDE DEF At
    <3> QED
      BY <2>7, <2>8
  <2> QED
    BY <2>2, <2>3, <2>4, <2>9 DEF c
<1> QED
  BY <1>2, <1>3, <1>4

-----------------------------------------------------------------------------
(* The codec.                                                              *)

LEMMA CrcType ==
  ASSUME NEW data \in Seq(Nat)
  PROVE  Crc(data) \in Nat
<1> DEFINE D == 0..Len(data)
           Size == [i \in D |-> i]
           Base == [i \in D |-> 0]
           Pred == [i \in D |-> IF i = 0 THEN 0 ELSE i - 1]
           Step == [z \in D \X Int |-> IF z[1] = 0 THEN 0 ELSE z[2] + data[z[1]]]
           sum == CHOOSE f : f = [i \in D |-> IF i = 0 THEN 0 ELSE f[i - 1] + data[i]]
<1>1. Len(data) \in Nat /\ \A i \in D : i \in Nat /\ (i # 0 => i - 1 \in D /\ data[i] \in Nat)
  OBVIOUS
<1>2. /\ Size \in [D -> Nat] /\ Base \in [D -> Int] /\ Pred \in [D -> D]
      /\ \A i \in D \ {0} : Size[Pred[i]] < Size[i]
  BY <1>1
<1>3. Step \in [D \X Int -> Int]
  BY <1>1
<1>4. PICK f \in [D -> Int] : Defined(f, D, {0}, Base, Pred, Step)
  <2> DEFINE Done == {0}
  <2>1. \A i \in D \ Done : Size[Pred[i]] < Size[i]
    BY <1>2
  <2> HIDE DEF D, Size, Base, Pred, Step, Done
  <2>2. \E f \in [D -> Int] : Defined(f, D, Done, Base, Pred, Step)
    BY <1>2, <1>3, <2>1, Recursion
  <2> QED
    BY <2>2 DEF Done
<1>5. ASSUME NEW i \in D
      PROVE  (IF i \in {0} THEN Base[i] ELSE Step[<<i, f[Pred[i]]>>])
               = (IF i = 0 THEN 0 ELSE f[i - 1] + data[i])
  <2>1. CASE i = 0
    BY <2>1
  <2>2. CASE i # 0
    <3>1. Pred[i] = i - 1 /\ i - 1 \in D
      BY <1>1, <2>2
    <3>2. <<i, f[i - 1]>> \in D \X Int
      BY <3>1
    <3> QED
      BY <2>2, <3>1, <3>2
  <2> QED
    BY <2>1, <2>2
<1>6. f = [i \in D |-> IF i = 0 THEN 0 ELSE f[i - 1] + data[i]]
  <2>1. f = [i \in D |-> IF i \in {0} THEN Base[i] ELSE Step[<<i, f[Pred[i]]>>]]
    BY ZenonT(20), <1>4 DEF Defined
  <2> HIDE DEF D, Base, Pred, Step
  <2> QED
    BY ZenonT(20), <1>5, <2>1
<1>7. sum = [i \in D |-> IF i = 0 THEN 0 ELSE sum[i - 1] + data[i]]
  <2> HIDE DEF D
  <2> QED
    BY <1>6
<1>8. Crc(data) = sum[Len(data)] % 97
  BY DEF Crc
<1> HIDE DEF sum
<1> DEFINE Typed == {n \in Nat : n \in D => sum[n] \in Nat}
<1>9. 0 \in Typed
  BY <1>7
<1>10. ASSUME NEW n \in Nat, n \in Typed PROVE n + 1 \in Typed
  <2>1. SUFFICES ASSUME n + 1 \in D PROVE sum[n + 1] \in Nat
    OBVIOUS
  <2>2. n \in D /\ (n + 1) - 1 = n /\ n + 1 # 0
    BY <1>1, <2>1
  <2>3. sum[n] \in Nat /\ data[n + 1] \in Nat
    BY <1>1, <1>10, <2>1, <2>2
  <2>4. sum[n + 1] = sum[n] + data[n + 1]
    BY <1>7, <2>1, <2>2
  <2> QED
    BY <2>3, <2>4
<1> HIDE DEF Typed
<1>11. Len(data) \in Typed
  BY <1>1, <1>9, <1>10, Induction
<1>12. sum[Len(data)] \in Nat
  BY <1>1, <1>11 DEF Typed
<1> QED
  BY <1>8, <1>12

Parsed == [cells : Seq(Cell), truncated : BOOLEAN]
NoCells == [cells |-> <<>>, truncated |-> FALSE]
CellBefore(type, value, rest) ==
  [cells |-> <<[type |-> type, value |-> value]>> \o rest.cells, truncated |-> rest.truncated]

LEMMA DecodeCellsIs ==
  ASSUME NEW body \in Seq(Nat)
  PROVE  \E at \in [1..(Len(body) + 3) -> Parsed] :
           /\ DecodeCells(body) = at[1]
           /\ \A p \in 1..(Len(body) + 3) :
                /\ p + 1 > Len(body) => at[p] = NoCells
                /\ p + 2 <= Len(body) /\ body[p] \in {NavType, Crown, Irma}
                     => at[p] = CellBefore(body[p], body[p + 2], at[p + 3])
<1> DEFINE L == Len(body)
           D == 1..(L + 3)
           Ends(p) == p + 1 > L \/ (p + 1 <= L /\ body[p] \notin DOMAIN CellSize)
           Cuts(p) == p + 1 + CellSize[body[p]] > L
           Next3(p) == p + 2 + CellSize[body[p]]
           Cut0 == [cells |-> <<>>, truncated |-> TRUE]
           More(p, rest) == [rest EXCEPT !.cells = <<[type |-> body[p], value |-> body[p + 2]]>> \o @]
           Rule(g, p) == IF Ends(p) THEN NoCells ELSE IF Cuts(p) THEN Cut0 ELSE More(p, g[Next3(p)])
           Done == {p \in D : Ends(p) \/ Cuts(p)}
           Size == [p \in D |-> L + 3 - p]
           Base == [p \in D |-> IF Ends(p) THEN NoCells ELSE Cut0]
           Pred == [p \in D |-> IF p \in Done THEN p ELSE p + 3]
           Step == [z \in D \X Parsed |-> IF z[1] \in Done THEN NoCells ELSE More(z[1], z[2])]
           at == CHOOSE f : f = [p \in D |-> Rule(f, p)]
<1>1. L \in Nat /\ \A p \in D : p \in Nat /\ p # 0
  OBVIOUS
<1>2. ASSUME NEW p \in D, p \notin Done
      PROVE  /\ Next3(p) = p + 3 /\ p + 3 \in D /\ p + 2 <= L /\ body[p] \in Nat /\ body[p + 2] \in Nat
             /\ ~Ends(p) /\ ~Cuts(p)
  <2>1. ~Ends(p) /\ ~Cuts(p)
    BY <1>2
  <2>2. p + 1 <= L /\ body[p] \in DOMAIN CellSize
    BY <1>1, <2>1
  <2>3. CellSize[body[p]] = 1
    BY <2>2 DEF CellSize
  <2>4. p + 2 <= L /\ Next3(p) = p + 3
    BY <1>1, <2>1, <2>3
  <2>5. p + 3 \in D /\ body[p] \in Nat /\ body[p + 2] \in Nat
    BY <1>1, <2>4
  <2> QED
    BY <2>1, <2>4, <2>5
<1>3. NoCells \in Parsed /\ Cut0 \in Parsed
  BY DEF Parsed, NoCells
<1>4. ASSUME NEW p \in D, p \notin Done, NEW r \in Parsed
      PROVE  More(p, r) \in Parsed /\ More(p, r) = CellBefore(body[p], body[p + 2], r)
  <2>1. body[p] \in Nat /\ body[p + 2] \in Nat
    BY <1>2, <1>4
  <2>2. <<[type |-> body[p], value |-> body[p + 2]]>> \in Seq(Cell)
    BY <2>1 DEF Cell
  <2>3. r.cells \in Seq(Cell) /\ r.truncated \in BOOLEAN /\ r = [cells |-> r.cells, truncated |-> r.truncated]
    BY DEF Parsed
  <2> DEFINE one == <<[type |-> body[p], value |-> body[p + 2]]>>
  <2> HIDE DEF one
  <2>4. one \o r.cells \in Seq(Cell)
    BY <2>2, <2>3 DEF one
  <2>5. [r EXCEPT !.cells = one \o @] = [cells |-> one \o r.cells, truncated |-> r.truncated]
    <3> DEFINE e == one \o r.cells
    <3>1. [r EXCEPT !.cells = e] = [cells |-> e, truncated |-> r.truncated]
      <4> HIDE DEF e
      <4> QED
        BY <2>3 DEF Parsed
    <3> QED
      BY <3>1
  <2> QED
    BY <2>3, <2>4, <2>5 DEF CellBefore, Parsed, one
<1> HIDE DEF Ends, Cuts, Next3, Cut0, More
<1>5. /\ Size \in [D -> Nat] /\ Base \in [D -> Parsed] /\ Pred \in [D -> D]
      /\ \A p \in D \ Done : Size[Pred[p]] < Size[p]
  <2>1. ASSUME NEW p \in D PROVE L + 3 - p \in Nat
    BY <1>1
  <2>2. ASSUME NEW p \in D PROVE (IF p \in Done THEN p ELSE p + 3) \in D
    BY <1>2
  <2>3. ASSUME NEW p \in D, p \notin Done PROVE L + 3 - (p + 3) < L + 3 - p
    BY <1>1
  <2> HIDE DEF Done, D
  <2>4. ASSUME NEW p \in D \ Done PROVE Size[Pred[p]] < Size[p]
    <3>1. Pred[p] = p + 3 /\ p + 3 \in D
      BY <2>2
    <3> QED
      BY <2>3, <3>1
  <2> QED
    BY <1>3, <2>1, <2>2, <2>4
<1>6. Step \in [D \X Parsed -> Parsed]
  <2> HIDE DEF Done, D
  <2>1. ASSUME NEW z \in D \X Parsed
        PROVE  (IF z[1] \in Done THEN NoCells ELSE More(z[1], z[2])) \in Parsed
    <3>1. z[1] \in D /\ z[2] \in Parsed
      OBVIOUS
    <3> QED
      BY <1>3, <1>4, <3>1
  <2> QED
    BY <2>1
<1>7. PICK f \in [D -> Parsed] : Defined(f, D, Done, Base, Pred, Step)
  <2> HIDE DEF D, Size, Base, Pred, Step, Done
  <2> QED
    BY <1>5, <1>6, Recursion
<1>8. ASSUME NEW p \in D
      PROVE  (IF p \in Done THEN Base[p] ELSE Step[<<p, f[Pred[p]]>>]) = Rule(f, p)
  <2>1. CASE p \in Done
    BY <2>1
  <2>2. CASE p \notin Done
    <3>1. Pred[p] = p + 3 /\ p + 3 \in D /\ Next3(p) = p + 3 /\ ~Ends(p) /\ ~Cuts(p)
      BY <1>2, <2>2
    <3> HIDE DEF Done, D
    <3>2. <<p, f[p + 3]>> \in D \X Parsed
      BY <1>7, <3>1
    <3>3. Step[<<p, f[p + 3]>>] = More(p, f[p + 3])
      BY <2>2, <3>2
    <3> QED
      BY <2>2, <3>1, <3>3
  <2> QED
    BY <2>1, <2>2
<1>9. f = [p \in D |-> Rule(f, p)]
  <2>1. f = [p \in D |-> IF p \in Done THEN Base[p] ELSE Step[<<p, f[Pred[p]]>>]]
    BY ZenonT(20), <1>7 DEF Defined
  <2> HIDE DEF D, Done, Base, Pred, Step, Rule
  <2> QED
    BY ZenonT(20), <1>8, <2>1
<1>10. at = [p \in D |-> Rule(at, p)]
  <2> HIDE DEF D
  <2> QED
    BY <1>9
<1>11. DecodeCells(body) = at[1]
  BY DEF DecodeCells, Ends, Cuts, Next3, Cut0, More, NoCells
<1> HIDE DEF at
<1>12. ASSUME NEW p \in D, p \notin Done PROVE at[p] = More(p, at[p + 3])
  <2>1. at[p] = Rule(at, p)
    BY <1>10
  <2>2. Next3(p) = p + 3 /\ ~Ends(p) /\ ~Cuts(p)
    BY <1>2, <1>12
  <2> QED
    BY <2>1, <2>2
<1>13. at \in [D -> Parsed]
  <2> DEFINE T == {n \in Nat : \A p \in D : L + 3 - p < n => at[p] \in Parsed}
  <2>1. 0 \in T
    BY <1>1
  <2>2. ASSUME NEW n \in Nat, n \in T PROVE n + 1 \in T
    <3>1. ASSUME NEW p \in D, L + 3 - p < n + 1 PROVE at[p] \in Parsed
      <4>1. CASE p \in Done
        <5>1. at[p] = Rule(at, p) /\ (Ends(p) \/ Cuts(p))
          BY <1>10, <4>1
        <5> QED
          BY <1>3, <5>1
      <4>2. CASE p \notin Done
        <5>1. p + 3 \in D /\ L + 3 - (p + 3) < n
          BY <1>1, <1>2, <3>1, <4>2
        <5>2. at[p + 3] \in Parsed
          BY <2>2, <5>1
        <5> HIDE DEF Done, D
        <5> QED
          BY <1>4, <1>12, <4>2, <5>2
      <4> QED
        BY <4>1, <4>2
    <3> QED
      BY <3>1
  <2> HIDE DEF T
  <2>3. L + 3 \in T
    <3>1. \A n \in Nat : n \in T
      BY <2>1, <2>2, Induction
    <3> QED
      BY <1>1, <3>1
  <2>4. \A p \in D : at[p] \in Parsed
    BY <1>1, <2>3 DEF T
  <2> HIDE DEF D, Rule
  <2> QED
    BY <1>10, <2>4
<1>14. ASSUME NEW p \in D, p + 1 > L PROVE at[p] = NoCells
  <2>1. Ends(p)
    BY <1>14 DEF Ends
  <2> QED
    BY <1>10, <2>1
<1>15. ASSUME NEW p \in D, p + 2 <= L, body[p] \in {NavType, Crown, Irma}
       PROVE  at[p] = CellBefore(body[p], body[p + 2], at[p + 3])
  <2>1. CellSize[body[p]] = 1 /\ body[p] \in DOMAIN CellSize
    BY <1>15 DEF CellSize
  <2>2. ~Ends(p) /\ ~Cuts(p)
    BY <1>1, <1>15, <2>1 DEF Ends, Cuts
  <2>3. p \notin Done
    BY <2>2
  <2>4. at[p] = More(p, at[p + 3]) /\ p + 3 \in D
    BY <1>2, <1>12, <2>3
  <2> HIDE DEF Done, D
  <2> QED
    BY <1>4, <1>13, <2>3, <2>4
<1> HIDE DEF Rule
<1> QED
  BY <1>11, <1>13, <1>14, <1>15

LEMMA FromIs ==
  ASSUME NEW T, NEW s \in Seq(T), NEW i \in 1..(Len(s) + 1)
  PROVE  /\ From(s, i) \in Seq(T)
         /\ Len(From(s, i)) = Len(s) + 1 - i
         /\ \A j \in 1..(Len(s) + 1 - i) : From(s, i)[j] = s[i + j - 1]
  BY DEF From

LEMMA SplitAt ==
  ASSUME NEW T, NEW s \in Seq(T), NEW n \in 0..Len(s)
  PROVE  /\ SubSeq(s, 1, n) \in Seq(T) /\ From(s, n + 1) \in Seq(T)
         /\ SubSeq(s, 1, n) \o From(s, n + 1) = s
<1> DEFINE p == SubSeq(s, 1, n)
           q == From(s, n + 1)
           z == p \o q
<1>0. Len(s) \in Nat /\ n \in Nat /\ n <= Len(s) /\ n + 1 \in 1..(Len(s) + 1)
      /\ Len(s) + 1 - (n + 1) = Len(s) - n
  OBVIOUS
<1>1. p \in Seq(T) /\ Len(p) = n /\ \A i \in 1..n : p[i] = s[i]
  OBVIOUS
<1>2. q \in Seq(T) /\ Len(q) = Len(s) - n /\ \A i \in 1..(Len(s) - n) : q[i] = s[n + 1 + i - 1]
  <2> HIDE DEF q
  <2>1. /\ q \in Seq(T) /\ Len(q) = Len(s) + 1 - (n + 1)
        /\ \A i \in 1..(Len(s) + 1 - (n + 1)) : q[i] = s[n + 1 + i - 1]
    BY <1>0, FromIs DEF q
  <2> QED
    BY <1>0, <2>1
<1> HIDE DEF p, q
<1>3. p \in Seq(T) /\ q \in Seq(T)
  BY <1>1, <1>2
<1>4. /\ z \in Seq(T) /\ Len(z) = Len(p) + Len(q)
      /\ \A i \in 1..Len(p) : z[i] = p[i]
      /\ \A i \in 1..Len(q) : z[Len(p) + i] = q[i]
  BY <1>3
<1> HIDE DEF z
<1>5. Len(z) = Len(s)
  BY <1>0, <1>1, <1>2, <1>4
<1>6. ASSUME NEW i \in 1..Len(s) PROVE z[i] = s[i]
  <2>1. CASE i <= n
    <3>1. i \in 1..n
      BY <1>0, <2>1
    <3> QED
      BY <1>1, <1>4, <3>1
  <2>2. CASE ~(i <= n)
    <3> DEFINE j == i - n
    <3>1. j \in 1..(Len(s) - n) /\ n + j = i /\ n + 1 + j - 1 = i
      BY <1>0, <2>2
    <3> HIDE DEF j
    <3>2. z[n + j] = q[j]
      BY <1>1, <1>2, <1>4, <3>1
    <3>3. q[j] = s[n + 1 + j - 1]
      BY <1>2, <3>1
    <3> QED
      BY <3>1, <3>2, <3>3
  <2> QED
    BY <2>1, <2>2
<1>7. z = s
  BY <1>4, <1>5, <1>6, SeqEqual
<1> QED
  BY <1>3, <1>7 DEF p, q, z

LEMMA FromConcat ==
  ASSUME NEW T, NEW s \in Seq(T), NEW t \in Seq(T), NEW i \in 1..(Len(s) + 1)
  PROVE  From(s \o t, i) = From(s, i) \o t
<1> DEFINE z == s \o t
           f == From(s, i)
           k == Len(s) + 1 - i
           n == k + Len(t)
           a == From(z, i)
           b == f \o t
<1>0. Len(s) \in Nat /\ Len(t) \in Nat /\ i \in Nat /\ i >= 1 /\ k \in Nat /\ n \in Nat
  OBVIOUS
<1>1. z \in Seq(T) /\ Len(z) = Len(s) + Len(t)
  OBVIOUS
<1>2. \A j \in 1..Len(s) : z[j] = s[j]
  OBVIOUS
<1>3. \A j \in 1..Len(t) : z[Len(s) + j] = t[j]
  OBVIOUS
<1>4. f \in Seq(T) /\ Len(f) = k /\ \A j \in 1..k : f[j] = s[i + j - 1]
  BY FromIs
<1> HIDE DEF z, f
<1>5. i \in 1..(Len(z) + 1) /\ Len(z) + 1 - i = n
  BY <1>0, <1>1
<1>6. a \in Seq(T) /\ Len(a) = n /\ \A j \in 1..n : a[j] = z[i + j - 1]
  <2>1. a \in Seq(T) /\ Len(a) = Len(z) + 1 - i /\ \A j \in 1..(Len(z) + 1 - i) : a[j] = z[i + j - 1]
    BY <1>1, <1>5, FromIs
  <2> HIDE DEF n
  <2> QED
    BY <1>5, <2>1
<1>7. b \in Seq(T) /\ Len(b) = n
  <2>0. f \in Seq(T)
    BY <1>4
  <2>1. b \in Seq(T) /\ Len(b) = Len(f) + Len(t)
    BY <2>0
  <2> HIDE DEF k, b
  <2> QED
    BY <1>4, <2>1
<1>8. \A j \in 1..k : b[j] = f[j]
  <2> HIDE DEF k
  <2> QED
    BY <1>4
<1>9. \A j \in 1..Len(t) : b[k + j] = t[j]
  <2>1. f \in Seq(T)
    BY <1>4
  <2>2. \A j \in 1..Len(t) : b[Len(f) + j] = t[j]
    BY <2>1
  <2> HIDE DEF k, b
  <2> QED
    BY <1>4, <2>2
<1> HIDE DEF a, b
<1>10. ASSUME NEW j \in 1..n PROVE a[j] = b[j]
  <2>1. CASE j <= k
    <3>1. j \in 1..k /\ i + j - 1 \in 1..Len(s)
      BY <1>0, <2>1
    <3>2. a[j] = z[i + j - 1] /\ z[i + j - 1] = s[i + j - 1]
      <4> HIDE DEF n, k
      <4> QED
        BY <1>2, <1>6, <3>1
    <3>3. b[j] = s[i + j - 1]
      <4> HIDE DEF n, k
      <4> QED
        BY <1>4, <1>8, <3>1
    <3> QED
      BY <3>2, <3>3
  <2>2. CASE ~(j <= k)
    <3> DEFINE m == j - k
    <3>1. m \in 1..Len(t) /\ i + j - 1 = Len(s) + m /\ k + m = j
      BY <1>0, <2>2
    <3> HIDE DEF n, k, m
    <3>2. a[j] = z[i + j - 1]
      BY <1>6
    <3>3. z[Len(s) + m] = t[m] /\ b[k + m] = t[m]
      BY <1>3, <1>9, <3>1
    <3> QED
      BY <3>1, <3>2, <3>3
  <2> QED
    BY <2>1, <2>2
<1>11. a = b
  <2> HIDE DEF n
  <2> QED
    BY <1>6, <1>7, <1>10
<1> QED
  BY <1>11 DEF a, b, z, f

LEMMA FirstOfType ==
  ASSUME NEW type \in Nat, NEW cells \in Seq(Cell)
  PROVE  FirstOf(type)[cells] \in Seq(Nat)
<1> DEFINE at == {i \in DOMAIN cells : cells[i].type = type}
           first == CHOOSE i \in at : \A j \in at : i <= j
<1>1. FirstOf(type)[cells] = IF at = {} THEN <<>> ELSE <<cells[first].value>>
  BY DEF FirstOf
<1>2. CASE at = {}
  BY <1>1, <1>2
<1>3. CASE at # {}
  <2>1. at \in SUBSET Nat
    OBVIOUS
  <2>2. \E i \in at : \A j \in at : i <= j
    <3> HIDE DEF at
    <3> QED
      BY <1>3, <2>1, Least
  <2>3. first \in at
    <3> HIDE DEF at
    <3> QED
      BY <2>2
  <2>4. cells[first] \in Cell
    <3> HIDE DEF first
    <3> QED
      BY <2>3
  <2>5. cells[first].value \in Nat
    <3> HIDE DEF first
    <3> QED
      BY <2>4 DEF Cell
  <2> HIDE DEF at, first
  <2> QED
    BY <1>1, <1>3, <2>5
<1> QED
  BY <1>2, <1>3

LEMMA DoorsType ==
  ASSUME NEW cells \in Seq(Cell)
  PROVE  DoorSnapshot(cells) \in Seq(Nat \X BOOLEAN)
<1> DEFINE irma == FirstOf(Irma)[cells]
           crown == FirstOf(Crown)[cells]
<1>1. Irma \in Nat /\ Crown \in Nat
  BY DEF Irma, Crown
<1>2. DoorSnapshot(cells) = IF irma # <<>> THEN <<<<Irma, irma[1] = 1>>>>
                            ELSE IF crown # <<>> THEN <<<<Crown, FALSE>>>> ELSE <<>>
  BY DEF DoorSnapshot
<1>3. (irma[1] = 1) \in BOOLEAN
  BY Zenon
<1> DEFINE b == irma[1] = 1
<1> HIDE DEF irma, crown
<1>4. <<Irma, b>> \in Nat \X BOOLEAN
  BY <1>1, <1>3, Zenon DEF b
<1> DEFINE e == <<Irma, b>>
<1> HIDE DEF e
<1>5. <<e>> \in Seq(Nat \X BOOLEAN)
  BY <1>4 DEF e
<1>6. <<<<Crown, FALSE>>>> \in Seq(Nat \X BOOLEAN)
  <2> DEFINE closed == <<Crown, FALSE>>
  <2>1. closed \in Nat \X BOOLEAN
    BY <1>1
  <2> HIDE DEF closed
  <2>2. <<closed>> \in Seq(Nat \X BOOLEAN)
    BY <2>1
  <2> QED
    BY <2>2 DEF closed
<1>7. <<>> \in Seq(Nat \X BOOLEAN)
  OBVIOUS
<1> QED
  BY <1>2, <1>5, <1>6, <1>7, Zenon DEF e, b

LEMMA DecodeFrameType ==
  ASSUME NEW raw \in Seq(Nat), Len(raw) >= NplLen + NphLen
  PROVE  DecodeFrame(raw) \in Seq(Frames)
<1> DEFINE kind == raw[NplLen + 1]
           body == From(raw, NplLen + NphLen + 1)
           parsed == DecodeCells(body)
           ok == Crc(From(raw, NplLen + 1)) = raw[4]
           nav == IF kind = Realtime THEN Navs(parsed.cells) ELSE <<>>
           doors == IF kind = Realtime THEN DoorSnapshot(parsed.cells) ELSE <<>>
           frame == [kind |-> kind, crcOk |-> ok, nav |-> nav, doors |-> doors]
<1>1. kind \in Nat
  BY DEF NplLen, NphLen
<1>2. ok \in BOOLEAN
  BY Zenon
<1>3. body \in Seq(Nat)
  <2>1. NplLen + NphLen + 1 \in 1..(Len(raw) + 1)
    BY DEF NplLen, NphLen
  <2> QED
    BY <2>1, FromIs
<1> HIDE DEF kind, body
<1>4. parsed \in Parsed
  <2>1. PICK at \in [1..(Len(body) + 3) -> Parsed] : DecodeCells(body) = at[1]
    BY <1>3, DecodeCellsIs
  <2>2. 1 \in 1..(Len(body) + 3)
    BY <1>3
  <2> QED
    BY <2>1, <2>2
<1> HIDE DEF parsed
<1>5. parsed.cells \in Seq(Cell)
  BY <1>4 DEF Parsed
<1>6. nav \in Seq(Nat)
  <2>1. Navs(parsed.cells) \in Seq(Nat)
    BY <1>5, FirstOfType DEF Navs, NavType
  <2> QED
    BY <2>1
<1>7. doors \in Seq(Nat \X BOOLEAN)
  <2>1. DoorSnapshot(parsed.cells) \in Seq(Nat \X BOOLEAN)
    BY <1>5, DoorsType
  <2> QED
    BY <2>1
<1>8. DecodeFrame(raw) = <<>> \/ DecodeFrame(raw) = <<frame>>
  BY Zenon DEF DecodeFrame, kind, body, parsed
<1>9. <<frame>> \in Seq(Frames)
  <2> HIDE DEF nav, doors, ok
  <2>1. frame \in Frames
    BY <1>1, <1>2, <1>6, <1>7, Zenon DEF Frames
  <2> HIDE DEF frame
  <2> QED
    BY <2>1
<1> HIDE DEF frame
<1>10. <<>> \in Seq(Frames)
  OBVIOUS
<1> QED
  BY <1>8, <1>9, <1>10, Zenon

-----------------------------------------------------------------------------
(* Resynchronisation.                                                      *)

Sig(s, i) == i \in 1..(Len(s) - 1) /\ s[i] = S /\ s[i + 1] = S

LEMMA SkipIs ==
  ASSUME NEW s \in Seq(Nat)
  PROVE  /\ \A i \in Nat : Sig(s, i) /\ (\A j \in Nat : Sig(s, j) => i <= j)
                             => SkipToSignature(s) = From(s, i)
         /\ (\A j \in Nat : ~Sig(s, j)) /\ s # <<>> /\ s[Len(s)] = S => SkipToSignature(s) = <<S>>
         /\ (\A j \in Nat : ~Sig(s, j)) /\ (s = <<>> \/ s[Len(s)] # S) => SkipToSignature(s) = <<>>
<1> DEFINE at == {i \in 1..(Len(s) - 1) : s[i] = S /\ s[i + 1] = S}
           first == CHOOSE i \in at : \A j \in at : i <= j
<1>1. SkipToSignature(s) = IF at # {} THEN From(s, first)
                           ELSE IF s # <<>> /\ s[Len(s)] = S THEN <<S>> ELSE <<>>
  BY DEF SkipToSignature
<1>2. \A j : j \in at <=> j \in Nat /\ Sig(s, j)
  <2>1. \A j \in 1..(Len(s) - 1) : j \in Nat
    OBVIOUS
  <2> QED
    BY <2>1 DEF Sig
<1> HIDE DEF at
<1>3. ASSUME NEW i \in Nat, Sig(s, i), \A j \in Nat : Sig(s, j) => i <= j
      PROVE  SkipToSignature(s) = From(s, i)
  <2>1. i \in at /\ \A j \in at : i <= j
    BY <1>2, <1>3
  <2>2. first \in at /\ \A j \in at : first <= j
    BY <2>1
  <2>3. first \in Nat
    BY <1>2, <2>2
  <2> HIDE DEF first
  <2>4. first = i
    BY <2>1, <2>2, <2>3
  <2> QED
    BY <1>1, <2>1, <2>4
<1>4. (\A j \in Nat : ~Sig(s, j)) => at = {}
  BY <1>2
<1> HIDE DEF first
<1> QED
  BY <1>1, <1>3, <1>4

LEMMA SkipCases ==
  ASSUME NEW s \in Seq(Nat)
  PROVE  \/ \E i \in Nat : Sig(s, i) /\ \A j \in Nat : Sig(s, j) => i <= j
         \/ \A j \in Nat : ~Sig(s, j)
<1> DEFINE M == {j \in Nat : Sig(s, j)}
<1>1. M # {} => \E i \in M : \A j \in M : i <= j
  <2>1. M \in SUBSET Nat
    OBVIOUS
  <2> HIDE DEF M
  <2> QED
    BY <2>1, Least
<1> QED
  BY <1>1

(* What is kept is the end of what there was.                              *)
LEMMA SkipType ==
  ASSUME NEW s \in Seq(Nat)
  PROVE  SkipToSignature(s) \in Seq(Nat) /\ Len(SkipToSignature(s)) <= Len(s)
<1>0. S \in Nat
  BY DEF S
<1>1. CASE \E i \in Nat : Sig(s, i) /\ \A j \in Nat : Sig(s, j) => i <= j
  <2>1. PICK i \in Nat : Sig(s, i) /\ \A j \in Nat : Sig(s, j) => i <= j
    BY <1>1
  <2>2. SkipToSignature(s) = From(s, i)
    BY <2>1, SkipIs
  <2>3. i \in 1..(Len(s) + 1)
    BY <2>1 DEF Sig
  <2>4. From(s, i) \in Seq(Nat) /\ Len(From(s, i)) = Len(s) + 1 - i
    BY <2>3, FromIs
  <2> QED
    BY <2>2, <2>3, <2>4
<1>2. CASE \A j \in Nat : ~Sig(s, j)
  <2>1. CASE s # <<>> /\ s[Len(s)] = S
    <3>1. SkipToSignature(s) = <<S>>
      BY <1>2, <2>1, SkipIs
    <3>2. Len(s) >= 1
      BY <2>1
    <3> QED
      BY <1>0, <3>1, <3>2
  <2>2. CASE s = <<>> \/ s[Len(s)] # S
    <3>1. SkipToSignature(s) = <<>>
      BY <1>2, <2>2, SkipIs
    <3> QED
      BY <3>1
  <2> QED
    BY <2>1, <2>2
<1> QED
  BY <1>1, <1>2, SkipCases

(* Bytes before the first signature do not matter.                         *)
LEMMA SkipShift ==
  ASSUME NEW s \in Seq(Nat), NEW k \in 0..Len(s), \A j \in 1..k : ~Sig(s, j),
         s # <<>> /\ k = Len(s) => s[k] # S
  PROVE  SkipToSignature(s) = SkipToSignature(From(s, k + 1))
<1> DEFINE w == From(s, k + 1)
<1>1. /\ w \in Seq(Nat) /\ Len(w) = Len(s) - k /\ Len(s) \in Nat /\ k \in Nat
      /\ \A j \in 1..(Len(s) - k) : w[j] = s[k + j]
  <2>1. k + 1 \in 1..(Len(s) + 1) /\ Len(s) + 1 - (k + 1) = Len(s) - k
    OBVIOUS
  <2>2. /\ w \in Seq(Nat) /\ Len(w) = Len(s) - k
        /\ \A j \in 1..(Len(s) - k) : w[j] = s[(k + 1) + j - 1]
    <3> HIDE DEF w
    <3> QED
      BY <2>1, FromIs DEF w
  <2>3. \A j \in 1..(Len(s) - k) : (k + 1) + j - 1 = k + j
    OBVIOUS
  <2>4. ASSUME NEW j \in 1..(Len(s) - k) PROVE w[j] = s[k + j]
    <3>1. w[j] = s[(k + 1) + j - 1] /\ (k + 1) + j - 1 = k + j
      BY <2>2, <2>3
    <3> QED
      BY <3>1, Zenon
  <2>5. Len(s) \in Nat /\ k \in Nat
    OBVIOUS
  <2> QED
    BY <2>2, <2>4, <2>5
<1> HIDE DEF w
<1>2. ASSUME NEW j \in Nat \ {0} PROVE Sig(w, j) <=> Sig(s, k + j)
  <2>1. j \in 1..(Len(w) - 1) <=> k + j \in 1..(Len(s) - 1)
    BY <1>1
  <2>2. CASE j \in 1..(Len(w) - 1)
    <3>1. w[j] = s[k + j] /\ w[j + 1] = s[k + (j + 1)] /\ k + (j + 1) = (k + j) + 1
      BY <1>1, <2>2
    <3> QED
      BY <2>1, <2>2, <3>1 DEF Sig
  <2> QED
    BY <2>1, <2>2 DEF Sig
<1>3. CASE \E i \in Nat : Sig(s, i) /\ \A j \in Nat : Sig(s, j) => i <= j
  <2>1. PICK i \in Nat : Sig(s, i) /\ \A j \in Nat : Sig(s, j) => i <= j
    BY <1>3
  <2>2. i \in 1..(Len(s) - 1) /\ i > k
    <3>1. i \in 1..(Len(s) - 1)
      BY <2>1 DEF Sig
    <3>2. i \notin 1..k
      BY <2>1
    <3> QED
      BY <1>1, <3>1, <3>2
  <2> DEFINE m == i - k
  <2>3. m \in Nat \ {0} /\ k + m = i
    BY <1>1, <2>2
  <2>4. Sig(w, m) /\ \A j \in Nat : Sig(w, j) => m <= j
    <3>1. Sig(w, m)
      BY <1>2, <2>1, <2>3
    <3>2. ASSUME NEW j \in Nat, Sig(w, j) PROVE m <= j
      <4>1. j # 0
        BY <3>2 DEF Sig
      <4>2. i <= k + j
        BY <1>1, <1>2, <2>1, <3>2, <4>1
      <4> QED
        BY <1>1, <4>2
    <3> HIDE DEF m
    <3> QED
      BY <3>1, <3>2
  <2>5. SkipToSignature(s) = From(s, i)
    BY <2>1, SkipIs
  <2>6. SkipToSignature(w) = From(w, m)
    <3> HIDE DEF m
    <3> QED
      BY <1>1, <2>3, <2>4, SkipIs
  <2>7. From(w, m) = From(s, i)
    <3>1. i \in 1..(Len(s) + 1) /\ m \in 1..(Len(w) + 1) /\ Len(w) + 1 - m = Len(s) + 1 - i
      BY <1>1, <2>2
    <3>2. /\ From(s, i) \in Seq(Nat) /\ Len(From(s, i)) = Len(s) + 1 - i
          /\ \A j \in 1..(Len(s) + 1 - i) : From(s, i)[j] = s[i + j - 1]
      BY <3>1, FromIs
    <3>3. /\ From(w, m) \in Seq(Nat) /\ Len(From(w, m)) = Len(s) + 1 - i
          /\ \A j \in 1..(Len(s) + 1 - i) : From(w, m)[j] = w[m + j - 1]
      <4> HIDE DEF m
      <4>1. /\ From(w, m) \in Seq(Nat) /\ Len(From(w, m)) = Len(w) + 1 - m
            /\ \A j \in 1..(Len(w) + 1 - m) : From(w, m)[j] = w[m + j - 1]
        BY ZenonT(30), <1>1, <3>1, FromIs
      <4> QED
        BY <3>1, <4>1
    <3>4. ASSUME NEW j \in 1..(Len(s) + 1 - i) PROVE w[m + j - 1] = s[i + j - 1]
      <4>1. m + j - 1 \in 1..(Len(s) - k) /\ k + (m + j - 1) = i + j - 1
        BY <1>1, <2>2
      <4> HIDE DEF m
      <4> QED
        BY <1>1, <4>1
    <3> HIDE DEF m
    <3> DEFINE a == From(s, i)
               b == From(w, m)
               n == Len(s) + 1 - i
    <3>5. /\ a \in Seq(Nat) /\ b \in Seq(Nat) /\ Len(a) = n /\ Len(b) = n
          /\ \A j \in 1..n : a[j] = b[j]
      BY <3>2, <3>3, <3>4
    <3> HIDE DEF a, b, n
    <3>6. a = b
      BY <3>5
    <3> QED
      BY <3>6 DEF a, b
  <2> QED
    BY <2>5, <2>6, <2>7 DEF w
<1>4. CASE \A j \in Nat : ~Sig(s, j)
  <2>1. \A j \in Nat : ~Sig(w, j)
    <3>1. SUFFICES ASSUME NEW j \in Nat, Sig(w, j) PROVE FALSE
      OBVIOUS
    <3>2. j # 0
      BY <3>1 DEF Sig
    <3>3. k + j \in Nat
      BY <1>1
    <3> QED
      BY <1>2, <1>4, <3>1, <3>2, <3>3
  <2>2. CASE k = Len(s)
    <3>1. w = <<>> /\ (s = <<>> \/ s[Len(s)] # S)
      BY <1>1, <2>2
    <3>2. SkipToSignature(s) = <<>> /\ SkipToSignature(w) = <<>>
      BY <1>1, <1>4, <2>1, <3>1, SkipIs
    <3> QED
      BY <3>2 DEF w
  <2>3. CASE k # Len(s)
    <3>0. Len(s) \in Nat /\ k \in Nat /\ Len(w) = Len(s) - k /\ k <= Len(s)
      BY <1>1
    <3>1. Len(s) # 0 /\ Len(w) # 0 /\ Len(w) \in 1..(Len(s) - k) /\ k + Len(w) = Len(s)
      BY <2>3, <3>0
    <3>5. w[Len(w)] = s[k + Len(w)]
      BY <1>1, <3>1
    <3>2. s # <<>> /\ w # <<>> /\ w[Len(w)] = s[Len(s)]
      <4>1. s # <<>> /\ w # <<>>
        BY <3>1
      <4> QED
        BY <3>1, <3>5, <4>1
    <3>3. SkipToSignature(s) = IF s[Len(s)] = S THEN <<S>> ELSE <<>>
      BY <1>4, <3>2, SkipIs
    <3>4. SkipToSignature(w) = IF s[Len(s)] = S THEN <<S>> ELSE <<>>
      BY <1>1, <2>1, <3>2, SkipIs
    <3> QED
      BY <3>3, <3>4 DEF w
  <2> QED
    BY <2>2, <2>3
<1> QED
  BY <1>3, <1>4, SkipCases

LEMMA SkipAtOnce ==
  ASSUME NEW s \in Seq(Nat), Sig(s, 1)
  PROVE  SkipToSignature(s) = s
<1>1. \A j \in Nat : Sig(s, j) => 1 <= j
  BY DEF Sig
<1>2. SkipToSignature(s) = From(s, 1)
  BY <1>1, SkipIs
<1>3. From(s, 1) = s
  BY DEF From
<1> QED
  BY <1>2, <1>3

(* What follows a chunk is found whether the chunk has been skipped to its *)
(* signature or not.                                                       *)
LEMMA SkipConcat ==
  ASSUME NEW x \in Seq(Nat), NEW y \in Seq(Nat)
  PROVE  SkipToSignature(x \o y) = SkipToSignature(SkipToSignature(x) \o y)
<1> DEFINE z == x \o y
           n == Len(x)
<1>0. S \in Nat /\ <<S>> \in Seq(Nat) /\ <<S>> \o y \in Seq(Nat) /\ <<>> \o y = y
  BY DEF S
<1>1. /\ z \in Seq(Nat) /\ n \in Nat /\ Len(z) = n + Len(y) /\ Len(y) \in Nat
      /\ \A j \in 1..n : z[j] = x[j]
      /\ \A j \in 1..Len(y) : z[n + j] = y[j]
  OBVIOUS
<1> HIDE DEF z
<1>6. n \in Nat /\ Len(y) \in Nat /\ Len(z) = n + Len(y)
  BY <1>1
<1>2. ASSUME NEW j \in 1..(n - 1) PROVE Sig(z, j) <=> Sig(x, j)
  <2>1. j \in 1..(Len(z) - 1) /\ j \in 1..n /\ j + 1 \in 1..n
    <3> HIDE DEF n
    <3> QED
      BY <1>6
  <2>2. z[j] = x[j] /\ z[j + 1] = x[j + 1]
    BY <1>1, <2>1
  <2> QED
    BY <2>1, <2>2 DEF Sig
<1>3. CASE \E i \in Nat : Sig(x, i) /\ \A j \in Nat : Sig(x, j) => i <= j
  <2>1. PICK i \in Nat : Sig(x, i) /\ \A j \in Nat : Sig(x, j) => i <= j
    BY <1>3
  <2>2. i \in 1..(n - 1)
    BY <2>1 DEF Sig
  <2>3. i - 1 \in 0..Len(z) /\ i - 1 # Len(z) /\ (i - 1) + 1 = i
    BY <1>6, <2>2
  <2>4. \A j \in 1..(i - 1) : ~Sig(z, j)
    <3>1. SUFFICES ASSUME NEW j \in 1..(i - 1) PROVE ~Sig(z, j)
      OBVIOUS
    <3>2. j \in 1..(n - 1) /\ j \in Nat /\ ~(i <= j)
      BY <2>2
    <3> QED
      BY <1>2, <2>1, <3>2
  <2>5. SkipToSignature(z) = SkipToSignature(From(z, i))
    BY <1>1, <2>3, <2>4, SkipShift
  <2>6. SkipToSignature(x) = From(x, i)
    BY <2>1, SkipIs
  <2>7. From(z, i) = From(x, i) \o y
    <3>1. i \in 1..(Len(x) + 1)
      BY <1>1, <2>2
    <3> QED
      BY <3>1, FromConcat DEF z
  <2> QED
    BY <2>5, <2>6, <2>7 DEF z
<1>4. CASE (\A j \in Nat : ~Sig(x, j)) /\ x # <<>> /\ x[n] = S
  <2>1. n # 0 /\ n - 1 \in 0..Len(z) /\ n - 1 # Len(z) /\ (n - 1) + 1 = n
    <3>1. n # 0
      BY <1>4
    <3> HIDE DEF n
    <3> QED
      BY <1>6, <3>1
  <2>2. \A j \in 1..(n - 1) : ~Sig(z, j)
    <3>1. \A j \in 1..(n - 1) : j \in Nat
      <4> HIDE DEF n
      <4> QED
        BY <1>6
    <3> QED
      BY <1>2, <1>4, <3>1
  <2>3. SkipToSignature(z) = SkipToSignature(From(z, n))
    BY ZenonT(20), <1>1, <2>1, <2>2, SkipShift
  <2>4. SkipToSignature(x) = <<S>>
    BY <1>4, SkipIs
  <2>5. From(z, n) = <<S>> \o y
    <3> DEFINE a == From(z, n)
               b == <<S>> \o y
    <3>1. n \in 1..(Len(z) + 1) /\ Len(z) + 1 - n = 1 + Len(y)
      <4> HIDE DEF n
      <4> QED
        BY <1>6, <2>1
    <3>2. a \in Seq(Nat) /\ Len(a) = 1 + Len(y) /\ \A j \in 1..(1 + Len(y)) : a[j] = z[n + j - 1]
      <4> HIDE DEF n
      <4>1. /\ a \in Seq(Nat) /\ Len(a) = Len(z) + 1 - n
            /\ \A j \in 1..(Len(z) + 1 - n) : a[j] = z[n + j - 1]
        <5> HIDE DEF a
        <5> QED
          BY ZenonT(30), <1>1, <3>1, FromIs DEF a
      <4> QED
        BY <3>1, <4>1
    <3>3. b \in Seq(Nat) /\ Len(b) = 1 + Len(y) /\ b[1] = S /\ \A j \in 1..Len(y) : b[1 + j] = y[j]
      BY <1>0
    <3> HIDE DEF a, b
    <3>4. ASSUME NEW j \in 1..(1 + Len(y)) PROVE a[j] = b[j]
      <4>1. CASE j = 1
        <5>1. n + j - 1 = n /\ n \in 1..n
          <6> HIDE DEF n
          <6> QED
            BY <1>6, <2>1, <4>1
        <5>2. a[j] = z[n]
          BY <3>2, <5>1
        <5>3. z[n] = x[n]
          BY <1>1, <5>1
        <5>4. x[n] = S /\ b[j] = S
          BY <1>4, <3>3, <4>1
        <5> QED
          BY <5>2, <5>3, <5>4
      <4>2. CASE j # 1
        <5>1. j - 1 \in 1..Len(y) /\ n + j - 1 = n + (j - 1) /\ 1 + (j - 1) = j
          <6> DEFINE k == Len(y)
          <6>1. k \in Nat /\ n \in Nat /\ j \in 1..(1 + k)
            BY <1>1
          <6> HIDE DEF k, n
          <6>2. j - 1 \in 1..k
            BY <4>2, <6>1
          <6>3. n + j - 1 = n + (j - 1) /\ 1 + (j - 1) = j
            BY <6>1
          <6> QED
            BY <6>2, <6>3 DEF k
        <5>2. a[j] = z[n + (j - 1)]
          BY <3>2, <5>1
        <5>3. b[1 + (j - 1)] = y[j - 1]
          BY <3>3, <5>1
        <5>4. z[n + (j - 1)] = y[j - 1]
          BY <1>1, <5>1
        <5> QED
          BY <5>1, <5>2, <5>3, <5>4
      <4> QED
        BY <4>1, <4>2
    <3>5. a = b
      BY <3>2, <3>3, <3>4
    <3> QED
      BY <3>5 DEF a, b
  <2> QED
    BY <2>3, <2>4, <2>5 DEF z
<1>5. CASE (\A j \in Nat : ~Sig(x, j)) /\ (x = <<>> \/ x[n] # S)
  <2>1. n \in 0..Len(z)
    BY <1>6
  <2>2. \A j \in 1..n : ~Sig(z, j)
    <3>1. SUFFICES ASSUME NEW j \in 1..n PROVE ~Sig(z, j)
      OBVIOUS
    <3>2. CASE j = n
      <4>1. x # <<>> /\ x[n] # S
        BY <1>5, <3>2
      <4>2. z[j] # S
        BY <1>1, <3>2, <4>1
      <4> QED
        BY <4>2 DEF Sig
    <3>3. CASE j # n
      <4>1. j \in 1..(n - 1) /\ j \in Nat
        BY <1>1, <3>3
      <4> QED
        BY <1>2, <1>5, <4>1
    <3> QED
      BY <3>2, <3>3
  <2>3. z # <<>> /\ n = Len(z) => z[n] # S
    <3>1. SUFFICES ASSUME z # <<>>, n = Len(z) PROVE z[n] # S
      OBVIOUS
    <3>2. n # 0 /\ x # <<>> /\ n \in 1..n
      BY SMTT(30), <1>1, <3>1
    <3> QED
      BY <1>1, <1>5, <3>2
  <2>4. SkipToSignature(z) = SkipToSignature(From(z, n + 1))
    BY <1>1, <2>1, <2>2, <2>3, SkipShift
  <2>5. SkipToSignature(x) = <<>>
    BY <1>5, SkipIs
  <2>6. From(z, n + 1) = y
    BY <1>1 DEF From, z
  <2> QED
    BY <1>0, <2>4, <2>5, <2>6 DEF z
<1> QED
  BY <1>3, <1>4, <1>5, SkipCases

-----------------------------------------------------------------------------
(* The frames of a buffer.  Of a buffer that starts with a signature, the  *)
(* header is not there or the frame is not whole, the header is damaged,   *)
(* or a frame is whole.                                                    *)

Streamed == [frames : Seq(Frames), buf : Seq(Nat)]

Waits(b) == Len(b) < NplLen \/ (HeaderOk(b) /\ Len(b) < NplLen + b[3])
Noise(b) == ~(Len(b) < NplLen) /\ ~HeaderOk(b)
HasFrame(b) == ~(Len(b) < NplLen) /\ HeaderOk(b) /\ ~(Len(b) < NplLen + b[3])
FirstFrame(b) == SubSeq(b, 1, NplLen + b[3])
AfterFrame(b) == From(b, NplLen + b[3] + 1)
Keep(b) == [frames |-> <<>>, buf |-> b]
Before(frames, cut) == [frames |-> frames \o cut.frames, buf |-> cut.buf]

LEMMA BeforeBefore ==
  ASSUME NEW f \in Seq(Frames), NEW g \in Seq(Frames), NEW cut \in Streamed
  PROVE  Before(f, Before(g, cut)) = Before(f \o g, cut)
<1> DEFINE h == cut.frames
<1>1. h \in Seq(Frames)
  BY DEF Streamed
<1> HIDE DEF h
<1>2. (f \o g) \o h = f \o (g \o h)
  BY SMTT(30), <1>1, ConcatAssociative
<1> QED
  BY <1>2 DEF Before, h

LEMMA ThreeCases ==
  ASSUME NEW b
  PROVE  /\ Waits(b) \/ Noise(b) \/ HasFrame(b)
         /\ ~(Waits(b) /\ Noise(b)) /\ ~(Waits(b) /\ HasFrame(b)) /\ ~(Noise(b) /\ HasFrame(b))
  BY Zenon DEF Waits, Noise, HasFrame

LEMMA NoiseShrinks ==
  ASSUME NEW b \in Seq(Nat), Noise(b)
  PROVE  Tail(b) \in Seq(Nat) /\ Len(Tail(b)) < Len(b) /\ b # <<>>
  BY DEF Noise, NplLen

LEMMA FrameShrinks ==
  ASSUME NEW b \in Seq(Nat), HasFrame(b)
  PROVE  /\ AfterFrame(b) \in Seq(Nat) /\ Len(AfterFrame(b)) < Len(b)
         /\ FirstFrame(b) \in Seq(Nat) /\ DecodeFrame(FirstFrame(b)) \in Seq(Frames)
<1> DEFINE n == NplLen + b[3]
<1>1. b[3] \in Nat /\ b[3] >= 1 /\ n \in 6..Len(b)
  <2>1. Len(b) \in Nat /\ Len(b) >= 5
    BY DEF HasFrame, NplLen
  <2>2. b[3] \in Nat
    BY <2>1
  <2>3. b[3] >= 1 /\ ~(Len(b) < 5 + b[3])
    BY DEF HasFrame, HeaderOk, NphLen, NplLen
  <2> QED
    BY SMTT(30), <2>1, <2>2, <2>3 DEF NplLen
<1> HIDE DEF n
<1>2. n + 1 \in 1..(Len(b) + 1)
  BY <1>1
<1>3. From(b, n + 1) \in Seq(Nat) /\ Len(From(b, n + 1)) = Len(b) + 1 - (n + 1)
  BY <1>2, FromIs
<1>4. SubSeq(b, 1, n) \in Seq(Nat) /\ Len(SubSeq(b, 1, n)) = n
  BY <1>1
<1>5. DecodeFrame(SubSeq(b, 1, n)) \in Seq(Frames)
  <2> DEFINE raw == SubSeq(b, 1, n)
  <2>1. Len(raw) >= NplLen + NphLen
    BY <1>1, <1>4 DEF NplLen, NphLen
  <2> HIDE DEF raw
  <2> QED
    BY <1>4, <2>1, DecodeFrameType DEF raw
<1>6. Len(b) + 1 - (n + 1) < Len(b)
  BY <1>1
<1>7. AfterFrame(b) = From(b, n + 1) /\ FirstFrame(b) = SubSeq(b, 1, n)
  BY DEF AfterFrame, FirstFrame, n
<1> QED
  BY <1>3, <1>4, <1>5, <1>6, <1>7, Zenon

LEMMA CutIs ==
  /\ Cut \in [Seq(Nat) -> Streamed]
  /\ \A s \in Seq(Nat) :
       LET b == SkipToSignature(s)
       IN /\ Waits(b) => Cut[s] = Keep(b)
          /\ Noise(b) => Cut[s] = Cut[Tail(b)]
          /\ HasFrame(b) => Cut[s] = Before(DecodeFrame(FirstFrame(b)), Cut[AfterFrame(b)])
<1> DEFINE D == Seq(Nat)
           Sk(s) == SkipToSignature(s)
           More(b, r) == [r EXCEPT !.frames = DecodeFrame(SubSeq(b, 1, NplLen + b[3])) \o @]
           Rule(g, s) == IF Len(Sk(s)) < NplLen THEN [frames |-> <<>>, buf |-> Sk(s)]
                         ELSE IF ~HeaderOk(Sk(s)) THEN g[Tail(Sk(s))]
                         ELSE IF Len(Sk(s)) < NplLen + Sk(s)[3] THEN [frames |-> <<>>, buf |-> Sk(s)]
                         ELSE More(Sk(s), g[From(Sk(s), NplLen + Sk(s)[3] + 1)])
           Done == {s \in D : Waits(Sk(s))}
           Size == [s \in D |-> Len(s)]
           Base == [s \in D |-> Keep(Sk(s))]
           Pred == [s \in D |-> IF Waits(Sk(s)) THEN s
                                ELSE IF Noise(Sk(s)) THEN Tail(Sk(s)) ELSE AfterFrame(Sk(s))]
           Step == [z \in D \X Streamed |->
                      IF HasFrame(Sk(z[1])) THEN Before(DecodeFrame(FirstFrame(Sk(z[1]))), z[2])
                      ELSE z[2]]
           cut == CHOOSE f : f = [s \in D |-> Rule(f, s)]
<1>1. ASSUME NEW s \in D PROVE Sk(s) \in D /\ Len(Sk(s)) <= Len(s) /\ Len(s) \in Nat /\ Len(Sk(s)) \in Nat
  BY SkipType
<1>2. ASSUME NEW s \in D PROVE Keep(Sk(s)) \in Streamed
  BY <1>1 DEF Keep, Streamed
<1>3. ASSUME NEW b \in D, HasFrame(b), NEW r \in Streamed
      PROVE  /\ Before(DecodeFrame(FirstFrame(b)), r) \in Streamed
             /\ More(b, r) = Before(DecodeFrame(FirstFrame(b)), r)
  <2> DEFINE fs == DecodeFrame(FirstFrame(b))
  <2>1. fs \in Seq(Frames) /\ More(b, r) = [r EXCEPT !.frames = fs \o @]
    BY <1>3, FrameShrinks, Zenon DEF FirstFrame
  <2> HIDE DEF fs, More
  <2>2. r.frames \in Seq(Frames) /\ r.buf \in Seq(Nat)
    BY DEF Streamed
  <2> DEFINE e == fs \o r.frames
  <2>3. e \in Seq(Frames)
    BY <2>1, <2>2
  <2>4. [r EXCEPT !.frames = e] = [frames |-> e, buf |-> r.buf]
    <3> HIDE DEF e
    <3> QED
      BY DEF Streamed
  <2>5. [frames |-> e, buf |-> r.buf] \in Streamed
    <3> HIDE DEF e
    <3> QED
      BY <2>2, <2>3 DEF Streamed
  <2> QED
    BY <2>1, <2>4, <2>5 DEF Before, fs
<1> HIDE DEF More
<1>4. ASSUME NEW s \in D, ~Waits(Sk(s))
      PROVE  Pred[s] \in D /\ Len(Pred[s]) < Len(s)
  <2>1. CASE Noise(Sk(s))
    <3>1. Tail(Sk(s)) \in D /\ Len(Tail(Sk(s))) < Len(Sk(s))
      BY <1>1, <2>1, NoiseShrinks
    <3>2. Len(Tail(Sk(s))) < Len(s)
      BY <1>1, <3>1
    <3> QED
      BY <1>4, <2>1, <3>1, <3>2
  <2>2. CASE HasFrame(Sk(s))
    <3>1. AfterFrame(Sk(s)) \in D /\ Len(AfterFrame(Sk(s))) < Len(Sk(s))
      BY <1>1, <2>2, FrameShrinks
    <3>2. Len(AfterFrame(Sk(s))) < Len(s)
      BY <1>1, <3>1
    <3>3. ~Noise(Sk(s))
      BY <2>2, ThreeCases
    <3> QED
      BY <1>4, <3>1, <3>2, <3>3
  <2> QED
    BY <1>4, <2>1, <2>2, ThreeCases
<1>5. /\ Size \in [D -> Nat] /\ Base \in [D -> Streamed] /\ Pred \in [D -> D]
      /\ \A s \in D \ Done : Size[Pred[s]] < Size[s]
  <2>1. Pred \in [D -> D]
    <3>1. ASSUME NEW s \in D PROVE Pred[s] \in D
      BY <1>4
    <3> QED
      BY <3>1
  <2>2. ASSUME NEW s \in D \ Done PROVE Size[Pred[s]] < Size[s]
    <3>1. ~Waits(Sk(s))
      OBVIOUS
    <3>2. Pred[s] \in D /\ Len(Pred[s]) < Len(s)
      BY <1>4, <3>1
    <3> HIDE DEF Pred, D
    <3> QED
      BY <3>2
  <2> HIDE DEF Pred, Done
  <2> QED
    BY <1>1, <1>2, <2>1, <2>2
<1>6. Step \in [D \X Streamed -> Streamed]
  <2>1. ASSUME NEW z \in D \X Streamed
        PROVE  (IF HasFrame(Sk(z[1])) THEN Before(DecodeFrame(FirstFrame(Sk(z[1]))), z[2])
                ELSE z[2]) \in Streamed
    <3>1. z[1] \in D /\ z[2] \in Streamed
      OBVIOUS
    <3>2. Sk(z[1]) \in D
      BY <1>1, <3>1
    <3> DEFINE b == Sk(z[1])
               r == z[2]
    <3>3. b \in D /\ r \in Streamed
      BY <3>1, <3>2
    <3> HIDE DEF b, r, D
    <3>4. (IF HasFrame(b) THEN Before(DecodeFrame(FirstFrame(b)), r) ELSE r) \in Streamed
      BY <1>3, <3>3
    <3> QED
      BY <3>4 DEF b, r
  <2> HIDE DEF Sk, D
  <2> QED
    BY <2>1
<1>7. PICK f \in [D -> Streamed] : Defined(f, D, Done, Base, Pred, Step)
  <2> HIDE DEF D, Size, Base, Pred, Step, Done
  <2> QED
    BY <1>5, <1>6, Recursion
<1>8. ASSUME NEW s \in D, NEW g \in [D -> Streamed]
      PROVE  /\ Waits(Sk(s)) => Rule(g, s) = Keep(Sk(s))
             /\ Noise(Sk(s)) => Rule(g, s) = g[Tail(Sk(s))]
             /\ HasFrame(Sk(s)) => Rule(g, s) = Before(DecodeFrame(FirstFrame(Sk(s))), g[AfterFrame(Sk(s))])
  <2> DEFINE b == Sk(s)
  <2>1. Waits(b) => Rule(g, s) = Keep(b)
    BY Zenon DEF Waits, Keep
  <2>2. Noise(b) => Rule(g, s) = g[Tail(b)]
    BY Zenon DEF Noise
  <2>3. HasFrame(b) => Rule(g, s) = More(b, g[AfterFrame(b)])
    BY Zenon DEF HasFrame, AfterFrame
  <2>4. HasFrame(b) => More(b, g[AfterFrame(b)]) = Before(DecodeFrame(FirstFrame(b)), g[AfterFrame(b)])
    <3>1. SUFFICES ASSUME HasFrame(b)
                   PROVE  More(b, g[AfterFrame(b)]) = Before(DecodeFrame(FirstFrame(b)), g[AfterFrame(b)])
      OBVIOUS
    <3>2. b \in D
      BY <1>1
    <3>3. AfterFrame(b) \in D
      BY <3>1, <3>2, FrameShrinks
    <3>4. g[AfterFrame(b)] \in Streamed
      BY <3>3
    <3> HIDE DEF b
    <3> QED
      BY <1>3, <3>1, <3>2, <3>4
  <2> HIDE DEF Rule, b
  <2> QED
    BY <2>1, <2>2, <2>3, <2>4 DEF b
<1> HIDE DEF Rule
<1>9. ASSUME NEW s \in D
      PROVE  (IF s \in Done THEN Base[s] ELSE Step[<<s, f[Pred[s]]>>]) = Rule(f, s)
  <2>1. CASE Waits(Sk(s))
    BY <1>8, <2>1
  <2>2. CASE Noise(Sk(s))
    <3>1. ~Waits(Sk(s)) /\ ~HasFrame(Sk(s))
      BY <2>2, ThreeCases
    <3>2. Pred[s] = Tail(Sk(s)) /\ Pred[s] \in D
      BY <1>4, <2>2, <3>1
    <3>3. f[Pred[s]] \in Streamed
      BY <3>2
    <3>4. Step[<<s, f[Pred[s]]>>] = f[Pred[s]]
      <4> DEFINE r == f[Pred[s]]
      <4> HIDE DEF r, D, Sk
      <4>1. Step[<<s, r>>] = r
        BY <3>1, <3>3 DEF r
      <4> QED
        BY <4>1 DEF r
    <3>5. s \notin Done
      BY <3>1
    <3>6. Rule(f, s) = f[Tail(Sk(s))]
      BY <1>8, <2>2
    <3> HIDE DEF Step, Done, Pred, Sk, D
    <3> QED
      BY <3>2, <3>4, <3>5, <3>6
  <2>3. CASE HasFrame(Sk(s))
    <3>1. ~Waits(Sk(s)) /\ ~Noise(Sk(s))
      BY <2>3, ThreeCases
    <3>2. Pred[s] = AfterFrame(Sk(s)) /\ Pred[s] \in D
      BY <1>4, <2>3, <3>1
    <3>3. f[Pred[s]] \in Streamed
      BY <3>2
    <3>4. Step[<<s, f[Pred[s]]>>] = Before(DecodeFrame(FirstFrame(Sk(s))), f[Pred[s]])
      <4> DEFINE r == f[Pred[s]]
      <4> HIDE DEF r, D, Sk
      <4>1. Step[<<s, r>>] = Before(DecodeFrame(FirstFrame(Sk(s))), r)
        BY <2>3, <3>3 DEF r
      <4> QED
        BY <4>1 DEF r
    <3>5. s \notin Done
      BY <3>1
    <3>6. Rule(f, s) = Before(DecodeFrame(FirstFrame(Sk(s))), f[AfterFrame(Sk(s))])
      BY <1>8, <2>3
    <3> HIDE DEF Step, Done, Pred, Sk, D
    <3> QED
      BY <3>2, <3>4, <3>5, <3>6
  <2> QED
    BY <2>1, <2>2, <2>3, ThreeCases
<1>10. f = [s \in D |-> Rule(f, s)]
  <2>1. f = [s \in D |-> IF s \in Done THEN Base[s] ELSE Step[<<s, f[Pred[s]]>>]]
    BY ZenonT(20), <1>7 DEF Defined
  <2> HIDE DEF D, Done, Base, Pred, Step
  <2> QED
    BY ZenonT(20), <1>9, <2>1
<1>11. cut = [s \in D |-> Rule(cut, s)]
  <2> HIDE DEF D
  <2> QED
    BY <1>10
<1>12. Cut = cut
  BY DEF Cut, Rule, More
<1> HIDE DEF cut
<1>13. cut \in [D -> Streamed]
  <2> DEFINE T == {n \in Nat : \A s \in D : Len(s) < n => cut[s] \in Streamed}
  <2>1. 0 \in T
    BY <1>1
  <2>2. ASSUME NEW n \in Nat, n \in T PROVE n + 1 \in T
    <3>1. ASSUME NEW s \in D, Len(s) < n + 1 PROVE cut[s] \in Streamed
      <4>0. cut[s] = Rule(cut, s)
        BY <1>11
      <4>1. CASE Waits(Sk(s))
        <5>1. Rule(cut, s) = Keep(Sk(s))
          BY <4>1, Zenon DEF Rule, Waits, Keep
        <5> QED
          BY <1>2, <4>0, <5>1
      <4>2. CASE ~Waits(Sk(s))
        <5>1. Pred[s] \in D /\ Len(Pred[s]) < Len(s)
          BY <1>4, <4>2
        <5>2. Len(Pred[s]) < n
          <6> HIDE DEF Pred
          <6> QED
            BY <1>1, <3>1, <5>1
        <5>3. cut[Pred[s]] \in Streamed
          <6> HIDE DEF Pred
          <6> QED
            BY <2>2, <5>1, <5>2
        <5>4. CASE Noise(Sk(s))
          <6>1. Rule(cut, s) = cut[Tail(Sk(s))]
            BY <5>4, Zenon DEF Rule, Noise
          <6>2. Pred[s] = Tail(Sk(s))
            BY <4>2, <5>4
          <6> HIDE DEF Pred
          <6> QED
            BY <4>0, <5>3, <6>1, <6>2
        <5>5. CASE HasFrame(Sk(s))
          <6>1. Rule(cut, s) = More(Sk(s), cut[AfterFrame(Sk(s))])
            BY <5>5, Zenon DEF Rule, HasFrame, AfterFrame
          <6>2. Pred[s] = AfterFrame(Sk(s))
            <7>1. ~Noise(Sk(s))
              BY <5>5, ThreeCases
            <7> QED
              BY <4>2, <7>1
          <6>3. Sk(s) \in D
            BY <1>1
          <6> HIDE DEF Pred, Sk, D
          <6>4. More(Sk(s), cut[Pred[s]]) \in Streamed
            BY <1>3, <5>3, <5>5, <6>3
          <6> QED
            BY <4>0, <6>1, <6>2, <6>4
        <5> QED
          BY <4>2, <5>4, <5>5, ThreeCases
      <4> QED
        BY <4>1, <4>2
    <3> QED
      BY <3>1
  <2> HIDE DEF T
  <2>3. \A n \in Nat : n \in T
    BY <2>1, <2>2, Induction
  <2>4. ASSUME NEW s \in D PROVE cut[s] \in Streamed
    <3>1. Len(s) + 1 \in T /\ Len(s) < Len(s) + 1
      BY <1>1, <2>3
    <3> QED
      BY <3>1 DEF T
  <2> HIDE DEF D
  <2> QED
    BY <1>11, <2>4
<1>14. \A s \in D : cut[s] = Rule(cut, s)
  BY <1>11
<1> QED
  BY <1>8, <1>12, <1>13, <1>14, Zenon

LEMMA CutEquals ==
  ASSUME NEW s \in Seq(Nat), NEW t \in Seq(Nat), SkipToSignature(s) = SkipToSignature(t)
  PROVE  Cut[s] = Cut[t]
<1> DEFINE b == SkipToSignature(s)
<1>1. CASE Waits(b)
  BY <1>1, CutIs
<1>2. CASE Noise(b)
  BY <1>2, CutIs
<1>3. CASE HasFrame(b)
  BY <1>3, CutIs
<1> QED
  BY <1>1, <1>2, <1>3, ThreeCases

LEMMA SkipStartsWith ==
  ASSUME NEW s \in Seq(Nat), Len(SkipToSignature(s)) >= NplLen
  PROVE  Sig(SkipToSignature(s), 1)
<1>0. Len(SkipToSignature(s)) >= 5
  BY DEF NplLen
<1>1. CASE \E i \in Nat : Sig(s, i) /\ \A j \in Nat : Sig(s, j) => i <= j
  <2>1. PICK i \in Nat : Sig(s, i) /\ \A j \in Nat : Sig(s, j) => i <= j
    BY <1>1
  <2>2. i \in 1..(Len(s) - 1) /\ s[i] = S /\ s[i + 1] = S
    BY <2>1 DEF Sig
  <2>3. SkipToSignature(s) = From(s, i)
    BY <2>1, SkipIs
  <2> DEFINE b == From(s, i)
  <2>4. Len(b) = Len(s) + 1 - i /\ \A j \in 1..(Len(s) + 1 - i) : b[j] = s[i + j - 1]
    BY <2>2, FromIs
  <2>5. 1 \in 1..(Len(s) + 1 - i) /\ 2 \in 1..(Len(s) + 1 - i) /\ i + 1 - 1 = i /\ i + 2 - 1 = i + 1
    BY <2>2
  <2> HIDE DEF b
  <2>6. b[1] = s[i] /\ b[2] = s[i + 1]
    BY <2>4, <2>5
  <2>7. 1 \in 1..(Len(b) - 1)
    BY <2>2, <2>4
  <2> QED
    BY <2>2, <2>3, <2>6, <2>7 DEF Sig, b
<1>2. CASE \A j \in Nat : ~Sig(s, j)
  <2>1. SkipToSignature(s) = <<S>> \/ SkipToSignature(s) = <<>>
    BY <1>2, SkipIs
  <2>2. Len(<<S>>) = 1 /\ Len(<<>>) = 0 /\ ~(1 >= 5) /\ ~(0 >= 5)
    OBVIOUS
  <2> QED
    BY <1>0, <2>1, <2>2, Zenon
<1> QED
  BY <1>1, <1>2, SkipCases

(* More bytes change neither what a header says nor a whole frame.         *)
LEMMA MoreBytes ==
  ASSUME NEW b \in Seq(Nat), NEW y \in Seq(Nat), Len(b) >= NplLen
  PROVE  /\ Sig(b, 1) => Sig(b \o y, 1)
         /\ Noise(b) => Noise(b \o y) /\ Tail(b \o y) = Tail(b) \o y
         /\ HasFrame(b) => /\ HasFrame(b \o y)
                           /\ FirstFrame(b \o y) = FirstFrame(b)
                           /\ AfterFrame(b \o y) = AfterFrame(b) \o y
<1> DEFINE z == b \o y
<1>1. Len(b) >= 5 /\ Len(b) \in Nat /\ Len(y) \in Nat
  BY DEF NplLen
<1>2. z \in Seq(Nat) /\ Len(z) = Len(b) + Len(y) /\ \A j \in 1..Len(b) : z[j] = b[j]
  OBVIOUS
<1> HIDE DEF z
<1>3. z[1] = b[1] /\ z[2] = b[2] /\ z[3] = b[3] /\ z[5] = b[5] /\ Len(z) >= 5
  BY SMTT(30), <1>1, <1>2
<1>4. HeaderOk(z) <=> HeaderOk(b)
  BY <1>3, Zenon DEF HeaderOk
<1>5. Sig(b, 1) => Sig(z, 1)
  <2>1. 1 \in 1..(Len(z) - 1)
    BY <1>3, <1>2
  <2>2. 1 + 1 = 2
    OBVIOUS
  <2> QED
    BY <1>3, <2>1, <2>2 DEF Sig
<1>6. ASSUME Noise(b) PROVE Noise(z) /\ Tail(z) = Tail(b) \o y
  <2>1. Noise(z)
    BY <1>3, <1>4, <1>6, <1>2 DEF Noise, NplLen
  <2>2. b # <<>>
    BY <1>1
  <2>3. Tail(b \o y) = Tail(b) \o y
    BY SMTT(30), <1>1, <2>2
  <2> QED
    BY <2>1, <2>3 DEF z
<1>7. ASSUME HasFrame(b)
      PROVE  HasFrame(z) /\ FirstFrame(z) = FirstFrame(b) /\ AfterFrame(z) = AfterFrame(b) \o y
  <2> DEFINE n == NplLen + b[3]
  <2>1. n \in 5..Len(b)
    <3>1. b[3] \in Nat
      BY <1>1
    <3>2. ~(Len(b) < 5 + b[3])
      BY <1>7 DEF HasFrame, NplLen
    <3> QED
      BY SMTT(30), <1>1, <3>1, <3>2 DEF NplLen
  <2>2. NplLen + z[3] = n
    BY <1>3
  <2> HIDE DEF n
  <2>3. ~(Len(z) < n) /\ ~(Len(z) < NplLen)
    BY SMTT(30), <1>1, <1>2, <2>1 DEF NplLen
  <2>4. HasFrame(z)
    BY <1>4, <1>7, <2>2, <2>3 DEF HasFrame
  <2>5. SubSeq(b \o y, 1, n) = SubSeq(b, 1, n)
    BY <2>1
  <2>6. From(b \o y, n + 1) = From(b, n + 1) \o y
    <3>1. n + 1 \in 1..(Len(b) + 1)
      BY <2>1
    <3> QED
      BY <3>1, FromConcat
  <2>7. FirstFrame(b) = SubSeq(b, 1, n) /\ AfterFrame(b) = From(b, n + 1)
    BY DEF FirstFrame, AfterFrame, n
  <2>8. FirstFrame(z) = SubSeq(z, 1, n) /\ AfterFrame(z) = From(z, n + 1)
    BY <2>2 DEF FirstFrame, AfterFrame
  <2> QED
    BY <2>4, <2>5, <2>6, <2>7, <2>8 DEF z
<1> QED
  BY <1>5, <1>6, <1>7 DEF z

(* However a stream is cut in two, its frames are those of the first piece *)
(* and then those of what the first piece left with the second.            *)
LEMMA CutConcat ==
  ASSUME NEW x0 \in Seq(Nat), NEW y \in Seq(Nat)
  PROVE  Cut[x0 \o y] = Before(Cut[x0].frames, Cut[Cut[x0].buf \o y])
<1> DEFINE Holds(x) == Cut[x \o y] = Before(Cut[x].frames, Cut[Cut[x].buf \o y])
           T == {n \in Nat : \A x \in Seq(Nat) : Len(x) < n => Holds(x)}
<1>1. ASSUME NEW x \in Seq(Nat),
             \A u \in Seq(Nat) : Len(u) < Len(x) => Holds(u)
      PROVE  Holds(x)
  <2> DEFINE b == SkipToSignature(x)
  <2>1. b \in Seq(Nat) /\ Len(b) <= Len(x)
    BY SkipType
  <2>2. x \o y \in Seq(Nat) /\ b \o y \in Seq(Nat)
    BY <2>1
  <2>3. SkipToSignature(x \o y) = SkipToSignature(b \o y)
    BY SkipConcat
  <2>4. Cut[x \o y] = Cut[b \o y]
    <3> DEFINE u == x \o y
               v == b \o y
    <3>1. u \in Seq(Nat) /\ v \in Seq(Nat) /\ SkipToSignature(u) = SkipToSignature(v)
      BY <2>2, <2>3
    <3> HIDE DEF u, v
    <3>2. Cut[u] = Cut[v]
      BY <3>1, CutEquals
    <3> QED
      BY <3>2 DEF u, v
  <2>5. CASE Waits(b)
    <3>1. Cut[x] = Keep(b)
      BY <2>5, CutIs
    <3>2. Cut[x].frames = <<>> /\ Cut[x].buf = b
      BY <3>1 DEF Keep
    <3>3. Cut[b \o y] \in Streamed
      BY <2>2, CutIs
    <3> DEFINE r == Cut[b \o y]
    <3> HIDE DEF r, b
    <3>4. Before(<<>>, r) = r
      <4>1. r \in Streamed
        BY <3>3 DEF r
      <4>2. r.frames \in Seq(Frames) /\ r = [frames |-> r.frames, buf |-> r.buf]
        BY <4>1 DEF Streamed
      <4>3. <<>> \o r.frames = r.frames
        BY <4>2
      <4> QED
        BY <4>2, <4>3, Zenon DEF Before
    <3> QED
      BY <2>4, <3>2, <3>4 DEF r
  <2>6. ASSUME ~Waits(b)
        PROVE  /\ SkipToSignature(b \o y) = b \o y /\ Len(b) >= NplLen
    <3>1. Len(b) >= NplLen
      BY <2>1, <2>6 DEF Waits, NplLen
    <3>2. Sig(b, 1)
      BY <3>1, SkipStartsWith
    <3> HIDE DEF b
    <3>3. Sig(b \o y, 1)
      BY <2>1, <3>1, <3>2, MoreBytes
    <3> DEFINE z == b \o y
    <3>4. z \in Seq(Nat) /\ Sig(z, 1)
      BY <2>2, <3>3
    <3> HIDE DEF z
    <3>5. SkipToSignature(z) = z
      BY <3>4, SkipAtOnce
    <3> QED
      BY <3>1, <3>5 DEF z
  <2> DEFINE z == b \o y
  <2>7. CASE Noise(b)
    <3>1. ~Waits(b)
      BY <2>7, ThreeCases
    <3>2. SkipToSignature(z) = z /\ Len(b) >= NplLen
      BY <2>6, <3>1
    <3>3. Cut[x] = Cut[Tail(b)]
      BY <2>7, CutIs
    <3>4. Noise(z) /\ Tail(z) = Tail(b) \o y
      <4> HIDE DEF b
      <4> QED
        BY <2>1, <2>7, <3>2, MoreBytes
    <3>5. Cut[z] = Cut[Tail(z)]
      <4>1. z \in Seq(Nat)
        BY <2>2
      <4> HIDE DEF z
      <4> QED
        BY <3>2, <3>4, <4>1, CutIs
    <3>6. Tail(b) \in Seq(Nat) /\ Len(Tail(b)) < Len(x)
      <4>1. Tail(b) \in Seq(Nat) /\ Len(Tail(b)) < Len(b)
        <5> HIDE DEF b
        <5> QED
          BY <2>1, <2>7, NoiseShrinks
      <4> HIDE DEF b
      <4>2. Len(Tail(b)) \in Nat /\ Len(b) \in Nat /\ Len(x) \in Nat
        BY <2>1, <4>1
      <4> QED
        BY <2>1, <4>1, <4>2
    <3>7. Holds(Tail(b))
      <4> HIDE DEF b, Holds
      <4> QED
        BY <1>1, <3>6
    <3> HIDE DEF b
    <3> QED
      BY <2>4, <3>3, <3>4, <3>5, <3>7
  <2>8. CASE HasFrame(b)
    <3>1. ~Waits(b)
      BY <2>8, ThreeCases
    <3>2. SkipToSignature(z) = z /\ Len(b) >= NplLen
      BY <2>6, <3>1
    <3> DEFINE fs == DecodeFrame(FirstFrame(b))
               a == AfterFrame(b)
    <3>3. Cut[x] = Before(fs, Cut[a])
      BY <2>8, CutIs
    <3>4. HasFrame(z) /\ FirstFrame(z) = FirstFrame(b) /\ AfterFrame(z) = a \o y
      <4> HIDE DEF b
      <4> QED
        BY <2>1, <2>8, <3>2, MoreBytes
    <3>5. Cut[z] = Before(DecodeFrame(FirstFrame(z)), Cut[AfterFrame(z)])
      <4>1. z \in Seq(Nat)
        BY <2>2
      <4> HIDE DEF z
      <4> QED
        BY <3>2, <3>4, <4>1, CutIs
    <3>6. Cut[z] = Before(fs, Cut[a \o y])
      BY <3>4, <3>5
    <3>7. a \in Seq(Nat) /\ Len(a) < Len(x) /\ fs \in Seq(Frames)
      <4>1. a \in Seq(Nat) /\ Len(a) < Len(b) /\ fs \in Seq(Frames)
        <5> HIDE DEF b
        <5> QED
          BY <2>1, <2>8, FrameShrinks
      <4> HIDE DEF b, a
      <4>2. Len(a) \in Nat /\ Len(b) \in Nat /\ Len(x) \in Nat
        BY <2>1, <4>1
      <4> QED
        BY <2>1, <4>1, <4>2
    <3> HIDE DEF a, fs
    <3>8. Cut[a \o y] = Before(Cut[a].frames, Cut[Cut[a].buf \o y])
      <4>1. Holds(a)
        <5> HIDE DEF b, Holds
        <5> QED
          BY <1>1, <3>7
      <4> QED
        BY <4>1
    <3>9. Cut[a] \in Streamed
      BY <3>7, CutIs
    <3> DEFINE q == Cut[Cut[a].buf \o y]
    <3>10. q \in Streamed
      <4>1. Cut[a].buf \in Seq(Nat)
        BY <3>9 DEF Streamed
      <4>2. Cut[a].buf \o y \in Seq(Nat)
        BY <4>1
      <4> QED
        BY <4>2, CutIs
    <3> DEFINE g == Cut[a].frames
    <3>11. g \in Seq(Frames) /\ q.frames \in Seq(Frames)
      BY <3>9, <3>10 DEF Streamed
    <3>12. Cut[z] = Before(fs, Before(g, q))
      BY <3>6, <3>8
    <3>13. Cut[x].frames = fs \o g /\ Cut[x].buf = Cut[a].buf
      BY <3>3 DEF Before
    <3> HIDE DEF g
    <3>14. Before(fs, Before(g, q)) = Before(fs \o g, q)
      BY <3>7, <3>10, <3>11, BeforeBefore DEF q
    <3> HIDE DEF b
    <3> QED
      BY <2>4, <3>12, <3>13, <3>14 DEF q
  <2> HIDE DEF b, Holds
  <2> QED
    BY <2>5, <2>7, <2>8, ThreeCases
<1>2. 0 \in T
  OBVIOUS
<1>3. ASSUME NEW n \in Nat, n \in T PROVE n + 1 \in T
  <2>1. ASSUME NEW x \in Seq(Nat), Len(x) < n + 1 PROVE Holds(x)
    <3>1. ASSUME NEW u \in Seq(Nat), Len(u) < Len(x) PROVE Holds(u)
      <4>1. Len(u) < n
        BY <2>1, <3>1
      <4> HIDE DEF Holds
      <4> QED
        BY <1>3, <4>1
    <3> HIDE DEF Holds
    <3> QED
      BY <1>1, <3>1
  <2> HIDE DEF Holds
  <2> QED
    BY <2>1
<1> HIDE DEF T
<1>4. \A n \in Nat : n \in T
  BY <1>2, <1>3, Induction
<1>5. Len(x0) + 1 \in T /\ Len(x0) < Len(x0) + 1
  BY <1>4
<1>6. Holds(x0)
  <2> HIDE DEF Holds
  <2> QED
    BY <1>5 DEF T
<1> QED
  BY <1>6

-----------------------------------------------------------------------------
(* What the elements of a sequence give, put together.                     *)

Gives(f, T, V) == f \in [T -> V]
Map(f, s) == [i \in DOMAIN s |-> f[s[i]]]
Flat(f, s) == FlattenSeq(Map(f, s))

LEMMA MapIs ==
  ASSUME NEW T, NEW V, NEW f, Gives(f, T, V), NEW s \in Seq(T)
  PROVE  /\ Map(f, s) \in Seq(V) /\ Len(Map(f, s)) = Len(s)
         /\ \A i \in 1..Len(s) : Map(f, s)[i] = f[s[i]]
<1>1. \A i \in 1..Len(s) : f[s[i]] \in V
  BY DEF Gives
<1>2. DOMAIN s = 1..Len(s) /\ Len(s) \in Nat
  OBVIOUS
<1>3. Map(f, s) = [i \in 1..Len(s) |-> f[s[i]]]
  BY <1>2 DEF Map
<1> DEFINE m == [i \in 1..Len(s) |-> f[s[i]]]
<1>4. m \in Seq(V) /\ Len(m) = Len(s) /\ \A i \in 1..Len(s) : m[i] = f[s[i]]
  BY <1>1, <1>2
<1> QED
  BY <1>3, <1>4

LEMMA MapConcat ==
  ASSUME NEW T, NEW V, NEW f, Gives(f, T, V), NEW a \in Seq(T), NEW b \in Seq(T)
  PROVE  Map(f, a \o b) = Map(f, a) \o Map(f, b)
<1> DEFINE c == a \o b
           p == Map(f, a)
           q == Map(f, b)
           r == Map(f, c)
           n == Len(a)
           k == Len(b)
<1>1. /\ c \in Seq(T) /\ Len(c) = n + k /\ n \in Nat /\ k \in Nat
      /\ \A i \in 1..n : c[i] = a[i]
      /\ \A i \in 1..k : c[n + i] = b[i]
  OBVIOUS
<1> HIDE DEF c, n, k
<1>11. \A s \in Seq(T) : /\ Map(f, s) \in Seq(V) /\ Len(Map(f, s)) = Len(s)
                          /\ \A i \in 1..Len(s) : Map(f, s)[i] = f[s[i]]
  BY MapIs
<1>2. p \in Seq(V) /\ Len(p) = n /\ \A i \in 1..n : p[i] = f[a[i]]
  BY <1>11 DEF n
<1>3. q \in Seq(V) /\ Len(q) = k /\ \A i \in 1..k : q[i] = f[b[i]]
  BY <1>11 DEF k
<1>4. r \in Seq(V) /\ Len(r) = n + k /\ \A i \in 1..(n + k) : r[i] = f[c[i]]
  <2>1. r \in Seq(V) /\ Len(r) = Len(c) /\ \A i \in 1..Len(c) : r[i] = f[c[i]]
    BY <1>1, <1>11
  <2> QED
    BY <1>1, <2>1
<1> HIDE DEF p, q, r
<1> DEFINE u == p \o q
<1>10. p \in Seq(V) /\ q \in Seq(V)
  BY <1>2, <1>3
<1>5. u \in Seq(V) /\ Len(u) = n + k
  <2>1. u \in Seq(V) /\ Len(u) = Len(p) + Len(q)
    BY <1>10
  <2> HIDE DEF u
  <2> QED
    BY <1>2, <1>3, <2>1
<1>6. \A i \in 1..n : u[i] = p[i]
  BY <1>2, <1>3
<1>7. \A i \in 1..k : u[n + i] = q[i]
  <2>1. \A i \in 1..Len(q) : u[Len(p) + i] = q[i]
    <3>1. p \in Seq(V) /\ q \in Seq(V)
      BY <1>2, <1>3
    <3> QED
      BY <3>1
  <2> HIDE DEF u
  <2> QED
    BY <1>2, <1>3, <2>1
<1> HIDE DEF u
<1>8. ASSUME NEW i \in 1..(n + k) PROVE r[i] = u[i]
  <2>1. CASE i <= n
    <3>1. i \in 1..n
      BY <1>1, <2>1
    <3>2. r[i] = f[c[i]]
      BY <1>4
    <3>3. c[i] = a[i] /\ u[i] = p[i] /\ p[i] = f[a[i]]
      BY <1>1, <1>2, <1>6, <3>1
    <3> QED
      BY <3>2, <3>3
  <2>2. CASE ~(i <= n)
    <3> DEFINE j == i - n
    <3>1. j \in 1..k /\ n + j = i
      BY <1>1, <2>2
    <3> HIDE DEF j
    <3>2. c[n + j] = b[j] /\ u[n + j] = q[j] /\ q[j] = f[b[j]]
      BY <1>1, <1>3, <1>7, <3>1
    <3>3. r[i] = f[c[i]]
      BY <1>4
    <3> QED
      BY <3>1, <3>2, <3>3
  <2> QED
    BY <2>1, <2>2
<1>9. r = u
  BY <1>4, <1>5, <1>8
<1> QED
  BY <1>9 DEF r, u, p, q, c

LEMMA FlatType ==
  ASSUME NEW T, NEW V, NEW f, Gives(f, T, Seq(V)), NEW s \in Seq(T)
  PROVE  Flat(f, s) \in Seq(V)
<1>1. Map(f, s) \in Seq(Seq(V))
  BY MapIs
<1> QED
  BY <1>1, FlattenType DEF Flat

LEMMA FlatConcat ==
  ASSUME NEW T, NEW V, NEW f, Gives(f, T, Seq(V)), NEW a \in Seq(T), NEW b \in Seq(T)
  PROVE  Flat(f, a \o b) = Flat(f, a) \o Flat(f, b)
<1> DEFINE p == Map(f, a)
           q == Map(f, b)
<1>1. p \in Seq(Seq(V)) /\ q \in Seq(Seq(V))
  BY MapIs
<1>2. Map(f, a \o b) = p \o q
  BY MapConcat
<1> HIDE DEF p, q
<1>3. FlattenSeq(p \o q) = FlattenSeq(p) \o FlattenSeq(q)
  BY <1>1, FlattenConcat
<1> QED
  BY <1>2, <1>3 DEF Flat, p, q

LEMMA FlatEmpty ==
  ASSUME NEW f
  PROVE  Flat(f, <<>>) = <<>>
<1>1. Map(f, <<>>) = <<>>
  BY DEF Map
<1> QED
  BY <1>1, FlattenEmpty, Zenon DEF Flat

LEMMA FlatOne ==
  ASSUME NEW T, NEW V, NEW f, Gives(f, T, Seq(V)), NEW x \in T
  PROVE  Flat(f, <<x>>) = f[x]
<1> DEFINE y == f[x]
<1>1. y \in Seq(V)
  BY DEF Gives
<1>2. Map(f, <<x>>) = <<y>>
  BY DEF Map
<1> HIDE DEF y
<1>3. FlattenSeq(<<y>>) = y
  BY <1>1, FlattenOne
<1> QED
  BY <1>2, <1>3, Zenon DEF Flat, y

-----------------------------------------------------------------------------
(* The rows of frames, and the rows of one connection in the queue.        *)

Items == [conn : Conns \cup {Other}, row : Nat]
RowsIn == [f \in Frames |-> RowIn(f)]
RowFrom(c) == [m \in Items |-> IF m.conn = c THEN <<m.row>> ELSE <<>>]

LEMMA RowsInType == Gives(RowsIn, Frames, Seq(Nat))
<1>1. ASSUME NEW f \in Frames PROVE RowIn(f) \in Seq(Nat)
  <2>1. f.nav \in Seq(Nat)
    BY DEF Frames
  <2> QED
    BY <2>1 DEF RowIn
<1> QED
  BY <1>1 DEF RowsIn, Gives

LEMMA RowFromType ==
  ASSUME NEW c
  PROVE  Gives(RowFrom(c), Items, Seq(Nat))
  BY DEF RowFrom, Items, Gives

LEMMA RowsOfIs ==
  ASSUME NEW s \in Seq(Frames)
  PROVE  RowsOf[s] = Flat(RowsIn, s)
<1>1. RowsOf[s] = FlattenSeq([i \in DOMAIN s |-> RowIn(s[i])])
  BY DEF RowsOf
<1>2. [i \in DOMAIN s |-> RowIn(s[i])] = Map(RowsIn, s)
  <2>1. \A i \in DOMAIN s : s[i] \in Frames
    OBVIOUS
  <2> QED
    BY <2>1 DEF Map, RowsIn
<1> QED
  BY <1>1, <1>2 DEF Flat

LEMMA RowsOfConcat ==
  ASSUME NEW a \in Seq(Frames), NEW b \in Seq(Frames)
  PROVE  /\ RowsOf[a] \in Seq(Nat) /\ RowsOf[b] \in Seq(Nat)
         /\ RowsOf[a \o b] = RowsOf[a] \o RowsOf[b]
<1>1. a \o b \in Seq(Frames)
  OBVIOUS
<1>2. RowsOf[a \o b] = Flat(RowsIn, a \o b)
  BY <1>1, RowsOfIs
<1>3. RowsOf[a] = Flat(RowsIn, a) /\ RowsOf[b] = Flat(RowsIn, b)
  BY RowsOfIs
<1>4. Flat(RowsIn, a \o b) = Flat(RowsIn, a) \o Flat(RowsIn, b)
  BY RowsInType, FlatConcat
<1>5. Flat(RowsIn, a) \in Seq(Nat) /\ Flat(RowsIn, b) \in Seq(Nat)
  BY RowsInType, FlatType
<1> QED
  BY <1>2, <1>3, <1>4, <1>5

LEMMA RowsOfEmpty == RowsOf[<<>>] = <<>>
<1>1. <<>> \in Seq(Frames)
  OBVIOUS
<1> QED
  BY <1>1, RowsOfIs, FlatEmpty

LEMMA RowsOfOne ==
  ASSUME NEW f \in Frames
  PROVE  RowsOf[<<f>>] = RowIn(f)
<1>1. <<f>> \in Seq(Frames)
  OBVIOUS
<1>2. Flat(RowsIn, <<f>>) = RowsIn[f]
  BY RowsInType, FlatOne
<1> QED
  BY <1>1, <1>2, RowsOfIs DEF RowsIn

LEMMA QueuedIs ==
  ASSUME NEW c, NEW q \in Seq(Items)
  PROVE  Queued(c, q) = Flat(RowFrom(c), q)
<1>1. [i \in DOMAIN q |-> IF q[i].conn = c THEN <<q[i].row>> ELSE <<>>] = Map(RowFrom(c), q)
  <2>1. \A i \in DOMAIN q : q[i] \in Items
    OBVIOUS
  <2> QED
    BY <2>1 DEF Map, RowFrom
<1> QED
  BY <1>1 DEF Queued, Flat

LEMMA QueuedConcat ==
  ASSUME NEW c, NEW p \in Seq(Items), NEW q \in Seq(Items)
  PROVE  /\ Queued(c, p) \in Seq(Nat) /\ Queued(c, q) \in Seq(Nat)
         /\ Queued(c, p \o q) = Queued(c, p) \o Queued(c, q)
<1>1. p \o q \in Seq(Items)
  OBVIOUS
<1>2. Queued(c, p \o q) = Flat(RowFrom(c), p \o q)
  BY <1>1, QueuedIs
<1>3. Queued(c, p) = Flat(RowFrom(c), p) /\ Queued(c, q) = Flat(RowFrom(c), q)
  BY QueuedIs
<1>4. Flat(RowFrom(c), p \o q) = Flat(RowFrom(c), p) \o Flat(RowFrom(c), q)
  BY RowFromType, FlatConcat
<1>5. Flat(RowFrom(c), p) \in Seq(Nat) /\ Flat(RowFrom(c), q) \in Seq(Nat)
  BY RowFromType, FlatType
<1> QED
  BY <1>2, <1>3, <1>4, <1>5

LEMMA QueuedEmpty ==
  ASSUME NEW c
  PROVE  Queued(c, <<>>) = <<>>
<1>1. <<>> \in Seq(Items)
  OBVIOUS
<1> QED
  BY <1>1, QueuedIs, FlatEmpty

LEMMA QueuedOne ==
  ASSUME NEW c, NEW m \in Items
  PROVE  Queued(c, <<m>>) = IF m.conn = c THEN <<m.row>> ELSE <<>>
<1>1. <<m>> \in Seq(Items)
  OBVIOUS
<1>2. Flat(RowFrom(c), <<m>>) = RowFrom(c)[m]
  BY RowFromType, FlatOne
<1> QED
  BY <1>1, <1>2, QueuedIs DEF RowFrom

-----------------------------------------------------------------------------
(* The frames that the terminal of the replayer writes.                    *)

LEMMA CutEmpty == Cut[<<>>] = Keep(<<>>)
<1>1. <<>> \in Seq(Nat) /\ \A j \in Nat : ~Sig(<<>>, j)
  BY DEF Sig
<1>2. SkipToSignature(<<>>) = <<>>
  BY <1>1, SkipIs
<1>3. Waits(<<>>)
  BY DEF Waits, NplLen
<1> QED
  BY <1>1, <1>2, <1>3, CutIs

(* What a buffer keeps has nothing to give.                                *)
LEMMA CutSettled ==
  ASSUME NEW s \in Seq(Nat)
  PROVE  Cut[Cut[s].buf] = Keep(Cut[s].buf)
<1> DEFINE b == Cut[s].buf
           r == Cut[b]
           f == Cut[s].frames
<1>1. Cut[s] \in Streamed
  BY CutIs
<1>2. b \in Seq(Nat) /\ f \in Seq(Frames)
  BY <1>1 DEF Streamed
<1>3. r \in Streamed
  BY <1>2, CutIs
<1>4. r.frames \in Seq(Frames) /\ r = [frames |-> r.frames, buf |-> r.buf]
  BY <1>3 DEF Streamed
<1>5. Cut[s] = Before(f, r)
  <2>1. s \o <<>> = s /\ b \o <<>> = b /\ <<>> \in Seq(Nat)
    BY <1>2
  <2>2. Cut[s \o <<>>] = Before(Cut[s].frames, Cut[Cut[s].buf \o <<>>])
    BY <2>1, CutConcat
  <2> QED
    BY <2>1, <2>2
<1>6. f = f \o r.frames /\ b = r.buf
  <2> HIDE DEF r
  <2>1. Before(f, r).frames = f \o r.frames /\ Before(f, r).buf = r.buf
    BY DEF Before
  <2> QED
    BY <1>5, <2>1
<1> HIDE DEF r, f, b
<1>7. r.frames = <<>>
  <2> DEFINE g == r.frames
  <2>1. g \in Seq(Frames) /\ Len(f \o g) = Len(f) + Len(g)
    BY <1>2, <1>4
  <2>2. Len(f) \in Nat /\ Len(g) \in Nat /\ Len(f) = Len(f) + Len(g)
    <3> HIDE DEF g
    <3>1. f = f \o g
      BY <1>6 DEF g
    <3> QED
      BY <1>2, <2>1, <3>1
  <2> HIDE DEF g
  <2>3. Len(g) = 0
    BY <2>2
  <2>4. g = <<>>
    BY <2>1, <2>3
  <2> QED
    BY <2>4 DEF g
<1> QED
  BY <1>4, <1>6, <1>7 DEF Keep, r, b

LEMMA BuildIs ==
  ASSUME NEW kind \in Nat, NEW body \in Seq(Nat)
  PROVE  LET raw == BuildFrame(kind, body)
             data == <<kind>> \o body
         IN /\ raw \in Seq(Nat) /\ Len(raw) = 6 + Len(body) /\ Sig(raw, 1)
            /\ raw[3] = 1 + Len(body) /\ raw[4] = Crc(data) /\ raw[5] = NplType /\ raw[6] = kind
            /\ From(raw, 6) = data /\ From(raw, 7) = body
<1> DEFINE data == <<kind>> \o body
           n == 1 + Len(body)
           crc == Crc(data)
           head == <<S, S, n, crc, NplType>>
           raw == head \o data
<1>1. data \in Seq(Nat) /\ Len(data) = n /\ n \in Nat /\ n >= 1 /\ data[1] = kind
  OBVIOUS
<1>2. Tail(data) = body
  OBVIOUS
<1>3. crc \in Nat
  BY <1>1, CrcType
<1>4. BuildFrame(kind, body) = raw
  BY <1>1 DEF BuildFrame
<1>12. n = 1 + Len(body) /\ Len(body) \in Nat
  OBVIOUS
<1> HIDE DEF data, n, crc
<1>5. /\ head \in Seq(Nat) /\ Len(head) = 5 /\ head[1] = S /\ head[2] = S /\ head[3] = n
      /\ head[4] = crc /\ head[5] = NplType
  BY <1>1, <1>3 DEF S, NplType
<1> HIDE DEF head
<1>14. head \in Seq(Nat) /\ data \in Seq(Nat)
  BY <1>1, <1>5
<1>15. /\ raw \in Seq(Nat) /\ Len(raw) = Len(head) + Len(data)
       /\ \A i \in 1..Len(head) : raw[i] = head[i]
       /\ \A i \in 1..Len(data) : raw[Len(head) + i] = data[i]
  BY <1>14
<1>16. SubSeq(raw, Len(head) + 1, Len(head) + Len(data)) = data
  BY <1>14
<1>6. raw \in Seq(Nat) /\ Len(raw) = 5 + n
  <2> HIDE DEF raw
  <2> QED
    BY <1>1, <1>5, <1>15
<1>7. raw[1] = S /\ raw[2] = S /\ raw[3] = n /\ raw[4] = crc /\ raw[5] = NplType
  <2>1. \A i \in 1..5 : raw[i] = head[i]
    <3> HIDE DEF raw
    <3> QED
      BY <1>5, <1>15
  <2> HIDE DEF raw
  <2> QED
    BY <1>5, <2>1
<1>8. raw[6] = kind
  <2> HIDE DEF raw
  <2>1. raw[5 + 1] = data[1]
    <3>1. 1 \in 1..Len(data)
      BY <1>1
    <3> QED
      BY <1>5, <1>15, <3>1
  <2>2. 5 + 1 = 6
    OBVIOUS
  <2> QED
    BY <1>1, <2>1, <2>2
<1>9. From(raw, 6) = data
  <2> HIDE DEF raw
  <2>1. SubSeq(raw, 5 + 1, 5 + n) = data
    BY <1>1, <1>5, <1>16
  <2> QED
    BY <1>6, <2>1 DEF From
<1>10. From(raw, 7) = body
  <2>1. 7 \in 1..(Len(raw) + 1) /\ 6 \in 1..(Len(raw) + 1)
    BY <1>1, <1>6
  <2> HIDE DEF raw
  <2> DEFINE a == From(raw, 7)
             t == Tail(data)
  <2>2. /\ a \in Seq(Nat) /\ Len(a) = Len(raw) + 1 - 7
        /\ \A j \in 1..(Len(raw) + 1 - 7) : a[j] = raw[7 + j - 1]
    BY ZenonT(30), <1>6, <2>1, FromIs
  <2>3. \A j \in 1..(Len(raw) + 1 - 6) : data[j] = raw[6 + j - 1]
    BY ZenonT(30), <1>6, <1>9, <2>1, FromIs
  <2>4. t \in Seq(Nat) /\ Len(t) = n - 1 /\ \A j \in 1..(n - 1) : t[j] = data[j + 1]
    BY <1>1
  <2> HIDE DEF a, t
  <2>5. Len(raw) + 1 - 7 = n - 1 /\ Len(raw) + 1 - 6 = n
    BY <1>1, <1>6
  <2>6. ASSUME NEW j \in 1..(n - 1) PROVE a[j] = t[j]
    <3>1. j + 1 \in 1..n /\ 6 + (j + 1) - 1 = 7 + j - 1
      BY <1>1
    <3>2. data[j + 1] = raw[6 + (j + 1) - 1]
      BY <2>3, <2>5, <3>1
    <3>3. a[j] = raw[7 + j - 1]
      BY <2>2, <2>5
    <3> QED
      BY <2>4, <3>1, <3>2, <3>3
  <2>7. a = t
    <3>1. Len(a) = n - 1
      BY <2>2, <2>5
    <3> QED
      BY <2>2, <2>4, <2>6, <3>1
  <2> QED
    BY <1>2, <2>7 DEF a, t
<1>11. Sig(raw, 1)
  <2>1. 1 \in 1..(Len(raw) - 1) /\ 1 + 1 = 2
    BY <1>1, <1>6
  <2> HIDE DEF raw
  <2> QED
    BY <1>7, <2>1 DEF Sig
<1>13. Len(raw) = 6 + Len(body)
  BY <1>6, <1>12
<1> HIDE DEF raw
<1> QED
  BY <1>4, <1>6, <1>7, <1>8, <1>9, <1>10, <1>11, <1>12, <1>13, Zenon DEF data, crc

LEMMA CutBuilt ==
  ASSUME NEW kind \in Nat, NEW body \in Seq(Nat)
  PROVE  LET raw == BuildFrame(kind, body)
         IN Cut[raw] = [frames |-> DecodeFrame(raw), buf |-> <<>>] /\ DecodeFrame(raw) \in Seq(Frames)
<1> DEFINE raw == BuildFrame(kind, body)
<1>1. /\ raw \in Seq(Nat) /\ Len(raw) = 6 + Len(body) /\ Sig(raw, 1)
      /\ raw[3] = 1 + Len(body) /\ raw[5] = NplType
  BY BuildIs
<1>2. Len(body) \in Nat
  OBVIOUS
<1> HIDE DEF raw
<1>3. SkipToSignature(raw) = raw
  BY <1>1, SkipAtOnce
<1>4. HeaderOk(raw)
  BY <1>1, <1>2 DEF HeaderOk, NphLen
<1>5. NplLen + raw[3] = Len(raw) /\ Len(raw) >= NplLen
  BY <1>1, <1>2 DEF NplLen
<1>6. HasFrame(raw)
  BY <1>1, <1>4, <1>5 DEF HasFrame, NplLen
<1>7. FirstFrame(raw) = raw /\ AfterFrame(raw) = <<>>
  <2>1. FirstFrame(raw) = SubSeq(raw, 1, Len(raw)) /\ AfterFrame(raw) = SubSeq(raw, Len(raw) + 1, Len(raw))
    BY <1>5 DEF FirstFrame, AfterFrame, From
  <2> QED
    BY <1>1, <2>1
<1>8. Cut[raw] = Before(DecodeFrame(raw), Cut[<<>>])
  BY <1>1, <1>3, <1>6, <1>7, CutIs
<1>9. DecodeFrame(raw) \in Seq(Frames)
  BY <1>1, <1>6, <1>7, FrameShrinks
<1> DEFINE d == DecodeFrame(raw)
<1> HIDE DEF d
<1>10. Before(d, Keep(<<>>)) = [frames |-> d, buf |-> <<>>]
  <2>1. d \o <<>> = d
    BY <1>9 DEF d
  <2> QED
    BY <2>1, Zenon DEF Before, Keep
<1> QED
  BY <1>8, <1>9, <1>10, CutEmpty DEF raw, d

(* The handshake is one good frame without a row.                          *)
LEMMA HandshakeCut ==
  /\ EncodeHandshake \in Seq(Nat)
  /\ Cut[EncodeHandshake].buf = <<>>
  /\ Cut[EncodeHandshake].frames \in Seq(Frames)
  /\ RowsOf[Cut[EncodeHandshake].frames] = <<>>
<1> DEFINE body == <<0>>
           raw == BuildFrame(ConnRequest, body)
           d == DecodeFrame(raw)
<1>1. ConnRequest \in Nat /\ body \in Seq(Nat)
  BY DEF ConnRequest
<1>2. raw \in Seq(Nat) /\ raw[6] = ConnRequest
  BY <1>1, BuildIs
<1>3. Cut[raw] = [frames |-> d, buf |-> <<>>] /\ d \in Seq(Frames)
  BY <1>1, CutBuilt
<1>4. d = <<>> \/ \E f \in Frames : d = <<f>> /\ f.kind = ConnRequest
  <2> HIDE DEF body, raw
  <2>1. d = <<>> \/ \E f : d = <<f>> /\ f.kind = raw[NplLen + 1]
    BY DEF DecodeFrame
  <2>2. \A f : d = <<f>> => f \in Frames
    <3>1. SUFFICES ASSUME NEW f, d = <<f>> PROVE f \in Frames
      OBVIOUS
    <3> HIDE DEF d
    <3>2. 1 \in 1..Len(d) /\ d[1] = f
      BY <3>1
    <3> QED
      BY <1>3, <3>2
  <2>3. NplLen + 1 = 6
    BY DEF NplLen
  <2> HIDE DEF d
  <2> QED
    BY <1>2, <2>1, <2>2, <2>3
<1> HIDE DEF d, raw
<1>5. RowsOf[d] = <<>>
  <2>1. CASE d = <<>>
    BY <2>1, RowsOfEmpty
  <2>2. CASE \E f \in Frames : d = <<f>> /\ f.kind = ConnRequest
    <3>1. PICK f \in Frames : d = <<f>> /\ f.kind = ConnRequest
      BY <2>2
    <3>2. RowIn(f) = <<>>
      BY <3>1 DEF RowIn
    <3> QED
      BY <3>1, <3>2, RowsOfOne
  <2> QED
    BY <1>4, <2>1, <2>2
<1>6. EncodeHandshake = raw
  BY DEF EncodeHandshake, raw
<1> QED
  BY <1>2, <1>3, <1>5, <1>6

(* A row is one good frame with that row.                                  *)
LEMMA RealtimeCut ==
  ASSUME NEW r \in Nat
  PROVE  LET raw == EncodeRealtime(r, <<>>)
         IN /\ raw \in Seq(Nat) /\ Cut[raw].buf = <<>> /\ Cut[raw].frames \in Seq(Frames)
            /\ RowsOf[Cut[raw].frames] = <<r>>
<1> DEFINE body == <<NavType, 0, r>>
           raw == BuildFrame(Realtime, body)
           d == DecodeFrame(raw)
           parsed == DecodeCells(body)
           cell == [type |-> NavType, value |-> r]
<1>1. Realtime \in Nat /\ body \in Seq(Nat) /\ NavType \in Nat /\ Len(body) = 3
  BY DEF Realtime, NavType
<1>2. EncodeRealtime(r, <<>>) = raw
  <2>1. EncodeCell(NavType, r) \o <<>> = body
    BY <1>1 DEF EncodeCell
  <2> QED
    BY <2>1 DEF EncodeRealtime
<1>3. /\ raw \in Seq(Nat) /\ raw[6] = Realtime /\ From(raw, 7) = body
      /\ raw[4] = Crc(From(raw, 6))
  <2> HIDE DEF body
  <2>1. /\ raw \in Seq(Nat) /\ raw[6] = Realtime /\ From(raw, 7) = body
        /\ raw[4] = Crc(<<Realtime>> \o body) /\ From(raw, 6) = <<Realtime>> \o body
    BY <1>1, BuildIs
  <2> HIDE DEF raw
  <2> QED
    BY <2>1
<1>4. Cut[raw] = [frames |-> d, buf |-> <<>>] /\ d \in Seq(Frames)
  BY <1>1, CutBuilt
<1>5. parsed.cells = <<cell>> /\ parsed.truncated = FALSE
  <2>1. PICK at \in [1..(Len(body) + 3) -> Parsed] :
          /\ DecodeCells(body) = at[1]
          /\ \A p \in 1..(Len(body) + 3) :
               /\ p + 1 > Len(body) => at[p] = NoCells
               /\ p + 2 <= Len(body) /\ body[p] \in {NavType, Crown, Irma}
                    => at[p] = CellBefore(body[p], body[p + 2], at[p + 3])
    <3> HIDE DEF body
    <3> QED
      BY <1>1, DecodeCellsIs
  <2>2. at[4] = NoCells
    <3>1. 4 \in 1..(Len(body) + 3) /\ 4 + 1 > Len(body)
      BY <1>1
    <3> HIDE DEF body
    <3> QED
      BY <2>1, <3>1
  <2>3. at[1] = CellBefore(NavType, r, at[4])
    <3>1. 1 \in 1..(Len(body) + 3) /\ 1 + 2 <= Len(body) /\ 1 + 2 = 3 /\ 1 + 3 = 4
      BY <1>1
    <3>2. body[1] = NavType /\ body[3] = r /\ body[1] \in {NavType, Crown, Irma}
      OBVIOUS
    <3> HIDE DEF body
    <3>3. at[1] = CellBefore(body[1], body[1 + 2], at[1 + 3])
      BY <2>1, <3>1, <3>2
    <3> QED
      BY <3>1, <3>2, <3>3
  <2>4. <<cell>> \o <<>> = <<cell>>
    OBVIOUS
  <2> HIDE DEF body, cell
  <2>5. parsed = [cells |-> <<cell>>, truncated |-> FALSE]
    BY <2>1, <2>2, <2>3, <2>4 DEF CellBefore, NoCells, cell
  <2> QED
    BY <2>5
<1>6. Navs(parsed.cells) = <<r>>
  <2> DEFINE s == <<cell>>
             at == {i \in DOMAIN s : s[i].type = NavType}
  <2>1. cell \in Cell
    BY <1>1 DEF Cell
  <2>2. s \in Seq(Cell) /\ DOMAIN s = {1} /\ s[1] = cell
    BY <2>1
  <2>3. at = {1}
    BY <2>2
  <2> HIDE DEF s, at
  <2>4. (CHOOSE i \in at : \A j \in at : i <= j) = 1
    BY <2>3
  <2>5. FirstOf(NavType)[s] = <<s[1].value>>
    <3>1. FirstOf(NavType)[s] = IF at = {} THEN <<>>
                                ELSE <<s[CHOOSE i \in at : \A j \in at : i <= j].value>>
      BY <2>2 DEF FirstOf, at
    <3> QED
      BY <2>3, <2>4, <3>1
  <2>6. s = parsed.cells
    BY <1>5 DEF s
  <2> QED
    BY SMTT(30), <2>2, <2>5, <2>6 DEF Navs
<1>7. \E f \in Frames : d = <<f>> /\ RowIn(f) = <<r>>
  <2> HIDE DEF body, raw, parsed
  <2>1. NplLen + 1 = 6 /\ NplLen + NphLen + 1 = 7
    BY DEF NplLen, NphLen
  <2>2. raw[NplLen + 1] = Realtime /\ From(raw, NplLen + NphLen + 1) = body
        /\ (Crc(From(raw, NplLen + 1)) = raw[4])
    BY <1>3, <2>1
  <2>3. Realtime # ConnRequest
    BY DEF Realtime, ConnRequest
  <2> DEFINE nav == Navs(parsed.cells)
             doors == DoorSnapshot(parsed.cells)
             ok == Crc(From(raw, NplLen + 1)) = raw[4]
             f == [kind |-> Realtime, crcOk |-> ok, nav |-> nav, doors |-> doors]
  <2>4. d = <<f>>
    BY <1>5, <2>2, <2>3, Zenon DEF DecodeFrame, parsed
  <2>5. f.crcOk = ok /\ f.kind = Realtime /\ f.nav = nav
    OBVIOUS
  <2>6. RowIn(f) = nav
    <3>1. f.crcOk
      BY Zenon, <2>2, <2>5
    <3> HIDE DEF f, nav
    <3> QED
      BY <2>3, <2>5, <3>1, Zenon DEF RowIn
  <2> HIDE DEF f, d
  <2>7. f \in Frames
    <3>1. 1 \in 1..Len(d) /\ d[1] = f
      BY <2>4
    <3> QED
      BY <1>4, <3>1
  <2> QED
    BY <1>6, <2>4, <2>6, <2>7
<1> HIDE DEF d, raw
<1>8. RowsOf[d] = <<r>>
  <2>1. PICK f \in Frames : d = <<f>> /\ RowIn(f) = <<r>>
    BY <1>7
  <2> QED
    BY <2>1, RowsOfOne
<1> QED
  BY SMTT(30), <1>2, <1>3, <1>4, <1>8

LEMMA FlattenSingles ==
  ASSUME NEW T, NEW s \in Seq(T), NEW d \in Seq(Seq(T)), Len(d) = Len(s),
         \A i \in 1..Len(s) : d[i] = <<s[i]>>
  PROVE  FlattenSeq(d) = s
<1>0. Len(s) \in Nat /\ \A i \in 1..Len(s) : s[i] \in T
  OBVIOUS
<1>1. CASE d = <<>>
  <2>1. Len(d) = 0
    BY <1>1
  <2>3. Len(s) = 0
    BY <2>1
  <2>2. s = <<>>
    BY <2>3, EmptySeq
  <2> QED
    BY <1>1, <2>2, FlattenEmpty, Zenon
<1>2. CASE d # <<>>
  <2>1. PICK h \in [1..Len(d) -> Seq(T)] :
          /\ \A i \in 1..Len(d) : h[i] = IF i = 1 THEN d[i] ELSE h[i - 1] \o d[i]
          /\ FlattenSeq(d) = h[Len(d)]
    BY <1>2, FlattenIs
  <2> DEFINE Is(n) == h[n] \in Seq(T) /\ Len(h[n]) = n /\ \A i \in 1..n : h[n][i] = s[i]
             M == {n \in Nat : n \in 1..Len(s) => Is(n)}
  <2>2. 0 \in M
    OBVIOUS
  <2>3. ASSUME NEW n \in Nat, n \in M PROVE n + 1 \in M
    <3>1. SUFFICES ASSUME n + 1 \in 1..Len(s) PROVE Is(n + 1)
      <4> HIDE DEF Is
      <4> QED
        OBVIOUS
    <3>2. h[n + 1] = IF n + 1 = 1 THEN d[n + 1] ELSE h[(n + 1) - 1] \o d[n + 1]
      BY <2>1, <3>1
    <3>3. d[n + 1] = <<s[n + 1]>> /\ s[n + 1] \in T
      BY <1>0, <3>1
    <3>4. CASE n = 0
      <4>1. h[n + 1] = <<s[n + 1]>>
        BY <3>2, <3>3, <3>4
      <4>2. \A i \in 1..(n + 1) : i = 1 /\ n + 1 = 1
        BY <3>4
      <4> QED
        BY <3>3, <3>4, <4>1, <4>2
    <3>5. CASE n # 0
      <4>1. n \in 1..Len(s) /\ (n + 1) - 1 = n /\ n + 1 # 1
        BY <1>0, <3>1, <3>5
      <4>2. Is(n)
        <5> HIDE DEF Is
        <5> QED
          BY <2>3, <4>1
      <4>3. h[n + 1] = h[n] \o <<s[n + 1]>>
        BY <3>2, <3>3, <4>1
      <4> DEFINE u == h[n]
                 x == s[n + 1]
      <4>4. u \in Seq(T) /\ Len(u) = n /\ x \in T /\ \A i \in 1..n : u[i] = s[i]
        BY <3>3, <4>2
      <4> HIDE DEF u, x
      <4>5. u \o <<x>> \in Seq(T) /\ Len(u \o <<x>>) = n + 1
        BY <4>4
      <4>6. ASSUME NEW i \in 1..(n + 1) PROVE (u \o <<x>>)[i] = s[i]
        <5>1. CASE i \in 1..n
          <6>1. (u \o <<x>>)[i] = u[i]
            BY <4>4, <5>1
          <6> QED
            BY <4>4, <5>1, <6>1
        <5>2. CASE i = n + 1
          <6>1. (u \o <<x>>)[n + 1] = x
            BY <4>4
          <6> QED
            BY <5>2, <6>1 DEF x
        <5>3. i \in 1..n \/ i = n + 1
          OBVIOUS
        <5> QED
          BY <5>1, <5>2, <5>3
      <4> QED
        BY <4>3, <4>5, <4>6 DEF u, x
    <3> QED
      BY <3>4, <3>5
  <2> HIDE DEF M
  <2>4. \A n \in Nat : n \in M
    BY <2>2, <2>3, Induction
  <2>5. Len(s) \in 1..Len(s)
    BY <1>0, <1>2
  <2>6. Is(Len(s))
    <3> HIDE DEF Is
    <3> QED
      BY <1>0, <2>4, <2>5 DEF M
  <2> DEFINE t == h[Len(s)]
  <2>7. t \in Seq(T) /\ Len(t) = Len(s) /\ \A i \in 1..Len(s) : t[i] = s[i]
    BY <2>6
  <2> HIDE DEF t
  <2>8. t = s
    BY <2>7, SeqEqual
  <2> QED
    BY <2>1, <2>8 DEF t
<1> QED
  BY <1>1, <1>2

LEMMA FlattenNothing ==
  ASSUME NEW T, NEW d \in Seq(Seq(T)), \A i \in 1..Len(d) : d[i] = <<>>
  PROVE  FlattenSeq(d) = <<>>
<1>1. CASE d = <<>>
  BY <1>1, FlattenEmpty, Zenon
<1>2. CASE d # <<>>
  <2>1. PICK h \in [1..Len(d) -> Seq(T)] :
          /\ \A i \in 1..Len(d) : h[i] = IF i = 1 THEN d[i] ELSE h[i - 1] \o d[i]
          /\ FlattenSeq(d) = h[Len(d)]
    BY <1>2, FlattenIs
  <2> DEFINE M == {n \in Nat : n \in 1..Len(d) => h[n] = <<>>}
  <2>2. 0 \in M
    OBVIOUS
  <2>3. ASSUME NEW n \in Nat, n \in M PROVE n + 1 \in M
    <3>1. SUFFICES ASSUME n + 1 \in 1..Len(d) PROVE h[n + 1] = <<>>
      OBVIOUS
    <3>2. h[n + 1] = IF n + 1 = 1 THEN d[n + 1] ELSE h[(n + 1) - 1] \o d[n + 1]
      BY <2>1, <3>1
    <3>3. d[n + 1] = <<>>
      BY <3>1
    <3>4. CASE n = 0
      BY <3>2, <3>3, <3>4
    <3>5. CASE n # 0
      <4>1. n \in 1..Len(d) /\ (n + 1) - 1 = n /\ n + 1 # 1
        BY <3>1, <3>5
      <4>2. h[n] = <<>>
        BY <2>3, <4>1
      <4>3. <<>> \o <<>> = <<>>
        OBVIOUS
      <4> QED
        BY <3>2, <3>3, <4>1, <4>2, <4>3
    <3> QED
      BY <3>4, <3>5
  <2> HIDE DEF M
  <2>4. \A n \in Nat : n \in M
    BY <2>2, <2>3, Induction
  <2>5. Len(d) \in Nat /\ Len(d) \in 1..Len(d)
    BY <1>2
  <2> QED
    BY <2>1, <2>4, <2>5 DEF M
<1> QED
  BY <1>1, <1>2

(* The items that the server makes of the rows of a connection.            *)
Tagged(c, rows) == [i \in DOMAIN rows |-> [conn |-> c, row |-> rows[i]]]

LEMMA TaggedIs ==
  ASSUME NEW c \in Conns \cup {Other}, NEW rows \in Seq(Nat)
  PROVE  /\ Tagged(c, rows) \in Seq(Items) /\ Len(Tagged(c, rows)) = Len(rows)
         /\ Queued(c, Tagged(c, rows)) = rows
         /\ \A d : d # c => Queued(d, Tagged(c, rows)) = <<>>
<1> DEFINE q == Tagged(c, rows)
           n == Len(rows)
<1>1. /\ q \in Seq(Items) /\ Len(q) = n /\ n \in Nat
      /\ \A i \in 1..n : q[i].conn = c /\ q[i].row = rows[i]
  <2>1. DOMAIN rows = 1..n /\ n \in Nat
    OBVIOUS
  <2>2. \A i \in 1..n : [conn |-> c, row |-> rows[i]] \in Items
    BY DEF Items
  <2>3. q = [i \in 1..n |-> [conn |-> c, row |-> rows[i]]]
    BY <2>1 DEF Tagged
  <2> HIDE DEF n
  <2> QED
    BY <2>1, <2>2, <2>3
<1> HIDE DEF q
<1> DEFINE L(d) == [i \in DOMAIN q |-> IF q[i].conn = d THEN <<q[i].row>> ELSE <<>>]
<1>2. \A d : Queued(d, q) = FlattenSeq(L(d))
  BY Zenon DEF Queued
<1>3. DOMAIN q = 1..n
  BY <1>1
<1>4. Queued(c, q) = rows
  <2> DEFINE l == L(c)
  <2>1. l \in Seq(Seq(Nat)) /\ Len(l) = n /\ \A i \in 1..n : l[i] = <<rows[i]>>
    <3>1. \A i \in 1..n : rows[i] \in Nat
      OBVIOUS
    <3>2. l = [i \in 1..n |-> <<rows[i]>>]
      BY <1>1, <1>3
    <3> HIDE DEF n, l
    <3> QED
      BY <1>1, <3>1, <3>2
  <2> HIDE DEF l
  <2>2. FlattenSeq(l) = rows
    BY <2>1, FlattenSingles
  <2> QED
    BY <1>2, <2>2 DEF l
<1>5. ASSUME NEW d, d # c PROVE Queued(d, q) = <<>>
  <2> DEFINE l == L(d)
  <2>1. l \in Seq(Seq(Nat)) /\ Len(l) = n /\ \A i \in 1..n : l[i] = <<>>
    <3>1. l = [i \in 1..n |-> <<>>]
      BY <1>1, <1>3, <1>5
    <3> HIDE DEF n, l
    <3> QED
      BY <1>1, <3>1
  <2> HIDE DEF l
  <2>2. FlattenSeq(l) = <<>>
    BY <2>1, FlattenNothing
  <2> QED
    BY <1>2, <2>2 DEF l
<1> QED
  BY <1>1, <1>4, <1>5 DEF q

(* The queue keeps the end of what it gets.                                *)
LEMMA PutIs ==
  ASSUME NEW q \in Seq(Items)
  PROVE  /\ Put(q) \in Seq(Items) /\ Len(Put(q)) <= IngestMax
         /\ Len(q) - Len(Put(q)) \in Nat
         /\ \E p \in Seq(Items) : q = p \o Put(q)
<1>0. IngestMax \in Nat /\ Len(q) \in Nat
  BY IngestAssumption
<1>1. CASE Len(q) > IngestMax
  <2> DEFINE k == Len(q) - IngestMax
             p == SubSeq(q, 1, k)
             t == From(q, k + 1)
  <2>1. k \in 1..Len(q) /\ k + 1 \in 1..(Len(q) + 1) /\ Len(q) + 1 - (k + 1) = IngestMax
    BY <1>0, <1>1
  <2>2. Put(q) = t
    BY <1>1 DEF Put
  <2> HIDE DEF k
  <2>3. t \in Seq(Items) /\ Len(t) = IngestMax
    BY <2>1, FromIs
  <2>4. p \in Seq(Items) /\ q = p \o t
    BY <2>1 DEF From
  <2> HIDE DEF t, p
  <2>5. IngestMax <= IngestMax /\ Len(q) - IngestMax \in Nat
    BY <1>0, <1>1
  <2> QED
    BY <2>2, <2>3, <2>4, <2>5
<1>2. CASE ~(Len(q) > IngestMax)
  <2>1. Put(q) = q
    BY <1>2 DEF Put
  <2>2. q = <<>> \o q /\ <<>> \in Seq(Items)
    OBVIOUS
  <2>3. Len(q) <= IngestMax /\ Len(q) - Len(q) \in Nat
    BY <1>0, <1>2
  <2>4. \E p \in Seq(Items) : q = p \o q
    BY <2>2
  <2> QED
    BY <2>1, <2>3, <2>4, Zenon
<1> QED
  BY <1>1, <1>2

LEMMA ReconnectsType ==
  ASSUME NEW frames \in Seq(Frames), handshaken \in BOOLEAN
  PROVE  Reconnects(frames) \in Nat
<1> DEFINE n == Cardinality(Handshakes(frames))
<1>1. IsFiniteSet(Handshakes(frames))
  <2>1. Handshakes(frames) \subseteq 1..Len(frames) /\ Len(frames) \in Nat
    BY DEF Handshakes
  <2>2. IsFiniteSet(1..Len(frames))
    BY <2>1, FS_Interval
  <2> QED
    BY <2>1, <2>2, FS_Subset
<1>2. n \in Nat
  BY <1>1, FS_CardinalityType
<1> HIDE DEF n
<1>3. Reconnects(frames) = IF n > 0 /\ ~handshaken THEN n - 1 ELSE n
  BY Zenon DEF Reconnects, n
<1> QED
  BY <1>2, <1>3

-----------------------------------------------------------------------------
(* The inductive invariant.                                                *)

All == Conns \cup {Other}

LinkOK == LinkInv /\ connects <= MaxConnects

BytesOK ==
  /\ wire \in [All -> Seq(Nat)] /\ buf \in [All -> Seq(Nat)] /\ got \in [All -> Seq(Nat)]
  /\ whole \in [All -> Seq(Frames)]

(* Nothing is left of a connection that is closed or was never made.       *)
OpenOK ==
  /\ open \subseteq All
  /\ \A c \in Conns : c > connects => c \notin open
  /\ \A c \in All : c \notin open =>
       wire[c] = <<>> /\ buf[c] = <<>> /\ got[c] = <<>> /\ whole[c] = <<>>

(* The decoder is where the whole stream would have brought it, and the    *)
(* replayer's terminal writes whole frames.                                *)
CutOK ==
  /\ \A c \in All : Cut[got[c]] = [frames |-> whole[c], buf |-> buf[c]]
  /\ \A c \in Conns : Cut[buf[c] \o wire[c]].buf = <<>>

StatsType == [connections : Nat, reconnects : Nat, dropped : Nat]

ServerOK ==
  /\ ingest \in Seq(Items)
  /\ stats \in StatsType /\ stats.connections = Cardinality(open)
  /\ handshaken \in BOOLEAN
  /\ last \in [Conns -> Nat]

IngestInv == LinkOK /\ BytesOK /\ OpenOK /\ CutOK /\ ServerOK /\ FramesAccounted

LEMMA ConnsAre ==
  ASSUME LinkOK
  PROVE  /\ Other \notin Conns /\ Conns \subseteq Nat /\ connects \in Nat /\ MaxConnects \in Nat
         /\ phase \in {"hello", "pump", "drain"} => Current \in Conns
         /\ connects < MaxConnects => connects + 1 \in Conns
<1>1. connects \in Nat /\ connects <= MaxConnects /\ MaxConnects \in Nat
  BY LinkAssumption DEF LinkOK, LinkInv, LinkTypeOK
<1>2. ASSUME phase \in {"hello", "pump", "drain"} PROVE connects >= 1
  <2>1. reconnects \in Nat /\ Ended + 1 = connects
    BY <1>2 DEF LinkOK, LinkInv, LinkTypeOK, RowsAccounted
  <2>2. Ended \in Nat
    BY <2>1 DEF Ended
  <2> QED
    BY <2>1, <2>2
<1> QED
  BY <1>1, <1>2 DEF Conns, Other, Current

(* Reading a chunk: the bytes that come, those that stay, what the decoder *)
(* makes of them and the items put into the queue.                         *)
LEMMA ReadIs ==
  ASSUME BytesOK, ServerOK, NEW c \in All, Read(c)
  PROVE  \E d \in Seq(Nat), r \in Seq(Nat), fed \in Streamed, new \in Seq(Items) :
           /\ c \in open /\ d \o r = wire[c] /\ fed = Cut[buf[c] \o d]
           /\ Queued(c, new) = RowsOf[fed.frames]
           /\ \A e : e # c => Queued(e, new) = <<>>
           /\ wire' = [wire EXCEPT ![c] = r]
           /\ got' = [got EXCEPT ![c] = got[c] \o d]
           /\ buf' = [buf EXCEPT ![c] = fed.buf]
           /\ whole' = [whole EXCEPT ![c] = whole[c] \o fed.frames]
           /\ ingest \o new \in Seq(Items)
           /\ ingest' = Put(ingest \o new)
           /\ owed' = owed + Len(new)
           /\ stats' \in StatsType /\ stats'.connections = stats.connections
           /\ stats'.dropped = stats.dropped + Len(ingest \o new) - Len(ingest')
           /\ handshaken' \in BOOLEAN
           /\ UNCHANGED <<link, open, last>>
<1>1. PICK n \in 1..Len(wire[c]) :
        /\ wire' = [wire EXCEPT ![c] = From(wire[c], n + 1)]
        /\ got' = [got EXCEPT ![c] = got[c] \o SubSeq(wire[c], 1, n)]
        /\ \E fed \in {Feed(buf[c], SubSeq(wire[c], 1, n))} :
             /\ buf' = [buf EXCEPT ![c] = fed.buf]
             /\ whole' = [whole EXCEPT ![c] = whole[c] \o fed.frames]
             /\ StoreFrames(c, fed.frames)
  BY Zenon DEF Read
<1> DEFINE d == SubSeq(wire[c], 1, n)
           r == From(wire[c], n + 1)
           fed == Cut[buf[c] \o d]
           rows == RowsOf[fed.frames]
           new == Tagged(c, rows)
           all == ingest \o new
<1>2. wire[c] \in Seq(Nat) /\ buf[c] \in Seq(Nat) /\ ingest \in Seq(Items)
  BY DEF BytesOK, ServerOK
<1>3. d \in Seq(Nat) /\ r \in Seq(Nat) /\ d \o r = wire[c]
  <2> DEFINE w == wire[c]
  <2>1. w \in Seq(Nat) /\ n \in 0..Len(w)
    BY <1>2
  <2> HIDE DEF w
  <2>2. /\ SubSeq(w, 1, n) \in Seq(Nat) /\ From(w, n + 1) \in Seq(Nat)
        /\ SubSeq(w, 1, n) \o From(w, n + 1) = w
    BY <2>1, SplitAt
  <2> QED
    BY <2>2 DEF w
<1>4. /\ buf' = [buf EXCEPT ![c] = fed.buf]
      /\ whole' = [whole EXCEPT ![c] = whole[c] \o fed.frames]
      /\ StoreFrames(c, fed.frames)
  BY <1>1, Zenon DEF Feed
<1>11. wire' = [wire EXCEPT ![c] = r] /\ got' = [got EXCEPT ![c] = got[c] \o d]
  BY <1>1
<1> HIDE DEF d, r
<1>5. fed \in Streamed
  <2>1. buf[c] \o d \in Seq(Nat)
    BY <1>2, <1>3
  <2> HIDE DEF d
  <2> QED
    BY <2>1, CutIs
<1>6. fed.frames \in Seq(Frames)
  BY <1>5 DEF Streamed
<1> HIDE DEF fed
<1>7. rows \in Seq(Nat)
  BY <1>6, RowsOfConcat
<1> DEFINE rec == stats.reconnects + (IF c = Other THEN 0 ELSE Reconnects(fed.frames))
           drop == stats.dropped + Len(all) - Len(Put(all))
<1>8. /\ ingest' = Put(all) /\ owed' = owed + Len(rows)
      /\ stats' = [stats EXCEPT !.reconnects = rec, !.dropped = drop]
      /\ handshaken' = (handshaken \/ (c # Other /\ Handshakes(fed.frames) # {}))
  <2>1. PICK s \in {RowsOf[fed.frames]} :
        \E a \in {ingest \o [i \in DOMAIN s |-> [conn |-> c, row |-> s[i]]]} :
          /\ ingest' = Put(a)
          /\ owed' = owed + Len(s)
          /\ stats' = [stats EXCEPT
               !.reconnects = stats.reconnects + (IF c = Other THEN 0 ELSE Reconnects(fed.frames)),
               !.dropped = stats.dropped + Len(a) - Len(Put(a))]
          /\ handshaken' = (handshaken \/ (c # Other /\ Handshakes(fed.frames) # {}))
    BY <1>4, Zenon DEF StoreFrames
  <2> QED
    BY <2>1, Zenon DEF Tagged
<1>9. /\ new \in Seq(Items) /\ Len(new) = Len(rows) /\ Queued(c, new) = rows
      /\ \A e : e # c => Queued(e, new) = <<>>
  <2> HIDE DEF rows
  <2> QED
    BY <1>7, TaggedIs DEF All
<1> HIDE DEF new
<1>10. all \in Seq(Items)
  BY <1>2, <1>9
<1> HIDE DEF all
<1>12. handshaken' \in BOOLEAN
  BY <1>8, Zenon
<1>13. rec \in Nat
  <2>1. handshaken \in BOOLEAN /\ stats.reconnects \in Nat
    BY DEF ServerOK, StatsType
  <2>2. Reconnects(fed.frames) \in Nat
    BY <1>6, <2>1, ReconnectsType
  <2> QED
    BY <2>1, <2>2
<1>14. drop \in Nat
  <2>3. Len(all) - Len(Put(all)) \in Nat /\ Put(all) \in Seq(Items)
    BY <1>10, PutIs
  <2>1. Len(all) - Len(Put(all)) \in Nat /\ Len(all) \in Nat /\ Len(Put(all)) \in Nat
    BY <1>10, <2>3
  <2>2. stats.dropped \in Nat
    BY DEF ServerOK, StatsType
  <2> QED
    BY <2>1, <2>2
<1>15. stats' \in StatsType /\ stats'.connections = stats.connections /\ stats'.dropped = drop
  <2> HIDE DEF rec, drop
  <2>1. stats \in StatsType
    BY DEF ServerOK
  <2> QED
    BY <1>8, <1>13, <1>14, <2>1 DEF StatsType
<1>16. UNCHANGED <<link, open, last>> /\ c \in open
  BY DEF Read
<1> HIDE DEF rows
<1> QED
  <2>1. /\ c \in open /\ d \o r = wire[c] /\ fed = Cut[buf[c] \o d]
        /\ Queued(c, new) = RowsOf[fed.frames]
        /\ \A e : e # c => Queued(e, new) = <<>>
    BY <1>3, <1>9, <1>16 DEF rows, fed
  <2>2. /\ wire' = [wire EXCEPT ![c] = r]
        /\ got' = [got EXCEPT ![c] = got[c] \o d]
        /\ buf' = [buf EXCEPT ![c] = fed.buf]
        /\ whole' = [whole EXCEPT ![c] = whole[c] \o fed.frames]
    BY <1>4, <1>11
  <2>3. /\ ingest \o new \in Seq(Items)
        /\ ingest' = Put(ingest \o new)
        /\ owed' = owed + Len(new)
        /\ stats' \in StatsType /\ stats'.connections = stats.connections
        /\ stats'.dropped = stats.dropped + Len(ingest \o new) - Len(ingest')
        /\ handshaken' \in BOOLEAN
    BY <1>8, <1>9, <1>10, <1>12, <1>15, Zenon DEF all
  <2> QED
    BY <1>3, <1>5, <1>9, <1>16, <2>1, <2>2, <2>3, Zenon

-----------------------------------------------------------------------------
(* The invariant holds at first, and every action keeps it.                *)

LEMMA ExceptType ==
  ASSUME NEW D, NEW V, NEW f \in [D -> V], NEW c \in D, NEW v \in V
  PROVE  /\ [f EXCEPT ![c] = v] \in [D -> V] /\ [f EXCEPT ![c] = v][c] = v
         /\ \A d \in D : d # c => [f EXCEPT ![c] = v][d] = f[d]
  OBVIOUS

LEMMA IngestInit == Init => IngestInv
<1> SUFFICES ASSUME Init PROVE IngestInv
  OBVIOUS
<1>1. LinkOK
  <2>1. LinkInit /\ connects = 0
    BY DEF Init, LinkInit
  <2>2. connects <= MaxConnects
    BY <2>1, LinkAssumption
  <2> QED
    BY <2>1, <2>2, LinkInvInit DEF LinkOK
<1>2. PICK f \in Foreign : wire = [NoBytes EXCEPT ![Other] = f]
  BY DEF Init
<1>3. f \in Seq(Nat)
  BY IngestAssumption
<1>4. NoBytes \in [All -> Seq(Nat)] /\ NoBytes \in [All -> Seq(Frames)] /\ Other \in All
      /\ \A c \in All : NoBytes[c] = <<>>
  BY DEF NoBytes, All
<1>5. buf = NoBytes /\ got = NoBytes /\ whole = NoBytes /\ open = {Other}
  BY DEF Init
<1>6. wire \in [All -> Seq(Nat)] /\ \A c \in All : c # Other => wire[c] = <<>>
  BY <1>2, <1>3, <1>4
<1>7. BytesOK
  BY <1>4, <1>5, <1>6 DEF BytesOK
<1>8. Other \notin Conns /\ Conns \subseteq All
  BY <1>1, ConnsAre DEF All
<1>9. OpenOK
  BY <1>4, <1>5, <1>6, <1>8 DEF OpenOK
<1>10. CutOK
  <2>1. Keep(<<>>) = [frames |-> <<>>, buf |-> <<>>]
    BY DEF Keep
  <2>2. \A c \in All : Cut[got[c]] = [frames |-> whole[c], buf |-> buf[c]]
    BY <1>4, <1>5, <2>1, CutEmpty
  <2>3. \A c \in Conns : buf[c] = <<>> /\ wire[c] = <<>>
    BY <1>4, <1>5, <1>6, <1>8
  <2>4. <<>> \o <<>> = <<>> /\ Cut[<<>>].buf = <<>>
    BY <2>1, CutEmpty
  <2> QED
    BY <2>2, <2>3, <2>4 DEF CutOK
<1>11. ServerOK /\ FramesAccounted
  <2>1. /\ stats.connections = 1 /\ stats.reconnects = 0 /\ stats.dropped = 0
        /\ stats = [connections |-> 1, reconnects |-> 0, dropped |-> 0]
    BY DEF Init, NoStats
  <2>2. Cardinality(open) = 1
    BY <1>5, FS_Singleton
  <2>3. stats \in StatsType
    BY <2>1 DEF StatsType
  <2>4. ingest = <<>> /\ Len(ingest) = 0 /\ owed = 0 /\ handshaken \in BOOLEAN
    BY DEF Init
  <2>5. last \in [Conns -> Nat]
    BY DEF Init
  <2>6. ServerOK
    BY <2>1, <2>2, <2>3, <2>4, <2>5 DEF ServerOK
  <2>7. FramesAccounted
    BY <2>1, <2>4, IngestAssumption DEF FramesAccounted
  <2> QED
    BY <2>6, <2>7
<1> QED
  BY <1>1, <1>7, <1>9, <1>10, <1>11 DEF IngestInv

LEMMA LinkKept ==
  ASSUME LinkOK, [Next]_vars
  PROVE  LinkOK'
<1>1. connects \in Nat /\ MaxConnects \in Nat /\ connects <= MaxConnects
  BY LinkAssumption DEF LinkOK, LinkInv, LinkTypeOK
<1>2. [LinkNext]_link /\ (connects' = connects \/ (connects' = connects + 1 /\ connects < MaxConnects))
  <2>1. CASE LinkConnects
    BY <2>1 DEF LinkConnects, LinkNext, Connect
  <2>2. CASE LinkWrites
    <3>1. TakeRow
      BY <2>2 DEF LinkWrites
    <3>2. connects' = connects
      BY <3>1 DEF TakeRow, counters
    <3>3. LinkNext
      BY <3>1 DEF LinkNext
    <3> QED
      BY <3>2, <3>3
  <2>3. CASE DrainEnds
    <3>1. Drained \/ DrainFails
      BY <2>3 DEF DrainEnds
    <3>2. connects' = connects
      BY <3>1 DEF Drained, DrainFails, LeaveServe
    <3>3. LinkNext
      BY <3>1 DEF LinkNext
    <3> QED
      BY <3>2, <3>3
  <2>4. CASE LinkSteps
    <3>1. Send \/ Ready \/ Closed \/ HelloFails \/ EncodeFails \/ PeerClosed
      BY <2>4, Zenon DEF LinkSteps
    <3>2. connects' = connects
      BY <3>1 DEF Send, Ready, Closed, HelloFails, EncodeFails, PeerClosed, LeaveServe, counters
    <3>3. LinkNext
      BY <3>1 DEF LinkNext
    <3> QED
      BY <3>2, <3>3
  <2>5. ASSUME NEW c \in open, Read(c) \/ HandlerEnds(c)
        PROVE  UNCHANGED link
    BY <2>5, Zenon DEF Read, HandlerEnds
  <2>6. ASSUME WorkerTakes \/ QueueCleared \/ UNCHANGED vars
        PROVE  UNCHANGED link
    BY <2>6, Zenon DEF WorkerTakes, QueueCleared, vars
  <2>7. UNCHANGED link => connects' = connects
    BY DEF link, counters
  <2>8. UNCHANGED link => [LinkNext]_link
    OBVIOUS
  <2> QED
    BY <2>1, <2>2, <2>3, <2>4, <2>5, <2>6, <2>7, <2>8 DEF Next
<1>3. LinkInv'
  BY <1>2, LinkInvStep DEF LinkOK
<1> QED
  BY <1>1, <1>2, <1>3 DEF LinkOK

LEMMA KeptByConnect ==
  ASSUME IngestInv, LinkConnects
  PROVE  BytesOK' /\ OpenOK' /\ CutOK' /\ ServerOK' /\ FramesAccounted'
<1> DEFINE k == connects + 1
<1>1. /\ connects < MaxConnects /\ connects' = k
      /\ wire' = [wire EXCEPT ![k] = EncodeHandshake] /\ open' = open \cup {k}
      /\ stats' = [stats EXCEPT !.connections = stats.connections + 1]
      /\ buf' = buf /\ got' = got /\ whole' = whole /\ ingest' = ingest
      /\ handshaken' = handshaken /\ owed' = owed /\ last' = last
  BY DEF LinkConnects, Connect
<1>2. /\ k \in Conns /\ Conns \subseteq Nat /\ Conns \subseteq All /\ k \in All
      /\ connects \in Nat /\ Other \notin Conns
  BY <1>1, ConnsAre DEF IngestInv, All
<1>3. k > connects /\ \A c \in Conns : c > k => c > connects /\ c # k
  BY <1>2
<1> HIDE DEF k
<1>4. k \notin open /\ wire[k] = <<>> /\ buf[k] = <<>> /\ got[k] = <<>> /\ whole[k] = <<>>
  BY <1>2, <1>3 DEF IngestInv, OpenOK
<1>5. /\ EncodeHandshake \in Seq(Nat) /\ Cut[EncodeHandshake].buf = <<>>
      /\ <<>> \o EncodeHandshake = EncodeHandshake
  BY HandshakeCut
<1>6. wire' \in [All -> Seq(Nat)] /\ wire'[k] = EncodeHandshake
      /\ \A c \in All : c # k => wire'[c] = wire[c]
  BY <1>1, <1>2, <1>5, ExceptType DEF IngestInv, BytesOK
<1>7. BytesOK'
  BY <1>1, <1>6 DEF IngestInv, BytesOK
<1>8. OpenOK'
  <2>1. open' \subseteq All
    BY <1>1, <1>2 DEF IngestInv, OpenOK
  <2>2. \A c \in Conns : c > k => c \notin open'
    BY <1>1, <1>3 DEF IngestInv, OpenOK
  <2>3. \A c \in All : c \notin open' =>
          wire'[c] = <<>> /\ buf[c] = <<>> /\ got[c] = <<>> /\ whole[c] = <<>>
    BY <1>1, <1>6 DEF IngestInv, OpenOK
  <2> QED
    BY <1>1, <2>1, <2>2, <2>3 DEF OpenOK
<1>9. CutOK'
  <2>1. \A c \in Conns : Cut[buf[c] \o wire'[c]].buf = <<>>
    BY <1>2, <1>4, <1>5, <1>6 DEF IngestInv, CutOK
  <2> QED
    BY <1>1, <2>1 DEF IngestInv, CutOK
<1>10. ServerOK'
  <2>1. IsFiniteSet(open)
    <3>1. IsFiniteSet(All)
      <4>1. MaxConnects \in Nat
        BY LinkAssumption
      <4>2. IsFiniteSet(1..MaxConnects)
        BY <4>1, FS_Interval
      <4> QED
        BY <4>2, FS_AddElement DEF All, Conns
    <3> QED
      BY <3>1, FS_Subset DEF IngestInv, OpenOK
  <2>2. Cardinality(open') = Cardinality(open) + 1
    BY <1>1, <1>4, <2>1, FS_AddElement
  <2>3. stats \in StatsType /\ stats.connections = Cardinality(open)
    BY DEF IngestInv, ServerOK
  <2>4. stats' \in StatsType /\ stats'.connections = stats.connections + 1
    BY <1>1, <2>3 DEF StatsType
  <2> QED
    BY <1>1, <2>2, <2>3, <2>4 DEF IngestInv, ServerOK
<1>11. FramesAccounted'
  <2>1. stats'.dropped = stats.dropped
    BY <1>1 DEF IngestInv, ServerOK, StatsType
  <2> QED
    BY <1>1, <2>1 DEF IngestInv, FramesAccounted
<1> QED
  BY <1>7, <1>8, <1>9, <1>10, <1>11

LEMMA KeptByWrite ==
  ASSUME IngestInv, LinkWrites
  PROVE  BytesOK' /\ OpenOK' /\ CutOK' /\ ServerOK' /\ FramesAccounted'
<1> DEFINE k == Current
           f == EncodeRealtime(Head(queue), <<>>)
<1>1. /\ phase = "pump" /\ queue # <<>> /\ connects' = connects
      /\ wire' = IF k \in open THEN [wire EXCEPT ![k] = wire[k] \o f] ELSE wire
      /\ open' = open /\ buf' = buf /\ got' = got /\ whole' = whole /\ last' = last
      /\ ingest' = ingest /\ stats' = stats /\ handshaken' = handshaken /\ owed' = owed
  BY DEF LinkWrites, TakeRow, Write, counters, server
<1>2. k \in Conns /\ k \in All /\ Conns \subseteq All
  BY <1>1, ConnsAre DEF IngestInv, All
<1>3. Head(queue) \in Nat
  BY <1>1 DEF IngestInv, LinkOK, LinkInv, LinkTypeOK
<1>4. f \in Seq(Nat) /\ Cut[f].buf = <<>>
  BY <1>3, RealtimeCut
<1> HIDE DEF k, f
<1>5. wire[k] \in Seq(Nat) /\ buf[k] \in Seq(Nat)
  BY <1>2 DEF IngestInv, BytesOK
<1>6. wire[k] \o f \in Seq(Nat)
  BY <1>4, <1>5
<1>7. /\ wire' \in [All -> Seq(Nat)]
      /\ \A c \in All : c # k \/ k \notin open => wire'[c] = wire[c]
      /\ k \in open => wire'[k] = wire[k] \o f
  <2>1. wire \in [All -> Seq(Nat)]
    BY DEF IngestInv, BytesOK
  <2>2. CASE k \in open
    <3>1. wire' = [wire EXCEPT ![k] = wire[k] \o f]
      BY <1>1, <2>2
    <3> QED
      BY <1>2, <1>6, <2>1, <2>2, <3>1, ExceptType
  <2>3. CASE k \notin open
    BY <1>1, <2>1, <2>3
  <2> QED
    BY <2>2, <2>3
<1>8. BytesOK'
  BY <1>1, <1>7 DEF IngestInv, BytesOK
<1>9. OpenOK'
  <2>1. \A c \in All : c \notin open => wire'[c] = wire[c]
    BY <1>7
  <2> QED
    BY <1>1, <2>1 DEF IngestInv, OpenOK
<1>10. CutOK'
  <2>1. ASSUME k \in open PROVE Cut[buf[k] \o wire'[k]].buf = <<>>
    <3> DEFINE x == buf[k] \o wire[k]
    <3>1. x \in Seq(Nat) /\ buf[k] \o (wire[k] \o f) = x \o f
      <4> DEFINE a == buf[k]
                 b == wire[k]
      <4>1. a \in Seq(Nat) /\ b \in Seq(Nat)
        BY <1>5
      <4> HIDE DEF a, b
      <4>2. (a \o b) \o f = a \o (b \o f)
        BY SMTT(30), <1>4, <4>1, ConcatAssociative
      <4>3. a \o b \in Seq(Nat)
        BY <4>1
      <4> QED
        BY <4>2, <4>3 DEF a, b
    <3>2. Cut[x].buf = <<>>
      BY <1>2 DEF IngestInv, CutOK
    <3> HIDE DEF x
    <3>3. Cut[x \o f] = Before(Cut[x].frames, Cut[Cut[x].buf \o f])
      BY <1>4, <3>1, CutConcat
    <3>4. <<>> \o f = f
      BY <1>4
    <3>5. Cut[x \o f].buf = <<>>
      BY <1>4, <3>2, <3>3, <3>4 DEF Before
    <3> QED
      BY <1>7, <2>1, <3>1, <3>5
  <2>2. \A c \in Conns : Cut[buf[c] \o wire'[c]].buf = <<>>
    BY <1>2, <1>7, <2>1 DEF IngestInv, CutOK
  <2> QED
    BY <1>1, <2>2 DEF IngestInv, CutOK
<1>11. ServerOK' /\ FramesAccounted'
  BY <1>1 DEF IngestInv, ServerOK, FramesAccounted
<1> QED
  BY <1>8, <1>9, <1>10, <1>11

LEMMA KeptByRead ==
  ASSUME IngestInv, NEW c \in open, Read(c)
  PROVE  BytesOK' /\ OpenOK' /\ CutOK' /\ ServerOK' /\ FramesAccounted'
<1>0. c \in All /\ BytesOK /\ ServerOK
  BY DEF IngestInv, OpenOK
<1>1. PICK d \in Seq(Nat), r \in Seq(Nat), fed \in Streamed, new \in Seq(Items) :
        /\ c \in open /\ d \o r = wire[c] /\ fed = Cut[buf[c] \o d]
        /\ Queued(c, new) = RowsOf[fed.frames]
        /\ \A e : e # c => Queued(e, new) = <<>>
        /\ wire' = [wire EXCEPT ![c] = r]
        /\ got' = [got EXCEPT ![c] = got[c] \o d]
        /\ buf' = [buf EXCEPT ![c] = fed.buf]
        /\ whole' = [whole EXCEPT ![c] = whole[c] \o fed.frames]
        /\ ingest \o new \in Seq(Items)
        /\ ingest' = Put(ingest \o new)
        /\ owed' = owed + Len(new)
        /\ stats' \in StatsType /\ stats'.connections = stats.connections
        /\ stats'.dropped = stats.dropped + Len(ingest \o new) - Len(ingest')
        /\ handshaken' \in BOOLEAN
        /\ UNCHANGED <<link, open, last>>
  BY <1>0, ReadIs
<1>2. /\ wire[c] \in Seq(Nat) /\ buf[c] \in Seq(Nat) /\ got[c] \in Seq(Nat) /\ whole[c] \in Seq(Frames)
      /\ fed.frames \in Seq(Frames) /\ fed.buf \in Seq(Nat)
      /\ wire \in [All -> Seq(Nat)] /\ buf \in [All -> Seq(Nat)] /\ got \in [All -> Seq(Nat)]
      /\ whole \in [All -> Seq(Frames)]
  BY <1>0 DEF BytesOK, Streamed
<1>3. got[c] \o d \in Seq(Nat) /\ whole[c] \o fed.frames \in Seq(Frames)
  BY <1>2
<1>4. wire' \in [All -> Seq(Nat)] /\ wire'[c] = r /\ \A e \in All : e # c => wire'[e] = wire[e]
  BY <1>0, <1>1, <1>2, ExceptType
<1>5. buf' \in [All -> Seq(Nat)] /\ buf'[c] = fed.buf /\ \A e \in All : e # c => buf'[e] = buf[e]
  BY <1>0, <1>1, <1>2, ExceptType
<1>6. got' \in [All -> Seq(Nat)] /\ got'[c] = got[c] \o d /\ \A e \in All : e # c => got'[e] = got[e]
  BY <1>0, <1>1, <1>2, <1>3, ExceptType
<1>7. /\ whole' \in [All -> Seq(Frames)] /\ whole'[c] = whole[c] \o fed.frames
      /\ \A e \in All : e # c => whole'[e] = whole[e]
  BY <1>0, <1>1, <1>2, <1>3, ExceptType
<1>8. open' = open /\ last' = last /\ connects' = connects
  BY <1>1 DEF link, counters
<1>9. BytesOK'
  BY <1>4, <1>5, <1>6, <1>7 DEF BytesOK
<1>10. OpenOK'
  <2>1. \A e \in All : e \notin open => e # c
    OBVIOUS
  <2> QED
    BY <1>4, <1>5, <1>6, <1>7, <1>8, <2>1 DEF IngestInv, OpenOK
<1>11. CutOK'
  <2>1. Cut[got'[c]] = [frames |-> whole'[c], buf |-> buf'[c]]
    <3>1. Cut[got[c]] = [frames |-> whole[c], buf |-> buf[c]]
      BY <1>0 DEF IngestInv, CutOK
    <3> DEFINE x == got[c]
    <3>2. x \in Seq(Nat) /\ Cut[x].frames = whole[c] /\ Cut[x].buf = buf[c]
      BY <1>2, <3>1
    <3> HIDE DEF x
    <3>3. Cut[x \o d] = Before(Cut[x].frames, Cut[Cut[x].buf \o d])
      BY <3>2, CutConcat
    <3>4. Cut[x \o d] = Before(whole[c], fed)
      BY <1>1, <3>2, <3>3
    <3>5. Before(whole[c], fed) = [frames |-> whole[c] \o fed.frames, buf |-> fed.buf]
      BY DEF Before
    <3> QED
      BY <1>5, <1>6, <1>7, <3>4, <3>5 DEF x
  <2>2. c \in Conns => Cut[buf'[c] \o wire'[c]].buf = <<>>
    <3>1. SUFFICES ASSUME c \in Conns PROVE Cut[fed.buf \o r].buf = <<>>
      BY <1>4, <1>5
    <3>2. Cut[buf[c] \o wire[c]].buf = <<>>
      BY <3>1 DEF IngestInv, CutOK
    <3> DEFINE b == buf[c]
               x == b \o d
    <3>3. b \in Seq(Nat) /\ x \in Seq(Nat)
      BY <1>2
    <3> HIDE DEF b
    <3>4. b \o (d \o r) = x \o r
      <4>1. (b \o d) \o r = b \o (d \o r)
        BY SMTT(30), <3>3, ConcatAssociative
      <4> QED
        BY <4>1
    <3>6. fed = Cut[x] /\ Cut[b \o (d \o r)].buf = <<>>
      BY <1>1, <3>2 DEF b
    <3> HIDE DEF x
    <3>5. Cut[x \o r] = Before(Cut[x].frames, Cut[Cut[x].buf \o r])
      BY <3>3, CutConcat
    <3> QED
      BY <3>4, <3>5, <3>6 DEF Before
  <2>3. \A e \in All : Cut[got'[e]] = [frames |-> whole'[e], buf |-> buf'[e]]
    BY <1>5, <1>6, <1>7, <2>1 DEF IngestInv, CutOK
  <2>4. \A e \in Conns : Cut[buf'[e] \o wire'[e]].buf = <<>>
    <3>1. \A e \in Conns : e \in All
      BY DEF All
    <3> QED
      BY <1>4, <1>5, <2>2, <3>1 DEF IngestInv, CutOK
  <2> QED
    BY <2>3, <2>4 DEF CutOK
<1>12. ingest' \in Seq(Items) /\ Len(ingest') <= IngestMax
  BY <1>1, PutIs
<1>13. ServerOK'
  BY <1>0, <1>1, <1>8, <1>12 DEF ServerOK
<1>14. FramesAccounted'
  <2>1. Len(ingest \o new) = Len(ingest) + Len(new)
    BY <1>0 DEF ServerOK
  <2>2. stats.dropped \in Nat /\ Len(ingest) \in Nat /\ Len(new) \in Nat /\ Len(ingest') \in Nat
    BY <1>0, <1>12 DEF ServerOK, StatsType
  <2>3. owed = stats.dropped + Len(ingest)
    BY DEF IngestInv, FramesAccounted
  <2>4. owed' = stats'.dropped + Len(ingest')
    BY <1>1, <2>1, <2>2, <2>3
  <2> QED
    BY <1>12, <2>4 DEF FramesAccounted
<1> QED
  BY <1>9, <1>10, <1>11, <1>13, <1>14

LEMMA OpenFinite ==
  ASSUME OpenOK
  PROVE  IsFiniteSet(open) /\ Cardinality(open) <= MaxConnects + 1 /\ Cardinality(open) \in Nat
<1>1. MaxConnects \in Nat
  BY LinkAssumption
<1>2. IsFiniteSet(Conns) /\ Cardinality(Conns) = MaxConnects
  <2>1. IsFiniteSet(1..MaxConnects)
    BY <1>1, FS_Interval
  <2>2. Cardinality(1..MaxConnects) = MaxConnects
    BY <1>1, FS_Interval
  <2> QED
    BY <2>1, <2>2 DEF Conns
<1>3. Other \notin Conns
  BY <1>1 DEF Other, Conns
<1>4. IsFiniteSet(All) /\ Cardinality(All) = MaxConnects + 1
  BY <1>2, <1>3, FS_AddElement DEF All
<1>5. IsFiniteSet(open) /\ Cardinality(open) <= Cardinality(All)
  BY <1>4, FS_Subset DEF OpenOK
<1> QED
  BY <1>4, <1>5, FS_CardinalityType

LEMMA KeptByEnd ==
  ASSUME IngestInv, NEW c \in open, HandlerEnds(c)
  PROVE  BytesOK' /\ OpenOK' /\ CutOK' /\ ServerOK' /\ FramesAccounted'
<1>0. c \in All /\ BytesOK /\ OpenOK /\ ServerOK
  BY DEF IngestInv, OpenOK
<1>1. /\ wire' = [wire EXCEPT ![c] = <<>>] /\ buf' = [buf EXCEPT ![c] = <<>>]
      /\ got' = [got EXCEPT ![c] = <<>>] /\ whole' = [whole EXCEPT ![c] = <<>>]
      /\ open' = open \ {c} /\ connects' = connects
      /\ stats' = [stats EXCEPT !.connections = stats.connections - 1]
      /\ ingest' = ingest /\ handshaken' = handshaken /\ owed' = owed /\ last' = last
  BY DEF HandlerEnds, link, counters
<1>2. <<>> \in Seq(Nat) /\ <<>> \in Seq(Frames)
  OBVIOUS
<1>3. /\ wire \in [All -> Seq(Nat)] /\ buf \in [All -> Seq(Nat)] /\ got \in [All -> Seq(Nat)]
      /\ whole \in [All -> Seq(Frames)]
  BY <1>0 DEF BytesOK
<1>4. wire' \in [All -> Seq(Nat)] /\ wire'[c] = <<>> /\ \A e \in All : e # c => wire'[e] = wire[e]
  BY <1>0, <1>1, <1>2, <1>3, ExceptType
<1>5. buf' \in [All -> Seq(Nat)] /\ buf'[c] = <<>> /\ \A e \in All : e # c => buf'[e] = buf[e]
  BY <1>0, <1>1, <1>2, <1>3, ExceptType
<1>6. got' \in [All -> Seq(Nat)] /\ got'[c] = <<>> /\ \A e \in All : e # c => got'[e] = got[e]
  BY <1>0, <1>1, <1>2, <1>3, ExceptType
<1>7. whole' \in [All -> Seq(Frames)] /\ whole'[c] = <<>> /\ \A e \in All : e # c => whole'[e] = whole[e]
  BY <1>0, <1>1, <1>2, <1>3, ExceptType
<1>8. BytesOK'
  BY <1>4, <1>5, <1>6, <1>7 DEF BytesOK
<1>9. OpenOK'
  <2>1. \A e \in All : e \notin open' => e = c \/ e \notin open
    BY <1>1
  <2>2. \A e \in All : e \notin open' =>
          wire'[e] = <<>> /\ buf'[e] = <<>> /\ got'[e] = <<>> /\ whole'[e] = <<>>
    BY <1>0, <1>4, <1>5, <1>6, <1>7, <2>1 DEF OpenOK
  <2>3. open' \subseteq All /\ \A e \in Conns : e > connects' => e \notin open'
    BY <1>0, <1>1 DEF OpenOK
  <2> QED
    BY <2>2, <2>3 DEF OpenOK
<1>10. CutOK'
  <2>1. <<>> \o <<>> = <<>> /\ Cut[<<>>].buf = <<>> /\ Cut[<<>>] = [frames |-> <<>>, buf |-> <<>>]
    BY CutEmpty DEF Keep
  <2>2. \A e \in All : Cut[got'[e]] = [frames |-> whole'[e], buf |-> buf'[e]]
    BY <1>5, <1>6, <1>7, <2>1 DEF IngestInv, CutOK
  <2>3. \A e \in Conns : e \in All
    BY DEF All
  <2>4. \A e \in Conns : Cut[buf'[e] \o wire'[e]].buf = <<>>
    BY <1>4, <1>5, <2>1, <2>3 DEF IngestInv, CutOK
  <2> QED
    BY <2>2, <2>4 DEF CutOK
<1>11. ServerOK'
  <2>1. IsFiniteSet(open) /\ Cardinality(open) \in Nat
    BY <1>0, OpenFinite
  <2>2. Cardinality(open') = Cardinality(open) - 1
    BY <1>1, <2>1, FS_RemoveElement
  <2>3. IsFiniteSet(open')
    BY <1>1, <2>1, FS_RemoveElement
  <2>4. Cardinality(open') \in Nat
    BY <2>3, FS_CardinalityType
  <2>5. stats \in StatsType /\ stats.connections = Cardinality(open)
    BY <1>0 DEF ServerOK
  <2>6. stats' \in StatsType /\ stats'.connections = Cardinality(open')
    BY <1>1, <2>2, <2>4, <2>5 DEF StatsType
  <2> QED
    BY <1>0, <1>1, <2>6 DEF ServerOK
<1>12. FramesAccounted'
  <2>1. stats'.dropped = stats.dropped
    BY <1>0, <1>1 DEF ServerOK, StatsType
  <2> QED
    BY <1>1, <2>1 DEF IngestInv, FramesAccounted
<1> QED
  BY <1>8, <1>9, <1>10, <1>11, <1>12

LEMMA KeptByWorker ==
  ASSUME IngestInv, WorkerTakes \/ QueueCleared
  PROVE  ServerOK' /\ FramesAccounted'
<1>1. /\ ingest \in Seq(Items) /\ stats \in StatsType /\ stats.connections = Cardinality(open)
      /\ handshaken \in BOOLEAN /\ last \in [Conns -> Nat]
      /\ owed = stats.dropped + Len(ingest) /\ Len(ingest) <= IngestMax
  BY DEF IngestInv, ServerOK, FramesAccounted
<1>2. stats' = stats /\ open' = open /\ handshaken' = handshaken
  BY DEF WorkerTakes, QueueCleared, streams
<1>3. stats.dropped \in Nat /\ Len(ingest) \in Nat /\ IngestMax \in Nat
  BY <1>1, IngestAssumption DEF StatsType
<1>4. CASE WorkerTakes
  <2>1. /\ ingest # <<>> /\ ingest' = Tail(ingest) /\ owed' = owed - 1
        /\ last' = [c \in Conns |-> IF c = Head(ingest).conn THEN Head(ingest).row ELSE last[c]]
    BY <1>4 DEF WorkerTakes
  <2>2. ingest' \in Seq(Items) /\ Len(ingest') = Len(ingest) - 1 /\ Head(ingest) \in Items
    BY <1>1, <2>1
  <2>3. last' \in [Conns -> Nat]
    BY <1>1, <2>1, <2>2 DEF Items
  <2>4. FramesAccounted'
    BY <1>1, <1>2, <1>3, <2>1, <2>2 DEF FramesAccounted
  <2> QED
    BY <1>1, <1>2, <2>2, <2>3, <2>4 DEF ServerOK
<1>5. CASE QueueCleared
  <2>1. ingest' = <<>> /\ owed' = owed - Len(ingest) /\ last' = last
    BY <1>5 DEF QueueCleared
  <2>2. ingest' \in Seq(Items) /\ Len(ingest') = 0
    BY <2>1
  <2>3. FramesAccounted'
    BY <1>1, <1>2, <1>3, <2>1, <2>2 DEF FramesAccounted
  <2> QED
    BY <1>1, <1>2, <2>1, <2>2, <2>3 DEF ServerOK
<1> QED
  BY <1>4, <1>5

LEMMA IngestStep == IngestInv /\ [Next]_vars => IngestInv'
<1> SUFFICES ASSUME IngestInv, [Next]_vars PROVE IngestInv'
  OBVIOUS
<1>0. LinkOK'
  BY LinkKept DEF IngestInv
<1>1. CASE LinkConnects
  BY <1>0, <1>1, KeptByConnect DEF IngestInv
<1>2. CASE LinkWrites
  BY <1>0, <1>2, KeptByWrite DEF IngestInv
<1>3. ASSUME UNCHANGED <<streams, server, last>>, connects' = connects PROVE IngestInv'
  <2>1. /\ wire' = wire /\ open' = open /\ buf' = buf /\ got' = got /\ whole' = whole
        /\ ingest' = ingest /\ stats' = stats /\ handshaken' = handshaken /\ owed' = owed
        /\ last' = last
    BY <1>3 DEF streams, server
  <2>2. BytesOK' /\ OpenOK' /\ CutOK'
    BY <1>3, <2>1 DEF IngestInv, BytesOK, OpenOK, CutOK
  <2>3. ServerOK' /\ FramesAccounted'
    BY <2>1 DEF IngestInv, ServerOK, FramesAccounted
  <2> QED
    BY <1>0, <2>2, <2>3 DEF IngestInv
<1>4. CASE DrainEnds
  <2>1. UNCHANGED <<streams, server, last>> /\ (Drained \/ DrainFails)
    BY <1>4, Zenon DEF DrainEnds
  <2>2. connects' = connects
    BY <2>1 DEF Drained, DrainFails, LeaveServe
  <2> QED
    BY <1>3, <2>1, <2>2
<1>5. CASE LinkSteps
  <2>1. /\ UNCHANGED <<streams, server, last>>
        /\ Send \/ Ready \/ Closed \/ HelloFails \/ EncodeFails \/ PeerClosed
    BY <1>5, Zenon DEF LinkSteps
  <2>2. connects' = connects
    BY <2>1 DEF Send, Ready, Closed, HelloFails, EncodeFails, PeerClosed, LeaveServe, counters
  <2> QED
    BY <1>3, <2>1, <2>2
<1>6. ASSUME NEW c \in open, Read(c) \/ HandlerEnds(c) PROVE IngestInv'
  BY <1>0, <1>6, KeptByRead, KeptByEnd DEF IngestInv
<1>7. CASE WorkerTakes \/ QueueCleared
  <2>1. ServerOK' /\ FramesAccounted'
    BY <1>7, KeptByWorker
  <2>2. UNCHANGED <<link, streams>>
    BY <1>7, Zenon DEF WorkerTakes, QueueCleared
  <2>3. BytesOK' /\ OpenOK' /\ CutOK'
    BY <2>2 DEF link, counters, streams, IngestInv, BytesOK, OpenOK, CutOK
  <2> QED
    BY <1>0, <2>1, <2>3 DEF IngestInv
<1>8. CASE UNCHANGED vars
  <2>1. UNCHANGED <<streams, server, last>> /\ connects' = connects
    BY <1>8 DEF vars, link, counters
  <2> QED
    BY <1>3, <2>1
<1> QED
  BY <1>1, <1>2, <1>4, <1>5, <1>6, <1>7, <1>8 DEF Next

-----------------------------------------------------------------------------
(* The way of the rows as a lossy channel.                                 *)

(* What is left of s when a part of it is lost.                            *)
Lost(s, t) == \E a, b, d \in Seq(Nat) : s = (a \o b) \o d /\ t = a \o d

LEMMA LostThinned ==
  ASSUME NEW s \in Seq(Nat), NEW t, Lost(s, t)
  PROVE  t \in Seq(Nat) /\ t \in Channel!Thinned[s]
<1>1. PICK a \in Seq(Nat), b \in Seq(Nat), d \in Seq(Nat) : s = (a \o b) \o d /\ t = a \o d
  BY DEF Lost
<1> DEFINE n == Len(a) + Len(d)
           m == Len(a) + Len(b) + Len(d)
           g == [i \in 1..n |-> IF i <= Len(a) THEN i ELSE i + Len(b)]
<1>2. Len(a) \in Nat /\ Len(b) \in Nat /\ Len(d) \in Nat
  OBVIOUS
<1>3. /\ t \in Seq(Nat) /\ Len(t) = n
      /\ \A i \in 1..n : t[i] = IF i <= Len(a) THEN a[i] ELSE d[i - Len(a)]
  BY <1>1
<1>4. /\ Len(s) = m
      /\ \A i \in 1..m : s[i] = IF i <= Len(a) THEN a[i]
                                ELSE IF i <= Len(a) + Len(b) THEN b[i - Len(a)]
                                ELSE d[i - (Len(a) + Len(b))]
  BY <1>1
<1> DEFINE la == Len(a)
           lb == Len(b)
           ld == Len(d)
<1>5. g \in [1..n -> 1..m] /\ \A i, j \in 1..n : i < j => g[i] < g[j]
  <2>1. la \in Nat /\ lb \in Nat /\ ld \in Nat
    BY <1>2
  <2> HIDE DEF la, lb, ld
  <2> DEFINE k == [i \in 1..(la + ld) |-> IF i <= la THEN i ELSE i + lb]
  <2>2. \A i \in 1..(la + ld) : (IF i <= la THEN i ELSE i + lb) \in 1..(la + lb + ld)
    BY <2>1
  <2>3. k \in [1..(la + ld) -> 1..(la + lb + ld)]
    BY <2>2
  <2>4. \A i, j \in 1..(la + ld) : i < j => k[i] < k[j]
    BY <2>1
  <2> QED
    BY <2>3, <2>4 DEF la, lb, ld
<1>6. g \in Channel!Increasing(n, Len(s))
  BY <1>4, <1>5 DEF Channel!Increasing
<1>7. t = [i \in 1..n |-> s[g[i]]]
  <2>1. \A i \in 1..n : t[i] = s[g[i]]
    <3> SUFFICES ASSUME NEW i \in 1..n PROVE t[i] = s[g[i]]
      OBVIOUS
    <3>1. CASE i <= Len(a)
      <4>1. g[i] = i /\ i \in 1..m
        BY <1>2, <3>1
      <4> QED
        BY <1>3, <1>4, <3>1, <4>1
    <3>2. CASE ~(i <= Len(a))
      <4>1. g[i] = i + Len(b)
        BY <3>2
      <4>2. /\ i + Len(b) \in 1..m /\ ~(i + Len(b) <= Len(a)) /\ ~(i + Len(b) <= Len(a) + Len(b))
            /\ (i + Len(b)) - (Len(a) + Len(b)) = i - Len(a)
        BY <1>2, <3>2
      <4> HIDE DEF g, m, n
      <4> QED
        BY <1>3, <1>4, <3>2, <4>1, <4>2
    <3> QED
      BY <3>1, <3>2
  <2>2. n \in Nat /\ DOMAIN t = 1..n
    BY <1>2, <1>3
  <2> HIDE DEF g, n
  <2>3. t = [i \in 1..n |-> t[i]]
    BY <1>3, <2>2
  <2> QED
    BY <2>1, <2>3
<1>8. n \in 0..Len(s)
  BY <1>2, <1>4
<1> HIDE DEF g, n, m
<1>9. t \in {[i \in 1..n |-> s[f[i]]] : f \in Channel!Increasing(n, Len(s))}
  BY <1>6, <1>7
<1>10. t \in UNION {{[i \in 1..k |-> s[f[i]]] : f \in Channel!Increasing(k, Len(s))} : k \in 0..Len(s)}
  <2> DEFINE U(k) == {[i \in 1..k |-> s[f[i]]] : f \in Channel!Increasing(k, Len(s))}
  <2>1. t \in U(n)
    BY <1>9
  <2> HIDE DEF U
  <2>2. t \in UNION {U(k) : k \in 0..Len(s)}
    BY <1>8, <2>1
  <2> QED
    BY <2>2 DEF U
<1>11. Channel!Thinned[s]
         = UNION {{[i \in 1..k |-> s[f[i]]] : f \in Channel!Increasing(k, Len(s))} : k \in 0..Len(s)}
  BY DEF Channel!Thinned
<1> QED
  BY <1>3, <1>10, <1>11

LEMMA LostSame ==
  ASSUME NEW s \in Seq(Nat)
  PROVE  Lost(s, s)
<1>1. <<>> \in Seq(Nat) /\ (s \o <<>>) \o <<>> = s /\ s \o <<>> = s
  OBVIOUS
<1> QED
  BY <1>1, Zenon DEF Lost

(* What is queued, what is in bytes and what the link still holds.         *)
InBytes(c) == RowsOf[Cut[buf[c] \o wire[c]].frames]
Waiting(c) == IF c = Current THEN queue ELSE <<>>
Way(c) ==
  /\ Queued(c, ingest) \in Seq(Nat) /\ InBytes(c) \in Seq(Nat) /\ Waiting(c) \in Seq(Nat)
  /\ OnWay(c) = (Queued(c, ingest) \o InBytes(c)) \o Waiting(c)
  /\ OnWay(c) \in Seq(Nat)

LEMMA FramesOf ==
  ASSUME NEW s \in Seq(Nat)
  PROVE  Cut[s] \in Streamed /\ Cut[s].frames \in Seq(Frames) /\ RowsOf[Cut[s].frames] \in Seq(Nat)
<1>1. Cut[s] \in Streamed
  BY CutIs
<1>2. Cut[s].frames \in Seq(Frames)
  BY <1>1 DEF Streamed
<1> QED
  BY <1>1, <1>2, RowsOfConcat

LEMMA WayIs == IngestInv => \A c \in Conns : Way(c)
<1> SUFFICES ASSUME IngestInv, NEW c \in Conns PROVE Way(c)
  OBVIOUS
<1> DEFINE b == buf[c]
           w == wire[c]
<1>1. b \in Seq(Nat) /\ w \in Seq(Nat) /\ got[c] \in Seq(Nat) /\ ingest \in Seq(Items)
  BY DEF IngestInv, BytesOK, ServerOK, All
<1>2. Queued(c, ingest) \in Seq(Nat)
  BY <1>1, QueuedConcat
<1>3. b \o w \in Seq(Nat)
  BY <1>1
<1>4. InBytes(c) \in Seq(Nat)
  BY <1>3, FramesOf DEF InBytes
<1>5. queue \in Seq(Nat)
  BY DEF IngestInv, LinkOK, LinkInv, LinkTypeOK
<1>6. Waiting(c) \in Seq(Nat)
  BY <1>5 DEF Waiting
<1>7. Cut[b] = Keep(b)
  <2>1. Cut[got[c]].buf = b
    <3>1. c \in All
      BY DEF All
    <3>2. Cut[got[c]] = [frames |-> whole[c], buf |-> buf[c]]
      BY <3>1, Zenon DEF IngestInv, CutOK
    <3> QED
      BY <3>2
  <2> HIDE DEF b
  <2> QED
    BY <1>1, <2>1, CutSettled
<1>8. (IF wire[c] = <<>> THEN <<>> ELSE RowsOf[Feed(buf[c], wire[c]).frames]) = InBytes(c)
  <2>1. CASE w = <<>>
    <3>1. b \o w = b
      BY <1>1, <2>1
    <3>2. InBytes(c) = RowsOf[Cut[b].frames]
      BY <3>1 DEF InBytes
    <3>3. Cut[b].frames = <<>>
      BY <1>7 DEF Keep
    <3> QED
      BY <2>1, <3>2, <3>3, RowsOfEmpty
  <2>2. CASE w # <<>>
    BY <2>2 DEF InBytes, Feed
  <2> QED
    BY <2>1, <2>2
<1>9. OnWay(c) = (Queued(c, ingest) \o InBytes(c)) \o Waiting(c)
  BY <1>8, Zenon DEF OnWay, Waiting
<1> QED
  BY <1>2, <1>4, <1>6, <1>9 DEF Way

LEMMA WayStays ==
  ASSUME IngestInv, [Next]_vars
  PROVE  \A c \in Conns : Way(c) /\ Way(c)'
<1>1. IngestInv'
  BY IngestStep
<1>2. (\A c \in Conns : Way(c))'
  BY <1>1, WayIs, PTL
<1> QED
  BY <1>2, WayIs

(* Steps of the channel.                                                   *)
LEMMA LoseStep ==
  ASSUME IngestInv, [Next]_vars, UNCHANGED <<handed, last>>,
         \A c \in Conns : Lost(OnWay(c), OnWay(c)')
  PROVE  Channel!Lose
<1>1. \A c \in Conns : OnWay(c) \in Seq(Nat)
  BY WayIs DEF Way
<1>2. ASSUME NEW c \in Conns
      PROVE  OnWay(c)' \in Seq(Nat) /\ OnWay(c)' \in Channel!Thinned[OnWay(c)]
  <2> DEFINE s == OnWay(c)
             t == OnWay(c)'
  <2>1. s \in Seq(Nat) /\ Lost(s, t)
    BY <1>1
  <2> HIDE DEF s, t
  <2>2. t \in Seq(Nat) /\ t \in Channel!Thinned[s]
    BY <2>1, LostThinned
  <2> QED
    BY <2>2 DEF s, t
<1> DEFINE chan == [c \in Conns |-> OnWay(c)]
<1>3. /\ chan' \in [Conns -> Seq(Nat)]
      /\ \A c \in Conns : chan'[c] \in Channel!Thinned[chan[c]]
  BY <1>2
<1>4. UNCHANGED <<handed, last>>
  OBVIOUS
<1> HIDE DEF chan
<1> QED
  BY <1>3, <1>4 DEF Channel!Lose, chan

LEMMA ChannelStays ==
  ASSUME UNCHANGED <<handed, last>>, \A c \in Conns : OnWay(c)' = OnWay(c)
  PROVE  UNCHANGED Channel!channel
  BY DEF Channel!channel

(* The provers find this fact only when it has a name.                     *)
Regroups(a, b, d) == (a \o b) \o d = a \o (b \o d)

LEMMA Associates ==
  ASSUME NEW a \in Seq(Nat), NEW b \in Seq(Nat), NEW d \in Seq(Nat)
  PROVE  Regroups(a, b, d)
<1>1. (a \o b) \o d = a \o (b \o d)
  BY SMTT(60), ConcatAssociative
<1> QED
  BY <1>1, Zenon DEF Regroups

(* A way of three parts.                                                   *)
LEMMA LoseEnd ==
  ASSUME NEW q \in Seq(Nat), NEW p \in Seq(Nat), NEW w \in Seq(Nat)
  PROVE  Lost((q \o p) \o w, (q \o p) \o <<>>)
<1> DEFINE a == q \o p
<1>1. a \in Seq(Nat) /\ <<>> \in Seq(Nat)
  OBVIOUS
<1> HIDE DEF a
<1>2. (a \o w) \o <<>> = a \o w
  BY <1>1
<1>3. Lost(a \o w, a \o <<>>)
  BY <1>1, <1>2, Zenon DEF Lost
<1> QED
  BY <1>3 DEF a

LEMMA LoseMiddle ==
  ASSUME NEW q \in Seq(Nat), NEW p \in Seq(Nat), NEW w \in Seq(Nat)
  PROVE  Lost((q \o p) \o w, (q \o <<>>) \o w)
<1>1. q \o <<>> = q
  OBVIOUS
<1> QED
  BY <1>1, Zenon DEF Lost

LEMMA LoseStart ==
  ASSUME NEW u \in Seq(Nat), NEW q \in Seq(Nat), NEW p \in Seq(Nat), NEW w \in Seq(Nat)
  PROVE  Lost(((u \o q) \o p) \o w, (q \o p) \o w)
<1> DEFINE d == (q \o p) \o w
<1>1. q \o p \in Seq(Nat) /\ u \o q \in Seq(Nat)
  OBVIOUS
<1>2. (u \o q) \o p = u \o (q \o p)
  <2>1. Regroups(u, q, p)
    BY Associates
  <2> QED
    BY <2>1, Zenon DEF Regroups
<1>3. (u \o (q \o p)) \o w = u \o d
  <2> DEFINE x == q \o p
  <2>1. x \in Seq(Nat)
    BY <1>1
  <2> HIDE DEF x
  <2>2. Regroups(u, x, w)
    BY <2>1, Associates
  <2>3. (u \o x) \o w = u \o (x \o w)
    BY <2>2, Zenon DEF Regroups
  <2> QED
    BY <2>3 DEF x
<1>4. d \in Seq(Nat)
  BY <1>1
<1> HIDE DEF d
<1>5. <<>> \o u = u /\ <<>> \o d = d /\ <<>> \in Seq(Nat)
  BY <1>4
<1>6. Lost(u \o d, d)
  <2>1. u \o d = (<<>> \o u) \o d
    BY <1>5
  <2> QED
    BY <1>4, <1>5, <2>1, Zenon DEF Lost
<1> QED
  BY <1>2, <1>3, <1>6 DEF d

LEMMA LoseNext ==
  ASSUME NEW q \in Seq(Nat), NEW p \in Seq(Nat), NEW h \in Seq(Nat), NEW w \in Seq(Nat)
  PROVE  Lost((q \o p) \o (h \o w), (q \o p) \o w)
<1> DEFINE a == q \o p
<1>1. a \in Seq(Nat)
  OBVIOUS
<1> HIDE DEF a
<1>2. (a \o h) \o w = a \o (h \o w)
  <2>1. Regroups(a, h, w)
    BY <1>1, Associates
  <2> QED
    BY <2>1, Zenon DEF Regroups
<1>3. Lost(a \o (h \o w), a \o w)
  BY <1>1, <1>2, Zenon DEF Lost
<1> QED
  BY <1>3 DEF a

(* The rows of a buffer and the bytes that follow.                         *)
LEMMA RowsOfCut ==
  ASSUME NEW x \in Seq(Nat), NEW y \in Seq(Nat)
  PROVE  RowsOf[Cut[x \o y].frames] = RowsOf[Cut[x].frames] \o RowsOf[Cut[Cut[x].buf \o y].frames]
<1> DEFINE f == Cut[x].frames
           z == Cut[x].buf \o y
<1>1. Cut[x \o y] = Before(f, Cut[z])
  BY CutConcat
<1>2. f \in Seq(Frames) /\ z \in Seq(Nat)
  <2>1. Cut[x] \in Streamed
    BY FramesOf
  <2>2. Cut[x].buf \in Seq(Nat) /\ f \in Seq(Frames)
    BY <2>1 DEF Streamed
  <2> QED
    BY <2>2
<1> HIDE DEF f, z
<1>3. Cut[z].frames \in Seq(Frames)
  BY <1>2, FramesOf
<1>4. Cut[x \o y].frames = f \o Cut[z].frames
  BY SMTT(30), <1>1 DEF Before
<1> QED
  BY ZenonT(30), <1>2, <1>3, <1>4, RowsOfConcat DEF f, z

(* The steps of the link.                                                  *)
LEMMA SendChannel ==
  ASSUME IngestInv, [Next]_vars, Send, UNCHANGED <<streams, server, last>>
  PROVE  Channel!ChannelNext
<1>1. \A c \in Conns : Way(c) /\ Way(c)'
  BY WayStays
<1>2. /\ handed' = handed + 1 /\ connects' = connects
      /\ wire' = wire /\ buf' = buf /\ ingest' = ingest /\ last' = last
  BY DEF Send, streams, server
<1>3. \A c \in Conns : Queued(c, ingest)' = Queued(c, ingest) /\ InBytes(c)' = InBytes(c)
  BY <1>2 DEF Queued, InBytes
<1>4. CASE Connected /\ Len(queue) < QueueMax
  <2>0. Current \in Conns
    BY <1>4, ConnsAre DEF IngestInv, Connected
  <2>2. PICK k \in Conns : k = Current
    BY <2>0
  <2>1. queue' = Append(queue, handed + 1) /\ Current' = k
    BY <1>2, <1>4, <2>2 DEF Send, Current
  <2>3. handed + 1 \in Nat /\ queue \in Seq(Nat)
    BY DEF IngestInv, LinkOK, LinkInv, LinkTypeOK
  <2>4. \A c \in Conns : c # k => OnWay(c)' = OnWay(c)
    BY <1>1, <1>3, <2>1, <2>2 DEF Way, Waiting
  <2>5. OnWay(k)' = Append(OnWay(k), handed + 1)
    <3> DEFINE a == Queued(k, ingest) \o InBytes(k)
    <3>1. a \in Seq(Nat) /\ OnWay(k) = a \o queue
      <4>1. Way(k) /\ Waiting(k) = queue
        BY <1>1, <2>2 DEF Waiting
      <4> QED
        BY <4>1 DEF Way
    <3>2. OnWay(k)' = a \o queue'
      <4>1. Way(k)'
        BY <1>1, <2>2
      <4>2. OnWay(k)' = (Queued(k, ingest)' \o InBytes(k)') \o queue'
        BY <2>1, <4>1 DEF Way, Waiting
      <4> QED
        BY <1>3, <2>2, <4>2
    <3> HIDE DEF a
    <3>3. a \o Append(queue, handed + 1) = Append(a \o queue, handed + 1)
      BY SMTT(30), <2>3, <3>1
    <3> QED
      BY <2>1, <3>1, <3>2, <3>3
  <2>6. [c \in Conns |-> OnWay(c)]'
          = [[c \in Conns |-> OnWay(c)] EXCEPT ![k] = Append([c \in Conns |-> OnWay(c)][k], handed + 1)]
    BY <2>2, <2>4, <2>5
  <2>7. Channel!Put(k)
    BY <1>2, <2>2, <2>6 DEF Channel!Put
  <2> QED
    BY <2>2, <2>7 DEF Channel!ChannelNext
<1>5. CASE ~(Connected /\ Len(queue) < QueueMax)
  <2>1. queue' = queue /\ Current' = Current
    BY <1>2, <1>5 DEF Send, Current
  <2>2. \A c \in Conns : OnWay(c)' = OnWay(c)
    BY <1>1, <1>3, <2>1 DEF Way, Waiting
  <2>3. Channel!Refuse
    BY <1>2, <2>2 DEF Channel!Refuse
  <2> QED
    BY <2>3 DEF Channel!ChannelNext
<1> QED
  BY <1>4, <1>5

LEMMA LinkChannel ==
  ASSUME IngestInv, [Next]_vars, UNCHANGED <<streams, server, last>>,
         Ready \/ Closed \/ Drained \/ DrainFails \/ HelloFails \/ EncodeFails \/ PeerClosed
  PROVE  [Channel!ChannelNext]_(Channel!channel)
<1>1. \A c \in Conns : Way(c) /\ Way(c)'
  BY WayStays
<1>2. wire' = wire /\ buf' = buf /\ ingest' = ingest /\ last' = last
  BY DEF streams, server
<1>3. handed' = handed /\ connects' = connects /\ (queue' = queue \/ queue' = <<>>)
  BY DEF Ready, Closed, Drained, DrainFails, HelloFails, EncodeFails, PeerClosed, LeaveServe, counters
<1>4. \A c \in Conns : Queued(c, ingest)' = Queued(c, ingest) /\ InBytes(c)' = InBytes(c)
  BY <1>2 DEF Queued, InBytes
<1>5. \A c \in Conns : Lost(OnWay(c), OnWay(c)')
  <2> SUFFICES ASSUME NEW c \in Conns PROVE Lost(OnWay(c), OnWay(c)')
    OBVIOUS
  <2> DEFINE q == Queued(c, ingest)
             p == InBytes(c)
             w == Waiting(c)
  <2>1. q \in Seq(Nat) /\ p \in Seq(Nat) /\ w \in Seq(Nat) /\ OnWay(c) = (q \o p) \o w
    BY <1>1 DEF Way
  <2>2. OnWay(c)' = (q \o p) \o Waiting(c)'
    BY <1>1, <1>4 DEF Way
  <2>3. Waiting(c)' = w \/ Waiting(c)' = <<>>
    BY <1>3 DEF Waiting, Current
  <2>4. OnWay(c) \in Seq(Nat)
    BY <1>1 DEF Way
  <2> HIDE DEF q, p, w
  <2>5. Lost((q \o p) \o w, (q \o p) \o <<>>)
    BY <2>1, LoseEnd
  <2>6. Lost(OnWay(c), OnWay(c))
    BY <2>4, LostSame
  <2> QED
    BY <2>1, <2>2, <2>3, <2>5, <2>6
<1>6. Channel!Lose
  BY <1>2, <1>3, <1>5, LoseStep
<1> QED
  BY <1>6 DEF Channel!ChannelNext

LEMMA ConnectChannel ==
  ASSUME IngestInv, [Next]_vars, LinkConnects
  PROVE  UNCHANGED Channel!channel
<1>0. connects + 1 \in Conns
  BY ConnsAre DEF IngestInv, LinkConnects, Connect
<1>10. PICK k \in Conns : k = connects + 1
  BY <1>0
<1>1. \A c \in Conns : Way(c) /\ Way(c)'
  BY WayStays
<1>2. /\ phase = "away" /\ connects < MaxConnects /\ connects' = k
      /\ wire' = [wire EXCEPT ![k] = EncodeHandshake]
      /\ buf' = buf /\ ingest' = ingest /\ last' = last /\ handed' = handed /\ queue' = queue
  BY <1>10 DEF LinkConnects, Connect
<1>3. queue = <<>>
  BY <1>2 DEF IngestInv, LinkOK, LinkInv, NothingWaitsOffline, Connected
<1>4. k \in Conns /\ k \in All /\ k > connects
  BY <1>2, <1>10, ConnsAre DEF IngestInv, All
<1>5. wire[k] = <<>> /\ buf[k] = <<>> /\ wire \in [All -> Seq(Nat)]
  BY <1>4 DEF IngestInv, OpenOK, BytesOK
<1>6. \A c \in Conns : InBytes(c)' = InBytes(c)
  <2>1. \A c \in Conns : c # k => wire'[c] = wire[c] /\ buf'[c] = buf[c]
    BY <1>2, <1>5 DEF All
  <2>2. InBytes(k)' = <<>>
    <3>1. wire'[k] = EncodeHandshake /\ buf'[k] = <<>>
      BY <1>2, <1>4, <1>5
    <3>2. <<>> \o EncodeHandshake = EncodeHandshake
      BY HandshakeCut
    <3> QED
      BY <3>1, <3>2, HandshakeCut DEF InBytes
  <2>3. InBytes(k) = <<>>
    <3>1. <<>> \o <<>> = <<>>
      OBVIOUS
    <3> QED
      BY <1>5, <3>1, CutEmpty, RowsOfEmpty DEF InBytes, Keep
  <2>4. ASSUME NEW c \in Conns, c # k PROVE InBytes(c)' = InBytes(c)
    BY <2>1, <2>4 DEF InBytes
  <2> QED
    BY <2>2, <2>3, <2>4
<1>7. \A c \in Conns : Queued(c, ingest)' = Queued(c, ingest) /\ Waiting(c) = <<>> /\ Waiting(c)' = <<>>
  BY <1>2, <1>3 DEF Queued, Waiting
<1>8. \A c \in Conns : OnWay(c)' = OnWay(c)
  BY <1>1, <1>6, <1>7 DEF Way
<1> QED
  BY <1>2, <1>8, ChannelStays

(* A row that is written passes from the queue into the bytes; it is lost  *)
(* when nobody reads the connection any more.                              *)
LEMMA WriteChannel ==
  ASSUME IngestInv, [Next]_vars, LinkWrites
  PROVE  Channel!Lose
<1>1. \A c \in Conns : Way(c) /\ Way(c)'
  BY WayStays
<1>2. /\ phase = "pump" /\ queue # <<>> /\ queue' = Tail(queue)
      /\ connects' = connects /\ handed' = handed
      /\ wire' = IF Current \in open
                 THEN [wire EXCEPT ![Current] = wire[Current] \o EncodeRealtime(Head(queue), <<>>)]
                 ELSE wire
      /\ buf' = buf /\ last' = last /\ ingest' = ingest
  BY DEF LinkWrites, TakeRow, Write, counters, server
<1>3. Current \in Conns
  BY <1>2, ConnsAre DEF IngestInv
<1>4. PICK k \in Conns : k = Current
  BY <1>3
<1>5. queue \in Seq(Nat)
  BY DEF IngestInv, LinkOK, LinkInv, LinkTypeOK
<1>6. PICK h \in Nat : h = Head(queue)
  BY <1>2, <1>5
<1>7. Tail(queue) \in Seq(Nat) /\ <<h>> \in Seq(Nat) /\ queue = <<h>> \o Tail(queue)
  BY <1>2, <1>5, <1>6
<1> DEFINE f == EncodeRealtime(h, <<>>)
<1>8. f \in Seq(Nat) /\ RowsOf[Cut[f].frames] = <<h>>
  BY RealtimeCut
<1>9. wire' = IF k \in open THEN [wire EXCEPT ![k] = wire[k] \o f] ELSE wire
  BY <1>2, <1>4, <1>6
<1> HIDE DEF f
<1>10. wire \in [All -> Seq(Nat)] /\ k \in All /\ wire[k] \in Seq(Nat) /\ buf[k] \in Seq(Nat)
  BY DEF IngestInv, BytesOK, All
<1>11. \A c \in Conns : Queued(c, ingest)' = Queued(c, ingest)
  BY <1>2 DEF Queued
<1>12. \A c \in Conns : c # k => Lost(OnWay(c), OnWay(c)')
  <2> SUFFICES ASSUME NEW c \in Conns, c # k PROVE Lost(OnWay(c), OnWay(c)')
    OBVIOUS
  <2>1. wire'[c] = wire[c]
    BY <1>9, <1>10 DEF All
  <2>2. InBytes(c)' = InBytes(c)
    BY <1>2, <2>1 DEF InBytes
  <2>3. Waiting(c) = <<>> /\ Waiting(c)' = <<>>
    BY <1>2, <1>4 DEF Waiting, Current
  <2>4. OnWay(c)' = OnWay(c) /\ OnWay(c) \in Seq(Nat)
    BY <1>1, <1>11, <2>2, <2>3 DEF Way
  <2> QED
    BY <2>4, LostSame
<1>13. Lost(OnWay(k), OnWay(k)')
  <2> DEFINE q == Queued(k, ingest)
             p == InBytes(k)
             t == Tail(queue)
  <2>1. q \in Seq(Nat) /\ p \in Seq(Nat) /\ OnWay(k) = (q \o p) \o (<<h>> \o t)
    <3>1. Way(k) /\ Waiting(k) = <<h>> \o t
      BY <1>1, <1>4, <1>7 DEF Waiting
    <3> QED
      BY <3>1 DEF Way
  <2>2. OnWay(k)' = (q \o InBytes(k)') \o t
    <3>1. Way(k)' /\ Waiting(k)' = t
      BY <1>1, <1>2, <1>4 DEF Waiting, Current
    <3> QED
      BY <1>11, <3>1 DEF Way
  <2>3. InBytes(k)' = p \/ InBytes(k)' = p \o <<h>>
    <3>1. CASE k \in open
      <4> DEFINE b == buf[k]
                 w == wire[k]
                 x == b \o w
      <4>1. b \in Seq(Nat) /\ w \in Seq(Nat) /\ wire'[k] = w \o f
        BY <1>9, <1>10, <3>1
      <4>6. InBytes(k)' = RowsOf[Cut[b \o (w \o f)].frames]
        BY <1>2, <4>1 DEF InBytes
      <4>7. p = RowsOf[Cut[x].frames] /\ Cut[x].buf = <<>>
        BY DEF InBytes, IngestInv, CutOK
      <4> HIDE DEF b, w, p
      <4>2. x \in Seq(Nat)
        BY <4>1
      <4>3. x \o f = b \o (w \o f)
        <5>1. Regroups(b, w, f)
          BY SMTT(30), <1>8, <4>1, Associates
        <5> QED
          BY <5>1, Zenon DEF Regroups
      <4> HIDE DEF x
      <4>4. RowsOf[Cut[x \o f].frames] = RowsOf[Cut[x].frames] \o RowsOf[Cut[Cut[x].buf \o f].frames]
        BY <1>8, <4>2, RowsOfCut
      <4>5. <<>> \o f = f
        BY <1>8
      <4> QED
        BY ZenonT(20), <1>8, <4>3, <4>4, <4>5, <4>6, <4>7
    <3>2. CASE k \notin open
      BY <1>2, <1>9, <3>2 DEF InBytes
    <3> QED
      BY ZenonT(20), <3>1, <3>2
  <2>4. OnWay(k) \in Seq(Nat) /\ t \in Seq(Nat)
    BY <1>1, <1>7 DEF Way
  <2> HIDE DEF q, p, t
  <2>5. /\ Lost((q \o p) \o (<<h>> \o t), (q \o p) \o t)
        /\ (q \o (p \o <<h>>)) \o t = (q \o p) \o (<<h>> \o t)
    <3> DEFINE g == <<h>>
    <3>1. g \in Seq(Nat)
      BY <1>7
    <3> HIDE DEF g
    <3>2. q \in Seq(Nat) /\ p \in Seq(Nat) /\ t \in Seq(Nat)
      BY <2>1, <2>4
    <3>3. Lost((q \o p) \o (g \o t), (q \o p) \o t)
      BY <3>1, <3>2, LoseNext
    <3>4. (q \o (p \o g)) \o t = (q \o p) \o (g \o t)
      <4> DEFINE a == q \o p
      <4>1. a \in Seq(Nat)
        BY <3>2
      <4>2. (q \o p) \o g = q \o (p \o g)
        <5>1. Regroups(q, p, g)
          BY <3>1, <3>2, Associates
        <5> QED
          BY <5>1, Zenon DEF Regroups
      <4> HIDE DEF a
      <4>3. (a \o g) \o t = a \o (g \o t)
        <5>1. Regroups(a, g, t)
          BY <3>1, <3>2, <4>1, Associates
        <5> QED
          BY <5>1, Zenon DEF Regroups
      <4> QED
        BY <4>2, <4>3 DEF a
    <3> QED
      BY <3>3, <3>4 DEF g
  <2>6. Lost(OnWay(k), OnWay(k))
    BY <2>4, LostSame
  <2> QED
    BY <2>1, <2>2, <2>3, <2>5, <2>6
<1>14. \A c \in Conns : Lost(OnWay(c), OnWay(c)')
  BY <1>12, <1>13
<1> QED
  BY <1>2, <1>14, LoseStep

(* A chunk that is read passes from the bytes into the ingest queue, which *)
(* may drop the oldest rows for it.                                        *)
LEMMA ReadChannel ==
  ASSUME IngestInv, [Next]_vars, NEW c \in open, Read(c)
  PROVE  Channel!Lose
<1>0. c \in All /\ BytesOK /\ ServerOK
  BY DEF IngestInv, OpenOK
<1>1. PICK d \in Seq(Nat), r \in Seq(Nat), fed \in Streamed, new \in Seq(Items) :
        /\ c \in open /\ d \o r = wire[c] /\ fed = Cut[buf[c] \o d]
        /\ Queued(c, new) = RowsOf[fed.frames]
        /\ \A e : e # c => Queued(e, new) = <<>>
        /\ wire' = [wire EXCEPT ![c] = r]
        /\ got' = [got EXCEPT ![c] = got[c] \o d]
        /\ buf' = [buf EXCEPT ![c] = fed.buf]
        /\ whole' = [whole EXCEPT ![c] = whole[c] \o fed.frames]
        /\ ingest \o new \in Seq(Items)
        /\ ingest' = Put(ingest \o new)
        /\ owed' = owed + Len(new)
        /\ stats' \in StatsType /\ stats'.connections = stats.connections
        /\ stats'.dropped = stats.dropped + Len(ingest \o new) - Len(ingest')
        /\ handshaken' \in BOOLEAN
        /\ UNCHANGED <<link, open, last>>
  BY <1>0, ReadIs
<1>2. \A e \in Conns : Way(e) /\ Way(e)'
  BY WayStays
<1>3. last' = last /\ handed' = handed /\ queue' = queue /\ connects' = connects
  BY <1>1 DEF link, counters
<1>4. /\ wire \in [All -> Seq(Nat)] /\ buf \in [All -> Seq(Nat)] /\ wire[c] \in Seq(Nat)
      /\ buf[c] \in Seq(Nat) /\ ingest \in Seq(Items) /\ \A e \in Conns : e \in All
  BY <1>0 DEF BytesOK, ServerOK, All
<1>5. PICK u \in Seq(Items) : ingest \o new = u \o ingest'
  BY <1>1, PutIs
<1>6. ingest' \in Seq(Items)
  BY <1>1, PutIs
<1>7. \A e \in Conns : InBytes(e) = Queued(e, new) \o InBytes(e)'
  <2>1. ASSUME NEW e \in Conns, e # c PROVE InBytes(e) = Queued(e, new) \o InBytes(e)'
    <3>1. InBytes(e)' = InBytes(e)
      BY <1>1, <1>4, <2>1 DEF InBytes
    <3>2. Queued(e, new) = <<>> /\ InBytes(e) \in Seq(Nat)
      BY <1>1, <1>2, <2>1 DEF Way
    <3>3. <<>> \o InBytes(e) = InBytes(e)
      <4> DEFINE p == InBytes(e)
      <4>1. p \in Seq(Nat)
        BY <3>2
      <4> HIDE DEF p
      <4>2. <<>> \o p = p
        BY <4>1
      <4> QED
        BY <4>2 DEF p
    <3> QED
      BY <3>1, <3>2, <3>3
  <2>2. InBytes(c) = Queued(c, new) \o InBytes(c)'
    <3> DEFINE b == buf[c]
               x == b \o d
    <3>1. InBytes(c) = RowsOf[Cut[b \o (d \o r)].frames]
      BY <1>1 DEF InBytes
    <3>2. wire'[c] = r /\ buf'[c] = fed.buf
      BY <1>0, <1>1, <1>4
    <3>3. InBytes(c)' = RowsOf[Cut[fed.buf \o r].frames]
      BY <3>2 DEF InBytes
    <3>7. b \in Seq(Nat) /\ fed = Cut[x]
      BY <1>1, <1>4
    <3> HIDE DEF b
    <3>4. x \in Seq(Nat)
      BY <3>7
    <3>5. x \o r = b \o (d \o r)
      <4>1. Regroups(b, d, r)
        BY SMTT(30), <3>7, Associates
      <4> QED
        BY <4>1, Zenon DEF Regroups
    <3> HIDE DEF x
    <3>6. RowsOf[Cut[x \o r].frames] = RowsOf[Cut[x].frames] \o RowsOf[Cut[Cut[x].buf \o r].frames]
      BY <3>4, RowsOfCut
    <3> QED
      BY ZenonT(20), <1>1, <3>1, <3>3, <3>5, <3>6, <3>7
  <2> QED
    BY <2>1, <2>2
<1>8. \A e \in Conns : Lost(OnWay(e), OnWay(e)')
  <2> SUFFICES ASSUME NEW e \in Conns PROVE Lost(OnWay(e), OnWay(e)')
    OBVIOUS
  <2> DEFINE q == Queued(e, ingest)
             n == Queued(e, new)
             z == Queued(e, u)
             q1 == Queued(e, ingest')
             p1 == InBytes(e)'
             w == Waiting(e)
  <2>1. q \in Seq(Nat) /\ w \in Seq(Nat) /\ OnWay(e) = (q \o (n \o p1)) \o w
    BY <1>2, <1>7 DEF Way
  <2>2. p1 \in Seq(Nat) /\ Queued(e, ingest)' = q1
    BY <1>2 DEF Way, Queued
  <2>3. OnWay(e)' = (q1 \o p1) \o w
    <3>1. Waiting(e)' = w
      BY <1>3 DEF Waiting, Current
    <3> QED
      BY <1>2, <2>2, <3>1 DEF Way
  <2>4. n \in Seq(Nat) /\ z \in Seq(Nat) /\ q1 \in Seq(Nat)
    BY <1>5, <1>6, QueuedConcat
  <2>5. q \o n = z \o q1
    <3>1. Queued(e, ingest \o new) = q \o n
      BY <1>4, QueuedConcat
    <3>2. Queued(e, u \o ingest') = z \o q1
      BY <1>6, QueuedConcat
    <3> QED
      BY <1>5, <3>1, <3>2
  <2> HIDE DEF q, n, z, q1, p1, w
  <2>6. (q \o n) \o p1 = q \o (n \o p1)
    <3>1. q \in Seq(Nat) /\ n \in Seq(Nat) /\ p1 \in Seq(Nat)
      BY <2>1, <2>2, <2>4
    <3>2. Regroups(q, n, p1)
      BY <3>1, Associates
    <3> QED
      BY <3>2, Zenon DEF Regroups
  <2>7. Lost(((z \o q1) \o p1) \o w, (q1 \o p1) \o w)
    BY <2>1, <2>2, <2>4, LoseStart
  <2> QED
    BY <2>1, <2>3, <2>5, <2>6, <2>7
<1> QED
  BY <1>3, <1>8, LoseStep

(* With its handler a connection loses the bytes that were not decoded.    *)
LEMMA EndChannel ==
  ASSUME IngestInv, [Next]_vars, NEW c \in open, HandlerEnds(c)
  PROVE  Channel!Lose
<1>1. \A e \in Conns : Way(e) /\ Way(e)'
  BY WayStays
<1>2. /\ wire' = [wire EXCEPT ![c] = <<>>] /\ buf' = [buf EXCEPT ![c] = <<>>]
      /\ ingest' = ingest /\ last' = last /\ handed' = handed
      /\ queue' = queue /\ connects' = connects
  BY DEF HandlerEnds, link, counters
<1>3. wire \in [All -> Seq(Nat)] /\ buf \in [All -> Seq(Nat)]
  BY DEF IngestInv, BytesOK
<1>4. \A e \in Conns : InBytes(e)' = InBytes(e) \/ InBytes(e)' = <<>>
  <2> SUFFICES ASSUME NEW e \in Conns PROVE InBytes(e)' = InBytes(e) \/ InBytes(e)' = <<>>
    OBVIOUS
  <2>1. CASE e # c
    BY <1>2, <1>3, <2>1 DEF InBytes, All
  <2>2. CASE e = c
    <3>1. wire'[e] = <<>> /\ buf'[e] = <<>>
      BY <1>2, <1>3, <2>2 DEF All
    <3>2. <<>> \o <<>> = <<>>
      OBVIOUS
    <3> QED
      BY <3>1, <3>2, CutEmpty, RowsOfEmpty DEF InBytes, Keep
  <2> QED
    BY <2>1, <2>2
<1>5. \A e \in Conns : Lost(OnWay(e), OnWay(e)')
  <2> SUFFICES ASSUME NEW e \in Conns PROVE Lost(OnWay(e), OnWay(e)')
    OBVIOUS
  <2> DEFINE q == Queued(e, ingest)
             p == InBytes(e)
             w == Waiting(e)
  <2>1. q \in Seq(Nat) /\ p \in Seq(Nat) /\ w \in Seq(Nat) /\ OnWay(e) = (q \o p) \o w
    BY <1>1 DEF Way
  <2>2. OnWay(e)' = (q \o InBytes(e)') \o w
    <3>1. Waiting(e)' = w /\ Queued(e, ingest)' = q
      BY <1>2 DEF Waiting, Current, Queued
    <3> QED
      BY <1>1, <3>1 DEF Way
  <2>3. OnWay(e) \in Seq(Nat) /\ (InBytes(e)' = p \/ InBytes(e)' = <<>>)
    BY <1>1, <1>4 DEF Way
  <2> HIDE DEF q, p, w
  <2>4. Lost((q \o p) \o w, (q \o <<>>) \o w)
    BY <2>1, LoseMiddle
  <2>5. Lost(OnWay(e), OnWay(e))
    BY <2>3, LostSame
  <2> QED
    BY <2>1, <2>2, <2>3, <2>4, <2>5
<1> QED
  BY <1>2, <1>5, LoseStep

(* The worker takes the first row of a connection of the replayer, or one  *)
(* of another terminal, which is on no channel.                            *)
LEMMA TakeChannel ==
  ASSUME IngestInv, [Next]_vars, WorkerTakes
  PROVE  [Channel!ChannelNext]_(Channel!channel)
<1>1. \A c \in Conns : Way(c) /\ Way(c)'
  BY WayStays
<1>2. /\ ingest # <<>> /\ ingest' = Tail(ingest)
      /\ last' = [c \in Conns |-> IF c = Head(ingest).conn THEN Head(ingest).row ELSE last[c]]
      /\ wire' = wire /\ buf' = buf /\ queue' = queue /\ handed' = handed /\ connects' = connects
  BY DEF WorkerTakes, link, counters, streams
<1>3. ingest \in Seq(Items) /\ last \in [Conns -> Nat]
  BY DEF IngestInv, ServerOK
<1>4. PICK m \in Items : m = Head(ingest)
  BY <1>2, <1>3
<1>5. Tail(ingest) \in Seq(Items) /\ <<m>> \in Seq(Items) /\ ingest = <<m>> \o Tail(ingest)
  BY <1>2, <1>3, <1>4
<1>6. \A c \in Conns : InBytes(c)' = InBytes(c) /\ Waiting(c)' = Waiting(c)
  BY <1>2 DEF InBytes, Waiting, Current
<1>7. \A c \in Conns :
        Queued(c, ingest) = (IF m.conn = c THEN <<m.row>> ELSE <<>>) \o Queued(c, Tail(ingest))
  <2> SUFFICES ASSUME NEW c \in Conns
               PROVE  Queued(c, ingest)
                        = (IF m.conn = c THEN <<m.row>> ELSE <<>>) \o Queued(c, Tail(ingest))
    OBVIOUS
  <2> DEFINE x == <<m>>
             y == Tail(ingest)
  <2>1. x \in Seq(Items) /\ y \in Seq(Items)
    BY <1>5
  <2>2. Queued(c, x) = IF m.conn = c THEN <<m.row>> ELSE <<>>
    BY QueuedOne
  <2>3. ingest = x \o y
    BY <1>5
  <2> HIDE DEF x, y
  <2>4. Queued(c, x \o y) = Queued(c, x) \o Queued(c, y)
    BY <2>1, QueuedConcat
  <2> QED
    BY <2>2, <2>3, <2>4 DEF y
<1>8. \A c \in Conns : Queued(c, ingest)' = Queued(c, Tail(ingest))
  BY <1>2 DEF Queued
<1>9. \A c \in Conns : OnWay(c) = (IF m.conn = c THEN <<m.row>> ELSE <<>>) \o OnWay(c)'
  <2> SUFFICES ASSUME NEW c \in Conns
               PROVE  OnWay(c) = (IF m.conn = c THEN <<m.row>> ELSE <<>>) \o OnWay(c)'
    OBVIOUS
  <2> DEFINE g == IF m.conn = c THEN <<m.row>> ELSE <<>>
             q == Queued(c, Tail(ingest))
             p == InBytes(c)
             w == Waiting(c)
  <2>1. p \in Seq(Nat) /\ w \in Seq(Nat)
    BY <1>1 DEF Way
  <2>2. OnWay(c) = ((g \o q) \o p) \o w
    <3>1. Way(c) /\ Queued(c, ingest) = g \o q
      BY <1>1, <1>7
    <3> QED
      BY <3>1 DEF Way
  <2>3. q \in Seq(Nat) /\ OnWay(c)' = (q \o p) \o w
    <3>1. Way(c)' /\ Queued(c, ingest)' = q /\ InBytes(c)' = p /\ Waiting(c)' = w
      BY <1>1, <1>6, <1>8
    <3> QED
      BY <3>1 DEF Way
  <2>4. g \in Seq(Nat)
    BY DEF Items
  <2> HIDE DEF g, q, p, w
  <2>5. (g \o q) \o p = g \o (q \o p)
    <3>1. q \in Seq(Nat) /\ p \in Seq(Nat)
      BY <2>1, <2>3
    <3>2. Regroups(g, q, p)
      BY <2>4, <3>1, Associates
    <3> QED
      BY <3>2, Zenon DEF Regroups
  <2>6. (g \o (q \o p)) \o w = g \o ((q \o p) \o w)
    <3> DEFINE x == q \o p
    <3>1. x \in Seq(Nat)
      BY <2>1, <2>3
    <3> HIDE DEF x
    <3>2. (g \o x) \o w = g \o (x \o w)
      <4>1. Regroups(g, x, w)
        BY <2>1, <2>4, <3>1, Associates
      <4> QED
        BY <4>1, Zenon DEF Regroups
    <3> QED
      BY <3>2 DEF x
  <2>7. OnWay(c) = g \o OnWay(c)'
    BY <2>2, <2>3, <2>5, <2>6
  <2> QED
    BY <2>7 DEF g
<1>10. \A c \in Conns : OnWay(c)' \in Seq(Nat)
  BY <1>1 DEF Way
<1>11. ASSUME NEW c \in Conns, c # m.conn PROVE OnWay(c)' = OnWay(c) /\ last'[c] = last[c]
  <2> DEFINE z == OnWay(c)'
  <2>1. z \in Seq(Nat) /\ OnWay(c) = <<>> \o z
    BY <1>9, <1>10, <1>11
  <2> HIDE DEF z
  <2>2. <<>> \o z = z
    BY <2>1
  <2> QED
    BY <1>2, <1>4, <1>11, <2>1, <2>2 DEF z
<1>12. CASE m.conn \in Conns
  <2>1. PICK h \in Conns : h = m.conn
    BY <1>12
  <2> DEFINE s == OnWay(h)
             z == OnWay(h)'
  <2>2. z \in Seq(Nat) /\ s = <<m.row>> \o z
    BY <1>9, <1>10, <2>1
  <2>3. m.row \in Nat
    BY DEF Items
  <2>7. last' = [last EXCEPT ![h] = m.row]
    <3>1. last'[h] = m.row
      BY <1>2, <1>4, <2>1
    <3> QED
      BY <1>2, <1>3, <1>11, <2>1, <3>1
  <2> HIDE DEF s, z
  <2>4. s # <<>> /\ Head(s) = m.row /\ Tail(s) = z
    <3> DEFINE r == m.row
    <3>1. r \in Nat /\ s = <<r>> \o z
      BY <2>2, <2>3
    <3> HIDE DEF r
    <3>2. Head(<<r>> \o z) = r /\ Tail(<<r>> \o z) = z /\ <<r>> \o z # <<>>
      BY <2>2, <3>1
    <3> QED
      BY <3>1, <3>2 DEF r
  <2> DEFINE chan == [c \in Conns |-> OnWay(c)]
  <2>5. chan[h] = s /\ chan' = [chan EXCEPT ![h] = Tail(s)]
    <3>1. chan' = [c \in Conns |-> OnWay(c)']
      OBVIOUS
    <3>2. \A c \in Conns : c # h => OnWay(c)' = OnWay(c)
      BY <1>11, <2>1
    <3> QED
      BY <2>4, <3>1, <3>2 DEF s, z
  <2> HIDE DEF chan
  <2>6. /\ handed' = handed /\ chan[h] # <<>>
        /\ last' = [last EXCEPT ![h] = Head(chan[h])]
        /\ chan' = [chan EXCEPT ![h] = Tail(chan[h])]
    BY <1>2, <2>4, <2>5, <2>7
  <2>8. Channel!Take(h)
    BY <2>6 DEF Channel!Take, chan
  <2> QED
    BY <2>8 DEF Channel!ChannelNext
<1>13. CASE m.conn \notin Conns
  <2>1. \A c \in Conns : OnWay(c)' = OnWay(c) /\ last'[c] = last[c]
    BY <1>11, <1>13
  <2>2. last' = last
    BY <1>2, <1>3, <2>1
  <2> QED
    BY <1>2, <2>1, <2>2, ChannelStays
<1> QED
  BY <1>12, <1>13

LEMMA ClearChannel ==
  ASSUME IngestInv, [Next]_vars, QueueCleared
  PROVE  Channel!Lose
<1>1. \A c \in Conns : Way(c) /\ Way(c)'
  BY WayStays
<1>2. /\ ingest' = <<>> /\ last' = last /\ wire' = wire /\ buf' = buf
      /\ queue' = queue /\ handed' = handed /\ connects' = connects
  BY DEF QueueCleared, link, counters, streams
<1>3. \A c \in Conns : Lost(OnWay(c), OnWay(c)')
  <2> SUFFICES ASSUME NEW c \in Conns PROVE Lost(OnWay(c), OnWay(c)')
    OBVIOUS
  <2> DEFINE q == Queued(c, ingest)
             p == InBytes(c)
             w == Waiting(c)
  <2>1. q \in Seq(Nat) /\ p \in Seq(Nat) /\ w \in Seq(Nat) /\ OnWay(c) = (q \o p) \o w
    BY <1>1 DEF Way
  <2>2. OnWay(c)' = (<<>> \o p) \o w
    <3>1. InBytes(c)' = p /\ Waiting(c)' = w
      BY <1>2 DEF InBytes, Waiting, Current
    <3>2. Queued(c, ingest)' = <<>>
      BY <1>2, QueuedEmpty DEF Queued
    <3> QED
      BY <1>1, <3>1, <3>2 DEF Way
  <2> HIDE DEF q, p, w
  <2>3. q \o <<>> = q /\ <<>> \in Seq(Nat)
    BY <2>1
  <2>4. Lost(((q \o <<>>) \o p) \o w, (<<>> \o p) \o w)
    BY <2>1, <2>3, LoseStart
  <2> QED
    BY <2>1, <2>2, <2>3, <2>4
<1> QED
  BY <1>2, <1>3, LoseStep

LEMMA ChannelStart == Init => Channel!ChannelInit
<1> SUFFICES ASSUME Init PROVE Channel!ChannelInit
  OBVIOUS
<1>1. handed = 0 /\ last = [c \in Conns |-> 0]
  BY DEF Init, LinkInit
<1>2. ASSUME NEW c \in Conns PROVE OnWay(c) = <<>>
  <2>1. c # Other
    BY DEF Conns, Other
  <2>2. wire[c] = <<>>
    BY <2>1 DEF Init, NoBytes
  <2>3. ingest = <<>> /\ queue = <<>>
    BY DEF Init, LinkInit
  <2>4. Queued(c, ingest) = <<>>
    BY <2>3, QueuedEmpty
  <2>5. (<<>> \o <<>>) \o <<>> = <<>>
    OBVIOUS
  <2> QED
    BY <2>2, <2>3, <2>4, <2>5 DEF OnWay
<1> QED
  BY <1>1, <1>2 DEF Channel!ChannelInit

LEMMA ChannelStep == IngestInv /\ [Next]_vars => [Channel!ChannelNext]_(Channel!channel)
<1> SUFFICES ASSUME IngestInv, [Next]_vars PROVE [Channel!ChannelNext]_(Channel!channel)
  OBVIOUS
<1>1. CASE LinkConnects
  BY <1>1, ConnectChannel
<1>2. CASE LinkWrites
  BY <1>2, WriteChannel DEF Channel!ChannelNext
<1>3. CASE DrainEnds
  <2>1. UNCHANGED <<streams, server, last>> /\ (Drained \/ DrainFails)
    BY <1>3, Zenon DEF DrainEnds
  <2> QED
    BY <2>1, LinkChannel
<1>4. CASE LinkSteps
  <2>1. /\ UNCHANGED <<streams, server, last>>
        /\ Send \/ Ready \/ Closed \/ HelloFails \/ EncodeFails \/ PeerClosed
    BY <1>4, Zenon DEF LinkSteps
  <2> QED
    BY <2>1, SendChannel, LinkChannel
<1>5. ASSUME NEW c \in open, Read(c) \/ HandlerEnds(c)
      PROVE  [Channel!ChannelNext]_(Channel!channel)
  BY <1>5, ReadChannel, EndChannel DEF Channel!ChannelNext
<1>6. CASE WorkerTakes
  BY <1>6, TakeChannel
<1>7. CASE QueueCleared
  BY <1>7, ClearChannel DEF Channel!ChannelNext
<1>8. CASE UNCHANGED vars
  <2>1. /\ handed' = handed /\ last' = last /\ ingest' = ingest /\ wire' = wire
        /\ buf' = buf /\ queue' = queue /\ connects' = connects
    BY <1>8 DEF vars, link, counters, streams, server
  <2>2. \A c \in Conns : OnWay(c)' = OnWay(c)
    BY <2>1 DEF OnWay, Queued, Current
  <2> QED
    BY <2>1, <2>2, ChannelStays
<1> QED
  BY <1>1, <1>2, <1>3, <1>4, <1>5, <1>6, <1>7, <1>8 DEF Next

-----------------------------------------------------------------------------
(* What follows.                                                           *)

LEMMA InvGives == IngestInv => TypeOK /\ CutAnywhere /\ FramesAccounted /\ RowsAccounted
<1> SUFFICES ASSUME IngestInv PROVE TypeOK /\ CutAnywhere /\ FramesAccounted /\ RowsAccounted
  OBVIOUS
<1>1. BytesOK /\ OpenOK /\ CutOK /\ ServerOK /\ FramesAccounted /\ LinkInv
  BY DEF IngestInv, LinkOK
<1>2. TypeOK
  <2>1. LinkTypeOK
    BY <1>1 DEF LinkInv
  <2>2. open \subseteq Conns \cup {Other}
    BY <1>1 DEF OpenOK, All
  <2>3. \A c \in Conns \cup {Other} : \A s \in {wire[c], buf[c], got[c]} : s \in Seq(Nat)
    BY <1>1 DEF BytesOK, All
  <2>4. stats \in [connections : 0..(MaxConnects + 1), reconnects : Nat, dropped : Nat]
    <3>1. Cardinality(open) \in Nat /\ Cardinality(open) <= MaxConnects + 1
      BY <1>1, OpenFinite
    <3>2. MaxConnects \in Nat
      BY LinkAssumption
    <3>3. Cardinality(open) \in 0..(MaxConnects + 1)
      BY <3>1, <3>2
    <3> QED
      BY <1>1, <3>3 DEF ServerOK, StatsType
  <2>5. Len(ingest) <= IngestMax /\ owed \in Nat
    BY <1>1 DEF ServerOK, StatsType, FramesAccounted
  <2> QED
    BY <1>1, <2>1, <2>2, <2>3, <2>4, <2>5 DEF TypeOK, ServerOK
<1>3. CutAnywhere
  <2>1. ASSUME NEW c \in open
        PROVE  Feed(<<>>, got[c]).buf = buf[c] /\ Feed(<<>>, got[c]).frames = whole[c]
    <3>1. c \in All /\ got[c] \in Seq(Nat)
      BY <1>1 DEF OpenOK, BytesOK
    <3>2. <<>> \o got[c] = got[c]
      BY <3>1
    <3>3. Cut[got[c]] = [frames |-> whole[c], buf |-> buf[c]]
      BY <1>1, <3>1 DEF CutOK
    <3> QED
      BY <3>2, <3>3 DEF Feed
  <2> QED
    BY <2>1 DEF CutAnywhere
<1> QED
  BY <1>1, <1>2, <1>3 DEF LinkInv

LEMMA IngestSafe == Spec => []IngestInv
  BY IngestInit, IngestStep, PTL DEF Spec

(* Every variable keeps the values that TypeOK names: the queues keep their  *)
(* limits, and the connections the server counts are those that run.        *)
THEOREM TypeCorrect == Spec => []TypeOK
  BY IngestSafe, InvGives, PTL

(* FrameDecoder.feed: however the bytes of a connection are cut into        *)
(* chunks, the frames it has returned and the bytes it keeps are those of   *)
(* the whole stream fed at once.                                            *)
THEOREM CutsSound == Spec => []CutAnywhere
  BY IngestSafe, InvGives, PTL

(* DropOldestQueue and IngestStats: every row put into the ingest queue was *)
(* taken, cleared, is in the queue or is counted as dropped, and the queue  *)
(* never grows beyond its limit.                                            *)
THEOREM FramesSafe == Spec => []FramesAccounted
  BY IngestSafe, InvGives, PTL

(* LinkStats, with the server at the other end: every row handed to send is *)
(* sent, dropped, queued or in hand, but for one of each broken connection. *)
THEOREM RowsSafe == Spec => []RowsAccounted
  BY IngestSafe, InvGives, PTL

(* From send to run_worker: bytes, chunks, handlers and queues make of each *)
(* connection a channel that may lose rows, but never repeats, changes or   *)
(* reorders one: the refinement of RowChannel.                              *)
THEOREM WayIsAChannel == Spec => ImplementsChannel
  BY ChannelStart, ChannelStep, IngestSafe, PTL DEF Spec, ImplementsChannel, Channel!ChannelSpec

-----------------------------------------------------------------------------
(* What the channel promises, RowChannel, of the rows of this program.     *)

OnWays == [c \in Conns |-> OnWay(c)]

NewerOnWay ==
  /\ \A c \in Conns : \A i \in 1..Len(OnWays[c]) :
       /\ OnWays[c][i] \in (last[c] + 1)..handed
       /\ \A j \in 1..(i - 1) : OnWays[c][j] < OnWays[c][i]
  /\ \A c, d \in Conns : \A i \in 1..Len(OnWays[c]), j \in 1..Len(OnWays[d]) :
       c # d => OnWays[c][i] # OnWays[d][j]

ChannelTypeOK ==
  /\ handed \in Nat
  /\ OnWays \in [Conns -> Seq(Nat)]
  /\ last \in [Conns -> Nat]

ChannelSound == ChannelTypeOK /\ NewerOnWay /\ \A c \in Conns : last[c] <= handed

(* What the three changes of a channel do to its elements.                 *)

LEMMA AppendedAt ==
  ASSUME NEW s \in Seq(Nat), NEW x \in Nat, NEW i \in 1..Len(Append(s, x))
  PROVE  \/ i \in 1..Len(s) /\ Append(s, x)[i] = s[i]
         \/ i = Len(s) + 1 /\ Append(s, x)[i] = x
<1>1. Len(Append(s, x)) = Len(s) + 1 /\ Len(s) \in Nat
  OBVIOUS
<1> QED
  BY <1>1

LEMMA TailAt ==
  ASSUME NEW s \in Seq(Nat), s # <<>>, NEW i \in 1..Len(Tail(s))
  PROVE  i + 1 \in 1..Len(s) /\ i + 1 > 1 /\ Tail(s)[i] = s[i + 1]
<1>1. Len(Tail(s)) = Len(s) - 1 /\ Len(s) \in Nat
  OBVIOUS
<1> QED
  BY <1>1

(* Every element left stood further on in the sequence, in the same order. *)
LEMMA ThinnedAt ==
  ASSUME NEW s \in Seq(Nat), NEW t \in Channel!Thinned[s]
  PROVE  /\ t \in Seq(Nat)
         /\ \E f \in [1..Len(t) -> 1..Len(s)] :
              /\ \A i, j \in 1..Len(t) : i < j => f[i] < f[j]
              /\ \A i \in 1..Len(t) : t[i] = s[f[i]]
<1>1. Channel!Thinned[s] = UNION {{[i \in 1..n |-> s[f[i]]] : f \in Channel!Increasing(n, Len(s))} : n \in 0..Len(s)}
  BY DEF Channel!Thinned
<1>5. PICK n \in 0..Len(s) : t \in {[i \in 1..n |-> s[f[i]]] : f \in Channel!Increasing(n, Len(s))}
  BY <1>1
<1>2. PICK f \in Channel!Increasing(n, Len(s)) : t = [i \in 1..n |-> s[f[i]]]
  BY <1>5
<1>3. n \in Nat /\ f \in [1..n -> 1..Len(s)]
  BY <1>2 DEF Channel!Increasing
<1>4. t \in Seq(Nat) /\ Len(t) = n
  <2>1. \A i \in 1..n : s[f[i]] \in Nat
    BY <1>3
  <2> QED
    BY <1>2, <1>3, <2>1
<1> QED
  BY <1>2, <1>3, <1>4 DEF Channel!Increasing

LEMMA ChannelSoundStart == Channel!ChannelInit => ChannelSound
<1> SUFFICES ASSUME Channel!ChannelInit PROVE ChannelSound
  OBVIOUS
<1>1. handed = 0 /\ OnWays = [c \in Conns |-> <<>>] /\ last = [c \in Conns |-> 0]
  BY DEF Channel!ChannelInit, OnWays
<1>2. \A c \in Conns : OnWays[c] = <<>> /\ last[c] = 0
  BY <1>1
<1>3. ChannelTypeOK
  BY <1>1 DEF ChannelTypeOK
<1>4. NewerOnWay
  BY <1>2 DEF NewerOnWay
<1> QED
  BY <1>1, <1>2, <1>3, <1>4 DEF ChannelSound

(* A new row is newer than every row handed before.                        *)
LEMMA SoundPut ==
  ASSUME ChannelSound, NEW c \in Conns, Channel!Put(c)
  PROVE  ChannelSound'
<1> USE DEF ChannelSound, ChannelTypeOK
<1>1. /\ handed' = handed + 1 /\ last' = last
      /\ OnWays' = [OnWays EXCEPT ![c] = Append(OnWays[c], handed + 1)]
  BY DEF Channel!Put, OnWays
<1>2. OnWays'[c] = Append(OnWays[c], handed + 1) /\ \A d \in Conns \ {c} : OnWays'[d] = OnWays[d]
  BY <1>1
<1>3. OnWays' \in [Conns -> Seq(Nat)] /\ handed' \in Nat
  BY <1>1
<1>4. \A d \in Conns : \A i \in 1..Len(OnWays'[d]) :
        \/ i \in 1..Len(OnWays[d]) /\ OnWays'[d][i] = OnWays[d][i]
        \/ d = c /\ i = Len(OnWays[c]) + 1 /\ OnWays'[d][i] = handed + 1
  <2>1. OnWays[c] \in Seq(Nat) /\ handed + 1 \in Nat
    OBVIOUS
  <2>2. \A i \in 1..Len(OnWays'[c]) :
          \/ i \in 1..Len(OnWays[c]) /\ OnWays'[c][i] = OnWays[c][i]
          \/ i = Len(OnWays[c]) + 1 /\ OnWays'[c][i] = handed + 1
    BY <1>2, <2>1, AppendedAt
  <2> QED
    BY <1>2, <2>2
<1>5. \A d \in Conns : Len(OnWays[d]) \in Nat /\ last[d] \in Nat /\ last[d] <= handed
  OBVIOUS
<1>6. \A d \in Conns : \A i \in 1..Len(OnWays[d]) : OnWays[d][i] \in (last[d] + 1)..handed
  BY DEF NewerOnWay
<1>7. \A d \in Conns : \A i \in 1..Len(OnWays'[d]) : OnWays'[d][i] \in (last'[d] + 1)..handed'
  BY SMTT(30), <1>1, <1>4, <1>5, <1>6
<1>8. ASSUME NEW d \in Conns, NEW i \in 1..Len(OnWays'[d]), NEW j \in 1..(i - 1)
      PROVE  OnWays'[d][j] < OnWays'[d][i]
  <2>1. j \in 1..Len(OnWays'[d]) /\ j < i
    BY <1>3
  <2>2. j \in 1..Len(OnWays[d]) /\ OnWays'[d][j] = OnWays[d][j]
    BY SMTT(30), <1>4, <1>5, <2>1
  <2>3. CASE i \in 1..Len(OnWays[d]) /\ OnWays'[d][i] = OnWays[d][i]
    BY <2>2, <2>3 DEF NewerOnWay
  <2>4. CASE OnWays'[d][i] = handed + 1
    BY SMTT(30), <1>5, <1>6, <2>2, <2>4
  <2> QED
    BY <1>4, <2>3, <2>4
<1>9. ASSUME NEW d \in Conns, NEW e \in Conns,
             NEW i \in 1..Len(OnWays'[d]), NEW j \in 1..Len(OnWays'[e]), d # e
      PROVE  OnWays'[d][i] # OnWays'[e][j]
  <2>1. i \in 1..Len(OnWays[d]) /\ j \in 1..Len(OnWays[e]) => OnWays[d][i] # OnWays[e][j]
    BY <1>9 DEF NewerOnWay
  <2>2. /\ i \in 1..Len(OnWays[d]) => OnWays[d][i] \in 0..handed
        /\ j \in 1..Len(OnWays[e]) => OnWays[e][j] \in 0..handed
    BY SMTT(30), <1>5, <1>6
  <2>3. \/ i \in 1..Len(OnWays[d]) /\ OnWays'[d][i] = OnWays[d][i]
        \/ d = c /\ OnWays'[d][i] = handed + 1
    BY <1>4
  <2>4. \/ j \in 1..Len(OnWays[e]) /\ OnWays'[e][j] = OnWays[e][j]
        \/ e = c /\ OnWays'[e][j] = handed + 1
    BY <1>4
  <2> QED
    BY SMTT(30), <1>9, <2>1, <2>2, <2>3, <2>4
<1>10. \A d \in Conns : last'[d] <= handed'
  BY <1>1, <1>5
<1> QED
  BY <1>1, <1>3, <1>7, <1>8, <1>9, <1>10 DEF NewerOnWay

LEMMA SoundLose ==
  ASSUME ChannelSound, Channel!Lose
  PROVE  ChannelSound'
<1> USE DEF ChannelSound, ChannelTypeOK
<1>1. handed' = handed /\ last' = last /\ OnWays' \in [Conns -> Seq(Nat)]
  BY DEF Channel!Lose, OnWays
<1>2. ASSUME NEW c \in Conns
      PROVE  /\ OnWays'[c] \in Seq(Nat)
             /\ \E f \in [1..Len(OnWays'[c]) -> 1..Len(OnWays[c])] :
                  /\ \A i, j \in 1..Len(OnWays'[c]) : i < j => f[i] < f[j]
                  /\ \A i \in 1..Len(OnWays'[c]) : OnWays'[c][i] = OnWays[c][f[i]]
  <2> DEFINE s == OnWays[c]
             r == OnWays'[c]
  <2>1. OnWays' \in [Conns -> Seq(Nat)] /\ OnWays'[c] \in Channel!Thinned[OnWays[c]]
    BY Zenon DEF Channel!Lose, OnWays
  <2>2. s \in Seq(Nat) /\ r \in Channel!Thinned[s]
    BY <2>1
  <2> HIDE DEF s, r
  <2>3. /\ r \in Seq(Nat)
        /\ \E f \in [1..Len(r) -> 1..Len(s)] :
             /\ \A i, j \in 1..Len(r) : i < j => f[i] < f[j]
             /\ \A i \in 1..Len(r) : r[i] = s[f[i]]
    BY <2>2, ThinnedAt
  <2> QED
    BY <2>3 DEF s, r
<1>4. \A c \in Conns : \A i \in 1..Len(OnWays'[c]) :
        \E k \in 1..Len(OnWays[c]) : OnWays'[c][i] = OnWays[c][k]
  <2> TAKE c \in Conns
  <2>1. PICK f \in [1..Len(OnWays'[c]) -> 1..Len(OnWays[c])] :
               \A i \in 1..Len(OnWays'[c]) : OnWays'[c][i] = OnWays[c][f[i]]
    BY <1>2
  <2> QED
    BY <2>1
<1>5. ASSUME NEW c \in Conns, NEW i \in 1..Len(OnWays'[c])
      PROVE  /\ OnWays'[c][i] \in (last[c] + 1)..handed
             /\ \A j \in 1..(i - 1) : OnWays'[c][j] < OnWays'[c][i]
  <2>1. PICK f \in [1..Len(OnWays'[c]) -> 1..Len(OnWays[c])] :
               /\ \A k, j \in 1..Len(OnWays'[c]) : k < j => f[k] < f[j]
               /\ \A k \in 1..Len(OnWays'[c]) : OnWays'[c][k] = OnWays[c][f[k]]
    BY <1>2
  <2>2. Len(OnWays'[c]) \in Nat /\ Len(OnWays[c]) \in Nat
    BY <1>1
  <2>3. f[i] \in 1..Len(OnWays[c]) /\ OnWays'[c][i] = OnWays[c][f[i]]
    BY <2>1
  <2>4. /\ OnWays[c][f[i]] \in (last[c] + 1)..handed
        /\ \A k \in 1..(f[i] - 1) : OnWays[c][k] < OnWays[c][f[i]]
    BY <2>3 DEF NewerOnWay
  <2>5. ASSUME NEW j \in 1..(i - 1) PROVE OnWays'[c][j] < OnWays'[c][i]
    <3>1. j \in 1..Len(OnWays'[c]) /\ j < i
      BY <2>2
    <3>2. f[j] \in 1..Len(OnWays[c]) /\ f[j] < f[i] /\ OnWays'[c][j] = OnWays[c][f[j]]
      BY <2>1, <3>1
    <3>3. f[j] \in 1..(f[i] - 1)
      BY <2>2, <2>3, <3>2
    <3> QED
      BY <2>3, <2>4, <3>2, <3>3
  <2> QED
    BY <2>3, <2>4, <2>5
<1> QED
  BY <1>1, <1>4, <1>5 DEF NewerOnWay

LEMMA SoundTake ==
  ASSUME ChannelSound, NEW c \in Conns, Channel!Take(c)
  PROVE  ChannelSound' /\ last[c] <= last'[c] /\ \A d \in Conns \ {c} : last'[d] = last[d]
<1> USE DEF ChannelSound, ChannelTypeOK
<1>1. /\ handed' = handed /\ OnWays[c] # <<>>
      /\ last' = [last EXCEPT ![c] = Head(OnWays[c])]
      /\ OnWays' = [OnWays EXCEPT ![c] = Tail(OnWays[c])]
  BY DEF Channel!Take, OnWays
<1>2. Len(OnWays[c]) \in Nat /\ 1 \in 1..Len(OnWays[c]) /\ Head(OnWays[c]) = OnWays[c][1]
  BY <1>1
<1>3. OnWays[c][1] \in (last[c] + 1)..handed /\ last[c] \in Nat
  BY <1>2 DEF NewerOnWay
<1>4. /\ last'[c] = OnWays[c][1] /\ \A d \in Conns \ {c} : last'[d] = last[d]
      /\ last' \in [Conns -> Nat]
  BY <1>1, <1>2, <1>3
<1>5. /\ OnWays'[c] = Tail(OnWays[c]) /\ \A d \in Conns \ {c} : OnWays'[d] = OnWays[d]
      /\ OnWays' \in [Conns -> Seq(Nat)]
  BY <1>1
<1>6. \A i \in 1..Len(OnWays'[c]) : i + 1 \in 1..Len(OnWays[c]) /\ OnWays'[c][i] = OnWays[c][i + 1]
  BY <1>1, <1>5, TailAt
<1>7. ASSUME NEW i \in 1..Len(OnWays'[c])
      PROVE  /\ OnWays'[c][i] \in (last'[c] + 1)..handed
             /\ \A j \in 1..(i - 1) : OnWays'[c][j] < OnWays'[c][i]
  <2>1. 1 \in 1..((i + 1) - 1) /\ \A j \in 1..(i - 1) : j + 1 \in 1..((i + 1) - 1)
    OBVIOUS
  <2>2. /\ OnWays[c][i + 1] \in (last[c] + 1)..handed
        /\ \A j \in 1..((i + 1) - 1) : OnWays[c][j] < OnWays[c][i + 1]
    BY <1>6 DEF NewerOnWay
  <2>3. \A j \in 1..(i - 1) : j \in 1..Len(OnWays'[c])
    BY <1>5
  <2> QED
    BY SMTT(30), <1>3, <1>4, <1>6, <2>1, <2>2, <2>3
<1>8. \A d \in Conns : \A i \in 1..Len(OnWays'[d]) :
        \E k \in 1..Len(OnWays[d]) : OnWays'[d][i] = OnWays[d][k]
  BY <1>5, <1>6
<1>9. \A d \in Conns : last'[d] <= handed'
  BY <1>1, <1>3, <1>4
<1>10. \A d \in Conns \ {c} : \A i \in 1..Len(OnWays'[d]) :
         /\ OnWays'[d][i] \in (last'[d] + 1)..handed
         /\ \A j \in 1..(i - 1) : OnWays'[d][j] < OnWays'[d][i]
  BY <1>4, <1>5 DEF NewerOnWay
<1>11. NewerOnWay'
  <2>1. ASSUME NEW d \in Conns, NEW i \in 1..Len(OnWays'[d])
        PROVE  /\ OnWays'[d][i] \in (last'[d] + 1)..handed'
               /\ \A j \in 1..(i - 1) : OnWays'[d][j] < OnWays'[d][i]
    BY <1>1, <1>7, <1>10
  <2>2. ASSUME NEW d \in Conns, NEW e \in Conns,
               NEW i \in 1..Len(OnWays'[d]), NEW j \in 1..Len(OnWays'[e]), d # e
        PROVE  OnWays'[d][i] # OnWays'[e][j]
    <3>1. PICK k \in 1..Len(OnWays[d]) : OnWays'[d][i] = OnWays[d][k]
      BY <1>8
    <3>2. PICK l \in 1..Len(OnWays[e]) : OnWays'[e][j] = OnWays[e][l]
      BY <1>8
    <3> QED
      BY <2>2, <3>1, <3>2 DEF NewerOnWay
  <2> QED
    BY <2>1, <2>2 DEF NewerOnWay
<1> QED
  BY <1>1, <1>3, <1>4, <1>5, <1>9, <1>11

LEMMA SoundStep == ChannelSound /\ [Channel!ChannelNext]_(Channel!channel) => ChannelSound' /\ \A c \in Conns : last[c] <= last'[c]
<1> SUFFICES ASSUME ChannelSound, [Channel!ChannelNext]_(Channel!channel)
             PROVE  ChannelSound' /\ \A c \in Conns : last[c] <= last'[c]
  OBVIOUS
<1>0. \A c \in Conns : last[c] \in Nat
  BY DEF ChannelSound, ChannelTypeOK
<1>1. CASE Channel!Refuse
  BY <1>0, <1>1 DEF Channel!Refuse, OnWays, ChannelSound, ChannelTypeOK, NewerOnWay
<1>2. CASE Channel!Lose
  BY <1>0, <1>2, SoundLose DEF Channel!Lose, OnWays
<1>3. ASSUME NEW c \in Conns, Channel!Put(c) PROVE ChannelSound' /\ \A d \in Conns : last[d] <= last'[d]
  <2>1. ChannelSound' /\ last' = last
    BY <1>3, SoundPut DEF Channel!Put, OnWays
  <2> QED
    BY <1>0, <2>1
<1>4. ASSUME NEW c \in Conns, Channel!Take(c) PROVE ChannelSound' /\ \A d \in Conns : last[d] <= last'[d]
  BY <1>0, <1>4, SoundTake
<1>5. CASE UNCHANGED Channel!channel
  BY <1>0, <1>5 DEF Channel!channel, OnWays, ChannelSound, ChannelTypeOK, NewerOnWay
<1> QED
  BY <1>1, <1>2, <1>3, <1>4, <1>5 DEF Channel!ChannelNext

(* From send to run_worker: what is on its way on a connection is newer    *)
(* than the row delivered last on it, in order, and no row is on its way   *)
(* on two connections.                                                     *)
THEOREM WaySafe == Spec => []Channel!ChannelInv
<1>1. ChannelSound => Channel!ChannelInv
  BY DEF ChannelSound, NewerOnWay, Channel!ChannelInv, OnWays
<1> QED
  BY WayIsAChannel, ChannelSoundStart, SoundStep, <1>1, PTL
     DEF ImplementsChannel, Channel!ChannelSpec

(* From send to run_worker: the rows of a connection are delivered in the  *)
(* order they were handed over, each at most once, whatever is lost        *)
(* between them.                                                           *)
THEOREM WayOrdered == Spec => Channel!DeliveredInOrder
<1>1. ChannelSound /\ [Channel!ChannelNext]_(Channel!channel)
        => [\A c \in Conns : last[c] <= last'[c]]_(Channel!channel)
  BY SoundStep
<1> QED
  BY WayIsAChannel, ChannelSoundStart, SoundStep, <1>1, PTL
     DEF ImplementsChannel, Channel!ChannelSpec, Channel!DeliveredInOrder
=============================================================================

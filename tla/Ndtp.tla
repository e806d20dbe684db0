------------------------------- MODULE Ndtp -------------------------------
(***************************************************************************)
(* NDTP on the wire (transit_core/ndtp: codec.py, cells.py, framing.py).   *)
(*                                                                         *)
(* The layout is scaled: a frame is                                        *)
(*     <<S, S, size, crc, type>> \o <<kind>> \o body                       *)
(* in the order of the real header (signature, dataSize, crc, NPL type);   *)
(* size, crc and the NPH header take one cell each, and a payload of a     *)
(* cell of telematics takes one.  The length, what the crc covers and the  *)
(* rules of resynchronisation are those of the code.                       *)
(***************************************************************************)
EXTENDS Integers, Sequences

S == 126         \* half of SIGNATURE
NplType == 2     \* NPL_TYPE_NPH
NplLen == 5
NphLen == 1

ConnRequest == 100
Realtime == 101

NavType == 0
Crown == 3
Irma == 4
CellSize == [t \in {NavType, Crown, Irma} |-> 1]

From(s, i) == SubSeq(s, i, Len(s))

-----------------------------------------------------------------------------
(* Encoding.                                                               *)

Crc(data) ==
  LET sum[i \in 0..Len(data)] == IF i = 0 THEN 0 ELSE sum[i - 1] + data[i]
  IN sum[Len(data)] % 97

BuildFrame(kind, body) ==
  LET data == <<kind>> \o body
  IN <<S, S, Len(data), Crc(data), NplType>> \o data

EncodeHandshake == BuildFrame(ConnRequest, <<0>>)

EncodeCell(type, value) == <<type, 0, value>>

EncodeRealtime(nav, extra) == BuildFrame(Realtime, EncodeCell(NavType, nav) \o extra)

-----------------------------------------------------------------------------
(* Decoding of one whole frame.                                            *)

(* The cells from a position of a realtime body on.  A cell of an unknown  *)
(* type ends the list without an error, a cut payload is an error.         *)
DecodeCells(body) ==
  LET at[p \in 1..(Len(body) + 3)] ==
        IF p + 1 > Len(body) \/ (p + 1 <= Len(body) /\ body[p] \notin DOMAIN CellSize)
        THEN [cells |-> <<>>, truncated |-> FALSE]
        ELSE IF p + 1 + CellSize[body[p]] > Len(body)
        THEN [cells |-> <<>>, truncated |-> TRUE]
        ELSE LET rest == at[p + 2 + CellSize[body[p]]]
             IN [rest EXCEPT !.cells = <<[type |-> body[p], value |-> body[p + 2]]>> \o @]
  IN at[1]

(* The value of the first cell of a type, if there is one.                 *)
Cell == [type : Nat, value : Nat]
FirstOf(type) ==
  [cells \in Seq(Cell) |->
     LET at == {i \in DOMAIN cells : cells[i].type = type}
     IN IF at = {} THEN <<>> ELSE <<cells[CHOOSE i \in at : \A j \in at : i <= j].value>>]

(* Nav00 is the first navigation cell of the frame, if there is one.       *)
Navs(cells) == FirstOf(NavType)[cells]

(* door_snapshot: the first cell of IRMA, or else of Crown, which knows    *)
(* nothing of open doors.  One door: 1 is present and open.                *)
DoorSnapshot(cells) ==
  LET irma == FirstOf(Irma)[cells]
  IN IF irma # <<>> THEN <<<<Irma, irma[1] = 1>>>>
     ELSE IF FirstOf(Crown)[cells] # <<>> THEN <<<<Crown, FALSE>>>>
     ELSE <<>>

Frames == [kind : Nat, crcOk : BOOLEAN, nav : Seq(Nat), doors : Seq(Nat \X BOOLEAN)]

(* decode_frame: a frame, or none when its body cannot be parsed.  A bad   *)
(* checksum does not keep a frame from being parsed.                       *)
DecodeFrame(raw) ==
  LET kind == raw[NplLen + 1]
      body == From(raw, NplLen + NphLen + 1)
      parsed == DecodeCells(body)
      telematics == kind = Realtime
      broken == \/ kind = ConnRequest /\ Len(body) # 1
                \/ telematics /\ parsed.truncated
  IN IF broken THEN <<>>
     ELSE <<[kind  |-> kind,
             crcOk |-> Crc(From(raw, NplLen + 1)) = raw[4],
             nav   |-> IF telematics THEN Navs(parsed.cells) ELSE <<>>,
             doors |-> IF telematics THEN DoorSnapshot(parsed.cells) ELSE <<>>]>>

-----------------------------------------------------------------------------
(* Framing of a stream.                                                    *)

\* Mistake: half a signature at the end of a chunk is taken for noise.
SkipToSignatureKeepsNothing(buf) ==
  LET at == {i \in 1..(Len(buf) - 1) : buf[i] = S /\ buf[i + 1] = S}
  IN IF at = {} THEN <<>>
     ELSE From(buf, CHOOSE i \in at : \A j \in at : i <= j)

SkipToSignature(buf) ==
  LET at == {i \in 1..(Len(buf) - 1) : buf[i] = S /\ buf[i + 1] = S}
  IN IF at # {} THEN From(buf, CHOOSE i \in at : \A j \in at : i <= j)
     ELSE IF buf # <<>> /\ buf[Len(buf)] = S THEN <<S>>
     ELSE <<>>

HeaderOk(buf) == buf[3] >= NphLen /\ buf[5] = NplType

(* The whole frames of a buffer, in order and without those that cannot be *)
(* parsed, and the bytes that wait for more.                               *)
Cut[buf \in Seq(Nat)] ==
  LET b == SkipToSignature(buf)
      total == NplLen + b[3]
  IN IF Len(b) < NplLen THEN [frames |-> <<>>, buf |-> b]
     ELSE IF ~HeaderOk(b) THEN Cut[Tail(b)]
     ELSE IF Len(b) < total THEN [frames |-> <<>>, buf |-> b]
     ELSE [Cut[From(b, total + 1)] EXCEPT !.frames = DecodeFrame(SubSeq(b, 1, total)) \o @]

(* FrameDecoder.feed.                                                      *)
Feed(buf, data) == Cut[buf \o data]
=============================================================================

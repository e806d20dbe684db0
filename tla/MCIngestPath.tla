---------------------------- MODULE MCIngestPath ----------------------------
(* Streams of a terminal other than the replayer's, for TLC.               *)
EXTENDS IngestPath

Row == MaxRows + 1

\* A good frame with a cell of the doors and a cell of an unknown type.
Doors == EncodeRealtime(Row, EncodeCell(Irma, 1) \o EncodeCell(9, 1))
\* The checksum does not match.
Damaged == LET good == EncodeRealtime(Row, <<>>) IN [good EXCEPT ![4] = @ + 1]
\* The payload of the last cell is cut off; the frame itself is whole.
Truncated == BuildFrame(Realtime, <<NavType, 0, Row, Crown, 0>>)

MCForeign == {<<>>, <<S>> \o Doors, Damaged \o <<7, S>>, <<S, S, 0, 1, 1>> \o Truncated}
=============================================================================

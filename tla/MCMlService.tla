---------------------------- MODULE MCMlService ----------------------------
(***************************************************************************)
(* Two threads that reload, two runs of the trainer, one death of the      *)
(* service.  The rows are chosen so that scores are whole multiples of     *)
(* 1/20, the step of train.py's grid of scales: the distances of the       *)
(* quantiles from the median are 1, 2 or 4 seconds.                        *)
(***************************************************************************)
EXTENDS MlService

MCLeadEdges == <<10, 11, 12, 13>>

\* A row: the median m with distances a and b, the true delay, lead, fold.
Row(m, a, b, y, lead, fold) == [q |-> <<m - a, m, m + b>>, y |-> y, lead |-> {lead}, fold |-> fold]
NoLead(row) == [row EXCEPT !.lead = {}]

\* Two full bins, wide misses in the second one.
Skewed == <<Row(118, 2, 4, 119, 11, 1), Row(121, 4, 1, 119, 11, 2), Row(60, 1, 2, 62, 11, 3),
            Row(122, 4, 2, 135, 13, 1), Row(119, 2, 1, 109, 13, 2), Row(117, 1, 4, 131, 12, 3),
            Row(125, 4, 4, 129, 12, 1)>>
\* One early bin alone is full, the rest joins it; a row without a lead.
Thin == <<Row(118, 2, 2, 122, 11, 1), Row(118, 4, 4, 118, 11, 2), Row(121, 1, 1, 118, 12, 1),
          NoLead(Row(130, 2, 4, 124, 11, 2))>>
\* Leads beyond the edges go to the outer bins; ten rows in one of them.
Wide == [i \in 1..10 |-> Row(116 + i, 2, 2, IF i % 3 = 0 THEN 117 ELSE 113 + 2 * i,
                             IF i = 1 THEN 9 ELSE IF i = 2 THEN 14 ELSE 13, 1 + (i % 2))]

MCDrawn == <<{Skewed, Thin}, {Wide}>>
MCOutputs == {<<-4, 0, 2>>, <<3, 1, -1>>, <<0, 0, 0>>, <<2, 2, 6>>}
MCBases == {60, 116, 119, 121, 130}
MCLeads == {{}, {9}, {11}, {12}, {14}}
=============================================================================

---------------------------- MODULE MC_FlooderLog ----------------------------
(* Three switches as in MC_Flooder, and the first three queries followed   *)
(* into the log: enough for a batch of two, a reply lost to a leave and a  *)
(* query to a switch that rejoined and was described again.               *)
EXTENDS FlooderLog

CONSTANTS d1, d2, d3

DpidsMC == {d1, d2, d3}

=============================================================================

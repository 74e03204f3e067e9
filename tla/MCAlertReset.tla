---------------------------- MODULE MCAlertReset ----------------------------
(* Alerts to be reset on both devices of an edge, and the two kinds that are *)
(* never reset.                                                              *)
EXTENDS AlertReset, TLC

CONSTANTS d1, d2, e1, s0, s1

MCEdgeOf == [d \in Devices |-> e1]
Row(d, c, l, s) == [device |-> d, connect |-> c, level |-> l, status |-> s]
MCNewRows == {Row(d1, FALSE, 1, s0), Row(d2, FALSE, 1, s0),
              Row(d1, TRUE, 1, s0), Row(d1, FALSE, 0, s0)}
Symmetry == Permutations(Resets) \cup Permutations(Ids)
=============================================================================

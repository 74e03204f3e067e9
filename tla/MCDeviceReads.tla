---------------------------- MODULE MCDeviceReads ----------------------------
(***************************************************************************)
(* Devices d1 and d2 of one model and edge with a service each.  p1 and c2 *)
(* have the name of pm, and em has no name.                                *)
(***************************************************************************)
EXTENDS DeviceReads, TLC

CONSTANTS d1, d2, s1, s2, p1, c2, e2, m1, sm, pm, em

MCDeviceOf == s1 :> d1 @@ s2 :> d2
MCServiceOf == p1 :> s1 @@ [x \in {c2, e2} |-> s2]
MCServiceModelOf == [x \in {pm, em} |-> sm]
MCModelOf == [x \in {d1, d2, sm} |-> m1]
MCEdgeOf == [d \in {d1, d2} |-> "edge"]
MCProtocolOf == d1 :> "mqtt" @@ d2 :> "opc"
MCKindOf == [x \in {p1, pm} |-> "property"] @@ [x \in {e2, em} |-> "event"] @@ c2 :> "command"
MCNameOf == [x \in {p1, c2, pm} |-> "t"] @@ e2 :> "u" @@ em :> ""
=============================================================================

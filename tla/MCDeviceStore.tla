---------------------------- MODULE MCDeviceStore ----------------------------
(* Constants for TLC: one device with one service, whose events all bear    *)
(* one name, and an alert.                                                  *)
EXTENDS DeviceStore, TLC

CONSTANTS d1, s1, e1, e2, a1

MCDeviceOf  == [x \in Services \cup Alerts |-> d1]
MCServiceOf == [e \in Events |-> s1]
MCSameName  == [e \in Events |-> Events]

Symmetry == Permutations(Calls)
=============================================================================

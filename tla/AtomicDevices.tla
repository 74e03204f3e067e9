---------------------------- MODULE AtomicDevices ----------------------------
(***************************************************************************)
(* What the device tables promise to a reader: devices with their services *)
(* and the events of those.  Nothing is ever without its owner, and a      *)
(* device takes all it owns with it in a single step.                      *)
(***************************************************************************)
CONSTANTS Devices, Services, Events, DeviceOf, ServiceOf

VARIABLES alive, parts

Owner(p) == IF p \in Services THEN DeviceOf[p] ELSE DeviceOf[ServiceOf[p]]

Owned(d) == {p \in Services \cup Events : Owner(p) = d}

Init == alive = {} /\ parts = {}

Create(d, P) ==
  /\ d \notin alive
  /\ P \subseteq Owned(d)
  /\ alive' = alive \cup {d}
  /\ parts' = parts \cup P

\* A service or an event joins a device.
Join(p) ==
  /\ Owner(p) \in alive
  /\ p \in Events => ServiceOf[p] \in parts
  /\ parts' = parts \cup {p}
  /\ UNCHANGED alive

\* Events of one service leave, or services of one device without events.
LeaveEvents(s) ==
  /\ \E E \in SUBSET {e \in Events : ServiceOf[e] = s} : parts' = parts \ E
  /\ UNCHANGED alive

LeaveServices(d) ==
  /\ \A e \in parts \cap Events : Owner(e) # d
  /\ parts' = parts \ Owned(d)
  /\ UNCHANGED alive

Remove(d) ==
  /\ d \in alive
  /\ alive' = alive \ {d}
  /\ parts' = parts \ Owned(d)

Next ==
  \/ \E d \in Devices : \E P \in SUBSET Owned(d) : Create(d, P)
  \/ \E p \in Services \cup Events : Join(p)
  \/ \E s \in Services : LeaveEvents(s)
  \/ \E d \in Devices : LeaveServices(d) \/ Remove(d)

Spec == Init /\ [][Next]_<<alive, parts>>
=============================================================================

------------------------------ MODULE AlertReset ------------------------------
(***************************************************************************)
(* InitAlertLogByEdgeId and InitAlertLogByDeviceId: set the status of every *)
(* alert of an edge or of a device, one row after the other, and then the   *)
(* health of its devices to 0.  There is no transaction: alerts are added,  *)
(* saved and deleted meanwhile, other resets run, and a statement that      *)
(* fails is logged and skipped.                                             *)
(***************************************************************************)
EXTENDS Naturals, FiniteSets

CONSTANTS
  Resets,      \* concurrent calls of the two functions
  Ids,         \* ids of alerts, each used once
  Devices, Edges,
  EdgeOf,      \* the edge of each device, which its alerts carry too
  Statuses,    \* values of alert_log.status
  Levels,      \* values of alert_log.level and device_instance.health
  Nothing,     \* the empty string, or an argument that is not given
  NewRows,     \* the alerts that are added
  MaxWrites,   \* bound: saves, deletes and health updates by others
  MaxFailing   \* bound: resets of which statements fail

\* connect: the alert is named "Connect Status".
Rows == [device : Devices, connect : BOOLEAN, level : Levels, status : Statuses]

ASSUME ResetAssumption ==
  /\ EdgeOf \in [Devices -> Edges]
  /\ 0 \in Levels /\ Levels \subseteq Nat
  /\ Nothing \notin Statuses \cup Levels \cup Devices \cup Edges
  /\ NewRows \subseteq Rows
  /\ Devices # {} /\ Statuses # {} /\ Devices \cap Edges = {}

VARIABLES
  stored,   \* ids of the alerts in the table
  spent,    \* ids ever used
  alert,    \* id -> [device, connect, level, status]
  health,   \* device -> device_instance.health
  pc,       \* reset -> where it is
  scope,    \* reset -> the edge or device it was called for
  want,     \* reset -> the status it sets
  todo,     \* reset -> alerts it found and has not come to
  devs,     \* reset -> devices whose health it has not come to
  writes,   \* writes by others so far
  failing,  \* resets of which a statement failed
  found,    \* ghost: reset -> the alerts it found
  owed,     \* ghost: reset -> those it has not come to or was the last to save
  beside    \* ghost: reset -> the resets that ran at the same time

table == <<stored, spent, alert>>
local == <<pc, scope, want, todo, devs>>
vars == <<table, health, local, writes, failing, found, owed, beside>>

Targets == Devices \cup Edges \cup {Nothing}
Active == {r \in Resets : pc[r] \in {"alerts", "health"}}

-----------------------------------------------------------------------------
(* The two resets. *)

\* The alerts of the edge or device, of a level above 0, but for "Connect Status".
Covers(t, i) == alert[i].device = t \/ EdgeOf[alert[i].device] = t
Due(t) == {i \in stored : Covers(t, i) /\ ~alert[i].connect /\ alert[i].level > 0}

\* A statement of reset r fails.
Fails(r) == /\ r \in failing \/ Cardinality(failing) < MaxFailing
            /\ failing' = failing \cup {r}

\* An empty id returns at once; otherwise the alerts are read.
Start(r, t, s) ==
  /\ pc[r] = "idle"
  /\ scope' = [scope EXCEPT ![r] = t] /\ want' = [want EXCEPT ![r] = s]
  /\ \/ /\ t = Nothing /\ pc' = [pc EXCEPT ![r] = "done"]
        /\ UNCHANGED <<todo, failing, found, owed, beside>>
     \/ /\ t # Nothing /\ Fails(r) /\ pc' = [pc EXCEPT ![r] = "failed"]
        /\ UNCHANGED <<todo, found, owed, beside>>
     \/ /\ t # Nothing /\ pc' = [pc EXCEPT ![r] = "alerts"]
        /\ todo' = [todo EXCEPT ![r] = Due(t)]
        /\ found' = [found EXCEPT ![r] = Due(t)]
        /\ owed' = [owed EXCEPT ![r] = Due(t)]
        /\ beside' = [q \in Resets |-> IF q = r THEN beside[r] \cup Active
                        ELSE IF q \in Active THEN beside[q] \cup {r} ELSE beside[q]]
        /\ UNCHANGED failing
  /\ UNCHANGED <<table, health, devs, writes>>

\* Deliberately wrong: the pointer is written where its value is meant.
SetStatusNowhere(i, s) == alert' = [alert EXCEPT ![i].status = Nothing]

\* SaveAlertLog with a status: a row that is gone meanwhile is not an error.
SetStatus(i, s) ==
  alert' = [alert EXCEPT ![i].status = IF i \in stored THEN s ELSE @]

\* Deliberately wrong: the loop stops at the first alert that is already gone.
ResetAlertOrStop(r, i) ==
  /\ i \in todo[r]
  /\ IF i \in stored
     THEN /\ todo' = [todo EXCEPT ![r] = @ \ {i}]
          /\ SetStatus(i, want[r])
          /\ owed' = [q \in Resets |-> IF q = r THEN owed[q] \cup {i} ELSE owed[q] \ {i}]
     ELSE todo' = [todo EXCEPT ![r] = {}] /\ UNCHANGED <<alert, owed>>
  /\ UNCHANGED <<stored, spent, health, pc, scope, want, devs, writes, failing, found, beside>>

\* The status of one alert; it was chosen by what was read, not by what is there.
ResetAlert(r, i) ==
  /\ i \in todo[r]
  /\ todo' = [todo EXCEPT ![r] = @ \ {i}]
  /\ \/ /\ SetStatus(i, want[r])
        /\ owed' = [q \in Resets |-> IF q = r THEN owed[q] \cup {i} ELSE owed[q] \ {i}]
        /\ UNCHANGED failing
     \/ /\ Fails(r)
        /\ owed' = [owed EXCEPT ![r] = @ \ {i}]
        /\ UNCHANGED alert
  /\ UNCHANGED <<stored, spent, health, pc, scope, want, devs, writes, found, beside>>

\* Deliberately wrong: the alerts are saved in the background, not waited for.
ListDevicesEarly(r) ==
  /\ pc[r] = "alerts"
  /\ devs' = [devs EXCEPT ![r] = {d \in Devices : d = scope[r] \/ EdgeOf[d] = scope[r]}]
  /\ pc' = [pc EXCEPT ![r] = "health"]
  /\ UNCHANGED <<table, health, scope, want, todo, writes, failing, found, owed, beside>>

\* The devices of the edge are read, which may fail, or it is the device itself.
ListDevices(r) ==
  /\ pc[r] = "alerts" /\ todo[r] = {}
  /\ \/ /\ devs' = [devs EXCEPT ![r] = {d \in Devices : d = scope[r] \/ EdgeOf[d] = scope[r]}]
        /\ pc' = [pc EXCEPT ![r] = "health"]
        /\ UNCHANGED failing
     \/ /\ scope[r] \in Edges /\ Fails(r)
        /\ pc' = [pc EXCEPT ![r] = "failed"]
        /\ UNCHANGED devs
  /\ UNCHANGED <<table, health, scope, want, todo, writes, found, owed, beside>>

ResetHealth(r, d) ==
  /\ pc[r] = "health" /\ d \in devs[r]
  /\ devs' = [devs EXCEPT ![r] = @ \ {d}]
  /\ \/ health' = [health EXCEPT ![d] = 0] /\ UNCHANGED failing
     \/ Fails(r) /\ UNCHANGED health
  /\ UNCHANGED <<table, pc, scope, want, todo, writes, found, owed, beside>>

Return(r) ==
  /\ pc[r] = "health" /\ devs[r] = {}
  /\ pc' = [pc EXCEPT ![r] = "done"]
  /\ UNCHANGED <<table, health, scope, want, todo, devs, writes, failing, found, owed, beside>>

-----------------------------------------------------------------------------
(* Everybody else. *)

AddAlertLog(i, row) ==
  /\ i \notin spent
  /\ spent' = spent \cup {i} /\ stored' = stored \cup {i}
  /\ alert' = [alert EXCEPT ![i] = row]
  /\ UNCHANGED <<health, local, writes, failing, found, owed, beside>>

Other == writes < MaxWrites /\ writes' = writes + 1

\* Only the arguments that are given are written.
SaveAlertLog(i, s, l) ==
  /\ Other /\ i \in stored
  /\ alert' = [alert EXCEPT ![i].status = IF s = Nothing THEN @ ELSE s,
                            ![i].level = IF l = Nothing THEN @ ELSE l]
  /\ owed' = [r \in Resets |-> IF s = Nothing THEN owed[r] ELSE owed[r] \ {i}]
  /\ UNCHANGED <<stored, spent, health, local, failing, found, beside>>

DeleteAlertLog(S) ==
  /\ Other /\ stored' = stored \ S
  /\ UNCHANGED <<spent, alert, health, local, failing, found, owed, beside>>

UpdateDeviceInstanceHealth(d, h) ==
  /\ Other /\ health' = [health EXCEPT ![d] = h]
  /\ UNCHANGED <<table, local, failing, found, owed, beside>>

-----------------------------------------------------------------------------
Init ==
  /\ stored = {} /\ spent = {}
  /\ alert = [i \in Ids |-> CHOOSE row \in Rows : TRUE]
  /\ health = [d \in Devices |-> 0]
  /\ pc = [r \in Resets |-> "idle"] /\ scope = [r \in Resets |-> Nothing]
  /\ want = [r \in Resets |-> CHOOSE s \in Statuses : TRUE]
  /\ todo = [r \in Resets |-> {}] /\ devs = [r \in Resets |-> {}]
  /\ writes = 0 /\ failing = {}
  /\ found = [r \in Resets |-> {}] /\ owed = [r \in Resets |-> {}]
  /\ beside = [r \in Resets |-> {}]

ResetStep(r) ==
  \/ \E i \in Ids : ResetAlert(r, i)
  \/ ListDevices(r)
  \/ \E d \in Devices : ResetHealth(r, d)
  \/ Return(r)

Next ==
  \/ \E r \in Resets, t \in Targets, s \in Statuses : Start(r, t, s)
  \/ \E r \in Resets : ResetStep(r)
  \/ \E i \in Ids, row \in NewRows : AddAlertLog(i, row)
  \/ \E i \in Ids, s \in Statuses \cup {Nothing}, l \in Levels \cup {Nothing} :
        SaveAlertLog(i, s, l)
  \/ \E S \in SUBSET Ids : DeleteAlertLog(S)
  \/ \E d \in Devices, h \in Levels : UpdateDeviceInstanceHealth(d, h)

Spec == Init /\ [][Next]_vars

-----------------------------------------------------------------------------
(* Properties. *)

\* The rows keep their types, and a reset works on alerts that have been stored.
TypeOK ==
  /\ stored \subseteq spent /\ spent \subseteq Ids
  /\ alert \in [Ids -> Rows]
  /\ health \in [Devices -> Levels]
  /\ pc \in [Resets -> {"idle", "alerts", "health", "done", "failed"}]
  /\ scope \in [Resets -> Targets] /\ want \in [Resets -> Statuses]
  /\ todo \in [Resets -> SUBSET spent] /\ devs \in [Resets -> SUBSET Devices]
  /\ writes \in Nat /\ failing \subseteq Resets
  /\ found \in [Resets -> SUBSET spent] /\ owed \in [Resets -> SUBSET spent]
  /\ beside \in [Resets -> SUBSET Resets]

\* What reset r found and has come to has its status, unless somebody gave the
\* alert another one later, it was deleted, or its own statement failed.
Settled(r) ==
  \A i \in owed[r] \cap stored : alert[i].status = want[r]

\* InitAlertLogByEdgeId and InitAlertLogByDeviceId leave no alert behind that
\* they were called for: when the loop over the alerts is over, all are settled,
\* whatever other resets, saves, deletes and failures came in between.
NothingForgotten ==
  \A r \in Resets : pc[r] \in {"health", "done"} => Settled(r)

\* A device is reported healthy by a reset only after its alerts are settled.
HealthLast ==
  [][ \A d \in Devices : health'[d] # health[d] /\ writes' = writes
        => \E r \in Resets : /\ d \in devs[r] /\ Settled(r)
                             /\ d = scope[r] \/ EdgeOf[d] = scope[r] ]_vars

\* Two resets with the same alerts before them leave some with the status of the
\* one and some with that of the other only if they ran at the same time or a
\* statement failed.
SplitNeedsOverlap ==
  \A r, q \in Resets :
     /\ pc[r] = "done" /\ pc[q] = "done" /\ r # q
     /\ q \notin beside[r] /\ r \notin failing /\ q \notin failing
     => ~ \E i, j \in found[r] \cap found[q] \cap stored :
            /\ i \in owed[r] \ owed[q]
            /\ j \in owed[q] \ owed[r]
=============================================================================

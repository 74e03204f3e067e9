------------------------------ MODULE Logs_proofs ------------------------------
(***************************************************************************)
(* The logs.  What resets of alerts leave, for any number of alerts, devices *)
(* and resets: NothingForgotten and HealthLast; the loop invariant of a      *)
(* reset is that an alert it owes a status to has the status or is still to  *)
(* come.  What a client that reads page after page misses and repeats, for   *)
(* any table, page size and number of writers: the invariant of LogPager     *)
(* counts the rows before and behind the place the client has come to.       *)
(***************************************************************************)
EXTENDS AlertReset, LogPager, FiniteSetTheorems, TLAPS

-----------------------------------------------------------------------------
(* Resets of alerts. *)

\* An alert that reset r answers for has its status or is in the list to do.
LoopInvariant ==
  \A r \in Resets : \A i \in owed[r] \cap stored : i \in todo[r] \/ alert[i].status = want[r]

\* The list is empty outside of the loop, and nothing is owed before it.
ListsMatchPc ==
  \A r \in Resets :
     /\ pc[r] # "alerts" => todo[r] = {}
     /\ pc[r] = "idle" => owed[r] = {}

\* The devices that are left are those of the edge, or the device itself.
DevicesInScope ==
  \A r \in Resets : \A d \in devs[r] : d = scope[r] \/ EdgeOf[d] = scope[r]

IInv == TypeOK /\ LoopInvariant /\ ListsMatchPc /\ DevicesInScope

\* The devices left to do of a call that has not started are none.
IdleHasNoDevices == \A r \in Resets : pc[r] = "idle" => devs[r] = {}

Inv == IInv /\ IdleHasNoDevices

\* Reset r was over before reset q began, or before it found anything: what q has
\* come to is not owed by r any more.
Before(r, q) ==
  /\ pc[r] \in {"done", "failed"}
  /\ q \notin failing => found[q] \cap owed[r] \subseteq todo[q]

\* Of two resets that did not run at the same time, one came before the other.
Sequential ==
  \A r, q \in Resets :
    r # q /\ pc[r] # "idle" /\ pc[q] # "idle" /\ q \notin beside[r] => Before(r, q) \/ Before(q, r)

IdleFoundNothing == \A r \in Resets : pc[r] = "idle" => found[r] = {}

SInv == Inv /\ Sequential /\ IdleFoundNothing
-----------------------------------------------------------------------------
\* What Init chooses for rows and statuses that are not there has their type.
LEMMA Blanks == /\ (CHOOSE row \in Rows : TRUE) \in Rows
                /\ (CHOOSE s \in Statuses : TRUE) \in Statuses
<1>1. \E s \in Statuses : TRUE
  BY ResetAssumption
<1>2. PICK d \in Devices : TRUE
  BY ResetAssumption
<1>3. PICK s \in Statuses : TRUE
  BY <1>1
<1>4. [device |-> d, connect |-> TRUE, level |-> 0, status |-> s] \in Rows
  BY ResetAssumption DEF Rows
<1> QED
  BY <1>1, <1>4

LEMMA InitInv == Init => Inv
<1> SUFFICES ASSUME Init PROVE Inv
  OBVIOUS
<1>1. TypeOK
  BY Blanks, ResetAssumption DEF Init, TypeOK, Targets
<1> QED
  BY <1>1 DEF Init, Inv, IInv, LoopInvariant, ListsMatchPc, DevicesInScope, IdleHasNoDevices

\* The types are kept by every action.
LEMMA TypeStep == TypeOK /\ [Next]_vars => TypeOK'
<1> SUFFICES ASSUME TypeOK, [Next]_vars PROVE TypeOK'
  OBVIOUS
<1> USE DEF TypeOK, table, local
<1>1. ASSUME NEW r \in Resets, NEW t \in Targets, NEW s \in Statuses, Start(r, t, s)
      PROVE TypeOK'
  <2>1. Due(t) \subseteq stored
    BY DEF Due
  <2>2. Active \subseteq Resets
    BY DEF Active
  <2>3. beside' \in [Resets -> SUBSET Resets]
    BY <1>1, <2>2 DEF Start
  <2>4. todo' \in [Resets -> SUBSET spent] /\ failing' \subseteq Resets
    BY <1>1, <2>1 DEF Start, Fails
  <2>5. found' \in [Resets -> SUBSET spent] /\ owed' \in [Resets -> SUBSET spent]
    BY <1>1, <2>1 DEF Start
  <2> QED
    BY <1>1, <2>3, <2>4, <2>5 DEF Start
<1>2. ASSUME NEW r \in Resets, NEW i \in Ids, ResetAlert(r, i)
      PROVE TypeOK'
  <2>1. alert' \in [Ids -> Rows]
    <3>1. /\ alert[i] \in Rows
          /\ [alert[i] EXCEPT !.status = want[r]] \in Rows
      BY DEF Rows
    <3>2. alert' = [alert EXCEPT ![i] = IF i \in stored THEN [alert[i] EXCEPT !.status = want[r]]
                                       ELSE alert[i]]
          \/ alert' = alert
      BY <1>2, <3>1 DEF ResetAlert, SetStatus, Rows
    <3> QED
      BY <3>1, <3>2
  <2>2. owed' \in [Resets -> SUBSET spent]
    BY <1>2 DEF ResetAlert
  <2> QED
    BY <1>2, <2>1, <2>2 DEF ResetAlert, Fails
<1>3. ASSUME NEW r \in Resets, ListDevices(r)
      PROVE TypeOK'
  BY <1>3 DEF ListDevices, Fails
<1>4. ASSUME NEW r \in Resets, NEW d \in Devices, ResetHealth(r, d)
      PROVE TypeOK'
  BY <1>4, ResetAssumption DEF ResetHealth, Fails
<1>5. ASSUME NEW r \in Resets, Return(r)
      PROVE TypeOK'
  BY <1>5 DEF Return
<1>6. ASSUME NEW i \in Ids, NEW row \in NewRows, AddAlertLog(i, row)
      PROVE TypeOK'
  <2>1. row \in Rows
    BY ResetAssumption
  <2>2. spent \subseteq spent'
    BY <1>6 DEF AddAlertLog
  <2> QED
    BY <1>6, <2>1, <2>2 DEF AddAlertLog
<1>7. ASSUME NEW i \in Ids, NEW s \in Statuses \cup {Nothing}, NEW l \in Levels \cup {Nothing},
             SaveAlertLog(i, s, l)
      PROVE TypeOK'
  <2>1. alert' \in [Ids -> Rows]
    <3> DEFINE status == IF s = Nothing THEN alert[i].status ELSE s
               level == IF l = Nothing THEN alert[i].level ELSE l
    <3>1. [alert[i] EXCEPT !.status = status, !.level = level] \in Rows
      BY DEF Rows
    <3>2. alert' = [alert EXCEPT ![i] = [alert[i] EXCEPT !.status = status, !.level = level]]
      BY <1>7 DEF SaveAlertLog, Rows
    <3> QED
      BY <3>1, <3>2
  <2>2. owed' \in [Resets -> SUBSET spent]
    BY <1>7 DEF SaveAlertLog
  <2> QED
    BY <1>7, <2>1, <2>2 DEF SaveAlertLog, Other
<1>8. ASSUME NEW S \in SUBSET Ids, DeleteAlertLog(S)
      PROVE TypeOK'
  BY <1>8 DEF DeleteAlertLog, Other
<1>9. ASSUME NEW d \in Devices, NEW h \in Levels, UpdateDeviceInstanceHealth(d, h)
      PROVE TypeOK'
  BY <1>9 DEF UpdateDeviceInstanceHealth, Other
<1>10. CASE UNCHANGED vars
  BY <1>10 DEF vars
<1> QED
  BY <1>1, <1>2, <1>3, <1>4, <1>5, <1>6, <1>7, <1>8, <1>9, <1>10 DEF Next, ResetStep

\* The loop invariant is kept: only saves with a status touch it, and they take
\* the alert from every reset but the one that saves.
LEMMA LoopStep == Inv /\ [Next]_vars => (LoopInvariant /\ ListsMatchPc)'
<1> SUFFICES ASSUME Inv, [Next]_vars PROVE (LoopInvariant /\ ListsMatchPc)'
  OBVIOUS
<1> USE DEF Inv, IInv, TypeOK, LoopInvariant, ListsMatchPc, table, local
<1>1. ASSUME NEW r \in Resets, NEW t \in Targets, NEW s \in Statuses, Start(r, t, s)
      PROVE (LoopInvariant /\ ListsMatchPc)'
  <2>1. CASE t # Nothing /\ pc' = [pc EXCEPT ![r] = "alerts"]
    <3>1. todo' = [todo EXCEPT ![r] = Due(t)] /\ owed' = [owed EXCEPT ![r] = Due(t)]
      BY <1>1, <2>1 DEF Start
    <3> QED
      BY <1>1, <2>1, <3>1 DEF Start
  <2>2. CASE owed' = owed /\ todo' = todo /\ pc'[r] \in {"done", "failed"}
    BY <1>1, <2>2 DEF Start
  <2> QED
    BY <1>1, <2>1, <2>2 DEF Start
<1>2. ASSUME NEW r \in Resets, NEW i \in Ids, ResetAlert(r, i)
      PROVE (LoopInvariant /\ ListsMatchPc)'
  <2>1. pc[r] = "alerts" /\ pc' = pc
    BY <1>2 DEF ResetAlert
  <2>2. ListsMatchPc'
    BY <1>2, <2>1 DEF ResetAlert
  <2>3. LoopInvariant'
    <3> SUFFICES ASSUME NEW q \in Resets, NEW j \in owed'[q] \cap stored'
                 PROVE j \in todo'[q] \/ alert'[j].status = want'[q]
      OBVIOUS
    <3>1. j \in Ids /\ stored' = stored /\ want' = want /\ i \in todo[r]
      BY <1>2 DEF ResetAlert
    <3>2. CASE SetStatus(i, want[r]) /\
               owed' = [p \in Resets |-> IF p = r THEN owed[p] \cup {i} ELSE owed[p] \ {i}]
      <4>1. CASE j = i
        BY <1>2, <3>1, <3>2, <4>1 DEF ResetAlert, SetStatus, Rows
      <4>2. CASE j # i
        <5>1. j \in owed[q] \cap stored /\ alert'[j] = alert[j]
          BY <3>1, <3>2, <4>2 DEF SetStatus
        <5>2. j \in todo[q] => j \in todo'[q]
          BY <1>2, <4>2 DEF ResetAlert
        <5> QED
          BY <3>1, <5>1, <5>2
      <4> QED
        BY <4>1, <4>2
    <3>3. CASE owed' = [owed EXCEPT ![r] = @ \ {i}] /\ alert' = alert
      <4>1. j \in owed[q] \cap stored /\ (q = r => j # i)
        BY <3>1, <3>3
      <4>2. j \in todo[q] => j \in todo'[q]
        BY <1>2, <4>1 DEF ResetAlert
      <4> QED
        BY <3>1, <3>3, <4>1, <4>2
    <3> QED
      BY <1>2, <3>2, <3>3 DEF ResetAlert
  <2> QED
    BY <2>2, <2>3
<1>3. ASSUME NEW r \in Resets, ListDevices(r)
      PROVE (LoopInvariant /\ ListsMatchPc)'
  BY <1>3 DEF ListDevices
<1>4. ASSUME NEW r \in Resets, NEW d \in Devices, ResetHealth(r, d)
      PROVE (LoopInvariant /\ ListsMatchPc)'
  BY <1>4 DEF ResetHealth
<1>5. ASSUME NEW r \in Resets, Return(r)
      PROVE (LoopInvariant /\ ListsMatchPc)'
  BY <1>5 DEF Return
<1>6. ASSUME NEW i \in Ids, NEW row \in NewRows, AddAlertLog(i, row)
      PROVE (LoopInvariant /\ ListsMatchPc)'
  <2>1. \A r \in Resets : i \notin owed[r]
    BY <1>6 DEF AddAlertLog
  <2> QED
    BY <1>6, <2>1 DEF AddAlertLog
<1>7. ASSUME NEW i \in Ids, NEW s \in Statuses \cup {Nothing}, NEW l \in Levels \cup {Nothing},
             SaveAlertLog(i, s, l)
      PROVE (LoopInvariant /\ ListsMatchPc)'
  <2>1. \A r \in Resets : owed'[r] \subseteq owed[r] /\ (s # Nothing => i \notin owed'[r])
    BY <1>7 DEF SaveAlertLog
  <2>2. \A j \in Ids : j # i \/ s = Nothing => alert'[j].status = alert[j].status
    BY <1>7 DEF SaveAlertLog, Rows
  <2>3. UNCHANGED <<stored, spent, local>>
    BY <1>7 DEF SaveAlertLog
  <2> QED
    BY <2>1, <2>2, <2>3
<1>8. ASSUME NEW S \in SUBSET Ids, DeleteAlertLog(S)
      PROVE (LoopInvariant /\ ListsMatchPc)'
  BY <1>8 DEF DeleteAlertLog
<1>9. ASSUME NEW d \in Devices, NEW h \in Levels, UpdateDeviceInstanceHealth(d, h)
      PROVE (LoopInvariant /\ ListsMatchPc)'
  BY <1>9 DEF UpdateDeviceInstanceHealth
<1>10. CASE UNCHANGED vars
  BY <1>10 DEF vars
<1> QED
  BY <1>1, <1>2, <1>3, <1>4, <1>5, <1>6, <1>7, <1>8, <1>9, <1>10 DEF Next, ResetStep

\* Only the reset itself lists devices, and by its own scope.
LEMMA DevicesStep == Inv /\ [Next]_vars => (DevicesInScope /\ IdleHasNoDevices)'
<1> SUFFICES ASSUME Inv, [Next]_vars PROVE (DevicesInScope /\ IdleHasNoDevices)'
  OBVIOUS
<1> USE DEF Inv, IInv, TypeOK, DevicesInScope, IdleHasNoDevices, table, local
<1>1. ASSUME NEW r \in Resets, NEW t \in Targets, NEW s \in Statuses, Start(r, t, s)
      PROVE (DevicesInScope /\ IdleHasNoDevices)'
  <2>1. /\ devs' = devs /\ devs[r] = {}
        /\ \A q \in Resets : q # r => scope'[q] = scope[q] /\ pc'[q] = pc[q]
    BY <1>1 DEF Start
  <2> QED
    BY <2>1
<1>2. ASSUME NEW r \in Resets, ListDevices(r)
      PROVE (DevicesInScope /\ IdleHasNoDevices)'
  BY <1>2 DEF ListDevices
<1>3. ASSUME NEW r \in Resets, NEW d \in Devices, ResetHealth(r, d)
      PROVE (DevicesInScope /\ IdleHasNoDevices)'
  BY <1>3 DEF ResetHealth
<1>4. ASSUME NEW r \in Resets, Return(r)
      PROVE (DevicesInScope /\ IdleHasNoDevices)'
  BY <1>4 DEF Return
<1>5. CASE UNCHANGED <<pc, scope, devs>>
  BY <1>5
<1> QED
  BY <1>1, <1>2, <1>3, <1>4, <1>5
  DEF Next, ResetStep, ResetAlert, AddAlertLog, SaveAlertLog, DeleteAlertLog,
      UpdateDeviceInstanceHealth, vars

LEMMA Invariance == Spec => []Inv
<1>1. Inv /\ [Next]_vars => Inv'
  <2> SUFFICES ASSUME Inv, [Next]_vars PROVE Inv'
    OBVIOUS
  <2>1. TypeOK'
    BY TypeStep DEF Inv, IInv
  <2> QED
    BY <2>1, LoopStep, DevicesStep DEF Inv, IInv
<1> QED
  BY InitInv, <1>1, PTL DEF Spec

\* A reset that starts is beside those that run and after those that are over, and
\* each save takes the alert from the resets before it.
LEMMA SequentialStep == SInv /\ [Next]_vars => (Sequential /\ IdleFoundNothing)'
<1> SUFFICES ASSUME SInv, [Next]_vars PROVE (Sequential /\ IdleFoundNothing)'
  OBVIOUS
<1> USE DEF SInv, Inv, IInv, TypeOK, ListsMatchPc, IdleFoundNothing, Before, table, local
<1>1. ASSUME NEW r \in Resets, NEW t \in Targets, NEW s \in Statuses, Start(r, t, s)
      PROVE (Sequential /\ IdleFoundNothing)'
  <2>1. \A q \in Resets \ {r} : /\ pc'[q] = pc[q] /\ todo'[q] = todo[q]
                               /\ found'[q] = found[q] /\ owed'[q] = owed[q]
    BY <1>1 DEF Start
  <2>2. failing \subseteq failing' /\ (\A q \in Resets : beside[q] \subseteq beside'[q])
    BY <1>1 DEF Start, Fails
  <2>3. \A p, q \in Resets \ {r} :
          p # q /\ pc'[p] # "idle" /\ pc'[q] # "idle" /\ q \notin beside'[p]
            => Before(p, q)' \/ Before(q, p)'
    BY <2>1, <2>2 DEF Sequential
  <2>4. \A q \in Resets \ {r} :
          pc'[q] # "idle" /\ (q \notin beside'[r] \/ r \notin beside'[q])
            => Before(r, q)' \/ Before(q, r)'
    <3>1. CASE pc'[r] \in {"done", "failed"} /\ owed' = owed
      BY <1>1, <2>1, <3>1 DEF Start
    <3>2. CASE /\ pc'[r] = "alerts" /\ todo'[r] = Due(t) /\ found'[r] = Due(t)
               /\ beside' = [q \in Resets |-> IF q = r THEN beside[r] \cup Active
                               ELSE IF q \in Active THEN beside[q] \cup {r} ELSE beside[q]]
      <4> SUFFICES ASSUME NEW q \in Resets \ {r}, pc'[q] # "idle",
                          q \notin beside'[r] \/ r \notin beside'[q]
                   PROVE  Before(q, r)'
        OBVIOUS
      <4>1. q \notin Active
        BY <3>2
      <4>2. pc'[q] \in {"done", "failed"}
        BY <2>1, <4>1 DEF Active
      <4> QED
        BY <2>1, <3>2, <4>2
    <3> QED
      BY <1>1, <3>1, <3>2 DEF Start
  <2>5. IdleFoundNothing'
    BY <1>1, <2>1 DEF Start
  <2> QED
    BY <2>3, <2>4, <2>5 DEF Sequential
<1>2. ASSUME NEW r \in Resets, NEW i \in Ids, ResetAlert(r, i)
      PROVE (Sequential /\ IdleFoundNothing)'
  <2>1. /\ pc[r] = "alerts" /\ todo' = [todo EXCEPT ![r] = @ \ {i}]
        /\ UNCHANGED <<pc, found, beside>> /\ failing \subseteq failing'
    BY <1>2 DEF ResetAlert, Fails
  <2>2. \A q \in Resets \ {r} : owed'[q] \subseteq owed[q] /\ (r \notin failing' => i \notin owed'[q])
    BY <1>2 DEF ResetAlert, Fails
  <2>3. \A p, q \in Resets : p # q /\ Before(p, q) => Before(p, q)'
    BY <2>1, <2>2
  <2> QED
    BY <2>1, <2>3 DEF Sequential
<1>3. ASSUME UNCHANGED <<todo, found, owed, beside>>, failing \subseteq failing',
             NEW r \in Resets, pc[r] # "idle",
             \E p \in {"health", "done", "failed"} : pc' = [pc EXCEPT ![r] = p],
             pc[r] \in {"alerts", "health"}
      PROVE (Sequential /\ IdleFoundNothing)'
  BY <1>3 DEF Sequential
<1>4. ASSUME UNCHANGED <<pc, todo, found, beside>>, failing \subseteq failing',
             \A r \in Resets : owed'[r] \subseteq owed[r]
      PROVE (Sequential /\ IdleFoundNothing)'
  BY <1>4 DEF Sequential
<1>5. ASSUME NEW i \in Ids, NEW s \in Statuses \cup {Nothing}, NEW l \in Levels \cup {Nothing},
             SaveAlertLog(i, s, l)
      PROVE (Sequential /\ IdleFoundNothing)'
  <2>1. \A r \in Resets : owed'[r] \subseteq owed[r]
    BY <1>5 DEF SaveAlertLog
  <2> QED
    BY <1>4, <1>5, <2>1 DEF SaveAlertLog
<1>6. ASSUME NEW r \in Resets, ListDevices(r) \/ Return(r)
      PROVE (Sequential /\ IdleFoundNothing)'
  BY <1>3, <1>6 DEF ListDevices, Return, Fails
<1>7. ASSUME NEW r \in Resets, NEW d \in Devices, ResetHealth(r, d)
      PROVE (Sequential /\ IdleFoundNothing)'
  BY <1>4, <1>7 DEF ResetHealth, Fails
<1> HIDE DEF SInv, Inv, IInv, TypeOK, ListsMatchPc, IdleFoundNothing, Before
<1>8. CASE UNCHANGED <<pc, todo, found, owed, beside, failing>>
  BY <1>8, <1>4
<1> QED
  BY <1>1, <1>2, <1>5, <1>6, <1>7, <1>8
  DEF Next, ResetStep, AddAlertLog, DeleteAlertLog, UpdateDeviceInstanceHealth, vars
-----------------------------------------------------------------------------
\* The types of AlertReset hold for every value of its constants.
THEOREM TypeCorrect == Spec => []TypeOK
<1>1. Inv => TypeOK
  BY DEF Inv, IInv
<1> QED
  BY <1>1, Invariance, PTL

\* No reset, of an edge or of a device (alert_log.go:363-416), leaves its loop
\* with an alert that it answers for in another status, whatever runs beside it.
THEOREM ResetsReachEveryAlert == Spec => []NothingForgotten
<1>1. Inv => NothingForgotten
  BY DEF Inv, IInv, LoopInvariant, ListsMatchPc, NothingForgotten, Settled, TypeOK
<1> QED
  BY <1>1, Invariance, PTL

\* Every step of a reset that writes a device's health (alert_log.go:388, 412)
\* finds the alerts the reset answers for settled, and the device in its scope.
THEOREM HealthComesLast == Spec => HealthLast
<1> DEFINE Step == \A d \in Devices : health'[d] # health[d] /\ writes' = writes
                     => \E r \in Resets : /\ d \in devs[r] /\ Settled(r)
                                          /\ d = scope[r] \/ EdgeOf[d] = scope[r]
<1>1. Inv /\ [Next]_vars => [Step]_vars
  <2> SUFFICES ASSUME Inv, Next, NEW d \in Devices,
                      health'[d] # health[d], writes' = writes
               PROVE \E r \in Resets : /\ d \in devs[r] /\ Settled(r)
                                       /\ d = scope[r] \/ EdgeOf[d] = scope[r]
    OBVIOUS
  <2>1. ~ \E e \in Devices, h \in Levels : UpdateDeviceInstanceHealth(e, h)
    BY DEF Inv, IInv, TypeOK, UpdateDeviceInstanceHealth, Other
  <2>2. PICK r \in Resets, e \in Devices : ResetHealth(r, e)
    BY <2>1 DEF Next, ResetStep, Start, ResetAlert, ListDevices, Return, AddAlertLog,
                SaveAlertLog, DeleteAlertLog, table, local
  <2>3. e = d
    BY <2>2 DEF ResetHealth, Inv, IInv, TypeOK
  <2>4. Settled(r)
    BY <2>2 DEF ResetHealth, Inv, IInv, LoopInvariant, ListsMatchPc, Settled
  <2> QED
    BY <2>2, <2>3, <2>4 DEF ResetHealth, Inv, IInv, DevicesInScope
<1> QED
  BY <1>1, Invariance, PTL DEF Spec, HealthLast

\* Two resets of the same alerts (alert_log.go:363-416) that did not run at the same
\* time, and of which no statement failed, do not leave some alerts with the status of
\* the one and some with that of the other.
THEOREM SplitsNeedOverlap == Spec => []SplitNeedsOverlap
<1>1. Init => SInv
  BY InitInv DEF Init, SInv, Sequential, IdleFoundNothing
<1>2. SInv /\ [Next]_vars => SInv'
  <2> SUFFICES ASSUME SInv, [Next]_vars PROVE SInv'
    OBVIOUS
  <2>1. Inv'
    <3>1. Inv
      BY DEF SInv
    <3>2. TypeOK'
      BY <3>1, TypeStep DEF Inv, IInv
    <3> QED
      BY <3>1, <3>2, LoopStep, DevicesStep DEF Inv, IInv
  <2> QED
    BY <2>1, SequentialStep DEF SInv
<1>3. SInv => SplitNeedsOverlap
  <2> SUFFICES ASSUME SInv, NEW r \in Resets, NEW q \in Resets, pc[r] = "done", pc[q] = "done",
                      r # q, q \notin beside[r], r \notin failing, q \notin failing,
                      NEW i \in found[r] \cap found[q] \cap stored,
                      NEW j \in found[r] \cap found[q] \cap stored,
                      i \in owed[r] \ owed[q], j \in owed[q] \ owed[r]
               PROVE  FALSE
    BY DEF SplitNeedsOverlap
  <2>1. todo[r] = {} /\ todo[q] = {}
    BY DEF SInv, Inv, IInv, ListsMatchPc
  <2>2. Before(r, q) \/ Before(q, r)
    BY DEF SInv, Sequential
  <2> QED
    BY <2>1, <2>2 DEF Before
<1> QED
  BY <1>1, <1>2, <1>3, PTL DEF Spec

-----------------------------------------------------------------------------
(* Listings: what a client that reads page after page misses and repeats. *)

\* The rows of the result in front of row x, and how many they are.
Higher(rs, q, x) == {y \in Result(rs, q) : Key(rs[y]) > Key(rs[x])}
Rank(rs, q, x) == Cardinality(Higher(rs, q, x))

\* Rows in front of the page to come that the client has not got, and rows that it got
\* twice, or got and finds again.
Skipped == {x \in Steady \ seen : Rank(rows, query, x) < Offset(page)}
Doubled == {x \in Steady : x \in again \/ (x \in seen /\ Rank(rows, query, x) >= Offset(page))}

\* A row of the table, and what each variable holds.
Row == [status : Values, created : Nat, updated : Nat]
PagerColumns ==
  /\ listing \in Tables
  /\ lastId \in Nat /\ clock \in Nat \ {0} /\ changes \in Nat /\ page \in Nat /\ ended \in BOOLEAN
  /\ DOMAIN stamp = Writers /\ \A i \in DOMAIN rows : rows[i] \in Row
  /\ track.left \in Nat /\ track.arrived \in Nat

\* What was kept is in the result, and what is not tied in it has its place to itself.
Followed ==
  /\ track.kept \subseteq Result(rows, query)
  /\ Tied(rows, query) \subseteq track.tied
  /\ page = 0 => seen = {} /\ again = {} /\ track.arrived >= Limit

\* As many rows at most are missed as left, and got twice as arrived.
MissingFew ==
  IF ended THEN Cardinality(Steady \ seen) <= track.left ELSE Cardinality(Skipped) <= track.left
RepeatedFew == Cardinality(Doubled) <= track.arrived

\* The time a save took is not before the creation of its row.
SavesLater ==
  \A w \in Writers : (stamp[w] # Absent /\ stamp[w].id \in DOMAIN rows) =>
                     rows[stamp[w].id].created <= stamp[w].at

\* The inductive invariant of LogPager.
PagerIInv ==
  PagerColumns /\ PagerTypeOK /\ SavesLater /\ Followed /\ MissingFew /\ RepeatedFew

\* A listing holds rows of its table.
LEMMA ResultIn ==
  ASSUME listing \in Tables, NEW rs, NEW q
  PROVE  Result(rs, q) \subseteq DOMAIN rs
<1>1. listing \in {"alert_log", "alert_history", "rule_linkage_log", "data_forward_log", "device_instance",
                   "devices", "alert_config", "device_model", "rule_linkage", "data_forward"}
  BY PagerAssumption
<1> QED
  BY <1>1 DEF Result, AlertLogs, AlertHistorys, RuleLinkageLogs, DataForwardLogs, DeviceInstances,
              DevicesByUpdate, AlertConfigs, DeviceModels, RuleLinkages, DataForwards

\* While the client's question stays the same, the next state asks it of the new rows.
LEMMA SameQuestion ==
  ASSUME listing' = listing, query' = query
  PROVE  /\ Result(rows, query)' = Result(rows', query)
         /\ Tied(rows, query)' = Tied(rows', query)
         /\ \A x : Rank(rows, query, x)' = Rank(rows', query, x)
<1>1. Result(rows, query)' = Result(rows', query)
  BY DEF Result, AlertLogs, AlertHistorys, RuleLinkageLogs, DataForwardLogs, DeviceInstances,
         DevicesByUpdate, AlertConfigs, DeviceModels, RuleLinkages, DataForwards
<1>2. \A x : Key(rows[x])' = Key(rows'[x])
  BY DEF Key
<1>3. Tied(rows, query)' = Tied(rows', query)
  BY <1>1, <1>2 DEF Tied, Key
<1>4. \A x : Higher(rows, query, x)' = Higher(rows', query, x)
  BY <1>1, <1>2 DEF Higher, Key
<1> QED
  BY <1>1, <1>3, <1>4 DEF Rank

LEMMA OffsetIs ==
  /\ \A p \in Nat : Offset(p) \in Nat
  /\ Offset(0) = 0 /\ Offset(1) = 0
  /\ \A p \in Nat \ {0} : Offset(p + 1) = Offset(p) + Limit
<1>1. Limit \in Nat
  BY PagerAssumption
<1>2. ASSUME NEW p \in Nat PROVE Offset(p) \in Nat
  <2>1. CASE p <= 1
    BY <2>1 DEF Offset
  <2>2. CASE p > 1
    <3>1. p - 1 \in Nat
      BY <2>2
    <3>2. (p - 1) * Limit \in Nat
      BY <1>1, <3>1
    <3> QED
      BY <2>2, <3>2 DEF Offset
  <2> QED
    BY <2>1, <2>2
<1>3. ASSUME NEW p \in Nat \ {0} PROVE Offset(p + 1) = Offset(p) + Limit
  <2>1. Offset(p + 1) = p * Limit
    BY DEF Offset
  <2>2. CASE p = 1
    BY <1>1, <2>1, <2>2 DEF Offset
  <2>3. CASE p > 1
    <3>1. Offset(p) = (p - 1) * Limit
      BY <2>3 DEF Offset
    <3>2. p * Limit = (p - 1) * Limit + Limit
      BY <1>1
    <3> QED
      BY <2>1, <3>1, <3>2
  <2> QED
    BY <2>2, <2>3
<1> QED
  BY <1>2, <1>3 DEF Offset

\* A table of rows as they are stored.
Stored(rs) == IsFiniteSet(DOMAIN rs) /\ \A i \in DOMAIN rs : rs[i] \in Row

LEMMA RankIs ==
  ASSUME listing \in Tables, NEW rs, NEW q, Stored(rs)
  PROVE  /\ IsFiniteSet(Result(rs, q)) /\ Cardinality(Result(rs, q)) \in Nat
         /\ \A x \in DOMAIN rs : Key(rs[x]) \in Nat
         /\ \A x : IsFiniteSet(Higher(rs, q, x)) /\ Rank(rs, q, x) \in Nat
<1>1. IsFiniteSet(Result(rs, q)) /\ Cardinality(Result(rs, q)) \in Nat
  BY ResultIn, FS_Subset, FS_CardinalityType DEF Stored
<1>2. \A x \in DOMAIN rs : Key(rs[x]) \in Nat
  BY DEF Stored, Key, Row
<1>3. ASSUME NEW x PROVE IsFiniteSet(Higher(rs, q, x)) /\ Rank(rs, q, x) \in Nat
  <2>1. Higher(rs, q, x) \in SUBSET Result(rs, q)
    BY DEF Higher
  <2> QED
    BY <1>1, <2>1, FS_Subset, FS_CardinalityType DEF Rank
<1> QED
  BY <1>1, <1>2, <1>3

\* Rows that have their place to themselves have a rank of their own.
LEMMA RanksDiffer ==
  ASSUME listing \in Tables, NEW rs, NEW q, Stored(rs),
         NEW x \in Result(rs, q) \ Tied(rs, q), NEW y \in Result(rs, q), x # y
  PROVE  Rank(rs, q, x) # Rank(rs, q, y)
<1>0. Result(rs, q) \subseteq DOMAIN rs
  BY ResultIn
<1>1. Key(rs[x]) \in Nat /\ Key(rs[y]) \in Nat /\ Key(rs[x]) # Key(rs[y])
  BY <1>0, RankIs DEF Tied
<1>2. ASSUME NEW u \in Result(rs, q), NEW v \in Result(rs, q), Key(rs[u]) > Key(rs[v])
      PROVE  Rank(rs, q, u) # Rank(rs, q, v)
  <2>1. Higher(rs, q, u) \subseteq Higher(rs, q, v)
    <3>1. ASSUME NEW w \in Higher(rs, q, u) PROVE w \in Higher(rs, q, v)
      <4>1. w \in Result(rs, q) /\ Key(rs[w]) > Key(rs[u])
        BY DEF Higher
      <4>2. Key(rs[w]) \in Nat /\ Key(rs[u]) \in Nat /\ Key(rs[v]) \in Nat
        BY <1>0, <4>1, RankIs
      <4> QED
        BY <1>2, <4>1, <4>2 DEF Higher
    <3> QED
      BY <3>1
  <2>2. u \in Higher(rs, q, v) /\ u \notin Higher(rs, q, u)
    <3>1. Key(rs[u]) \in Nat
      BY <1>0, RankIs
    <3> QED
      BY <1>2, <3>1 DEF Higher
  <2> QED
    BY <2>1, <2>2, RankIs, FS_Subset DEF Rank
<1> QED
  BY <1>1, <1>2

\* At most k of them have a rank among k numbers.
LEMMA FewBetween ==
  ASSUME listing \in Tables, NEW rs, NEW q, Stored(rs),
         NEW S \in SUBSET (Result(rs, q) \ Tied(rs, q)), NEW lo \in Int, NEW k \in Nat,
         \A x \in S : Rank(rs, q, x) \in lo..lo + k - 1
  PROVE  IsFiniteSet(S) /\ Cardinality(S) <= k
<1> DEFINE f == [x \in S |-> Rank(rs, q, x)]
           T == lo..lo + k - 1
<1>1. f \in Injection(S, T)
  <2>1. f \in [S -> T]
    OBVIOUS
  <2>2. \A x, y \in S : f[x] = f[y] => x = y
    BY RanksDiffer
  <2> HIDE DEF f, T
  <2> QED
    BY <2>1, <2>2 DEF Injection, IsInjective
<1>2. IsFiniteSet(T) /\ Cardinality(T) = k
  <2>1. lo + k - 1 \in Int /\ (lo > lo + k - 1 => k = 0)
    OBVIOUS
  <2> QED
    BY <2>1, FS_Interval
<1> HIDE DEF f, T
<1> QED
  BY <1>1, <1>2, FS_Injection

\* A page has the rows that have their place to themselves from its offset on, up to Limit.
LEMMA PageHas ==
  ASSUME listing \in Tables, NEW rs, NEW q, Stored(rs), NEW p \in Nat, NEW got \in Page(rs, q, p)
  PROVE  /\ got \subseteq Result(rs, q) /\ IsFiniteSet(got) /\ Cardinality(got) \in 0..Limit
         /\ \A x \in Result(rs, q) \ Tied(rs, q) :
              /\ x \in got => Rank(rs, q, x) >= Offset(p) /\ Rank(rs, q, x) < Offset(p) + Limit
              /\ x \notin got => \/ Rank(rs, q, x) < Offset(p)
                                 \/ Cardinality(got) = Limit /\ Rank(rs, q, x) >= Offset(p) + Limit
<1> DEFINE ids == Result(rs, q)
           skip == Least(Offset(p), Cardinality(ids))
           size == Least(Limit, Cardinality(ids) - skip)
           Front(S, R) == \A i \in S, j \in R \ S : Key(rs[i]) >= Key(rs[j])
<1>1. PICK before \in SUBSET ids :
             /\ Cardinality(before) = skip /\ Front(before, ids)
             /\ got \in SUBSET (ids \ before) /\ Cardinality(got) = size /\ Front(got, ids \ before)
  BY DEF Page
<1>2. Limit \in Nat \ {0} /\ Offset(p) \in Nat /\ Cardinality(ids) \in Nat /\ IsFiniteSet(ids)
  BY PagerAssumption, OffsetIs, RankIs
<1>3. /\ skip \in Nat /\ skip <= Offset(p) /\ (skip < Offset(p) => skip = Cardinality(ids))
      /\ size \in 0..Limit /\ skip + size <= Cardinality(ids)
      /\ (size < Limit => skip + size = Cardinality(ids))
  BY <1>2 DEF Least
<1>4. IsFiniteSet(before) /\ IsFiniteSet(got)
  BY <1>1, <1>2, FS_Subset
<1>5. IsFiniteSet(before \cup got) /\ Cardinality(before \cup got) = skip + size
  <2>1. before \cap got = {}
    BY <1>1
  <2>2. Cardinality(before \cap got) = 0
    BY <2>1, FS_EmptySet
  <2> QED
    BY <1>1, <1>3, <1>4, <2>2, FS_Union
<1>6. ids \subseteq DOMAIN rs /\ \A x \in ids : Key(rs[x]) \in Nat
  BY ResultIn, RankIs
<1> HIDE DEF ids, skip, size
<1>7. ASSUME NEW x \in ids \ Tied(rs, q)
      PROVE  /\ x \in got => Rank(rs, q, x) >= Offset(p) /\ Rank(rs, q, x) < Offset(p) + Limit
             /\ x \notin got => \/ Rank(rs, q, x) < Offset(p)
                                \/ Cardinality(got) = Limit /\ Rank(rs, q, x) >= Offset(p) + Limit
  <2> DEFINE H == Higher(rs, q, x)
             rank == Rank(rs, q, x)
  <2>0. IsFiniteSet(H) /\ rank \in Nat /\ rank = Cardinality(H) /\ H \subseteq ids /\ x \notin H
    <3>1. IsFiniteSet(H) /\ rank \in Nat /\ rank = Cardinality(H)
      BY RankIs DEF Rank
    <3> QED
      BY <1>6, <3>1 DEF Higher, ids
  <2>1. \A y \in ids : y # x => Key(rs[y]) # Key(rs[x])
    BY DEF Tied, ids
  <2>2. \A y \in ids : y \in H <=> Key(rs[y]) > Key(rs[x])
    BY DEF Higher, ids
  <2>3. \A y \in ids : y # x => (y \in H <=> Key(rs[y]) >= Key(rs[x]))
    BY <1>6, <2>1, <2>2
  <2>4. rank < Cardinality(ids)
    <3>1. rank <= Cardinality(ids) /\ (rank = Cardinality(ids) => H = ids)
      BY <1>2, <2>0, FS_Subset
    <3> QED
      BY <1>2, <2>0, <3>1
  \* in front of the page
  <2>5. x \in before => rank < skip
    <3>1. SUFFICES ASSUME x \in before PROVE rank < skip
      OBVIOUS
    <3>2. H \in SUBSET before
      <4>1. ASSUME NEW y \in H, y \notin before PROVE FALSE
        <5>1. y \in ids /\ Key(rs[x]) >= Key(rs[y]) /\ Key(rs[y]) > Key(rs[x])
          BY <1>1, <2>0, <2>2, <3>1, <4>1
        <5> QED
          BY <1>6, <5>1
      <4> QED
        BY <4>1
    <3>3. Cardinality(H) <= skip /\ Cardinality(H) # skip
      BY <1>1, <1>4, <2>0, <3>1, <3>2, FS_Subset
    <3> QED
      BY <1>3, <2>0, <3>3
  <2>6. x \notin before => rank >= skip
    <3>1. SUFFICES ASSUME x \notin before PROVE rank >= skip
      OBVIOUS
    <3>2. before \in SUBSET H
      BY <1>1, <2>3, <3>1
    <3> QED
      BY <1>1, <2>0, <3>2, FS_Subset
  \* on the page
  <2>7. x \in got => rank < skip + size
    <3>1. SUFFICES ASSUME x \in got PROVE rank < skip + size
      OBVIOUS
    <3>2. H \in SUBSET (before \cup got)
      <4>1. ASSUME NEW y \in H, y \notin before, y \notin got PROVE FALSE
        <5>1. y \in ids /\ Key(rs[x]) >= Key(rs[y]) /\ Key(rs[y]) > Key(rs[x])
          BY <1>1, <2>0, <2>2, <3>1, <4>1
        <5> QED
          BY <1>6, <5>1
      <4> QED
        BY <4>1
    <3>3. Cardinality(H) <= skip + size /\ Cardinality(H) # skip + size
      BY <1>5, <2>0, <3>1, <3>2, FS_Subset
    <3> QED
      BY <1>3, <2>0, <3>3
  <2>8. x \notin before /\ x \notin got => rank >= skip + size
    <3>1. SUFFICES ASSUME x \notin before, x \notin got PROVE rank >= skip + size
      OBVIOUS
    <3>2. before \cup got \in SUBSET H
      BY <1>1, <2>3, <3>1
    <3> QED
      BY <1>5, <2>0, <3>2, FS_Subset
  <2> HIDE DEF rank, H
  <2>9. x \in got => x \notin before
    BY <1>1
  <2>10. x \in got => rank >= Offset(p) /\ rank < Offset(p) + Limit
    BY <1>2, <1>3, <2>0, <2>4, <2>6, <2>7, <2>9
  <2>11. x \notin got => rank < Offset(p) \/ (size = Limit /\ rank >= Offset(p) + Limit)
    BY <1>2, <1>3, <2>0, <2>4, <2>5, <2>8
  <2> QED
    BY <1>1, <2>10, <2>11 DEF rank
<1> QED
  BY <1>1, <1>3, <1>4, <1>7 DEF ids

LEMMA SmallerThanBoth ==
  ASSUME NEW S, NEW T, NEW U, IsFiniteSet(T), IsFiniteSet(U), S \in SUBSET (T \cup U)
  PROVE  Cardinality(S) <= Cardinality(T) + Cardinality(U)
<1>1. IsFiniteSet(T \cup U) /\ Cardinality(T \cup U) = Cardinality(T) + Cardinality(U) - Cardinality(T \cap U)
  BY FS_Union
<1>2. IsFiniteSet(T \cap U) /\ Cardinality(T) \in Nat /\ Cardinality(U) \in Nat
  BY FS_Intersection, FS_CardinalityType
<1>3. Cardinality(T \cap U) \in Nat /\ Cardinality(S) <= Cardinality(T \cup U) /\ Cardinality(S) \in Nat
  BY <1>1, <1>2, FS_Subset, FS_CardinalityType
<1> QED
  BY <1>1, <1>2, <1>3

\* What a write does to the ranks of the rows that keep their place: those that leave
\* or fall lower them, one each, those that arrive or rise raise them.
LEMMA RanksMove ==
  ASSUME listing \in Tables, NEW q, NEW old, Stored(old), NEW new, Stored(new),
         NEW gone, gone = {i \in Result(old, q) : i \notin Result(new, q) \/ Key(new[i]) < Key(old[i])},
         NEW came, came = {i \in Result(new, q) : i \notin Result(old, q) \/ Key(new[i]) > Key(old[i])}
  PROVE  /\ IsFiniteSet(gone) /\ Cardinality(gone) \in Nat
         /\ IsFiniteSet(came) /\ Cardinality(came) \in Nat
         /\ \A x \in (Result(old, q) \cap Result(new, q)) \ (gone \cup came) :
              /\ Rank(old, q, x) <= Rank(new, q, x) + Cardinality(gone)
              /\ Rank(new, q, x) <= Rank(old, q, x) + Cardinality(came)
<1>1. /\ IsFiniteSet(gone) /\ Cardinality(gone) \in Nat
      /\ IsFiniteSet(came) /\ Cardinality(came) \in Nat
  <2>1. gone \in SUBSET Result(old, q) /\ came \in SUBSET Result(new, q)
    OBVIOUS
  <2>2. IsFiniteSet(Result(old, q)) /\ IsFiniteSet(Result(new, q))
    BY RankIs
  <2> QED
    BY <2>1, <2>2, FS_Subset, FS_CardinalityType
<1>2. Result(old, q) \subseteq DOMAIN old /\ Result(new, q) \subseteq DOMAIN new
  BY ResultIn
<1>3. ASSUME NEW x \in (Result(old, q) \cap Result(new, q)) \ (gone \cup came)
      PROVE  /\ Rank(old, q, x) <= Rank(new, q, x) + Cardinality(gone)
             /\ Rank(new, q, x) <= Rank(old, q, x) + Cardinality(came)
  <2> DEFINE O == Higher(old, q, x)
             N == Higher(new, q, x)
  <2>1. /\ IsFiniteSet(O) /\ Cardinality(O) \in Nat /\ Rank(old, q, x) = Cardinality(O)
        /\ IsFiniteSet(N) /\ Cardinality(N) \in Nat /\ Rank(new, q, x) = Cardinality(N)
    BY RankIs DEF Rank
  <2>2. Key(old[x]) = Key(new[x]) /\ Key(old[x]) \in Nat
    BY <1>2, RankIs
  <2>3. O \in SUBSET (N \cup gone)
    <3>1. ASSUME NEW y \in O, y \notin gone PROVE y \in N
      <4>1. y \in Result(old, q) /\ y \in Result(new, q) /\ Key(old[y]) > Key(old[x])
        BY <3>1 DEF Higher
      <4>2. Key(new[y]) >= Key(old[y]) /\ Key(old[y]) \in Nat /\ Key(new[y]) \in Nat
        BY <1>2, <3>1, <4>1, RankIs
      <4> QED
        BY <2>2, <4>1, <4>2 DEF Higher
    <3> QED
      BY <3>1
  <2>4. N \in SUBSET (O \cup came)
    <3>1. ASSUME NEW y \in N, y \notin came PROVE y \in O
      <4>1. y \in Result(new, q) /\ y \in Result(old, q) /\ Key(new[y]) > Key(new[x])
        BY <3>1 DEF Higher
      <4>2. Key(old[y]) >= Key(new[y]) /\ Key(old[y]) \in Nat /\ Key(new[y]) \in Nat
        BY <1>2, <3>1, <4>1, RankIs
      <4> QED
        BY <2>2, <4>1, <4>2 DEF Higher
    <3> QED
      BY <3>1
  <2> HIDE DEF O, N
  <2>5. Cardinality(O) <= Cardinality(N) + Cardinality(gone)
    BY <1>1, <2>1, <2>3, SmallerThanBoth
  <2>6. Cardinality(N) <= Cardinality(O) + Cardinality(came)
    BY <1>1, <2>1, <2>4, SmallerThanBoth
  <2> QED
    BY <2>1, <2>5, <2>6
<1> QED
  BY <1>1, <1>3

LEMMA WriteFollowed ==
  ASSUME PagerColumns, Followed, MissingFew, RepeatedFew, Stored(rows), NEW new, Stored(new),
         Write(new), UNCHANGED <<listing, client>>
  PROVE  /\ track'.left \in Nat /\ track'.arrived \in Nat
         /\ Followed' /\ MissingFew' /\ RepeatedFew'
<1> DEFINE from == Result(rows, query)
           to == Result(new, query)
           gone == Leaving(new)
           came == Arriving(new)
           n == Offset(page)
<1>1. /\ IsFiniteSet(gone) /\ Cardinality(gone) \in Nat
      /\ IsFiniteSet(came) /\ Cardinality(came) \in Nat
      /\ \A x \in (from \cap to) \ (gone \cup came) :
              /\ Rank(rows, query, x) <= Rank(new, query, x) + Cardinality(gone)
              /\ Rank(new, query, x) <= Rank(rows, query, x) + Cardinality(came)
  BY RanksMove DEF PagerColumns, Leaving, Arriving
<1>2. /\ track'.kept = (track.kept \cap to) \ (gone \cup came)
      /\ track'.tied = track.tied \cup Tied(new, query)
      /\ track'.left = track.left + Cardinality(gone)
      /\ track'.arrived = track.arrived + Cardinality(came)
      /\ rows' = new
  BY DEF Write, Observe
<1>3. /\ listing' = listing /\ query' = query /\ page' = page /\ ended' = ended /\ seen' = seen /\ again' = again
      /\ n \in Nat /\ Offset(page)' = n
  <2>1. UNCHANGED <<listing, query, page, ended, seen, again>>
    BY DEF client
  <2>2. page \in Nat /\ n \in Nat
    BY OffsetIs DEF PagerColumns
  <2> QED
    BY <2>1, <2>2 DEF Offset
<1>4. /\ Result(rows, query)' = to /\ Tied(rows, query)' = Tied(new, query)
      /\ \A x : Rank(rows, query, x)' = Rank(new, query, x)
  BY <1>2, <1>3, SameQuestion
<1>5. Followed'
  <2>1. page' = 0 => seen' = {} /\ again' = {} /\ track'.arrived >= Limit
    BY <1>1, <1>2, <1>3, PagerAssumption DEF Followed, PagerColumns
  <2> QED
    BY <1>2, <1>4, <2>1 DEF Followed
<1>6. /\ Steady' \subseteq Steady /\ Steady' \subseteq (from \cap to) \ (gone \cup came)
      /\ Steady \subseteq from \ Tied(rows, query) /\ Steady' \subseteq to \ Tied(new, query)
  <2>1. Steady' = ((track.kept \cap to) \ (gone \cup came)) \ (track.tied \cup Tied(new, query))
    BY <1>2 DEF Steady
  <2>2. track.kept \subseteq from /\ Tied(rows, query) \subseteq track.tied
    BY DEF Followed
  <2> HIDE DEF from, to, gone, came
  <2> QED
    BY <2>1, <2>2 DEF Steady
<1>7. /\ IsFiniteSet(Steady) /\ IsFiniteSet(Steady')
      /\ \A x : Rank(rows, query, x) \in Nat /\ Rank(new, query, x) \in Nat
  <2>1. IsFiniteSet(from) /\ IsFiniteSet(to)
    BY RankIs DEF PagerColumns
  <2>2. Steady \in SUBSET from /\ Steady' \in SUBSET to
    BY <1>6
  <2>3. \A x : Rank(rows, query, x) \in Nat /\ Rank(new, query, x) \in Nat
    BY RankIs DEF PagerColumns
  <2> HIDE DEF from, to
  <2> QED
    BY <2>1, <2>2, <2>3, FS_Subset
<1>8. track.left \in Nat /\ track.arrived \in Nat
  BY DEF PagerColumns
<1> HIDE DEF from, to, gone, came, n
<1>9. MissingFew'
  <2>1. CASE ended
    <3>1. Steady' \ seen \in SUBSET (Steady \ seen) /\ IsFiniteSet(Steady \ seen)
      BY <1>6, <1>7, FS_Difference
    <3>2. Cardinality(Steady' \ seen) <= Cardinality(Steady \ seen)
          /\ Cardinality(Steady \ seen) \in Nat /\ Cardinality(Steady' \ seen) \in Nat
      BY <3>1, FS_Subset, FS_CardinalityType
    <3>3. Cardinality(Steady \ seen) <= track.left
      BY <2>1 DEF MissingFew
    <3>4. Cardinality(Steady' \ seen) <= track'.left
      BY <1>1, <1>2, <1>8, <3>2, <3>3
    <3> QED
      BY <1>3, <2>1, <3>4 DEF MissingFew
  <2>2. CASE ~ ended
    <3> DEFINE more == {x \in Steady' : Rank(rows, query, x) \in n..n + Cardinality(gone) - 1}
    <3>1. IsFiniteSet(more) /\ Cardinality(more) <= Cardinality(gone)
      <4>1. more \in SUBSET (from \ Tied(rows, query))
        BY <1>6
      <4>2. listing \in Tables /\ n \in Int /\ \A x \in more : Rank(rows, query, x) \in n..n + Cardinality(gone) - 1
        BY <1>3 DEF PagerColumns
      <4> HIDE DEF more
      <4> QED
        BY <1>1, <4>1, <4>2, FewBetween DEF from
    <3>2. Skipped' \in SUBSET (Skipped \cup more)
      <4>1. ASSUME NEW x \in Skipped' PROVE x \in Skipped \cup more
        <5>1. x \in Steady' /\ x \notin seen /\ Rank(new, query, x) < n
          BY <1>3, <1>4 DEF Skipped
        <5>2. Rank(rows, query, x) <= Rank(new, query, x) + Cardinality(gone)
          BY <1>1, <1>6, <5>1
        <5>3. Rank(rows, query, x) < n + Cardinality(gone)
          BY <1>1, <1>3, <1>7, <5>1, <5>2
        <5>4. CASE Rank(rows, query, x) < n
          BY <1>6, <5>1, <5>4 DEF Skipped, n
        <5>5. CASE Rank(rows, query, x) >= n
          BY <1>1, <1>3, <1>7, <5>1, <5>3, <5>5
        <5> QED
          BY <1>3, <1>7, <5>4, <5>5
      <4> QED
        BY <4>1
    <3>3. IsFiniteSet(Skipped) /\ IsFiniteSet(Skipped')
      <4>1. Skipped \in SUBSET Steady /\ Skipped' \in SUBSET Steady'
        BY DEF Skipped
      <4> QED
        BY <1>7, <4>1, FS_Subset
    <3> HIDE DEF more
    <3>4. Cardinality(Skipped') <= Cardinality(Skipped) + Cardinality(more)
      BY <3>1, <3>2, <3>3, SmallerThanBoth
    <3>5. /\ Cardinality(Skipped') \in Nat /\ Cardinality(Skipped) \in Nat /\ Cardinality(more) \in Nat
          /\ Cardinality(Skipped) <= track.left
      BY <2>2, <3>1, <3>3, FS_CardinalityType DEF MissingFew
    <3>6. Cardinality(Skipped') <= track'.left
      BY <1>1, <1>2, <1>8, <3>1, <3>4, <3>5
    <3> QED
      BY <1>3, <2>2, <3>6 DEF MissingFew
  <2> QED
    BY <2>1, <2>2
<1>10. RepeatedFew'
  <2> DEFINE more == {x \in Steady' : Rank(rows, query, x) \in n - Cardinality(came)..n - 1}
  <2>1. IsFiniteSet(more) /\ Cardinality(more) <= Cardinality(came)
    <3>1. more \in SUBSET (from \ Tied(rows, query))
      BY <1>6
    <3>2. /\ listing \in Tables /\ n - Cardinality(came) \in Int
          /\ \A x \in more : Rank(rows, query, x) \in n - Cardinality(came)..(n - Cardinality(came)) + Cardinality(came) - 1
      BY <1>1, <1>3 DEF PagerColumns
    <3> HIDE DEF more
    <3> QED
      BY <1>1, <3>1, <3>2, FewBetween DEF from
  <2>2. Doubled' \in SUBSET (Doubled \cup more)
    <3>1. ASSUME NEW x \in Doubled' PROVE x \in Doubled \cup more
      <4>1. x \in Steady' /\ (x \in again \/ (x \in seen /\ Rank(new, query, x) >= n))
        BY <1>3, <1>4 DEF Doubled
      <4>2. CASE x \in again
        BY <1>6, <4>1, <4>2 DEF Doubled
      <4>3. CASE x \in seen /\ Rank(new, query, x) >= n
        <5>1. Rank(new, query, x) <= Rank(rows, query, x) + Cardinality(came)
          BY <1>1, <1>6, <4>1
        <5>2. Rank(rows, query, x) >= n - Cardinality(came)
          BY <1>1, <1>3, <1>7, <4>3, <5>1
        <5>3. CASE Rank(rows, query, x) >= n
          BY <1>6, <4>1, <4>3, <5>3 DEF Doubled, n
        <5>4. CASE Rank(rows, query, x) < n
          BY <1>1, <1>3, <1>7, <4>1, <5>2, <5>4
        <5> QED
          BY <1>3, <1>7, <5>3, <5>4
      <4> QED
        BY <4>1, <4>2, <4>3
    <3> QED
      BY <3>1
  <2>3. IsFiniteSet(Doubled) /\ IsFiniteSet(Doubled')
    <3>1. Doubled \in SUBSET Steady /\ Doubled' \in SUBSET Steady'
      BY DEF Doubled
    <3> QED
      BY <1>7, <3>1, FS_Subset
  <2> HIDE DEF more
  <2>4. Cardinality(Doubled') <= Cardinality(Doubled) + Cardinality(more)
    BY <2>1, <2>2, <2>3, SmallerThanBoth
  <2>5. /\ Cardinality(Doubled') \in Nat /\ Cardinality(Doubled) \in Nat /\ Cardinality(more) \in Nat
        /\ Cardinality(Doubled) <= track.arrived
    BY <2>1, <2>3, FS_CardinalityType DEF RepeatedFew
  <2> QED
    BY <1>1, <1>2, <1>8, <2>1, <2>4, <2>5 DEF RepeatedFew
<1>11. track'.left \in Nat /\ track'.arrived \in Nat
  BY <1>1, <1>2, <1>8
<1> QED
  BY <1>5, <1>9, <1>10, <1>11

LEMMA RowsFinite ==
  ASSUME PagerColumns, PagerTypeOK
  PROVE  Stored(rows)
<1>1. DOMAIN rows \in SUBSET (1..lastId) /\ IsFiniteSet(1..lastId)
  BY FS_Interval DEF PagerTypeOK, PagerColumns
<1> QED
  BY <1>1, FS_Subset DEF Stored, PagerColumns

\* The three writes.

LEMMA InsertStep ==
  ASSUME PagerIInv, NEW w \in Writers, NEW s \in Values, NEW u \in 1..clock, AddInsert(w, s, u)
  PROVE  PagerIInv'
<1> DEFINE row == [status |-> s, created |-> stamp[w].at, updated |-> u]
           new == [i \in DOMAIN rows \cup {lastId + 1} |-> IF i \in DOMAIN rows THEN rows[i] ELSE row]
<1>0. PagerColumns /\ PagerTypeOK /\ SavesLater /\ Followed /\ MissingFew /\ RepeatedFew
  BY DEF PagerIInv
<1>1. /\ Write(new) /\ UNCHANGED <<listing, clock, changes, client>> /\ lastId' = lastId + 1
      /\ lastId < MaxRows /\ stamp[w] # Absent /\ stamp' = [stamp EXCEPT ![w] = Absent]
  BY DEF AddInsert
<1>2. /\ row \in Row /\ row.status \in Values
      /\ row.created \in 1..row.updated /\ row.updated <= clock
  <2>1. stamp[w].at \in 1..clock /\ stamp[w].at <= u /\ clock \in Nat
    BY <1>0, <1>1 DEF PagerColumns, PagerTypeOK, AddInsert
  <2> QED
    BY <2>1 DEF Row
<1>3. /\ DOMAIN new = DOMAIN rows \cup {lastId + 1} /\ lastId + 1 \notin DOMAIN rows
      /\ new[lastId + 1] = row /\ \A i \in DOMAIN rows : new[i] = rows[i]
  BY <1>0 DEF PagerColumns, PagerTypeOK
<1> HIDE DEF new, row
<1>4. Stored(new)
  <2>1. IsFiniteSet(DOMAIN new)
    BY <1>0, <1>3, RowsFinite, FS_AddElement DEF Stored
  <2> QED
    BY <1>0, <1>2, <1>3, <2>1 DEF Stored, PagerColumns
<1>5. /\ track'.left \in Nat /\ track'.arrived \in Nat
      /\ Followed' /\ MissingFew' /\ RepeatedFew'
  BY <1>0, <1>1, <1>4, RowsFinite, WriteFollowed
<1>6. /\ rows' = new /\ listing' = listing /\ page' = page /\ ended' = ended /\ seen' = seen /\ again' = again
      /\ changes' = changes /\ clock' = clock /\ Values' = Values /\ Row' = Row
  BY <1>1 DEF Write, client, Values, ByStatus, ByTime, Row
<1>7. PagerColumns'
  <2>1. \A i \in DOMAIN rows' : rows'[i] \in Row'
    BY <1>4, <1>6 DEF Stored
  <2> QED
    BY <1>0, <1>1, <1>5, <1>6, <2>1 DEF PagerColumns
<1>8. /\ lastId \in Nat /\ MaxRows \in Int /\ DOMAIN rows \subseteq 1..lastId
      /\ \A v \in Writers : stamp'[v] # Absent => stamp'[v] = stamp[v] /\ stamp[v] # Absent
  BY <1>0, <1>1, PagerAssumption DEF PagerColumns, PagerTypeOK
<1>9. PagerTypeOK'
  <2>1. DOMAIN rows' \subseteq 1..lastId' /\ lastId' <= MaxRows
    BY <1>1, <1>3, <1>6, <1>8
  <2>2. \A i \in DOMAIN rows' :
          /\ rows'[i].status \in Values' /\ rows'[i].created \in 1..rows'[i].updated
          /\ rows'[i].updated <= clock'
    <3>1. ASSUME NEW i \in DOMAIN rows
          PROVE  rows[i].status \in Values /\ rows[i].created \in 1..rows[i].updated /\ rows[i].updated <= clock
      BY <1>0 DEF PagerTypeOK
    <3> QED
      BY <1>2, <1>3, <1>6, <3>1
  <2>3. ASSUME NEW v \in Writers, stamp'[v] # Absent
        PROVE  stamp'[v] \in [id : 0..lastId', at : 1..clock']
    <3>1. stamp'[v] \in [id : 0..lastId, at : 1..clock]
      BY <1>0, <1>8, <2>3 DEF PagerTypeOK
    <3>2. 0..lastId \subseteq 0..lastId'
      BY <1>1, <1>8
    <3> QED
      BY <1>6, <3>1, <3>2
  <2>4. again' \subseteq seen' /\ seen' \subseteq 1..lastId'
    BY <1>0, <1>1, <1>6, <1>8 DEF PagerTypeOK
  <2> QED
    BY <2>1, <2>2, <2>3, <2>4 DEF PagerTypeOK
<1>10. SavesLater'
  <2>1. ASSUME NEW v \in Writers, stamp'[v] # Absent, stamp'[v].id \in DOMAIN rows'
        PROVE  rows'[stamp'[v].id].created <= stamp'[v].at
    <3>1. stamp'[v] = stamp[v] /\ stamp[v] # Absent /\ stamp[v].id \in 0..lastId
      BY <1>0, <1>8, <2>1 DEF PagerTypeOK
    <3>2. stamp[v].id \in DOMAIN rows /\ rows'[stamp[v].id] = rows[stamp[v].id]
      BY <1>3, <1>6, <1>8, <2>1, <3>1
    <3> QED
      BY <1>0, <3>1, <3>2 DEF SavesLater
  <2> QED
    BY <2>1 DEF SavesLater
<1> QED
  BY <1>5, <1>7, <1>9, <1>10 DEF PagerIInv

LEMMA SaveStep ==
  ASSUME PagerIInv, NEW w \in Writers, NEW s \in Values, SaveUpdate(w, s)
  PROVE  PagerIInv'
<1> DEFINE j == stamp[w].id
           new == [i \in DOMAIN rows |->
                     IF i = j THEN [rows[i] EXCEPT !.updated = stamp[w].at, !.status = s] ELSE rows[i]]
<1>0. PagerColumns /\ PagerTypeOK /\ SavesLater /\ Followed /\ MissingFew /\ RepeatedFew
  BY DEF PagerIInv
<1>1. /\ Write(new) /\ UNCHANGED <<listing, lastId, clock, changes, client>>
      /\ stamp[w] # Absent /\ stamp' = [stamp EXCEPT ![w] = Absent]
  BY DEF SaveUpdate
<1>2. DOMAIN new = DOMAIN rows /\ \A i \in DOMAIN rows : i # j => new[i] = rows[i]
  OBVIOUS
<1>3. stamp[w].at \in 1..clock /\ clock \in Nat
  BY <1>0, <1>1 DEF PagerColumns, PagerTypeOK
<1>4. ASSUME j \in DOMAIN rows
      PROVE  /\ new[j] \in Row /\ new[j].status = s
             /\ new[j].created = rows[j].created /\ new[j].updated = stamp[w].at
  <2>1. rows[j] \in Row
    BY <1>0, <1>4 DEF PagerColumns
  <2>2. new[j] = [rows[j] EXCEPT !.updated = stamp[w].at, !.status = s]
    BY <1>4
  <2>3. stamp[w].at \in Nat
    BY <1>3
  <2> HIDE DEF new, j
  <2> QED
    BY <2>1, <2>2, <2>3 DEF Row
<1>5. ASSUME j \in DOMAIN rows
      PROVE  rows[j].created \in 1..stamp[w].at
  <2>1. rows[j].created \in 1..rows[j].updated /\ rows[j].created <= stamp[w].at
    BY <1>0, <1>1, <1>5 DEF PagerTypeOK, SavesLater
  <2> QED
    BY <1>3, <2>1
<1> HIDE DEF new, j
<1>6. Stored(new)
  BY <1>0, <1>2, <1>4, RowsFinite DEF Stored
<1>7. /\ track'.left \in Nat /\ track'.arrived \in Nat
      /\ Followed' /\ MissingFew' /\ RepeatedFew'
  BY <1>0, <1>1, <1>6, RowsFinite, WriteFollowed
<1>8. /\ rows' = new /\ listing' = listing /\ page' = page /\ ended' = ended /\ seen' = seen /\ again' = again
      /\ lastId' = lastId /\ clock' = clock /\ changes' = changes /\ Values' = Values /\ Row' = Row
  BY <1>1 DEF Write, client, Values, ByStatus, ByTime, Row
<1>9. PagerColumns'
  <2>1. \A i \in DOMAIN rows' : rows'[i] \in Row'
    BY <1>6, <1>8 DEF Stored
  <2> QED
    BY <1>0, <1>1, <1>7, <1>8, <2>1 DEF PagerColumns
<1>10. \A v \in Writers : stamp'[v] # Absent => stamp'[v] = stamp[v] /\ stamp[v] # Absent
  BY <1>0, <1>1 DEF PagerColumns
<1>11. PagerTypeOK'
  <2>1. ASSUME NEW i \in DOMAIN rows'
        PROVE  /\ rows'[i].status \in Values' /\ rows'[i].created \in 1..rows'[i].updated
               /\ rows'[i].updated <= clock'
    <3>1. CASE i = j
      BY <1>2, <1>3, <1>4, <1>5, <1>8, <3>1
    <3>2. CASE i # j
      BY <1>0, <1>2, <1>8, <3>2 DEF PagerTypeOK
    <3> QED
      BY <3>1, <3>2
  <2>2. \A v \in Writers : stamp'[v] = Absent \/ stamp'[v] \in [id : 0..lastId', at : 1..clock']
    BY <1>0, <1>8, <1>10 DEF PagerTypeOK
  <2> QED
    BY <1>0, <1>2, <1>8, <2>1, <2>2 DEF PagerTypeOK
<1>12. SavesLater'
  <2>1. ASSUME NEW i \in DOMAIN rows PROVE rows'[i].created = rows[i].created
    BY <1>2, <1>4, <1>8
  <2> QED
    BY <1>0, <1>2, <1>8, <1>10, <2>1 DEF SavesLater
<1> QED
  BY <1>7, <1>9, <1>11, <1>12 DEF PagerIInv

LEMMA DeleteStep ==
  ASSUME PagerIInv, NEW S \in SUBSET DOMAIN rows, Delete(S)
  PROVE  PagerIInv'
<1> DEFINE new == [i \in DOMAIN rows \ S |-> rows[i]]
<1>0. PagerColumns /\ PagerTypeOK /\ SavesLater /\ Followed /\ MissingFew /\ RepeatedFew
  BY DEF PagerIInv
<1>1. /\ Write(new) /\ UNCHANGED <<listing, lastId, clock, stamp, client>> /\ changes' = changes + 1
  BY DEF Delete
<1>2. DOMAIN new = DOMAIN rows \ S /\ \A i \in DOMAIN new : new[i] = rows[i]
  OBVIOUS
<1> HIDE DEF new
<1>3. Stored(new)
  BY <1>0, <1>2, RowsFinite, FS_Difference DEF Stored
<1>4. /\ track'.left \in Nat /\ track'.arrived \in Nat
      /\ Followed' /\ MissingFew' /\ RepeatedFew'
  BY <1>0, <1>1, <1>3, RowsFinite, WriteFollowed
<1>6. /\ rows' = new /\ listing' = listing /\ page' = page /\ ended' = ended /\ seen' = seen /\ again' = again
      /\ lastId' = lastId /\ clock' = clock /\ stamp' = stamp /\ Values' = Values /\ Row' = Row
  BY <1>1 DEF Write, client, Values, ByStatus, ByTime, Row
<1>7. PagerColumns'
  <2>1. \A i \in DOMAIN rows' : rows'[i] \in Row'
    BY <1>3, <1>6 DEF Stored
  <2> QED
    BY <1>0, <1>1, <1>4, <1>6, <2>1 DEF PagerColumns
<1>8. PagerTypeOK'
  BY <1>0, <1>2, <1>6 DEF PagerTypeOK
<1>9. SavesLater'
  BY <1>0, <1>2, <1>6 DEF SavesLater
<1> QED
  BY <1>4, <1>7, <1>8, <1>9 DEF PagerIInv

\* The client.

LEMMA ReadStep ==
  ASSUME PagerIInv, ReadPage
  PROVE  PagerIInv'
<1> DEFINE n == Offset(page)
           R == Result(rows, query)
<1>0. PagerColumns /\ PagerTypeOK /\ SavesLater /\ Followed /\ MissingFew /\ RepeatedFew /\ Stored(rows)
  BY RowsFinite DEF PagerIInv
<1>1. PICK got \in Page(rows, query, page) :
        again' = again \cup (got \cap seen) /\ seen' = seen \cup got /\ ended' = (Cardinality(got) < Limit)
  BY DEF ReadPage
<1>2. /\ ~ ended /\ page' = page + 1
      /\ UNCHANGED <<listing, rows, lastId, clock, stamp, changes, query, track>>
  BY DEF ReadPage
<1>3. /\ got \subseteq R /\ IsFiniteSet(got) /\ Cardinality(got) \in 0..Limit
      /\ \A x \in R \ Tied(rows, query) :
              /\ x \in got => Rank(rows, query, x) >= n /\ Rank(rows, query, x) < n + Limit
              /\ x \notin got => \/ Rank(rows, query, x) < n
                                 \/ Cardinality(got) = Limit /\ Rank(rows, query, x) >= n + Limit
  BY <1>0, PageHas DEF PagerColumns
<1>4. /\ Result(rows, query)' = R /\ Tied(rows, query)' = Tied(rows, query)
      /\ \A x : Rank(rows, query, x)' = Rank(rows, query, x)
  BY <1>2, SameQuestion
<1>5. /\ page \in Nat /\ n \in Nat /\ Limit \in Nat \ {0} /\ Offset(page)' \in Nat
      /\ (page = 0 => Offset(page)' = n) /\ (page # 0 => Offset(page)' = n + Limit)
  <2>1. page \in Nat /\ Offset(page)' = Offset(page + 1)
    BY <1>0, <1>2 DEF PagerColumns, Offset
  <2> QED
    BY <2>1, OffsetIs, PagerAssumption
<1>6. Steady' = Steady /\ Steady \subseteq R \ Tied(rows, query) /\ IsFiniteSet(Steady)
  <2>1. Steady' = Steady /\ Steady \subseteq R \ Tied(rows, query)
    BY <1>0, <1>2 DEF Steady, Followed
  <2>2. IsFiniteSet(R)
    BY <1>0, RankIs DEF PagerColumns
  <2> QED
    BY <2>1, <2>2, FS_Subset
<1>7. \A x : Rank(rows, query, x) \in Nat
  BY <1>0, RankIs DEF PagerColumns
<1>8. R \subseteq 1..lastId
  BY <1>0, ResultIn DEF PagerColumns, PagerTypeOK
<1>9. track.left \in Nat /\ track.arrived \in Nat /\ track' = track
  BY <1>0, <1>2 DEF PagerColumns
<1> HIDE DEF n, R
<1>10. MissingFew'
  <2>1. IsFiniteSet(Skipped) /\ Cardinality(Skipped) \in Nat /\ Cardinality(Skipped) <= track.left
    <3>1. Skipped \in SUBSET Steady
      BY DEF Skipped
    <3> QED
      BY <1>0, <1>2, <1>6, <3>1, FS_Subset, FS_CardinalityType DEF MissingFew
  <2>2. CASE ended'
    <3>1. Steady \ seen' \in SUBSET Skipped
      <4>1. ASSUME NEW x \in Steady \ seen' PROVE x \in Skipped
        <5>1. x \notin got /\ x \notin seen /\ Cardinality(got) < Limit /\ x \in R \ Tied(rows, query)
          BY <1>1, <1>6, <2>2
        <5>2. Cardinality(got) # Limit
          BY <1>3, <1>5, <5>1
        <5>3. Rank(rows, query, x) < n
          BY <1>3, <5>1, <5>2
        <5> QED
          BY <5>1, <5>3 DEF Skipped, n
      <4> QED
        BY <4>1
    <3>2. Cardinality(Steady \ seen') \in Nat /\ Cardinality(Steady \ seen') <= track.left
      BY <1>9, <2>1, <3>1, FS_Subset, FS_CardinalityType
    <3> QED
      BY <1>6, <1>9, <2>2, <3>2 DEF MissingFew
  <2>3. CASE ~ ended'
    <3>1. Skipped' \in SUBSET Skipped
      <4>1. ASSUME NEW x \in Skipped' PROVE x \in Skipped
        <5>1. x \in Steady /\ x \notin seen /\ x \notin got /\ Rank(rows, query, x) < Offset(page)'
          BY <1>1, <1>4, <1>6 DEF Skipped
        <5>2. Rank(rows, query, x) < n
          BY <1>3, <1>5, <1>6, <1>7, <5>1
        <5> QED
          BY <5>1, <5>2 DEF Skipped, n
      <4> QED
        BY <4>1
    <3>2. Cardinality(Skipped') \in Nat /\ Cardinality(Skipped') <= track.left
      BY <1>9, <2>1, <3>1, FS_Subset, FS_CardinalityType
    <3> QED
      BY <1>9, <2>3, <3>2 DEF MissingFew
  <2> QED
    BY <2>2, <2>3
<1>11. RepeatedFew'
  <2>1. CASE page = 0
    <3>1. seen = {} /\ again = {} /\ track.arrived >= Limit
      BY <1>0, <2>1 DEF Followed
    <3>2. Doubled' \in SUBSET got
      BY <1>1, <3>1 DEF Doubled
    <3>3. Cardinality(Doubled') \in Nat /\ Cardinality(Doubled') <= Limit
      BY <1>3, <1>5, <3>2, FS_Subset, FS_CardinalityType
    <3> QED
      BY <1>5, <1>9, <3>1, <3>3 DEF RepeatedFew
  <2>2. CASE page # 0
    <3>1. Doubled' \in SUBSET Doubled
      <4>1. ASSUME NEW x \in Doubled' PROVE x \in Doubled
        <5>1. /\ x \in Steady
              /\ x \in again \/ x \in got \cap seen \/ (x \in seen \cup got /\ Rank(rows, query, x) >= n + Limit)
          BY <1>1, <1>4, <1>5, <1>6, <2>2 DEF Doubled
        <5>2. x \in got => Rank(rows, query, x) >= n /\ Rank(rows, query, x) < n + Limit
          BY <1>3, <1>6, <5>1
        <5>3. x \in again \/ (x \in seen /\ Rank(rows, query, x) >= n)
          BY <1>5, <1>7, <5>1, <5>2
        <5> QED
          BY <5>1, <5>3 DEF Doubled, n
      <4> QED
        BY <4>1
    <3>2. IsFiniteSet(Doubled) /\ Cardinality(Doubled) \in Nat /\ Cardinality(Doubled) <= track.arrived
      <4>1. Doubled \in SUBSET Steady
        BY DEF Doubled
      <4> QED
        BY <1>0, <1>6, <4>1, FS_Subset, FS_CardinalityType DEF RepeatedFew
    <3>3. Cardinality(Doubled') \in Nat /\ Cardinality(Doubled') <= track.arrived
      BY <1>9, <3>1, <3>2, FS_Subset, FS_CardinalityType
    <3> QED
      BY <1>9, <3>3 DEF RepeatedFew
  <2> QED
    BY <2>1, <2>2
<1>12. Followed'
  BY <1>0, <1>2, <1>4, <1>5 DEF Followed, R
<1>13. PagerColumns'
  <2>1. Row' = Row /\ Values' = Values
    BY <1>2 DEF Row, Values, ByStatus, ByTime
  <2> QED
    BY <1>0, <1>1, <1>2, <2>1 DEF PagerColumns
<1>14. PagerTypeOK'
  <2>1. Values' = Values
    BY <1>2 DEF Values, ByStatus, ByTime
  <2>2. again' \subseteq seen' /\ seen' \subseteq 1..lastId
    BY <1>0, <1>1, <1>3, <1>8 DEF PagerTypeOK
  <2> QED
    BY <1>0, <1>2, <2>1, <2>2 DEF PagerTypeOK
<1>15. SavesLater'
  <2>1. rows' = rows /\ stamp' = stamp
    BY DEF ReadPage
  <2> QED
    BY <1>0, <2>1 DEF SavesLater
<1> QED
  BY <1>10, <1>11, <1>12, <1>13, <1>14, <1>15 DEF PagerIInv

\* The client starts with a table whose rows have keys of their own, and has got nothing.
LEMMA PagerStarts ==
  ASSUME PagerInit
  PROVE  PagerIInv
<1>1. PICK s \in [1..InitRows -> Values], u \in [1..InitRows -> 1..InitRows + 1] :
        /\ \A i \in 1..InitRows : i <= u[i]
        /\ rows = [i \in 1..InitRows |-> [status |-> s[i], created |-> i, updated |-> u[i]]]
  BY DEF PagerInit
<1>2. /\ listing \in Tables /\ lastId = InitRows /\ clock = InitRows + 1 /\ changes = 0
      /\ page \in {0, 1}
      /\ ended = FALSE /\ seen = {} /\ again = {}
      /\ track = [kept |-> Result(rows, query), tied |-> Tied(rows, query), left |-> 0,
                  arrived |-> IF page = 0 THEN Limit ELSE 0]
  BY DEF PagerInit
<1>3. InitRows \in Nat /\ MaxRows \in Nat /\ InitRows <= MaxRows /\ Limit \in Nat
  BY PagerAssumption
<1>4. DOMAIN rows = 1..InitRows
  BY <1>1
<1>5. ASSUME NEW i \in 1..InitRows
      PROVE  /\ rows[i] \in Row /\ rows[i].status \in Values
             /\ rows[i].created = i /\ rows[i].updated \in i..InitRows + 1
  <2>1. rows[i] = [status |-> s[i], created |-> i, updated |-> u[i]] /\ u[i] \in i..InitRows + 1
    BY <1>1, <1>3
  <2>2. s[i] \in Values /\ u[i] \in Nat /\ i \in Nat
    BY <1>3, <2>1
  <2> QED
    BY <2>1, <2>2 DEF Row
<1>6. /\ DOMAIN stamp = Writers
      /\ \A w \in Writers : stamp[w] = Absent \/
           (stamp[w] \in [id : 0..InitRows, at : 1..InitRows + 1] /\ stamp[w].id <= stamp[w].at)
  <2>1. {New} \cup Saved(rows) \subseteq 0..InitRows
    BY <1>3, <1>4 DEF New, Saved
  <2> DEFINE taken == {p \in [id : {New} \cup Saved(rows), at : 1..InitRows + 1] : p.id <= p.at}
  <2>2. stamp \in [Writers -> {Absent} \cup taken]
    BY DEF PagerInit
  <2>3. \A p \in taken : p \in [id : 0..InitRows, at : 1..InitRows + 1] /\ p.id <= p.at
    BY <2>1
  <2> HIDE DEF taken
  <2> QED
    BY <2>2, <2>3
<1>7. PagerColumns
  <2>1. track.left = 0 /\ track.arrived \in Nat
    BY <1>2, <1>3
  <2>2. \A i \in DOMAIN rows : rows[i] \in Row
    BY <1>4, <1>5
  <2>3. lastId \in Nat /\ clock \in Nat \ {0} /\ changes \in Nat /\ page \in Nat
    BY <1>2, <1>3
  <2>4. ended \in BOOLEAN
    BY <1>2
  <2> QED
    BY <1>2, <1>6, <2>1, <2>2, <2>3, <2>4 DEF PagerColumns
<1>8. PagerTypeOK /\ SavesLater /\ Followed
  <2>1. ASSUME NEW i \in DOMAIN rows
        PROVE  /\ rows[i].status \in Values /\ rows[i].created \in 1..rows[i].updated
               /\ rows[i].updated <= clock
    BY <1>2, <1>3, <1>4, <1>5
  <2>2. PagerTypeOK
    BY <1>2, <1>3, <1>4, <1>6, <2>1 DEF PagerTypeOK
  <2>3. SavesLater
    BY <1>4, <1>5, <1>6 DEF SavesLater
  <2>4. Followed
    BY <1>2, <1>3 DEF Followed
  <2> QED
    BY <2>2, <2>3, <2>4
<1>9. MissingFew /\ RepeatedFew
  <2>1. \A x : Rank(rows, query, x) \in Nat
    BY <1>7, <1>8, RowsFinite, RankIs DEF PagerColumns
  <2>2. Offset(page) = 0
    BY <1>2, OffsetIs
  <2>3. Skipped = {} /\ Doubled = {}
    BY <1>2, <2>1, <2>2 DEF Skipped, Doubled
  <2>4. Cardinality({}) = 0
    BY FS_EmptySet
  <2>5. track.left = 0 /\ track.arrived \in Nat
    BY <1>2, <1>3
  <2> QED
    BY <1>2, <2>3, <2>4, <2>5 DEF MissingFew, RepeatedFew
<1> QED
  BY <1>7, <1>8, <1>9 DEF PagerIInv

LEMMA QuietStep ==
  ASSUME PagerIInv, UNCHANGED <<listing, rows, lastId, client, track>>,
         clock' = clock \/ clock' = clock + 1,
         changes' = changes \/ changes' = changes + 1,
         \/ stamp' = stamp
         \/ \E w \in Writers, i \in {New} \cup DOMAIN rows : TakeTime(w, i)
  PROVE  PagerIInv'
<1>0. PagerColumns /\ PagerTypeOK /\ SavesLater /\ Followed /\ MissingFew /\ RepeatedFew
  BY DEF PagerIInv
<1>1. /\ listing' = listing /\ rows' = rows /\ lastId' = lastId /\ track' = track
      /\ query' = query /\ page' = page /\ ended' = ended /\ seen' = seen /\ again' = again
  BY DEF client
<1>2. Row' = Row /\ Values' = Values
  BY <1>1 DEF Row, Values, ByStatus, ByTime
<1>3. clock \in Nat /\ clock' \in Nat /\ clock <= clock'
  BY <1>0 DEF PagerColumns
<1>4. PagerColumns'
  <2>1. DOMAIN stamp' = Writers /\ changes' \in Nat /\ clock' \in Nat \ {0}
    BY <1>0, <1>3 DEF PagerColumns, TakeTime
  <2> QED
    BY <1>0, <1>1, <1>2, <2>1 DEF PagerColumns
<1>5. PagerTypeOK'
  <2>1. ASSUME NEW i \in DOMAIN rows
        PROVE  /\ rows[i].status \in Values /\ rows[i].created \in 1..rows[i].updated
               /\ rows[i].updated <= clock'
    <3>1. rows[i].updated \in Nat /\ rows[i].updated <= clock
      BY <1>0 DEF PagerColumns, PagerTypeOK, Row
    <3> QED
      BY <1>0, <1>3, <3>1 DEF PagerTypeOK
  <2>2. ASSUME NEW v \in Writers
        PROVE  stamp'[v] = Absent \/ stamp'[v] \in [id : 0..lastId, at : 1..clock']
    <3>1. stamp[v] = Absent \/ stamp[v] \in [id : 0..lastId, at : 1..clock']
      <4>1. stamp[v] = Absent \/ stamp[v] \in [id : 0..lastId, at : 1..clock]
        BY <1>0 DEF PagerTypeOK
      <4>2. 1..clock \subseteq 1..clock'
        BY <1>3
      <4> QED
        BY <4>1, <4>2
    <3>2. stamp'[v] = stamp[v] \/ \E i \in {New} \cup DOMAIN rows : stamp'[v] = [id |-> i, at |-> clock]
      BY <1>0 DEF PagerColumns, TakeTime
    <3>3. clock \in 1..clock' /\ {New} \cup DOMAIN rows \subseteq 0..lastId
      BY <1>0, <1>3 DEF PagerColumns, PagerTypeOK, New
    <3>4. CASE stamp'[v] = stamp[v]
      BY <3>1, <3>4
    <3>5. ASSUME NEW i \in {New} \cup DOMAIN rows, stamp'[v] = [id |-> i, at |-> clock]
          PROVE  stamp'[v] \in [id : 0..lastId, at : 1..clock']
      <4>1. i \in 0..lastId
        BY <3>3
      <4> QED
        BY <3>3, <3>5, <4>1
    <3> QED
      BY <3>2, <3>4, <3>5
  <2> QED
    BY <1>0, <1>1, <1>2, <2>1, <2>2 DEF PagerTypeOK
<1>6. SavesLater'
  <2>1. ASSUME NEW v \in Writers, stamp'[v] # Absent, stamp'[v].id \in DOMAIN rows
        PROVE  rows[stamp'[v].id].created <= stamp'[v].at
    <3>1. CASE stamp'[v] = stamp[v]
      BY <1>0, <2>1, <3>1 DEF SavesLater
    <3>2. CASE \E i \in {New} \cup DOMAIN rows : stamp'[v] = [id |-> i, at |-> clock]
      <4>1. stamp'[v].at = clock
        BY <3>2
      <4>2. rows[stamp'[v].id] \in Row /\ rows[stamp'[v].id].created <= rows[stamp'[v].id].updated
            /\ rows[stamp'[v].id].updated <= clock
        BY <1>0, <2>1 DEF PagerColumns, PagerTypeOK
      <4> QED
        BY <1>3, <4>1, <4>2 DEF Row
    <3>3. stamp'[v] = stamp[v] \/ \E i \in {New} \cup DOMAIN rows : stamp'[v] = [id |-> i, at |-> clock]
      BY <1>0 DEF PagerColumns, TakeTime
    <3> QED
      BY <3>1, <3>2, <3>3
  <2> QED
    BY <1>1, <2>1 DEF SavesLater
<1>7. Followed' /\ MissingFew' /\ RepeatedFew'
  <2>1. /\ Result(rows, query)' = Result(rows, query) /\ Tied(rows, query)' = Tied(rows, query)
        /\ \A x : Rank(rows, query, x)' = Rank(rows, query, x)
    BY <1>1, SameQuestion
  <2>2. Steady' = Steady /\ Offset(page)' = Offset(page)
    BY <1>1 DEF Steady, Offset
  <2>3. Skipped' = Skipped /\ Doubled' = Doubled
    BY <1>1, <2>1, <2>2 DEF Skipped, Doubled
  <2> QED
    BY <1>0, <1>1, <2>1, <2>2, <2>3 DEF Followed, MissingFew, RepeatedFew
<1> QED
  BY <1>4, <1>5, <1>6, <1>7 DEF PagerIInv

LEMMA PagerInductive == PagerSpec => []PagerIInv
<1>1. PagerInit => PagerIInv
  BY PagerStarts
<1>2. ASSUME PagerIInv, [PagerNext]_pagerVars PROVE PagerIInv'
  <2>1. CASE Tick
    BY <1>2, <2>1, QuietStep DEF Tick
  <2>2. ASSUME NEW w \in Writers, AddStamp(w) PROVE PagerIInv'
    BY <1>2, <2>2, QuietStep DEF AddStamp
  <2>3. ASSUME NEW w \in Writers, NEW s \in Values, NEW u \in 1..clock, AddInsert(w, s, u) PROVE PagerIInv'
    BY <1>2, <2>3, InsertStep
  <2>4. ASSUME NEW w \in Writers, NEW s \in Values, SaveUpdate(w, s) PROVE PagerIInv'
    BY <1>2, <2>4, SaveStep
  <2>8. ASSUME NEW w \in Writers, NEW i \in DOMAIN rows, SaveStamp(w, i) PROVE PagerIInv'
    BY <1>2, <2>8, QuietStep DEF SaveStamp
  <2>5. ASSUME NEW S \in SUBSET DOMAIN rows, Delete(S) PROVE PagerIInv'
    BY <1>2, <2>5, DeleteStep
  <2>6. CASE ReadPage
    BY <1>2, <2>6, ReadStep
  <2>7. CASE UNCHANGED pagerVars
    BY <1>2, <2>7, QuietStep DEF pagerVars, client
  <2> QED
    BY <1>2, <2>1, <2>2, <2>3, <2>4, <2>5, <2>6, <2>7, <2>8 DEF PagerNext
<1> QED
  BY <1>1, <1>2, PTL DEF PagerSpec

\* Rows have their columns, and no row is updated before it is created, for any table, number of
\* writers and page size.
THEOREM PagerTypeCorrect == PagerSpec => []PagerTypeOK
<1>1. PagerIInv => PagerTypeOK
  BY DEF PagerIInv
<1> QED
  BY <1>1, PagerInductive, PTL

\* A client that reads page after page misses a row that keeps its place only because another
\* left the result or fell behind by a crossing save, one for one, and gets one twice only because
\* another arrived or rose.
THEOREM PagesFitTogether == PagerSpec => []PagesFit
<1>1. ASSUME PagerIInv PROVE PagesFit
  <2>0. PagerColumns /\ PagerTypeOK /\ Followed /\ MissingFew /\ RepeatedFew /\ Stored(rows)
    BY <1>1, RowsFinite DEF PagerIInv
  <2>1. MissedOnlyByLeaving
    BY <2>0 DEF MissingFew, MissedOnlyByLeaving
  <2>2. RepeatedOnlyByArriving
    <3>1. Steady \subseteq Result(rows, query) /\ IsFiniteSet(Result(rows, query))
      BY <2>0, RankIs DEF Steady, Followed, PagerColumns
    <3>2. Doubled \in SUBSET Result(rows, query) /\ Steady \cap again \in SUBSET Doubled
      BY <3>1 DEF Doubled
    <3>3. IsFiniteSet(Doubled) /\ Cardinality(Doubled) \in Nat
      BY <3>1, <3>2, FS_Subset, FS_CardinalityType
    <3>4. Cardinality(Steady \cap again) \in Nat /\ Cardinality(Steady \cap again) <= Cardinality(Doubled)
      BY <3>2, <3>3, FS_Subset, FS_CardinalityType
    <3>5. Cardinality(Doubled) <= track.arrived /\ track.arrived \in Nat
      BY <2>0 DEF RepeatedFew, PagerColumns
    <3> QED
      BY <3>3, <3>4, <3>5 DEF RepeatedOnlyByArriving
  <2> QED
    BY <2>1, <2>2 DEF PagesFit
<1>2. PagerIInv => PagesFit
  BY <1>1
<1> QED
  BY <1>2, PagerInductive, PTL

\* While nothing leaves the result, a client that has read to the end has got every row that kept
\* its place; while nothing arrives or moves, and pages are counted from one, it got none twice.
ReadOnce ==
  /\ (ended /\ track.left = 0) => Steady \subseteq seen
  /\ track.arrived = 0 => Steady \cap again = {}

\* A client that reads a table nobody changes gets every steady row, and none twice.
THEOREM QuietTableReadOnce == PagerSpec => []ReadOnce
<1>1. ASSUME PagerIInv, PagesFit
      PROVE  ReadOnce
  <2>1. Steady \subseteq Result(rows, query) /\ IsFiniteSet(Result(rows, query))
    BY <1>1, RowsFinite, RankIs DEF PagerIInv, Steady, Followed, PagerColumns
  <2>2. Steady \ seen \in SUBSET Result(rows, query) /\ Steady \cap again \in SUBSET Result(rows, query)
    BY <2>1
  <2>3. /\ IsFiniteSet(Steady \ seen) /\ Cardinality(Steady \ seen) \in Nat
        /\ IsFiniteSet(Steady \cap again) /\ Cardinality(Steady \cap again) \in Nat
    BY <2>1, <2>2, FS_Subset, FS_CardinalityType
  <2>4. (ended /\ track.left = 0) => Cardinality(Steady \ seen) = 0
    BY <1>1, <2>3 DEF PagesFit, MissedOnlyByLeaving
  <2>5. track.arrived = 0 => Cardinality(Steady \cap again) = 0
    BY <1>1, <2>3 DEF PagesFit, RepeatedOnlyByArriving
  <2>6. /\ Cardinality(Steady \ seen) = 0 => Steady \ seen = {}
        /\ Cardinality(Steady \cap again) = 0 => Steady \cap again = {}
    BY <2>3, FS_EmptySet
  <2> QED
    BY <2>4, <2>5, <2>6 DEF ReadOnce
<1>2. PagerIInv /\ PagesFit => ReadOnce
  BY <1>1
<1> QED
  BY <1>2, PagerInductive, PagesFitTogether, PTL

\* The total counts what the listing lists, for every condition; that of the history of alerts is
\* off by the rows at most whose update time was taken after their creation time.
THEOREM TotalsFit == PagerSpec => []TotalFitsListing
<1>1. ASSUME PagerIInv, NEW q \in Queries
      PROVE  LET off == Total(rows, q) - Cardinality(Result(rows, q))
                 behind == {i \in DOMAIN rows : rows[i].created < rows[i].updated}
             IN  IF listing = "alert_history" /\ q.window # Absent
                 THEN off \in -Cardinality(behind)..Cardinality(behind)
                 ELSE off = 0
  <2> DEFINE off == Total(rows, q) - Cardinality(Result(rows, q))
             behind == {i \in DOMAIN rows : rows[i].created < rows[i].updated}
             counted == {i \in DOMAIN rows : Between(rows[i].updated, q)}
             listed == {i \in DOMAIN rows : Between(rows[i].created, q)}
  <2>0. PagerColumns /\ PagerTypeOK /\ Stored(rows) /\ IsFiniteSet(DOMAIN rows)
    BY <1>1, RowsFinite DEF PagerIInv, Stored
  <2>1. CASE listing # "alert_history"
    <3>1. listing \in {"alert_log", "alert_history", "rule_linkage_log", "data_forward_log", "device_instance",
                       "devices", "alert_config", "device_model", "rule_linkage", "data_forward"}
      BY <2>0, PagerAssumption DEF PagerColumns
    <3>2. Total(rows, q) = Cardinality(Result(rows, q))
      BY <2>1, <3>1 DEF Total, Result, AlertLogs, RuleLinkageLogs, DataForwardLogs, DeviceInstances,
            DevicesByUpdate, AlertConfigs, DeviceModels, RuleLinkages, DataForwards,
            AlertLogCount, RuleLinkageLogCount, DataForwardLogCount, DeviceInstanceCount,
            DeviceCount, AlertConfigCount, DeviceModelCount, RuleLinkageCount, DataForwardCount
    <3>3. Cardinality(Result(rows, q)) \in Nat
      BY <2>0, RankIs DEF PagerColumns
    <3>4. off = 0
      BY <3>2, <3>3
    <3> QED
      BY <2>1, <3>4
  <2>2. CASE listing = "alert_history"
    <3>1. Total(rows, q) = Cardinality(counted) /\ Result(rows, q) = listed
      BY <2>2 DEF Total, Result, AlertHistoryCount, AlertHistorys
    <3>2. /\ IsFiniteSet(counted) /\ IsFiniteSet(listed) /\ IsFiniteSet(behind)
          /\ Cardinality(counted) \in Nat /\ Cardinality(listed) \in Nat /\ Cardinality(behind) \in Nat
      <4>1. counted \in SUBSET DOMAIN rows /\ listed \in SUBSET DOMAIN rows /\ behind \in SUBSET DOMAIN rows
        OBVIOUS
      <4> HIDE DEF counted, listed, behind
      <4> QED
        BY <2>0, <4>1, FS_Subset, FS_CardinalityType
    <3>3. CASE q.window = Absent
      <4>1. counted = listed
        BY <3>3 DEF Between
      <4>2. off = 0
        BY <3>1, <3>2, <4>1
      <4> QED
        BY <3>3, <4>2
    <3>4. CASE q.window # Absent
      <4>1. \A i \in DOMAIN rows : rows[i].created = rows[i].updated \/ rows[i].created < rows[i].updated
        BY <2>0 DEF PagerTypeOK, PagerColumns, Row
      <4>2. counted \in SUBSET (listed \cup behind) /\ listed \in SUBSET (counted \cup behind)
        BY <4>1
      <4> HIDE DEF counted, listed, behind
      <4>3. /\ Cardinality(counted) <= Cardinality(listed) + Cardinality(behind)
            /\ Cardinality(listed) <= Cardinality(counted) + Cardinality(behind)
        BY <3>2, <4>2, SmallerThanBoth
      <4>4. off \in -Cardinality(behind)..Cardinality(behind)
        BY <3>1, <3>2, <4>3
      <4> QED
        BY <2>2, <3>4, <4>4 DEF behind
    <3> QED
      BY <3>3, <3>4
  <2> QED
    BY <2>1, <2>2
<1>2. PagerIInv => TotalFitsListing
  BY <1>1 DEF TotalFitsListing
<1> QED
  BY <1>2, PagerInductive, PTL
================================================================================

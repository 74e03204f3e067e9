---------------------------- MODULE Devices_proofs ----------------------------
(***************************************************************************)
(* The tables of devices.  What the deletes leave behind and what others see *)
(* of them, for any number of calls, rows and rules: the invariants of       *)
(* DeviceStore and its refinement of AtomicDevices.  What StoreExtensionConfig *)
(* and a copy store, for every device model, request and configuration: the  *)
(* invariant of DeviceAssembly.                                              *)
(***************************************************************************)
EXTENDS DeviceStore, DeviceAssembly, WellFoundedInduction, TLAPS

-----------------------------------------------------------------------------
(* Deletes. *)

\* A delete of a device between its first look-up and its end.
Working(c) == pc[c] \in {"scan", "unlink", "device", "forwards", "alerts", "commit"}

\* A leftover that NoLeftovers allows.
Excused(x) == x \in late \/ Unlinking(x[1])

\* Generated ids are used once, and what is being deleted is gone.
IdsUsedOnce ==
  /\ rows \cap (Services \cup Events \cup Alerts) \cap unused = {}
  /\ owners \cap unused = {}
  /\ \A c \in Calls : pc[c] = "owUnlink" => found[c] \cap (owners \cup unused) = {}

ForeignKeys ==
  /\ \A s \in rows \cap Services : DeviceOf[s] \in rows
  /\ \A e \in rows \cap Events : ServiceOf[e] \in rows

\* What a transaction has deleted is locked: nobody else deletes it or adds to it.
RowsLocked ==
  \A c \in Calls :
    /\ dead[c] \subseteq rows
    /\ \A b \in Calls \ {c} : dead[b] \cap dead[c] = {}
    /\ dead[c] # {} => Working(c)
    /\ \A s \in dead[c] \cap Services : rows \cap EventsOf({s}) \subseteq dead[c]
    /\ \A d \in dead[c] \cap Devices : rows \cap ServicesOf(d) \subseteq dead[c]

\* A delete with an id deletes nothing of another device, and one without an id
\* never gets past the services.
StaysInDevice ==
  \A c \in Calls :
    /\ todo[c] \subseteq Matching(target[c])
    /\ pc[c] = "unlink" => cur[c] \in Matching(target[c])
    /\ pc[c] \in {"device", "forwards", "alerts", "commit"} => target[c] \in Devices
    /\ target[c] \in Devices =>
         /\ dead[c] \cap Devices \subseteq {target[c]}
         /\ dead[c] \cap Services \subseteq ServicesOf(target[c])
         /\ dead[c] \cap Events \subseteq EventsOf(ServicesOf(target[c]))
    /\ pc[c] \in {"forwards", "alerts", "commit"} =>
         target[c] \in dead[c] \/ dead[c] \cap (Services \cup Events) = {}

\* The loop over the services: the one in hand and those it has dealt with.
LoopPlaces ==
  \A c \in Calls :
    /\ pc[c] \in {"idle", "find"} => found[c] = {} /\ todo[c] = {}
    /\ Working(c) /\ pc[c] # "unlink" => found[c] = {}
    /\ pc[c] = "unlink" => found[c] \subseteq EventsOf({cur[c]}) /\ cur[c] \notin todo[c]
    /\ \A e \in dead[c] \cap Events :
         ServiceOf[e] \notin todo[c] /\ (pc[c] = "unlink" => cur[c] # ServiceOf[e])

\* Relations of what the delete has dealt with are gone or excused.
RelationsDone ==
  \A c \in Calls : target[c] \in Devices =>
    \A x \in relations :
      \/ x[2] \in dead[c]
      \/ pc[c] = "unlink" /\ cur[c] = ServiceOf[x[2]] /\ x[2] \notin found[c]
      => Excused(x)

\* So are the events, the links and the alerts.
RowsDone ==
  \A c \in Calls : target[c] \in Devices =>
    /\ pc[c] \in {"scan", "unlink"} =>
         \A e \in Seen(c) \cap EventsOf(ServicesOf(target[c])) :
           e \in late \/ ServiceOf[e] \in todo[c] \/ (pc[c] = "unlink" /\ cur[c] = ServiceOf[e])
    /\ pc[c] \in {"alerts", "commit"} => rows \cap LinksOf(target[c]) \subseteq dead[c] \cup late
    /\ pc[c] = "commit" => rows \cap AlertsOf(target[c]) \subseteq dead[c] \cup late

Structure == TypeOK /\ IdsUsedOnce /\ ForeignKeys /\ RowsLocked /\ StaysInDevice /\ LoopPlaces

IInv == Structure /\ RelationsDone /\ RowsDone /\ NoLeftovers
-----------------------------------------------------------------------------
\* The tables have no row in common.
LEMMA TablesApart ==
  /\ Relations \cap Rows = {}
  /\ Links \cap (Devices \cup Services \cup Events \cup Alerts) = {}
<1>1. Links \cap Relations = {}
  BY StoreAssumption DEF Links, Relations
<1> QED
  BY <1>1, StoreAssumption DEF Rows

LEMMA InitInv == Init => IInv
<1> SUFFICES ASSUME Init PROVE IInv
  OBVIOUS
<1>1. TypeOK
  BY DEF Init, TypeOK, Places
<1>2. NoLeftovers
  BY DEF Init, NoLeftovers
<1> QED
  BY <1>1, <1>2 DEF Init, IInv, Structure, IdsUsedOnce, ForeignKeys, RowsLocked, StaysInDevice,
     LoopPlaces, RelationsDone, RowsDone, Working

\* The types are kept by every action.
LEMMA TypeStep == TypeOK /\ [Next]_vars => TypeOK'
<1> SUFFICES ASSUME TypeOK, [Next]_vars PROVE TypeOK'
  OBVIOUS
<1> USE DEF TypeOK, Places, Goto
<1>1. ASSUME NEW c \in Calls, Step(c) PROVE TypeOK'
  <2> USE DEF Return, Rollback, TxDelete
  <2>1. CASE FindServices(c)
    BY <2>1 DEF FindServices, Matching, ServicesOf
  <2>2. ASSUME NEW s \in Services, LookupEvents(c, s) PROVE TypeOK'
    BY <2>2 DEF LookupEvents, EventsOf, RelationsOf
  <2>3. ASSUME NEW e \in Events, DeleteRelations(c, e) PROVE TypeOK'
    BY <2>3 DEF DeleteRelations, RelationsOf
  <2>4. CASE DeleteRows(c)
    BY <2>4 DEF DeleteRows, Seen
  <2>5. CASE DeleteServices(c)
    BY <2>5 DEF DeleteServices, Seen
  <2>6. CASE DeleteDevice(c)
    BY <2>6 DEF DeleteDevice, Seen
  <2>7. CASE DeleteForwards(c)
    BY <2>7 DEF DeleteForwards, Seen
  <2>8. CASE DeleteAlerts(c)
    BY <2>8 DEF DeleteAlerts, Seen
  <2>9. CASE Commit(c)
    BY <2>9 DEF Commit
  <2>10. CASE LookupDeleted(c)
    BY <2>10 DEF LookupDeleted
  <2>11. ASSUME NEW o \in Rules \cup Forwards, DeleteOwned(c, o) PROVE TypeOK'
    BY <2>11 DEF DeleteOwned, RelationsBy, LinksBy
  <2>12. CASE Unlinked(c)
    BY <2>12 DEF Unlinked
  <2> QED
    BY <1>1, <2>1, <2>2, <2>3, <2>4, <2>5, <2>6, <2>7, <2>8, <2>9, <2>10, <2>11, <2>12 DEF Step
<1>2. ASSUME NEW c \in Calls, Enter(c) PROVE TypeOK'
  <2>1. ASSUME NEW d \in Devices \cup {NoDevice}, Begin(c, d) PROVE TypeOK'
    BY <2>1 DEF Begin
  <2>2. ASSUME NEW E \in SUBSET Events, NEW p \in {"nameLookup", "serviceLookup"},
               DeleteEvents(c, E, p)
        PROVE TypeOK'
    BY <2>2 DEF DeleteEvents, RelationsOf
  <2>3. ASSUME NEW O \in SUBSET owners, DeleteOwners(c, O) PROVE TypeOK'
    BY <2>3 DEF DeleteOwners
  <2> QED
    BY <1>2, <2>1, <2>2, <2>3, StoreAssumption DEF Enter, EventsOf
<1>3. ASSUME Insert PROVE TypeOK'
  <2> USE DEF Rows, Generated, Links, Relations
  <2>1. ASSUME NEW d \in Devices, NEW S \in SUBSET ServicesOf(d), NEW E \in SUBSET EventsOf(S),
               AddDevice(d, S, E)
        PROVE TypeOK'
    BY <2>1 DEF AddDevice, ServicesOf, EventsOf
  <2>2. ASSUME NEW x \in Services \cup Events, NEW y, NEW m, AddChild(x, y, m) PROVE TypeOK'
    BY <2>2 DEF AddChild
  <2>3. ASSUME NEW o \in Rules \cup Forwards, AddOwner(o) PROVE TypeOK'
    BY <2>3 DEF AddOwner
  <2>4. ASSUME NEW r \in Rules, NEW e \in Events, BindEvent(r, e) PROVE TypeOK'
    BY <2>4 DEF BindEvent
  <2>5. ASSUME NEW f \in Forwards, NEW d \in Devices, BindDevice(f, d) PROVE TypeOK'
    BY <2>5 DEF BindDevice
  <2>6. ASSUME NEW a \in Alerts, AddAlert(a) PROVE TypeOK'
    BY <2>6 DEF AddAlert
  <2> QED
    BY <1>3, <2>1, <2>2, <2>3, <2>4, <2>5, <2>6 DEF Insert, AddServiceInstance, AddEventInstance
<1>4. ASSUME NEW X \in Bindings, Unbind(X) PROVE TypeOK'
  BY <1>4 DEF Unbind
<1>5. ASSUME NEW d \in Devices, DeleteServiceInstance(d) PROVE TypeOK'
  BY <1>5 DEF DeleteServiceInstance
<1>6. CASE Crash
  BY <1>6 DEF Crash
<1>7. CASE UNCHANGED vars
  BY <1>7 DEF vars
<1> QED
  BY <1>1, <1>2, <1>3, <1>4, <1>5, <1>6, <1>7 DEF Next

\* A step of one call leaves the variables of the others alone.
LEMMA OwnStep ==
  ASSUME TypeOK, NEW c \in Calls, Enter(c) \/ Step(c)
  PROVE  \A b \in Calls \ {c} :
           /\ pc'[b] = pc[b] /\ target'[b] = target[b] /\ todo'[b] = todo[b]
           /\ cur'[b] = cur[b] /\ found'[b] = found[b] /\ dead'[b] = dead[b]
<1> DEFINE Others == \A b \in Calls \ {c} :
             /\ pc'[b] = pc[b] /\ target'[b] = target[b] /\ todo'[b] = todo[b]
             /\ cur'[b] = cur[b] /\ found'[b] = found[b] /\ dead'[b] = dead[b]
<1> USE DEF TypeOK, Goto, Return, Rollback, TxDelete
<1>1. ASSUME NEW d, Begin(c, d) PROVE Others
  BY <1>1 DEF Begin
<1>2. ASSUME NEW E, NEW p, DeleteEvents(c, E, p) PROVE Others
  BY <1>2 DEF DeleteEvents
<1>3. ASSUME NEW O, DeleteOwners(c, O) PROVE Others
  BY <1>3 DEF DeleteOwners
<1>4. ASSUME NEW s, LookupEvents(c, s) PROVE Others
  BY <1>4 DEF LookupEvents
<1>5. ASSUME NEW e, DeleteRelations(c, e) PROVE Others
  BY <1>5 DEF DeleteRelations
<1>6. ASSUME NEW o, DeleteOwned(c, o) PROVE Others
  BY <1>6 DEF DeleteOwned
<1>7. CASE FindServices(c) \/ LookupDeleted(c) \/ Unlinked(c)
  BY <1>7 DEF FindServices, LookupDeleted, Unlinked
<1>8. CASE \/ DeleteRows(c) \/ DeleteServices(c) \/ DeleteDevice(c)
           \/ DeleteForwards(c) \/ DeleteAlerts(c) \/ Commit(c)
  BY <1>8 DEF DeleteRows, DeleteServices, DeleteDevice, DeleteForwards, DeleteAlerts, Commit
<1> QED
  BY <1>1, <1>2, <1>3, <1>4, <1>5, <1>6, <1>7, <1>8 DEF Enter, Step

\* The events of one name are of one service, and so are those of a service.
LEMMA EnterDeletesEvents ==
  ASSUME NEW c \in Calls, Enter(c)
  PROVE  \/ \E d \in Devices \cup {NoDevice} : Begin(c, d)
         \/ \E s \in Services : \E E \in SUBSET EventsOf({s}), p \in {"nameLookup", "serviceLookup"} :
              DeleteEvents(c, E, p)
         \/ \E O \in SUBSET owners : DeleteOwners(c, O)
<1>1. ASSUME NEW e \in Events
      PROVE  ServiceOf[e] \in Services /\ SameName[e] \in SUBSET EventsOf({ServiceOf[e]})
  BY StoreAssumption DEF EventsOf
<1> QED
  BY <1>1 DEF Enter

LEMMA UsedOnceStep == Structure /\ [Next]_vars => IdsUsedOnce'
<1> SUFFICES ASSUME Structure, [Next]_vars PROVE IdsUsedOnce'
  OBVIOUS
<1> USE TablesApart DEF Structure, IdsUsedOnce, TypeOK, Goto
<1>1. ASSUME NEW c \in Calls, Step(c) PROVE IdsUsedOnce'
  <2>1. owners' = owners /\ unused' = unused /\ rows' \subseteq rows
    BY <1>1 DEF Step, FindServices, LookupEvents, DeleteRelations, DeleteRows, DeleteServices,
       DeleteDevice, DeleteForwards, DeleteAlerts, Commit, LookupDeleted, DeleteOwned, Unlinked,
       Return, Rollback, TxDelete
  <2>2. \A b \in Calls : pc'[b] = "owUnlink" => pc[b] = "owUnlink" /\ found'[b] \subseteq found[b]
    <3> USE DEF Return, Rollback, TxDelete
    <3>1. CASE FindServices(c) \/ LookupDeleted(c) \/ Unlinked(c)
      BY <3>1 DEF FindServices, LookupDeleted, Unlinked
    <3>2. ASSUME NEW s \in Services, LookupEvents(c, s)
          PROVE \A b \in Calls : pc'[b] = "owUnlink" => pc[b] = "owUnlink" /\ found'[b] \subseteq found[b]
      <4>1. pc'[c] = "unlink" /\ \A b \in Calls \ {c} : pc'[b] = pc[b] /\ found'[b] = found[b]
        BY <3>2 DEF LookupEvents
      <4> QED
        BY <4>1
    <3>3. CASE \/ \E e \in Events : DeleteRelations(c, e)
               \/ \E o \in Rules \cup Forwards : DeleteOwned(c, o)
      <4>1. pc' = pc /\ \E x : found' = [found EXCEPT ![c] = @ \ {x}]
        BY <3>3 DEF DeleteRelations, DeleteOwned
      <4> QED
        BY <4>1
    <3>4. CASE \/ DeleteRows(c) \/ DeleteServices(c) \/ DeleteDevice(c)
               \/ DeleteForwards(c) \/ DeleteAlerts(c) \/ Commit(c)
      BY <3>4 DEF DeleteRows, DeleteServices, DeleteDevice, DeleteForwards, DeleteAlerts, Commit
    <3> QED
      BY <1>1, <3>1, <3>2, <3>3, <3>4 DEF Step
  <2> QED
    BY <2>1, <2>2
<1>2. ASSUME NEW c \in Calls, Enter(c) PROVE IdsUsedOnce'
  <2>1. ASSUME NEW O \in SUBSET owners, DeleteOwners(c, O) PROVE IdsUsedOnce'
    <3>1. /\ owners' = owners \ O /\ UNCHANGED <<rows, unused>>
          /\ found'[c] = O
          /\ \A b \in Calls \ {c} : pc'[b] = pc[b] /\ found'[b] = found[b]
      BY <2>1 DEF DeleteOwners
    <3>2. \A b \in Calls : pc'[b] = "owUnlink" => found'[b] \cap (owners' \cup unused') = {}
      BY <3>1
    <3> QED
      BY <3>1, <3>2
  <2>2. ASSUME NEW d, Begin(c, d) PROVE IdsUsedOnce'
    BY <2>2 DEF Begin
  <2>3. ASSUME NEW E, NEW p \in {"nameLookup", "serviceLookup"}, DeleteEvents(c, E, p)
        PROVE IdsUsedOnce'
    BY <2>3 DEF DeleteEvents
  <2> HIDE DEF IdsUsedOnce, TypeOK, Structure
  <2> QED
    BY <1>2, <2>1, <2>2, <2>3, EnterDeletesEvents
<1>3. CASE Insert
  <2> USE DEF Links, Relations, Rows
  <2>1. ASSUME NEW d \in Devices, NEW S \in SUBSET ServicesOf(d), NEW E \in SUBSET EventsOf(S),
               AddDevice(d, S, E)
        PROVE IdsUsedOnce'
    BY <2>1, StoreAssumption DEF AddDevice, ServicesOf, EventsOf
  <2>2. ASSUME NEW x \in Services \cup Events, NEW y, NEW m, AddChild(x, y, m) PROVE IdsUsedOnce'
    BY <2>2, StoreAssumption DEF AddChild
  <2>3. ASSUME NEW o \in Rules \cup Forwards, AddOwner(o) PROVE IdsUsedOnce'
    BY <2>3 DEF AddOwner
  <2>4. ASSUME NEW r \in Rules, NEW e \in Events, BindEvent(r, e) PROVE IdsUsedOnce'
    BY <2>4 DEF BindEvent
  <2>5. ASSUME NEW f \in Forwards, NEW d \in Devices, BindDevice(f, d) PROVE IdsUsedOnce'
    BY <2>5 DEF BindDevice
  <2>6. ASSUME NEW a \in Alerts, AddAlert(a) PROVE IdsUsedOnce'
    BY <2>6, StoreAssumption DEF AddAlert
  <2> QED
    BY <1>3, <2>1, <2>2, <2>3, <2>4, <2>5, <2>6 DEF Insert, AddServiceInstance, AddEventInstance
<1>4. CASE (\E X \in Bindings : Unbind(X)) \/ (\E d \in Devices : DeleteServiceInstance(d))
  BY <1>4 DEF Unbind, DeleteServiceInstance
<1>5. CASE Crash
  BY <1>5 DEF Crash
<1>6. CASE UNCHANGED vars
  BY <1>6 DEF vars
<1> QED
  BY <1>1, <1>2, <1>3, <1>4, <1>5, <1>6 DEF Next

\* A binding is a set of relations or of links.
LEMMA BindingsArePairs ==
  ASSUME NEW X \in Bindings PROVE X \subseteq Relations \/ X \subseteq Links
<1>2. CASE \E D \in SUBSET Devices : X = {x \in Links : x[2] \in D}
  BY <1>2
<1>3. CASE \E R \in SUBSET Rules : X = {x \in Relations : x[1] \in R}
  BY <1>3
<1>4. ASSUME NEW r \in Rules, X \in SUBSET RelationsBy(r) PROVE X \subseteq Relations
  BY <1>4 DEF RelationsBy
<1>5. ASSUME NEW f \in Forwards, X \in SUBSET LinksBy(f) PROVE X \subseteq Links
  BY <1>5 DEF LinksBy
<1> QED
  BY <1>2, <1>3, <1>4, <1>5 DEF Bindings

\* The foreign keys hold: whatever removes a row removes all below it.
LEMMA KeysStep == Structure /\ [Next]_vars => ForeignKeys'
<1> SUFFICES ASSUME Structure, [Next]_vars PROVE ForeignKeys'
  OBVIOUS
<1> USE TablesApart, StoreAssumption DEF Structure, ForeignKeys, TypeOK, Rows
<1>1. ASSUME NEW c \in Calls, Commit(c) PROVE ForeignKeys'
  BY <1>1 DEF Commit, Rollback, RowsLocked, EventsOf, ServicesOf
<1>2. ASSUME NEW c \in Calls, NEW o \in Rules \cup Forwards, DeleteOwned(c, o) PROVE ForeignKeys'
  BY <1>2 DEF DeleteOwned, LinksBy
<1>3. ASSUME NEW c \in Calls, Enter(c) PROVE ForeignKeys'
  <2>1. ASSUME NEW E \in SUBSET Events, NEW p, DeleteEvents(c, E, p) PROVE ForeignKeys'
    BY <2>1 DEF DeleteEvents
  <2>2. CASE UNCHANGED rows
    BY <2>2
  <2> QED
    BY <1>3, <2>1, <2>2, EnterDeletesEvents DEF Begin, DeleteOwners, EventsOf
<1>4. CASE Insert
  <2>1. ASSUME NEW d \in Devices, NEW S \in SUBSET ServicesOf(d), NEW E \in SUBSET EventsOf(S),
               AddDevice(d, S, E)
        PROVE ForeignKeys'
    BY <2>1 DEF AddDevice, ServicesOf, EventsOf
  <2>2. ASSUME NEW s \in Services, AddServiceInstance(s) PROVE ForeignKeys'
    BY <2>2 DEF AddServiceInstance, AddChild
  <2>3. ASSUME NEW e \in Events, AddEventInstance(e) PROVE ForeignKeys'
    BY <2>3 DEF AddEventInstance, AddChild
  <2>4. ASSUME NEW x \in Links \cup Alerts, rows' = rows \cup {x} PROVE ForeignKeys'
    BY <2>4
  <2>5. CASE UNCHANGED rows
    BY <2>5
  <2> QED
    BY <1>4, <2>1, <2>2, <2>3, <2>4, <2>5 DEF Insert, AddOwner, BindEvent, BindDevice, AddAlert, Links
<1>5. ASSUME NEW X \in Bindings, Unbind(X) PROVE ForeignKeys'
  BY <1>5, BindingsArePairs DEF Unbind
<1>6. ASSUME NEW d \in Devices, DeleteServiceInstance(d) PROVE ForeignKeys'
  BY <1>6 DEF DeleteServiceInstance, ServicesOf, EventsOf
<1>7. CASE UNCHANGED rows
  BY <1>7
<1> QED
  BY <1>1, <1>2, <1>3, <1>4, <1>5, <1>6, <1>7
  DEF Next, Step, FindServices, LookupEvents, DeleteRelations, DeleteRows, DeleteServices, Rollback,
      DeleteDevice, DeleteForwards, DeleteAlerts, LookupDeleted, Unlinked, TxDelete, Crash, vars

\* A step of a call takes no row that another transaction has deleted.
LEMMA TakesUnlocked ==
  ASSUME Structure, NEW c \in Calls, Enter(c) \/ Step(c)
  PROVE  rows' \subseteq rows /\ \A b \in Calls \ {c} : dead[b] \subseteq rows'
<1> DEFINE Goal == rows' \subseteq rows /\ \A b \in Calls \ {c} : dead[b] \subseteq rows'
<1> SUFFICES Goal
  OBVIOUS
<1> USE DEF Structure, RowsLocked, TypeOK, Locked
<1>1. CASE Commit(c)
  BY <1>1 DEF Commit, Rollback
<1>2. ASSUME NEW o, DeleteOwned(c, o) PROVE Goal
  BY <1>2 DEF DeleteOwned
<1>3. ASSUME NEW E, NEW p, DeleteEvents(c, E, p) PROVE Goal
  BY <1>3 DEF DeleteEvents
<1>4. CASE UNCHANGED rows
  BY <1>4
<1> HIDE DEF Structure, RowsLocked, TypeOK, Goal
<1> QED
  BY <1>1, <1>2, <1>3, <1>4
  DEF Enter, Step, FindServices, LookupEvents, DeleteRelations, DeleteRows, DeleteServices, Rollback,
      DeleteDevice, DeleteForwards, DeleteAlerts, LookupDeleted, Unlinked, TxDelete, Begin, DeleteOwners

\* What a transaction has deleted after one more step: nothing, as much as before,
\* or also the unlocked rows that the statement is about.
LEMMA DeadStep ==
  ASSUME Structure, NEW c \in Calls, Enter(c) \/ Step(c)
  PROVE  \/ dead'[c] = {}
         \/ dead'[c] = dead[c] /\ rows' = rows /\ (dead[c] # {} => Working(c)')
         \/ DeleteRows(c) /\ TxDelete(c, EventsOf({cur[c]}), "scan")
         \/ /\ DeleteServices(c) /\ TxDelete(c, ServicesOf(target[c]), "device")
            /\ Seen(c) \cap EventsOf(Seen(c) \cap ServicesOf(target[c])) = {}
         \/ /\ DeleteDevice(c) /\ TxDelete(c, {target[c]}, "forwards")
            /\ Seen(c) \cap ServicesOf(target[c]) = {}
         \/ DeleteForwards(c) /\ TxDelete(c, LinksOf(target[c]), "alerts")
         \/ DeleteAlerts(c) /\ TxDelete(c, AlertsOf(target[c]), "commit")
<1> DEFINE Goal == \/ dead'[c] = {}
                   \/ dead'[c] = dead[c] /\ rows' = rows /\ (dead[c] # {} => Working(c)')
<1> USE DEF Structure, RowsLocked, TypeOK, Goto, Working
<1>1. ASSUME Rollback(c) PROVE Goal
  BY <1>1 DEF Rollback, Return
<1>2. ASSUME Commit(c) PROVE Goal
  BY <1>1, <1>2 DEF Commit, Return
<1>3. ASSUME NEW o, DeleteOwned(c, o) PROVE Goal
  BY <1>3 DEF DeleteOwned
<1>4. ASSUME Enter(c) PROVE Goal
  <2>1. pc[c] = "idle" /\ dead' = dead
    BY <1>4 DEF Enter, Begin, DeleteEvents, DeleteOwners
  <2> QED
    BY <2>1
<1>5. ASSUME FindServices(c) \/ LookupDeleted(c) \/ Unlinked(c) PROVE Goal
  BY <1>1, <1>5 DEF FindServices, LookupDeleted, Unlinked
<1>6. ASSUME NEW s, LookupEvents(c, s) PROVE Goal
  BY <1>6 DEF LookupEvents
<1>7. ASSUME NEW e, DeleteRelations(c, e) PROVE Goal
  BY <1>7 DEF DeleteRelations
<1> HIDE DEF Structure, RowsLocked, TypeOK, Goal
<1>8. \/ Goal
      \/ DeleteRows(c) \/ DeleteServices(c) \/ DeleteDevice(c) \/ DeleteForwards(c) \/ DeleteAlerts(c)
  BY <1>2, <1>3, <1>4, <1>5, <1>6, <1>7 DEF Step
<1> QED
  BY <1>1, <1>8 DEF DeleteRows, DeleteServices, DeleteDevice, DeleteForwards, DeleteAlerts, Goal

\* What is deleted and not committed stays locked and closed below.
LEMMA LocksStep == Structure /\ [Next]_vars => RowsLocked'
<1> SUFFICES ASSUME Structure, [Next]_vars PROVE RowsLocked'
  OBVIOUS
<1> DEFINE Own(c, D) == /\ D \subseteq rows'
                        /\ D # {} => Working(c)'
                        /\ \A s \in D \cap Services : rows' \cap EventsOf({s}) \subseteq D
                        /\ \A d \in D \cap Devices : rows' \cap ServicesOf(d) \subseteq D
<1>1. ASSUME NEW c \in Calls, Enter(c) \/ Step(c) PROVE RowsLocked'
  <2>1. rows' \subseteq rows /\ \A b \in Calls \ {c} : dead[b] \subseteq rows'
    BY <1>1, TakesUnlocked
  <2>2. \A b \in Calls \ {c} : Own(b, dead[b]) /\ dead'[b] = dead[b]
    BY <1>1, <2>1, OwnStep DEF Structure, RowsLocked, Working
  <2>3. Own(c, dead'[c]) /\ \A b \in Calls \ {c} : dead'[c] \cap dead[b] = {}
    <3> USE DEF Structure, RowsLocked, TypeOK, TxDelete, Locked, Seen, Goto, Working
    <3>1. CASE dead'[c] = {} \/ (dead'[c] = dead[c] /\ rows' = rows /\ (dead[c] # {} => Working(c)'))
      BY <3>1
    <3>2. CASE DeleteRows(c) /\ TxDelete(c, EventsOf({cur[c]}), "scan")
      BY <3>2, StoreAssumption DEF EventsOf
    <3>3. CASE /\ DeleteServices(c) /\ TxDelete(c, ServicesOf(target[c]), "device")
               /\ Seen(c) \cap EventsOf(Seen(c) \cap ServicesOf(target[c])) = {}
      BY <3>3, StoreAssumption DEF EventsOf, ServicesOf
    <3>4. CASE /\ DeleteDevice(c) /\ TxDelete(c, {target[c]}, "forwards")
               /\ Seen(c) \cap ServicesOf(target[c]) = {}
      <4>1. dead'[c] \subseteq dead[c] \cup {target[c]} /\ dead[c] \subseteq dead'[c] /\ rows' = rows
        BY <3>4
      <4>2. target[c] \notin Services
        BY StoreAssumption, <3>4 DEF DeleteDevice, StaysInDevice
      <4> QED
        BY <3>4, <4>1, <4>2
    <3>5. CASE DeleteForwards(c) /\ TxDelete(c, LinksOf(target[c]), "alerts")
      BY <3>5, TablesApart DEF LinksOf
    <3>6. CASE DeleteAlerts(c) /\ TxDelete(c, AlertsOf(target[c]), "commit")
      BY <3>6, StoreAssumption DEF AlertsOf
    <3> HIDE DEF Structure, RowsLocked, TypeOK, TxDelete, Locked, Seen, Goto, Working
    <3> QED
      BY <1>1, DeadStep, <3>1, <3>2, <3>3, <3>4, <3>5, <3>6
  <2>4. \A a \in Calls : Own(a, dead'[a])
    BY <2>2, <2>3
  <2>5. \A a, b \in Calls : a # b => dead'[a] \cap dead'[b] = {}
    BY <2>2, <2>3 DEF Structure, RowsLocked
  <2> QED
    BY <2>4, <2>5 DEF RowsLocked
<1>2. CASE Insert
  <2> USE TablesApart, StoreAssumption DEF Structure, RowsLocked, TypeOK, IdsUsedOnce, ForeignKeys, Working
  <2>1. ASSUME NEW d \in Devices, NEW S \in SUBSET ServicesOf(d), NEW E \in SUBSET EventsOf(S),
               AddDevice(d, S, E)
        PROVE RowsLocked'
    BY <2>1 DEF AddDevice, ServicesOf, EventsOf
  <2>2. ASSUME NEW s \in Services, AddServiceInstance(s) PROVE RowsLocked'
    BY <2>2 DEF AddServiceInstance, AddChild, ServicesOf, EventsOf
  <2>3. ASSUME NEW e \in Events, AddEventInstance(e) PROVE RowsLocked'
    BY <2>3 DEF AddEventInstance, AddChild, ServicesOf, EventsOf
  <2>4. ASSUME NEW x \in Links \cup Alerts, rows' = rows \cup {x}, UNCHANGED <<pc, dead>>
        PROVE RowsLocked'
    BY <2>4 DEF EventsOf, ServicesOf
  <2>5. CASE UNCHANGED <<rows, pc, dead>>
    BY <2>5
  <2> HIDE DEF Structure, RowsLocked, TypeOK, IdsUsedOnce, ForeignKeys, Working
  <2> QED
    BY <1>2, <2>1, <2>2, <2>3, <2>4, <2>5 DEF Insert, AddOwner, BindEvent, BindDevice, AddAlert, Links
<1>3. ASSUME NEW X \in Bindings, Unbind(X) PROVE RowsLocked'
  BY <1>3 DEF Unbind, Structure, RowsLocked, Working
<1>4. ASSUME NEW d \in Devices, DeleteServiceInstance(d) PROVE RowsLocked'
  BY <1>4 DEF DeleteServiceInstance, Structure, RowsLocked, Working
<1>5. CASE Crash
  BY <1>5 DEF Crash, RowsLocked
<1>6. CASE UNCHANGED vars
  BY <1>6 DEF vars, Structure, RowsLocked, Working
<1> QED
  BY <1>1, <1>2, <1>3, <1>4, <1>5, <1>6 DEF Next

\* The state after a statement that deletes, and after the end of a call.
LEMMA TxEffect ==
  ASSUME TypeOK, NEW c \in Calls, NEW R, NEW p, TxDelete(c, R, p)
  PROVE  /\ pc'[c] = p /\ dead'[c] = dead[c] \cup (R \cap Seen(c)) /\ ~ Locked(c, R)
         /\ UNCHANGED <<rows, owners, relations, unused, target, todo, cur, found, late>>
BY DEF TypeOK, TxDelete, Goto

LEMMA ReturnEffect ==
  ASSUME TypeOK, NEW c \in Calls, Return(c)
  PROVE  pc'[c] = "idle" /\ dead'[c] = {} /\ todo'[c] = {} /\ found'[c] = {}
BY DEF TypeOK, Return, Goto

\* Each delete keeps within its device and to the order of its loop.
LEMMA LocalStep == Structure /\ [Next]_vars => (StaysInDevice /\ LoopPlaces)'
<1> SUFFICES ASSUME Structure, [Next]_vars PROVE (StaysInDevice /\ LoopPlaces)'
  OBVIOUS
<1>1. ASSUME NEW c \in Calls, Enter(c) \/ Step(c) PROVE (StaysInDevice /\ LoopPlaces)'
  <2> DEFINE Stays(b) ==
               /\ todo[b] \subseteq Matching(target[b])
               /\ pc[b] = "unlink" => cur[b] \in Matching(target[b])
               /\ pc[b] \in {"device", "forwards", "alerts", "commit"} => target[b] \in Devices
               /\ target[b] \in Devices =>
                    /\ dead[b] \cap Devices \subseteq {target[b]}
                    /\ dead[b] \cap Services \subseteq ServicesOf(target[b])
                    /\ dead[b] \cap Events \subseteq EventsOf(ServicesOf(target[b]))
               /\ pc[b] \in {"forwards", "alerts", "commit"} =>
                    target[b] \in dead[b] \/ dead[b] \cap (Services \cup Events) = {}
             Loops(b) ==
               /\ pc[b] \in {"idle", "find"} => found[b] = {} /\ todo[b] = {}
               /\ Working(b) /\ pc[b] # "unlink" => found[b] = {}
               /\ pc[b] = "unlink" => found[b] \subseteq EventsOf({cur[b]}) /\ cur[b] \notin todo[b]
               /\ \A e \in dead[b] \cap Events :
                    ServiceOf[e] \notin todo[b] /\ (pc[b] = "unlink" => cur[b] # ServiceOf[e])
  <2>1. \A b \in Calls : Stays(b) /\ Loops(b)
    BY DEF Structure, StaysInDevice, LoopPlaces
  <2>2. ASSUME NEW b \in Calls \ {c} PROVE (Stays(b) /\ Loops(b))'
    BY <1>1, <2>1, OwnStep DEF Structure, Working
  <2>3. (Stays(c) /\ Loops(c))'
    <3> USE <2>1 DEF Structure, Working
    <3>1. ASSUME Return(c) PROVE (Stays(c) /\ Loops(c))'
      BY <3>1, ReturnEffect
    <3>2. ASSUME FindServices(c), ~ Rollback(c) PROVE (Stays(c) /\ Loops(c))'
      <4>1. /\ pc'[c] = "scan" /\ todo'[c] \subseteq Matching(target[c]) /\ pc[c] = "find"
            /\ UNCHANGED <<target, cur, found, dead>>
        BY <3>2 DEF FindServices, TypeOK, Goto
      <4> QED
        BY <4>1 DEF RowsLocked
    <3>3. ASSUME NEW s \in Services, LookupEvents(c, s) PROVE (Stays(c) /\ Loops(c))'
      <4>1. /\ pc[c] = "scan" /\ pc'[c] = "unlink" /\ s \in todo[c] /\ todo'[c] = todo[c] \ {s}
            /\ cur'[c] = s /\ found'[c] \in {found[c], rows \cap EventsOf({s})}
            /\ UNCHANGED <<target, dead>>
        BY <3>3 DEF LookupEvents, TypeOK, Goto
      <4> QED
        BY <4>1
    <3>4. ASSUME NEW e \in Events, DeleteRelations(c, e) PROVE (Stays(c) /\ Loops(c))'
      <4>1. found'[c] \subseteq found[c] /\ UNCHANGED <<pc, target, todo, cur, dead>>
        BY <3>4 DEF DeleteRelations, TypeOK
      <4> QED
        BY <4>1
    <3>5. ASSUME DeleteRows(c), TxDelete(c, EventsOf({cur[c]}), "scan") PROVE (Stays(c) /\ Loops(c))'
      <4>1. /\ pc[c] = "unlink" /\ found[c] = {} /\ pc'[c] = "scan"
            /\ dead'[c] \subseteq dead[c] \cup EventsOf({cur[c]})
            /\ UNCHANGED <<target, todo, cur, found>>
        BY <3>5, TxEffect DEF DeleteRows
      <4>2. cur[c] \in Services /\ EventsOf({cur[c]}) \cap (Devices \cup Services) = {}
        BY StoreAssumption DEF EventsOf, TypeOK
      <4>3. \A e \in EventsOf({cur[c]}) : ServiceOf[e] = cur[c] /\ cur[c] \notin todo[c]
        BY <4>1 DEF EventsOf
      <4>4. target[c] \in Devices => EventsOf({cur[c]}) \subseteq EventsOf(ServicesOf(target[c]))
        BY <4>1, StoreAssumption DEF EventsOf, Matching
      <4>5. Stays(c)'
        BY <4>1, <4>2, <4>4
      <4> QED
        BY <4>1, <4>2, <4>3, <4>5
    <3>6. ASSUME DeleteServices(c), TxDelete(c, ServicesOf(target[c]), "device"), target[c] # NoDevice
          PROVE (Stays(c) /\ Loops(c))'
      <4>1. /\ pc[c] = "scan" /\ pc'[c] = "device" /\ target[c] \in Devices
            /\ dead'[c] \subseteq dead[c] \cup ServicesOf(target[c])
            /\ UNCHANGED <<target, todo, cur, found>>
        BY <3>6, TxEffect DEF DeleteServices, TypeOK
      <4>2. ServicesOf(target[c]) \cap (Devices \cup Events) = {}
        BY StoreAssumption DEF ServicesOf
      <4>3. Stays(c)'
        BY <4>1, <4>2
      <4> QED
        BY <4>1, <4>2, <4>3
    <3>7. ASSUME DeleteDevice(c), Seen(c) \cap ServicesOf(target[c]) = {},
                 TxDelete(c, {target[c]}, "forwards")
          PROVE (Stays(c) /\ Loops(c))'
      <4>1. /\ pc[c] = "device" /\ pc'[c] = "forwards" /\ target[c] \in Devices
            /\ dead'[c] = dead[c] \cup ({target[c]} \cap Seen(c))
            /\ UNCHANGED <<target, todo, cur, found>>
        BY <3>7, TxEffect DEF DeleteDevice
      <4>2. target[c] \in dead'[c] \/ dead'[c] \cap (Services \cup Events) = {}
        BY <4>1, StoreAssumption DEF Seen, ServicesOf, EventsOf, RowsLocked, ForeignKeys
      <4>3. target[c] \notin Services \cup Events
        BY <4>1, StoreAssumption
      <4>4. Stays(c)'
        BY <4>1, <4>2, <4>3
      <4> QED
        BY <4>1, <4>3, <4>4
    <3>8. ASSUME NEW R, R \cap (Devices \cup Services \cup Events) = {}, NEW p \in {"alerts", "commit"},
                 TxDelete(c, R, p), pc[c] \in {"forwards", "alerts"}
          PROVE (Stays(c) /\ Loops(c))'
      <4>1. /\ pc'[c] = p /\ dead[c] \subseteq dead'[c]
            /\ dead'[c] \subseteq dead[c] \cup R
            /\ UNCHANGED <<target, todo, cur, found>>
        BY <3>8, TxEffect
      <4> QED
        BY <3>8, <4>1
    <3>9. ASSUME NEW p, pc'[c] = p, p \notin {"idle", "find", "unlink"}, ~ Working(c)',
                 UNCHANGED <<target, todo, cur, dead>>
          PROVE (Stays(c) /\ Loops(c))'
      BY <3>9
    <3>10. ASSUME NEW d \in Devices \cup {NoDevice}, Begin(c, d) PROVE (Stays(c) /\ Loops(c))'
      <4>1. /\ pc[c] = "idle" /\ pc'[c] = "find" /\ UNCHANGED <<todo, found, dead>>
        BY <3>10 DEF Begin, TypeOK, Goto
      <4> QED
        BY <4>1 DEF RowsLocked
    <3> HIDE DEF Structure, Working, Stays, Loops
    <3>11. CASE Enter(c)
      <4>1. ASSUME NEW E, NEW p \in {"nameLookup", "serviceLookup"}, DeleteEvents(c, E, p)
            PROVE (Stays(c) /\ Loops(c))'
        BY <4>1, <3>9 DEF DeleteEvents, Goto, Structure, TypeOK, Working
      <4>2. ASSUME NEW O, DeleteOwners(c, O) PROVE (Stays(c) /\ Loops(c))'
        BY <4>2, <3>9 DEF DeleteOwners, Goto, Structure, TypeOK, Working
      <4> QED
        BY <3>10, <3>11, <4>1, <4>2 DEF Enter
    <3>12. CASE LookupDeleted(c) \/ \E o \in Rules \cup Forwards : DeleteOwned(c, o)
      <4>1. LookupDeleted(c) => pc'[c] = "evUnlink"
        BY DEF LookupDeleted, Goto, Structure, TypeOK
      <4>2. \A o : DeleteOwned(c, o) => pc'[c] = "owUnlink"
        BY DEF DeleteOwned
      <4> QED
        BY <3>9, <3>12, <4>1, <4>2 DEF LookupDeleted, DeleteOwned, Working
    <3>13. CASE DeleteForwards(c) \/ DeleteAlerts(c)
      <4>1. /\ LinksOf(target[c]) \cap (Devices \cup Services \cup Events) = {}
            /\ AlertsOf(target[c]) \cap (Devices \cup Services \cup Events) = {}
        BY TablesApart, StoreAssumption DEF LinksOf, AlertsOf
      <4> QED
        BY <3>1, <3>8, <3>13, <4>1 DEF DeleteForwards, DeleteAlerts, Rollback
    <3> QED
      BY <1>1, <3>1, <3>2, <3>3, <3>4, <3>5, <3>6, <3>7, <3>11, <3>12, <3>13
      DEF Step, Rollback, Commit, Unlinked, DeleteRows, DeleteServices, DeleteDevice
  <2> QED
    BY <2>2, <2>3 DEF StaysInDevice, LoopPlaces
<1>2. CASE UNCHANGED <<pc, target, todo, cur, found, dead>>
  BY <1>2 DEF Structure, StaysInDevice, LoopPlaces, Working, Matching
<1>3. CASE Crash
  BY <1>3 DEF Crash, StaysInDevice, LoopPlaces, Working
<1> QED
  BY <1>1, <1>2, <1>3 DEF Next, Insert, AddDevice, AddServiceInstance, AddEventInstance, AddChild,
     AddOwner, BindEvent, BindDevice, AddAlert, Unbind, DeleteServiceInstance, vars

LEMMA StructureInvariant == Spec => []Structure
<1>1. Init => Structure
  BY InitInv DEF IInv
<1>2. Structure /\ [Next]_vars => Structure'
  <2> SUFFICES ASSUME Structure, [Next]_vars PROVE Structure'
    OBVIOUS
  <2>1. TypeOK
    BY DEF Structure
  <2> QED
    BY <2>1, TypeStep, UsedOnceStep, KeysStep, LocksStep, LocalStep DEF Structure
<1> QED
  BY <1>1, <1>2, PTL DEF Spec

-----------------------------------------------------------------------------
(* The refinement *)

Alive == rows \cap Devices
Parts == rows \cap (Services \cup Events)

\* A commit takes one device with all it owns, or nothing that others see.
LEMMA CommitRefines ==
  ASSUME Structure, NEW c \in Calls, Commit(c)
  PROVE  (\E d \in Devices : Atomic!Remove(d)) \/ UNCHANGED <<Alive, Parts>>
<1> USE DEF Structure, TypeOK, Alive, Parts
<1>1. CASE rows' = rows
  BY <1>1
<1>2. CASE rows' = rows \ dead[c]
  <2> DEFINE d == target[c]
  <2>1. /\ d \in Devices
        /\ dead[c] \cap Devices \subseteq {d}
        /\ dead[c] \cap Services \subseteq ServicesOf(d)
        /\ dead[c] \cap Events \subseteq EventsOf(ServicesOf(d))
        /\ d \in dead[c] \/ dead[c] \cap (Services \cup Events) = {}
    BY <1>2 DEF Commit, StaysInDevice
  <2>2. CASE d \notin dead[c]
    <3>1. dead[c] \cap (Devices \cup Services \cup Events) = {}
      BY <2>1, <2>2
    <3> QED
      BY <1>2, <3>1
  <2>3. CASE d \in dead[c]
    <3>1. rows \cap ServicesOf(d) \subseteq dead[c] /\ d \in rows
      BY <2>1, <2>3 DEF RowsLocked
    <3>2. \A e \in rows \cap Events : DeviceOf[ServiceOf[e]] = d => e \in dead[c]
      <4> TAKE e \in rows \cap Events
      <4> HAVE DeviceOf[ServiceOf[e]] = d
      <4>1. ServiceOf[e] \in rows \cap ServicesOf(d)
        BY StoreAssumption DEF ForeignKeys, ServicesOf
      <4>2. ServiceOf[e] \in dead[c] \cap Services /\ e \in rows \cap EventsOf({ServiceOf[e]})
        BY <3>1, <4>1 DEF ServicesOf, EventsOf
      <4> QED
        BY <4>2 DEF RowsLocked
    <3>3. \A p \in Parts : p \in dead[c] <=> p \in Atomic!Owned(d)
      BY <2>1, <3>1, <3>2, StoreAssumption DEF ServicesOf, EventsOf, Atomic!Owned, Atomic!Owner
    <3>4. Parts' = Parts \ Atomic!Owned(d)
      BY <1>2, <3>3
    <3>5. Alive' = Alive \ {d} /\ d \in Alive
      BY <1>2, <2>1, <2>3, <3>1
    <3> QED
      BY <2>1, <3>4, <3>5 DEF Atomic!Remove
  <2> QED
    BY <2>2, <2>3
<1> QED
  BY <1>1, <1>2 DEF Commit, Rollback

LEMMA StepRefines == Structure /\ [Next]_vars => [Atomic!Next]_<<Alive, Parts>>
<1> SUFFICES ASSUME Structure, [Next]_vars, ~ UNCHANGED <<Alive, Parts>>
             PROVE  Atomic!Next
  OBVIOUS
<1> USE TablesApart, StoreAssumption DEF Structure, TypeOK, Alive, Parts, Atomic!Owner, Atomic!Owned
<1>1. ASSUME NEW c \in Calls, Commit(c) PROVE Atomic!Next
  BY <1>1, CommitRefines DEF Atomic!Next
<1>2. ASSUME NEW c \in Calls, NEW s \in Services, NEW E \in SUBSET EventsOf({s}), NEW p,
             DeleteEvents(c, E, p)
      PROVE Atomic!Next
  <2>1. rows' = rows \ E /\ E \in SUBSET {e \in Events : ServiceOf[e] = s}
    BY <1>2 DEF DeleteEvents, EventsOf
  <2>2. Parts' = Parts \ E /\ Alive' = Alive
    BY <2>1
  <2> QED
    BY <2>1, <2>2 DEF Atomic!Next, Atomic!LeaveEvents
<1>3. ASSUME NEW d \in Devices, DeleteServiceInstance(d) PROVE Atomic!Next
  <2>1. \A e \in rows \cap Events : DeviceOf[ServiceOf[e]] # d
    BY <1>3 DEF DeleteServiceInstance, ServicesOf, EventsOf, ForeignKeys
  <2>2. rows' = rows \ ServicesOf(d)
    BY <1>3 DEF DeleteServiceInstance
  <2>3. Parts' = Parts \ Atomic!Owned(d) /\ Alive' = Alive
    BY <2>1, <2>2 DEF ServicesOf
  <2> QED
    BY <2>1, <2>3 DEF Atomic!Next, Atomic!LeaveServices
<1>4. ASSUME NEW d \in Devices, NEW S \in SUBSET ServicesOf(d), NEW E \in SUBSET EventsOf(S),
             AddDevice(d, S, E)
      PROVE Atomic!Next
  <2>1. S \cup E \subseteq Atomic!Owned(d)
    BY DEF ServicesOf, EventsOf
  <2>2. d \notin Alive /\ Alive' = Alive \cup {d} /\ Parts' = Parts \cup (S \cup E)
    BY <1>4 DEF AddDevice, ServicesOf, EventsOf
  <2> QED
    BY <2>1, <2>2 DEF Atomic!Next, Atomic!Create
<1>5. ASSUME NEW s \in Services, AddServiceInstance(s) PROVE Atomic!Next
  <2>1. DeviceOf[s] \in Alive /\ Parts' = Parts \cup {s} /\ Alive' = Alive
    BY <1>5 DEF AddServiceInstance, AddChild
  <2> QED
    BY <2>1 DEF Atomic!Next, Atomic!Join
<1>6. ASSUME NEW e \in Events, AddEventInstance(e) PROVE Atomic!Next
  <2>1. ServiceOf[e] \in Parts /\ Parts' = Parts \cup {e} /\ Alive' = Alive
    BY <1>6 DEF AddEventInstance, AddChild
  <2>2. DeviceOf[ServiceOf[e]] \in Alive
    BY <2>1 DEF ForeignKeys
  <2> QED
    BY <2>1, <2>2 DEF Atomic!Next, Atomic!Join
<1>7. ASSUME NEW c \in Calls, NEW o, DeleteOwned(c, o) PROVE FALSE
  BY <1>7 DEF DeleteOwned, LinksBy
<1>8. ASSUME NEW X \in Bindings, Unbind(X) PROVE FALSE
  BY <1>8, BindingsArePairs DEF Unbind, Rows
<1>9. ASSUME NEW x \in Links \cup Alerts, rows' = rows \cup {x} PROVE FALSE
  BY <1>9
<1>10. ASSUME rows' = rows PROVE FALSE
  BY <1>10
<1> HIDE DEF Structure, TypeOK, Alive, Parts, Atomic!Owner, Atomic!Owned
<1>11. ASSUME NEW c \in Calls, Enter(c) \/ Step(c) PROVE Atomic!Next
  BY <1>1, <1>2, <1>7, <1>10, <1>11, EnterDeletesEvents
  DEF Step, FindServices, LookupEvents, DeleteRelations, DeleteRows, DeleteServices, Rollback,
      DeleteDevice, DeleteForwards, DeleteAlerts, LookupDeleted, Unlinked, TxDelete, Begin, DeleteOwners
<1>12. CASE Insert
  BY <1>4, <1>5, <1>6, <1>9, <1>10, <1>12 DEF Insert, AddOwner, BindEvent, BindDevice, AddAlert, Links
<1> QED
  BY <1>3, <1>8, <1>10, <1>11, <1>12 DEF Next, Crash, vars

\* DeleteDeviceInstance (device_instance.go:483-583), among all other writers of
\* its tables, failing statements and crashes, implements the atomic delete of a
\* device: others see it go with all its services and events, or not at all.
THEOREM DeletesAtomically == Spec => DeleteIsAtomic
<1>1. Init => Atomic!Init
  BY DEF Init, Atomic!Init
<1>2. Structure /\ [Next]_vars => [Atomic!Next]_<<rows \cap Devices, rows \cap (Services \cup Events)>>
  BY StepRefines DEF Alive, Parts
<1> QED
  BY <1>1, <1>2, StructureInvariant, PTL DEF Spec, Atomic!Spec, DeleteIsAtomic

-----------------------------------------------------------------------------
(* Leftovers *)

\* A row or relation stays in `late` as long as it is there.
LEMMA LateStays == Structure /\ [Next]_vars => late \cap (rows' \cup relations') \subseteq late'
<1> SUFFICES ASSUME Structure, [Next]_vars, NEW x \in late, x \in rows' \cup relations'
             PROVE  x \in late'
  OBVIOUS
<1> USE TablesApart DEF Structure, TypeOK
<1>1. ASSUME NEW c \in Calls, Commit(c) PROVE x \in late'
  BY <1>1 DEF Commit, Rollback, Return
<1>2. ASSUME NEW c \in Calls, NEW e, DeleteRelations(c, e) PROVE x \in late'
  BY <1>2 DEF DeleteRelations, RelationsOf
<1>3. ASSUME NEW c \in Calls, NEW E \in SUBSET Events, NEW p, DeleteEvents(c, E, p) PROVE x \in late'
  BY <1>3 DEF DeleteEvents, Rows
<1>4. ASSUME NEW c \in Calls, NEW o, DeleteOwned(c, o) PROVE x \in late'
  BY <1>4 DEF DeleteOwned, RelationsBy, LinksBy, Rows
<1>5. ASSUME NEW X \in Bindings, Unbind(X) PROVE x \in late'
  BY <1>5 DEF Unbind
<1>6. ASSUME late \subseteq late' PROVE x \in late'
  BY <1>6
<1> HIDE DEF Structure, TypeOK
<1>7. ASSUME NEW c \in Calls, Enter(c) \/ Step(c) PROVE x \in late'
  BY <1>1, <1>2, <1>3, <1>4, <1>6, <1>7, EnterDeletesEvents
  DEF EventsOf, Step, FindServices, LookupEvents, DeleteRows, DeleteServices, Rollback, DeleteDevice,
      DeleteForwards, DeleteAlerts, LookupDeleted, Unlinked, TxDelete, Begin, DeleteOwners
<1>8. CASE Insert
  BY <1>6, <1>8 DEF Insert, AddDevice, AddServiceInstance, AddEventInstance, AddChild, AddOwner,
     BindEvent, BindDevice, AddAlert
<1> QED
  BY <1>5, <1>6, <1>7, <1>8 DEF Next, Crash, DeleteServiceInstance, vars

\* A leftover that is excused stays so: the loop over the relations of a rule or a
\* forward deletes each or leaves it late.
LEMMA ExcusedStays ==
  ASSUME Structure, [Next]_vars, NEW x, Excused(x),
         \/ x \in relations /\ x \in relations'
         \/ x \in rows \cap Links /\ x \in rows'
  PROVE  Excused(x)'
<1>1. CASE x \in late
  BY <1>1, LateStays DEF Excused
<1>2. CASE x \notin late
  <2> DEFINE o == x[1]
  <2>1. PICK c \in Calls : pc[c] = "owUnlink" /\ o \in found[c]
    BY <1>2 DEF Excused, Unlinking
  <2> USE DEF Structure, TypeOK
  <2>2. ASSUME NEW b \in Calls, Enter(b) \/ Step(b), b # c PROVE Excused(x)'
    <3>1. pc'[c] = "owUnlink" /\ o \in found'[c]
      BY <2>1, <2>2, OwnStep
    <3> QED
      BY <3>1 DEF Excused, Unlinking
  <2>3. ASSUME NEW q, DeleteOwned(c, q) PROVE Excused(x)'
    <3>1. CASE q # o
      BY <2>1, <2>3, <3>1 DEF DeleteOwned, Excused, Unlinking
    <3>2. CASE q = o
      <4>1. x \in RelationsBy(o) \cup LinksBy(o)
        BY DEF RelationsBy, LinksBy
      <4>2. x \in late'
        BY <2>3, <3>2, <4>1, TablesApart DEF DeleteOwned, RelationsBy, LinksBy, Rows
      <4> QED
        BY <4>2 DEF Excused
    <3> QED
      BY <3>1, <3>2
  <2>4. CASE Crash
    <3>1. o \notin owners
      BY <2>1 DEF IdsUsedOnce
    <3>2. x \in late'
      BY <2>4, <3>1 DEF Crash
    <3> QED
      BY <3>2 DEF Excused
  <2>5. CASE UNCHANGED <<pc, found>>
    BY <2>1, <2>5 DEF Excused, Unlinking
  <2> HIDE DEF Structure, TypeOK
  <2>6. CASE Enter(c) \/ Step(c)
    <3>1. \E q : DeleteOwned(c, q)
      BY <2>1, <2>6 DEF Enter, Begin, DeleteEvents, DeleteOwners, Step, FindServices, LookupEvents,
         DeleteRelations, DeleteRows, DeleteServices, DeleteDevice, DeleteForwards, DeleteAlerts,
         Commit, LookupDeleted, Unlinked
    <3> QED
      BY <2>3, <3>1
  <2> QED
    BY <2>2, <2>4, <2>5, <2>6 DEF Next, Insert, AddDevice, AddServiceInstance, AddEventInstance, AddChild,
       AddOwner, BindEvent, BindDevice, AddAlert, Unbind, DeleteServiceInstance, vars
<1> QED
  BY <1>1, <1>2

\* Who deletes rows of devices, events and alerts.
LEMMA RowLeaves ==
  ASSUME Structure, [Next]_vars, NEW x \in rows \cap (Devices \cup Events \cup Alerts), x \notin rows'
  PROVE  \/ \E c \in Calls : Commit(c) /\ rows' = rows \ dead[c] /\ x \in dead[c]
         \/ x \in Events /\ \A y \in relations' : y[2] = x => y \in late'
<1> DEFINE Goal == \/ \E c \in Calls : Commit(c) /\ rows' = rows \ dead[c] /\ x \in dead[c]
                   \/ x \in Events /\ \A y \in relations' : y[2] = x => y \in late'
<1> SUFFICES Goal
  OBVIOUS
<1> USE TablesApart, StoreAssumption DEF Structure, TypeOK, Rows
<1>1. ASSUME NEW c \in Calls, Commit(c) PROVE Goal
  BY <1>1 DEF Commit, Rollback
<1>2. ASSUME NEW c \in Calls, NEW E \in SUBSET Events, NEW p, DeleteEvents(c, E, p) PROVE Goal
  BY <1>2 DEF DeleteEvents, RelationsOf
<1>3. ASSUME NEW c \in Calls, NEW o, DeleteOwned(c, o) PROVE FALSE
  BY <1>3 DEF DeleteOwned, LinksBy
<1>4. ASSUME NEW X \in Bindings, Unbind(X) PROVE FALSE
  BY <1>4, BindingsArePairs DEF Unbind
<1>5. ASSUME NEW d \in Devices, DeleteServiceInstance(d) PROVE FALSE
  BY <1>5 DEF DeleteServiceInstance, ServicesOf
<1>6. ASSUME rows \subseteq rows' PROVE FALSE
  BY <1>6
<1> HIDE DEF Structure, TypeOK, Goal
<1>7. ASSUME NEW c \in Calls, Enter(c) \/ Step(c) PROVE Goal
  BY <1>1, <1>2, <1>3, <1>6, <1>7, EnterDeletesEvents
  DEF EventsOf, Step, FindServices, LookupEvents, DeleteRelations, DeleteRows, DeleteServices, Rollback,
      DeleteDevice, DeleteForwards, DeleteAlerts, LookupDeleted, Unlinked, TxDelete, Begin, DeleteOwners
<1>8. CASE Insert
  BY <1>6, <1>8 DEF Insert, AddDevice, AddServiceInstance, AddEventInstance, AddChild, AddOwner,
     BindEvent, BindDevice, AddAlert
<1> QED
  BY <1>4, <1>5, <1>6, <1>7, <1>8 DEF Next, Crash, vars

\* Who adds relations and rows.
LEMMA RelationComes ==
  ASSUME Structure, [Next]_vars, NEW x \in relations', x \notin relations
  PROVE  \E r \in Rules, e \in Events : BindEvent(r, e) /\ x = <<r, e>>
<1>1. ASSUME relations' \subseteq relations PROVE FALSE
  BY <1>1
<1>2. ASSUME NEW c \in Calls, Enter(c) \/ Step(c) PROVE FALSE
  BY <1>1, <1>2
  DEF Enter, Step, FindServices, LookupEvents, DeleteRelations, DeleteRows, DeleteServices, Rollback,
      DeleteDevice, DeleteForwards, DeleteAlerts, Commit, LookupDeleted, DeleteOwned, Unlinked, TxDelete,
      Begin, DeleteEvents, DeleteOwners
<1>3. ASSUME NEW r \in Rules, NEW e \in Events, BindEvent(r, e) PROVE x = <<r, e>>
  BY <1>3 DEF BindEvent
<1> QED
  BY <1>1, <1>2, <1>3 DEF Next, Insert, AddDevice, AddServiceInstance, AddEventInstance, AddChild,
     AddOwner, BindDevice, AddAlert, Unbind, DeleteServiceInstance, Crash, vars

LEMMA RowComes ==
  ASSUME Structure, [Next]_vars, NEW x \in rows' \cap (Events \cup Alerts \cup Links), x \notin rows
  PROVE  /\ \/ x \in Events /\ (x \in late' \/ \A c \in Calls : ~ Missed(c, x) \/ InHand(c, ServiceOf[x]))
            \/ \E a \in Alerts : x = a /\ AddAlert(a)
            \/ \E f \in Forwards, d \in Devices : x = <<f, d>> /\ BindDevice(f, d)
         /\ UNCHANGED <<pc, target, todo, cur, found, dead>>
<1> DEFINE Goal == /\ \/ x \in Events /\ (x \in late' \/ \A c \in Calls : ~ Missed(c, x) \/ InHand(c, ServiceOf[x]))
                      \/ \E a \in Alerts : x = a /\ AddAlert(a)
                      \/ \E f \in Forwards, d \in Devices : x = <<f, d>> /\ BindDevice(f, d)
                   /\ UNCHANGED <<pc, target, todo, cur, found, dead>>
<1> SUFFICES Goal
  OBVIOUS
<1>1. ASSUME NEW c \in Calls, Enter(c) \/ Step(c) PROVE FALSE
  BY <1>1, TakesUnlocked
<1>2. ASSUME NEW d \in Devices, NEW S \in SUBSET ServicesOf(d), NEW E \in SUBSET EventsOf(S),
             AddDevice(d, S, E)
      PROVE Goal
  BY <1>2, TablesApart, StoreAssumption DEF AddDevice, ServicesOf, EventsOf
<1>3. ASSUME NEW s \in Services, AddServiceInstance(s) PROVE FALSE
  BY <1>3, TablesApart, StoreAssumption DEF AddServiceInstance, AddChild
<1>4. ASSUME NEW e \in Events, AddEventInstance(e) PROVE Goal
  BY <1>4 DEF AddEventInstance, AddChild
<1>5. ASSUME NEW a \in Alerts, AddAlert(a) PROVE Goal
  BY <1>5 DEF AddAlert
<1>6. ASSUME NEW f \in Forwards, NEW d \in Devices, BindDevice(f, d) PROVE Goal
  BY <1>6 DEF BindDevice
<1>7. ASSUME rows' \subseteq rows PROVE FALSE
  BY <1>7
<1> HIDE DEF Goal
<1> QED
  BY <1>1, <1>2, <1>3, <1>4, <1>5, <1>6, <1>7
  DEF Next, Insert, AddOwner, BindEvent, Unbind, DeleteServiceInstance, Crash, vars

\* Owners go to a call that then deletes what they own.
LEMMA OwnerLeaves ==
  ASSUME Structure, [Next]_vars, NEW o \in owners, o \notin owners'
  PROVE  Unlinking(o)'
<1>1. ASSUME NEW c \in Calls, NEW O, DeleteOwners(c, O) PROVE Unlinking(o)'
  BY <1>1 DEF DeleteOwners, Unlinking, Structure, TypeOK, Goto
<1>2. ASSUME owners \subseteq owners' PROVE FALSE
  BY <1>2
<1>3. ASSUME NEW c \in Calls, Enter(c) \/ Step(c) PROVE Unlinking(o)'
  BY <1>1, <1>2, <1>3
  DEF Enter, Step, FindServices, LookupEvents, DeleteRelations, DeleteRows, DeleteServices, Rollback,
      DeleteDevice, DeleteForwards, DeleteAlerts, Commit, LookupDeleted, DeleteOwned, Unlinked, TxDelete,
      Begin, DeleteEvents
<1> QED
  BY <1>2, <1>3 DEF Next, Insert, AddDevice, AddServiceInstance, AddEventInstance, AddChild, AddOwner,
     BindEvent, BindDevice, AddAlert, Unbind, DeleteServiceInstance, Crash, vars

LEMMA LeftoversStep == IInv /\ [Next]_vars => NoLeftovers'
<1> SUFFICES ASSUME IInv, [Next]_vars PROVE NoLeftovers'
  OBVIOUS
<1>0. Structure
  BY DEF IInv
\* A commit takes an event, a device with what refers to it, gone or excused before.
<1>1. ASSUME NEW c \in Calls, Commit(c), rows' = rows \ dead[c]
      PROVE  /\ target[c] \in Devices /\ dead[c] \cap Devices \subseteq {target[c]}
             /\ \A x \in relations : x[2] \in dead[c] => Excused(x)
             /\ rows' \cap LinksOf(target[c]) \subseteq late
             /\ rows' \cap AlertsOf(target[c]) \subseteq late
  <2>1. pc[c] = "commit" /\ target[c] \in Devices /\ dead[c] \cap Devices \subseteq {target[c]}
    BY <1>1 DEF Commit, IInv, Structure, StaysInDevice
  <2> QED
    BY <1>1, <2>1 DEF IInv, RelationsDone, RowsDone
<1>2. ASSUME NEW x \in relations', x[1] \notin owners' \/ x[2] \notin rows' PROVE Excused(x)'
  <2>1. CASE x \notin relations
    <3>1. PICK r \in Rules, e \in Events : BindEvent(r, e) /\ x = <<r, e>>
      BY <1>0, <1>2, <2>1, RelationComes
    <3>2. x[1] = r /\ x[2] = e /\ rows' = rows /\ owners' = owners
      BY <3>1 DEF BindEvent
    <3>3. x \in late'
      BY <1>2, <3>1, <3>2 DEF BindEvent
    <3> QED
      BY <3>3 DEF Excused
  <2>2. CASE x \in relations /\ Excused(x)
    BY <1>0, <1>2, <2>2, ExcusedStays
  <2>3. CASE x \in relations /\ x[1] \in owners /\ x[2] \in rows
    <3>1. CASE x[1] \notin owners'
      BY <1>0, <2>3, <3>1, OwnerLeaves DEF Excused, Unlinking
    <3>2. CASE x[2] \notin rows'
      <4>1. x[2] \in Events
        BY <1>0, <2>3 DEF Structure, TypeOK, Relations
      <4>2. CASE \E c \in Calls : Commit(c) /\ rows' = rows \ dead[c] /\ x[2] \in dead[c]
        <5>1. Excused(x)
          BY <1>1, <2>3, <4>2
        <5> QED
          BY <1>0, <1>2, <2>3, <5>1, ExcusedStays
      <4>3. CASE x \in late'
        BY <4>3 DEF Excused
      <4> QED
        BY <1>0, <1>2, <2>3, <3>2, <4>1, <4>2, <4>3, RowLeaves
    <3> QED
      BY <1>2, <3>1, <3>2
  <2> QED
    BY <2>1, <2>2, <2>3 DEF IInv, NoLeftovers, Excused
<1>3. ASSUME NEW x \in rows' \cap Links, x[1] \notin owners' \/ x[2] \notin rows' PROVE Excused(x)'
  <2>1. CASE x \notin rows
    <3>1. PICK f \in Forwards, d \in Devices : x = <<f, d>> /\ BindDevice(f, d)
      BY <1>0, <2>1, RowComes, TablesApart
    <3>2. d \in rows' => d \in rows
      BY <3>1, TablesApart DEF BindDevice
    <3> QED
      BY <1>3, <3>1, <3>2 DEF BindDevice, Excused
  <2>2. CASE x \in rows /\ Excused(x)
    BY <1>0, <1>3, <2>2, ExcusedStays
  <2>3. CASE x \in rows /\ x[1] \in owners /\ x[2] \in rows
    <3>1. CASE x[1] \notin owners'
      BY <1>0, <2>3, <3>1, OwnerLeaves DEF Excused, Unlinking
    <3>2. CASE x[2] \notin rows'
      <4>1. x[2] \in Devices
        BY DEF Links
      <4>2. PICK c \in Calls : Commit(c) /\ rows' = rows \ dead[c] /\ x[2] \in dead[c]
        BY <1>0, <2>3, <3>2, <4>1, RowLeaves, StoreAssumption
      <4>3. x \in rows' \cap LinksOf(target[c])
        BY <1>1, <4>1, <4>2 DEF LinksOf
      <4>4. Excused(x)
        BY <1>1, <4>2, <4>3 DEF Excused
      <4> QED
        BY <1>0, <1>3, <2>3, <4>4, ExcusedStays
    <3> QED
      BY <1>3, <3>1, <3>2
  <2> QED
    BY <2>1, <2>2, <2>3 DEF IInv, NoLeftovers, Excused
<1>4. ASSUME NEW a \in rows' \cap Alerts, DeviceOf[a] \notin rows' PROVE a \in late'
  <2>1. CASE a \notin rows
    <3>1. \/ a \in Events
          \/ \E b \in Alerts : a = b /\ AddAlert(b)
          \/ \E f \in Forwards, d \in Devices : a = <<f, d>>
      BY <1>0, <2>1, RowComes
    <3>2. a \notin Events /\ a \notin Links
      BY TablesApart, StoreAssumption
    <3>3. AddAlert(a)
      BY <3>1, <3>2 DEF Links
    <3>4. DeviceOf[a] \notin rows
      BY <1>4, <3>3 DEF AddAlert
    <3> QED
      BY <3>3, <3>4 DEF AddAlert
  <2>2. CASE a \in rows /\ DeviceOf[a] \notin rows
    BY <1>0, <2>2, LateStays DEF IInv, NoLeftovers
  <2>3. CASE a \in rows /\ DeviceOf[a] \in rows
    <3>1. DeviceOf[a] \in Devices
      BY StoreAssumption
    <3>2. PICK c \in Calls : Commit(c) /\ rows' = rows \ dead[c] /\ DeviceOf[a] \in dead[c]
      BY <1>0, <1>4, <2>3, <3>1, RowLeaves, StoreAssumption
    <3>3. a \in rows' \cap AlertsOf(target[c])
      BY <1>1, <3>1, <3>2 DEF AlertsOf
    <3> QED
      BY <1>0, <1>1, <3>2, <3>3, LateStays
  <2> QED
    BY <2>1, <2>2, <2>3
<1> QED
  BY <1>2, <1>3, <1>4 DEF NoLeftovers, Excused

\* The relations that the delete of call c has dealt with.
DealtWith(c, x) ==
  \/ x[2] \in dead[c]
  \/ pc[c] = "unlink" /\ cur[c] = ServiceOf[x[2]] /\ x[2] \notin found[c]

\* A relation comes to be dealt with when its service is looked up, or when it is
\* deleted.
LEMMA DealsWith ==
  ASSUME Structure, [Next]_vars, NEW c \in Calls, target'[c] \in Devices,
         NEW x \in relations, DealtWith(c, x)'
  PROVE  \/ target[c] \in Devices /\ DealtWith(c, x)
         \/ \E s \in Services : LookupEvents(c, s)
         \/ \E e \in Events : DeleteRelations(c, e) /\ x[2] = e
<1> DEFINE Before == target[c] \in Devices /\ DealtWith(c, x)
           Goal == \/ Before
                   \/ \E s \in Services : LookupEvents(c, s)
                   \/ \E e \in Events : DeleteRelations(c, e) /\ x[2] = e
<1> SUFFICES Goal
  OBVIOUS
<1>0. TypeOK /\ x[2] \in Events
  BY DEF Structure, TypeOK, Relations
<1>1. CASE UNCHANGED <<pc, target, todo, cur, found, dead>>
  BY <1>1 DEF DealtWith
<1>2. CASE Crash
  BY <1>2 DEF Crash, DealtWith
<1>3. ASSUME NEW b \in Calls \ {c}, Enter(b) \/ Step(b) PROVE Before
  BY <1>0, <1>3, OwnStep DEF DealtWith
<1>4. ASSUME Enter(c) \/ Step(c) PROVE Goal
  <2>1. ASSUME dead'[c] = {}, pc'[c] # "unlink" PROVE FALSE
    BY <2>1 DEF DealtWith
  <2>2. ASSUME UNCHANGED target, dead'[c] \cap Events = dead[c] \cap Events, pc'[c] # "unlink" PROVE Before
    BY <1>0, <2>2 DEF DealtWith
  <2>3. ASSUME Return(c) PROVE FALSE
    BY <1>0, <2>1, <2>3, ReturnEffect
  <2>4. ASSUME Enter(c) PROVE FALSE
    <3>1. pc[c] = "idle" /\ dead' = dead /\ pc'[c] # "unlink"
      BY <1>0, <2>4 DEF Enter, Begin, DeleteEvents, DeleteOwners, Goto, TypeOK
    <3> QED
      BY <2>1, <3>1 DEF Structure, RowsLocked, Working
  <2>5. ASSUME FindServices(c) \/ LookupDeleted(c) \/ Unlinked(c) PROVE Before
    <3>1. Return(c) \/ (pc'[c] \in {"scan", "evUnlink"} /\ UNCHANGED <<target, dead>>)
      BY <1>0, <2>5 DEF FindServices, LookupDeleted, Unlinked, Rollback, Goto, TypeOK
    <3> QED
      BY <2>2, <2>3, <3>1
  <2>6. ASSUME NEW e \in Events, DeleteRelations(c, e), x[2] # e PROVE Before
    <3>1. found'[c] = found[c] \ {e} /\ UNCHANGED <<pc, target, cur, dead>>
      BY <1>0, <2>6 DEF DeleteRelations, TypeOK
    <3> QED
      BY <2>6, <3>1 DEF DealtWith
  <2>7. ASSUME NEW o, DeleteOwned(c, o) PROVE Before
    <3>1. pc'[c] = "owUnlink" /\ UNCHANGED <<target, dead>>
      BY <2>7 DEF DeleteOwned
    <3> QED
      BY <2>2, <3>1
  <2>8. ASSUME DeleteRows(c), TxDelete(c, EventsOf({cur[c]}), "scan") PROVE Before
    <3>1. /\ pc[c] = "unlink" /\ found[c] = {} /\ pc'[c] = "scan" /\ UNCHANGED target
          /\ dead'[c] \subseteq dead[c] \cup EventsOf({cur[c]})
      BY <1>0, <2>8, TxEffect DEF DeleteRows
    <3> QED
      BY <3>1 DEF DealtWith, EventsOf
  <2>9. ASSUME NEW R, NEW p, TxDelete(c, R, p), p # "unlink", R \cap Events = {} PROVE Before
    <3>1. pc'[c] = p /\ dead'[c] = dead[c] \cup (R \cap Seen(c)) /\ UNCHANGED target
      BY <1>0, <2>9, TxEffect
    <3> QED
      BY <2>2, <2>9, <3>1
  <2>10. ASSUME DeleteServices(c) PROVE Before
    <3>1. ServicesOf(target[c]) \cap Events = {}
      BY StoreAssumption DEF ServicesOf
    <3> QED
      BY <2>3, <2>9, <2>10, <3>1 DEF DeleteServices, Rollback
  <2>11. ASSUME DeleteDevice(c) PROVE Before
    <3>1. target[c] \in Devices
      BY <2>11 DEF DeleteDevice, Structure, StaysInDevice
    <3>2. {target[c]} \cap Events = {}
      BY <3>1, StoreAssumption
    <3> QED
      BY <2>3, <2>9, <2>11, <3>2 DEF DeleteDevice, Rollback
  <2>12. ASSUME DeleteForwards(c) \/ DeleteAlerts(c) PROVE Before
    <3>1. LinksOf(target[c]) \cap Events = {} /\ AlertsOf(target[c]) \cap Events = {}
      BY TablesApart, StoreAssumption DEF LinksOf, AlertsOf
    <3> QED
      BY <2>3, <2>9, <2>12, <3>1 DEF DeleteForwards, DeleteAlerts, Rollback
  <2>13. ASSUME DeleteRows(c) \/ Commit(c) PROVE Before
    BY <2>3, <2>8, <2>13 DEF DeleteRows, Commit, Rollback
  <2> HIDE DEF Before
  <2> QED
    BY <1>4, <2>4, <2>5, <2>6, <2>7, <2>10, <2>11, <2>12, <2>13 DEF Step
<1> HIDE DEF Goal
<1>5. Before => Goal
  BY DEF Goal
<1>6. ASSUME Insert PROVE UNCHANGED <<pc, target, todo, cur, found, dead>>
  BY <1>6 DEF Insert, AddDevice, AddServiceInstance, AddEventInstance, AddChild,
     AddOwner, BindEvent, BindDevice, AddAlert
<1> HIDE DEF Before
<1> QED
  BY <1>1, <1>2, <1>3, <1>4, <1>5, <1>6 DEF Next, Unbind, DeleteServiceInstance, vars

\* A relation that comes when its event is already dealt with comes too late.
LEMMA BindIsLate ==
  ASSUME Structure, NEW c \in Calls, target[c] \in Devices, NEW r \in Rules, NEW e \in Events,
         BindEvent(r, e), DealtWith(c, <<r, e>>)
  PROVE  <<r, e>> \in late'
<1> USE DEF Structure
<1>1. CASE e \in dead[c]
  <2>1. Working(c) /\ DeviceOf[ServiceOf[e]] = target[c]
    BY <1>1 DEF RowsLocked, StaysInDevice, EventsOf, ServicesOf
  <2>2. ServiceOf[e] \notin todo[c] /\ (pc[c] = "unlink" => cur[c] # ServiceOf[e])
    BY <1>1 DEF LoopPlaces
  <2>3. e \notin found[c]
    BY <2>1, <2>2 DEF LoopPlaces, EventsOf
  <2>4. Missed(c, e)
    BY <2>1, <2>2, <2>3 DEF Missed, Deleting, Working
  <2> QED
    BY <2>4 DEF BindEvent
<1>2. CASE pc[c] = "unlink" /\ cur[c] = ServiceOf[e] /\ e \notin found[c]
  <2>1. DeviceOf[ServiceOf[e]] = target[c] /\ cur[c] \notin todo[c]
    BY <1>2, StoreAssumption DEF StaysInDevice, LoopPlaces, Matching, ServicesOf
  <2>2. Missed(c, e)
    BY <1>2, <2>1 DEF Missed, Deleting
  <2> QED
    BY <2>2 DEF BindEvent
<1> QED
  BY <1>1, <1>2 DEF DealtWith

LEMMA RelationsStep == IInv /\ [Next]_vars => RelationsDone'
<1> SUFFICES ASSUME IInv, [Next]_vars, NEW c \in Calls, target'[c] \in Devices,
                    NEW x \in relations', DealtWith(c, x)'
             PROVE  Excused(x)'
  BY DEF RelationsDone, DealtWith
<1>0. Structure
  BY DEF IInv
<1>1. CASE x \notin relations
  <2>1. PICK r \in Rules, e \in Events : BindEvent(r, e) /\ x = <<r, e>>
    BY <1>0, <1>1, RelationComes
  <2>2. target[c] \in Devices /\ DealtWith(c, x)
    BY <2>1 DEF BindEvent, DealtWith
  <2>3. x \in late'
    BY <1>0, <2>1, <2>2, BindIsLate
  <2> QED
    BY <2>3 DEF Excused
<1>2. CASE x \in relations
  <2>1. CASE target[c] \in Devices /\ DealtWith(c, x)
    BY <1>0, <1>2, <2>1, ExcusedStays DEF IInv, RelationsDone, DealtWith
  <2>2. ASSUME NEW s \in Services, LookupEvents(c, s) PROVE Excused(x)'
    <3>1. x \in Relations /\ x[2] \in Events
      BY <1>0, <1>2 DEF Structure, TypeOK, Relations
    <3>2. CASE found' = [found EXCEPT ![c] = rows \cap EventsOf({s})]
      <4>1. /\ pc'[c] = "unlink" /\ cur'[c] = s /\ dead' = dead /\ target' = target
            /\ found'[c] = rows \cap EventsOf({s})
        BY <1>0, <2>2, <3>2 DEF LookupEvents, Goto, Structure, TypeOK
      <4>2. x[2] \in dead[c] \/ x[2] \notin rows
        BY <3>1, <4>1 DEF DealtWith, EventsOf
      <4>3. Excused(x)
        BY <1>2, <4>1, <4>2 DEF IInv, NoLeftovers, RelationsDone, Excused
      <4> QED
        BY <1>0, <1>2, <4>3, ExcusedStays
    <3>3. CASE late' = late \cup (relations \cap RelationsOf(EventsOf({s})))
      <4>1. pc'[c] = "unlink" /\ cur'[c] = s /\ dead' = dead /\ target' = target
        BY <1>0, <2>2 DEF LookupEvents, Goto, Structure, TypeOK
      <4>2. CASE x[2] \in dead[c]
        BY <1>0, <1>2, <2>1, <4>1, <4>2 DEF DealtWith
      <4>3. CASE ServiceOf[x[2]] = s
        BY <1>2, <3>1, <3>3, <4>3 DEF EventsOf, RelationsOf, Excused
      <4> QED
        BY <4>1, <4>2, <4>3 DEF DealtWith
    <3> QED
      BY <2>2, <3>2, <3>3 DEF LookupEvents
  <2>3. ASSUME NEW e \in Events, DeleteRelations(c, e), x[2] = e PROVE Excused(x)'
    <3>1. x \in RelationsOf({e})
      BY <1>0, <1>2, <2>3 DEF Structure, TypeOK, RelationsOf
    <3> QED
      BY <1>2, <2>3, <3>1 DEF DeleteRelations, Excused
  <2> QED
    BY <1>0, <1>2, <2>1, <2>2, <2>3, DealsWith
<1> QED
  BY <1>1, <1>2

\* How a delete gets to the places that RowsDone speaks of.
LEMMA Progress ==
  ASSUME Structure, [Next]_vars, NEW c \in Calls, pc'[c] \in {"scan", "unlink", "alerts", "commit"}
  PROVE  /\ target'[c] = target[c]
         /\ \/ /\ pc'[c] = pc[c] /\ todo'[c] = todo[c] /\ cur'[c] = cur[c] /\ dead'[c] = dead[c]
            \/ pc'[c] = "scan" /\ todo'[c] = rows \cap Matching(target[c])
            \/ /\ pc[c] = "scan" /\ pc'[c] = "unlink" /\ dead'[c] = dead[c]
               /\ todo'[c] = todo[c] \ {cur'[c]}
            \/ /\ pc[c] = "unlink" /\ pc'[c] = "scan" /\ todo'[c] = todo[c]
               /\ dead'[c] = dead[c] \cup (EventsOf({cur[c]}) \cap Seen(c))
            \/ /\ pc'[c] = "alerts"
               /\ dead'[c] = dead[c] \cup (LinksOf(target[c]) \cap Seen(c))
            \/ /\ pc[c] = "alerts" /\ pc'[c] = "commit"
               /\ dead'[c] = dead[c] \cup (AlertsOf(target[c]) \cap Seen(c))
<1> DEFINE Goal ==
         /\ target'[c] = target[c]
         /\ \/ /\ pc'[c] = pc[c] /\ todo'[c] = todo[c] /\ cur'[c] = cur[c] /\ dead'[c] = dead[c]
            \/ pc'[c] = "scan" /\ todo'[c] = rows \cap Matching(target[c])
            \/ /\ pc[c] = "scan" /\ pc'[c] = "unlink" /\ dead'[c] = dead[c]
               /\ todo'[c] = todo[c] \ {cur'[c]}
            \/ /\ pc[c] = "unlink" /\ pc'[c] = "scan" /\ todo'[c] = todo[c]
               /\ dead'[c] = dead[c] \cup (EventsOf({cur[c]}) \cap Seen(c))
            \/ /\ pc'[c] = "alerts"
               /\ dead'[c] = dead[c] \cup (LinksOf(target[c]) \cap Seen(c))
            \/ /\ pc[c] = "alerts" /\ pc'[c] = "commit"
               /\ dead'[c] = dead[c] \cup (AlertsOf(target[c]) \cap Seen(c))
<1> SUFFICES Goal
  OBVIOUS
<1>0. TypeOK
  BY DEF Structure
<1>1. ASSUME Return(c) PROVE FALSE
  BY <1>0, <1>1, ReturnEffect
<1>2. ASSUME UNCHANGED <<pc, target, todo, cur, dead>> PROVE Goal
  BY <1>2
<1>3. ASSUME NEW b \in Calls \ {c}, Enter(b) \/ Step(b) PROVE Goal
  BY <1>0, <1>3, OwnStep
<1>4. ASSUME FindServices(c) \/ \E s \in Services : LookupEvents(c, s) PROVE Goal
  BY <1>0, <1>1, <1>4 DEF FindServices, LookupEvents, Rollback, Goto, TypeOK
<1>5. ASSUME NEW R, NEW p, TxDelete(c, R, p)
      PROVE  /\ target'[c] = target[c] /\ pc'[c] = p /\ dead'[c] = dead[c] \cup (R \cap Seen(c))
             /\ todo'[c] = todo[c]
  BY <1>0, <1>5, TxEffect
<1>6. ASSUME DeleteRows(c) PROVE Goal
  BY <1>1, <1>5, <1>6 DEF DeleteRows, Rollback
<1>7. ASSUME DeleteForwards(c) PROVE Goal
  BY <1>1, <1>5, <1>7 DEF DeleteForwards, Rollback
<1>8. ASSUME DeleteAlerts(c) PROVE Goal
  BY <1>1, <1>5, <1>8 DEF DeleteAlerts, Rollback
<1>9. ASSUME DeleteServices(c) \/ DeleteDevice(c) PROVE FALSE
  BY <1>1, <1>5, <1>9 DEF DeleteServices, DeleteDevice, Rollback
<1>10. ASSUME Commit(c) \/ Unlinked(c) PROVE FALSE
  BY <1>1, <1>10 DEF Commit, Unlinked, Rollback
<1>11. ASSUME LookupDeleted(c) \/ Enter(c) PROVE FALSE
  BY <1>0, <1>11 DEF LookupDeleted, Enter, Begin, DeleteEvents, DeleteOwners, Goto, TypeOK
<1>12. CASE Crash
  BY <1>12 DEF Crash
<1> HIDE DEF Goal
<1>13. ASSUME Enter(c) \/ Step(c) PROVE Goal
  BY <1>2, <1>4, <1>6, <1>7, <1>8, <1>9, <1>10, <1>11, <1>13 DEF Step, DeleteRelations, DeleteOwned
<1> QED
  BY <1>2, <1>3, <1>12, <1>13 DEF Next, Insert, AddDevice, AddServiceInstance, AddEventInstance,
     AddChild, AddOwner, BindEvent, BindDevice, AddAlert, Unbind, DeleteServiceInstance, vars

LEMMA RowsDoneStep == IInv /\ [Next]_vars => RowsDone'
<1> SUFFICES ASSUME IInv, [Next]_vars, NEW c \in Calls, target'[c] \in Devices
             PROVE  /\ pc'[c] \in {"scan", "unlink"} =>
                         \A e \in (Seen(c) \cap EventsOf(ServicesOf(target[c])))' :
                           \/ e \in late' \/ ServiceOf[e] \in todo'[c]
                           \/ pc'[c] = "unlink" /\ cur'[c] = ServiceOf[e]
                    /\ pc'[c] \in {"alerts", "commit"} =>
                         rows' \cap LinksOf(target'[c]) \subseteq dead'[c] \cup late'
                    /\ pc'[c] = "commit" =>
                         rows' \cap AlertsOf(target'[c]) \subseteq dead'[c] \cup late'
  BY DEF RowsDone
<1>0. Structure
  BY DEF IInv
\* Another call may add an event while the delete is in its loop.
<1>1. ASSUME pc'[c] \in {"scan", "unlink"}, NEW e \in rows', e \notin dead'[c],
             e \in EventsOf(ServicesOf(target'[c]))
      PROVE  \/ e \in late' \/ ServiceOf[e] \in todo'[c]
             \/ pc'[c] = "unlink" /\ cur'[c] = ServiceOf[e]
  <2>1. e \in Events /\ ServiceOf[e] \in Services /\ DeviceOf[ServiceOf[e]] = target'[c]
    BY <1>1, StoreAssumption DEF EventsOf, ServicesOf
  <2>2. CASE e \notin rows
    <3>1. /\ e \in late' \/ ~ Missed(c, e) \/ InHand(c, ServiceOf[e])
          /\ UNCHANGED <<pc, target, todo, cur, found, dead>>
      <4>1. e \notin Alerts /\ e \notin Links
        BY <2>1, TablesApart, StoreAssumption
      <4> QED
        BY <1>0, <1>1, <2>1, <2>2, <4>1, RowComes DEF Links
    <3>2. CASE ~ Missed(c, e)
      <4>1. ServiceOf[e] \in todo[c] \/ e \in found[c]
        BY <1>1, <2>1, <3>1, <3>2 DEF Missed, Deleting
      <4>2. e \in found[c] => pc[c] = "unlink" /\ cur[c] = ServiceOf[e]
        BY <1>0, <1>1, <3>1 DEF Structure, LoopPlaces, Working, EventsOf
      <4> QED
        BY <3>1, <4>1, <4>2
    <3> QED
      BY <3>1, <3>2 DEF InHand
  <2>3. CASE e \in rows
    <3>1. target'[c] = target[c]
      BY <1>0, <1>1, Progress
    <3>2. pc[c] \in {"scan", "unlink"} /\ e \notin dead[c] =>
            e \in late \/ ServiceOf[e] \in todo[c] \/ (pc[c] = "unlink" /\ cur[c] = ServiceOf[e])
      BY <1>1, <2>3, <3>1 DEF IInv, RowsDone, Seen
    <3>3. e \in late => e \in late'
      BY <1>0, <1>1, LateStays
    <3>4. CASE pc'[c] = pc[c] /\ todo'[c] = todo[c] /\ cur'[c] = cur[c] /\ dead'[c] = dead[c]
      BY <1>1, <3>2, <3>3, <3>4
    <3>5. CASE todo'[c] = rows \cap Matching(target[c])
      <4>1. ServiceOf[e] \in rows
        BY <1>0, <2>1, <2>3 DEF Structure, ForeignKeys
      <4> QED
        BY <2>1, <3>1, <3>5, <4>1 DEF Matching, ServicesOf
    <3>6. CASE pc[c] = "scan" /\ pc'[c] = "unlink" /\ dead'[c] = dead[c] /\ todo'[c] = todo[c] \ {cur'[c]}
      BY <1>1, <3>2, <3>3, <3>6
    <3>7. CASE /\ pc[c] = "unlink" /\ pc'[c] = "scan" /\ todo'[c] = todo[c]
               /\ dead'[c] = dead[c] \cup (EventsOf({cur[c]}) \cap Seen(c))
      <4>1. ServiceOf[e] # cur[c] /\ e \notin dead[c]
        BY <1>1, <2>1, <2>3, <3>7 DEF EventsOf, Seen
      <4> QED
        BY <3>2, <3>3, <3>7, <4>1
    <3> QED
      BY <1>0, <1>1, <3>4, <3>5, <3>6, <3>7, Progress
  <2> QED
    BY <2>2, <2>3
\* A device may be bound to a forward, and an alert may arrive, at any time.
<1>2. ASSUME pc'[c] \in {"alerts", "commit"}, NEW x \in rows' \cap LinksOf(target'[c])
      PROVE  x \in dead'[c] \cup late'
  <2>1. x \in Links /\ x[2] = target'[c]
    BY DEF LinksOf
  <2>2. CASE x \notin rows
    <3>1. x \notin Events /\ x \notin Alerts
      BY <2>1, TablesApart
    <3>2. PICK f \in Forwards, d \in Devices : x = <<f, d>> /\ BindDevice(f, d)
      BY <1>0, <1>2, <2>1, <2>2, <3>1, RowComes
    <3>3. d = target[c] /\ pc[c] \in {"alerts", "commit"}
      BY <1>2, <2>1, <3>2 DEF BindDevice
    <3>4. Past(d, {"alerts", "commit"})
      BY <3>3 DEF Past, Deleting
    <3> QED
      BY <3>2, <3>4 DEF BindDevice
  <2>3. CASE x \in rows
    <3>1. target'[c] = target[c]
      BY <1>0, <1>2, Progress
    <3>2. pc[c] \in {"alerts", "commit"} => x \in dead[c] \cup late
      BY <1>2, <2>3, <3>1 DEF IInv, RowsDone
    <3>3. x \in late => x \in late'
      BY <1>0, <1>2, LateStays
    <3> QED
      BY <1>0, <1>2, <2>3, <3>1, <3>2, <3>3, Progress DEF Seen
  <2> QED
    BY <2>2, <2>3
<1>3. ASSUME pc'[c] = "commit", NEW a \in rows' \cap AlertsOf(target'[c])
      PROVE  a \in dead'[c] \cup late'
  <2>1. a \in Alerts /\ DeviceOf[a] = target'[c]
    BY DEF AlertsOf
  <2>2. CASE a \notin rows
    <3>1. a \notin Events /\ a \notin Links
      BY <2>1, TablesApart, StoreAssumption
    <3>2. AddAlert(a)
      BY <1>0, <1>3, <2>1, <2>2, <3>1, RowComes DEF Links
    <3>3. Past(DeviceOf[a], {"commit"})
      BY <1>3, <2>1, <3>2 DEF AddAlert, Past, Deleting
    <3> QED
      BY <3>2, <3>3 DEF AddAlert
  <2>3. CASE a \in rows
    <3>1. target'[c] = target[c]
      BY <1>0, <1>3, Progress
    <3>2. pc[c] = "commit" => a \in dead[c] \cup late
      BY <1>3, <2>3, <3>1 DEF IInv, RowsDone
    <3>3. a \in late => a \in late'
      BY <1>0, <1>3, LateStays
    <3> QED
      BY <1>0, <1>3, <2>3, <3>1, <3>2, <3>3, Progress DEF Seen
  <2> QED
    BY <2>2, <2>3
<1> QED
  BY <1>1, <1>2, <1>3 DEF Seen

LEMMA Invariance == Spec => []IInv
<1>1. IInv /\ [Next]_vars => IInv'
  <2> SUFFICES ASSUME IInv, [Next]_vars PROVE IInv'
    OBVIOUS
  <2>1. Structure
    BY DEF IInv
  <2>2. Structure'
    <3>1. TypeOK
      BY <2>1 DEF Structure
    <3> QED
      BY <2>1, <3>1, TypeStep, UsedOnceStep, KeysStep, LocksStep, LocalStep DEF Structure
  <2> QED
    BY <2>2, RelationsStep, RowsDoneStep, LeftoversStep DEF IInv
<1> QED
  BY <1>1, InitInv, PTL DEF Spec

\* The ids in the tables and in the variables of the handlers are always of the
\* right kind, and each handler is at one of its places (device_instance.go:483-583,
\* event_instance.go, rule_linkage.go, data_forward.go).
THEOREM TypeCorrect == Spec => []TypeOK
BY Invariance, PTL DEF IInv, Structure

\* However DeleteDeviceInstance (device_instance.go:483-583), the deletes of events,
\* rules and forwards, and the inserts interleave, fail or are cut off by a crash, a
\* relation, link or alert without its owner is one that came, or was left, after
\* the delete had passed it, or that a delete still under way will come to.
THEOREM Leftovers == Spec => []NoLeftovers
BY Invariance, PTL DEF IInv

\* When DeleteDeviceInstance comes to the services (device_instance.go:549), no
\* foreign key can refuse it, but for events that were added behind its back.
THEOREM OnlyRacesBlock == Spec => []OnlyRacesBlockDelete
<1>1. IInv => OnlyRacesBlockDelete
  <2> SUFFICES ASSUME IInv, NEW c \in Calls, pc[c] = "scan", todo[c] = {},
                      NEW e \in Seen(c) \cap EventsOf(ServicesOf(target[c]))
               PROVE  e \in late
    BY DEF OnlyRacesBlockDelete
  <2>1. target[c] \in Devices
    BY StoreAssumption DEF EventsOf, ServicesOf
  <2> QED
    BY <2>1 DEF IInv, RowsDone
<1> QED
  BY <1>1, Invariance, PTL

-----------------------------------------------------------------------------
(* Assembly: how a device gets its services. *)

\* The entries of ec.Services, and the rows of services and of their parts.
Entries == [name : Labels, config : Settings, model : Nat]
ServiceRows == [id : Nat, device : {Source, Copied}, name : Labels, of : Nat]
PartRows == [service : Nat, kind : Range(Kinds), name : Labels, config : Configs \cup {Blank}]

\* What each variable holds.
Columns ==
  /\ model \in Seq(Specs) /\ list \in Seq(Entries)
  /\ services \subseteq ServiceRows /\ parts \subseteq PartRows
  /\ pos \in Nat /\ kind \in 1..3 /\ updates \in Nat /\ faults \in Nat /\ raced \in BOOLEAN
  /\ copy \in [pc : {"idle", "reading", "copying", "done", "failed"}, at : Nat,
               services : SUBSET ServiceRows, parts : SUBSET PartRows]

\* The first entry of its name in the list.
First(l, h) == \A g \in 1..h - 1 : l[g].name # l[h].name

\* The services that the loop over the model has linked.
Linked == IF place = "link" THEN pos - 1 ELSE Len(model)

\* The first n services are linked: an entry is tied to the last of them that has its
\* name, if it is the first entry of that name.
LinkedTo(l, m, n) ==
  /\ \A h \in 1..Len(l) :
       /\ l[h].model \in 0..n
       /\ l[h].model # 0 => /\ First(l, h) /\ m[l[h].model].name = l[h].name
                            /\ \A j \in l[h].model + 1..n : m[j].name # l[h].name
       /\ l[h].model = 0 /\ First(l, h) => \A j \in 1..n : m[j].name # l[h].name
  /\ \A j \in 1..n : \E h \in 1..Len(l) : l[h].name = m[j].name

\* The loop over the model has come this far.
Tied == place # "failed" => LinkedTo(list, model, Linked)

\* Entry h has stored its parts of kind number c.
Passed(h, c) == place = "done" \/ h < pos \/ (h = pos /\ c < kind)

\* The names of the parts of a kind below a service.
NamesOf(j, kd) == {p.name : p \in {q \in parts : q.service = j /\ q.kind = kd}}

\* What is below a service of the source while its parts are stored.
Filling ==
  place \in {"specs", "done"} =>
    \A j \in 1..Len(model), c \in 1..3 :
      NamesOf(j, Kinds[c]) =
        IF \E h \in 1..Len(list) : list[h].model = j /\ Passed(h, c)
        THEN model[j].parts[Kinds[c]] ELSE {}

\* The configuration an entry of the request gives to a part.
Given(entry, n) == IF n \in DOMAIN entry.config THEN entry.config[n] ELSE Blank

\* A part has the configuration of the entry its service is tied to.
Configured ==
  place \in {"specs", "done"} /\ updates = 0 =>
    \A p \in parts : p.service \in 1..Len(model) =>
      \E h \in 1..Len(list) : list[h].model = p.service /\ p.config = Given(list[h], p.name)

\* The rows of the device that is built.
Stored == {s \in services : s.device = Source}

\* The services of the source are those of the model, the copy's come after them.
Numbered ==
  /\ place = "link" => services = {} /\ kind = 1
  /\ place \in {"specs", "done", "panicked"} => \A j \in 1..Len(model) : \E s \in services : s.id = j
  /\ \A s \in Stored : s.id \in 1..Len(model) /\ s.of = s.id
  /\ \A s \in services \ Stored : copy.pc = "done" /\ s.id > Len(model)
  /\ \A p \in parts : \E s \in services : s.id = p.service

\* What the copy has read; if nothing changed meanwhile it is what is stored.
ReadSoFar ==
  /\ copy.services \subseteq Stored
  /\ \A p \in copy.parts : \E s \in copy.services : s.id = p.service
  /\ copy.pc # "done" => DOMAIN attrs = {Source}
  /\ copy.pc = "reading" => copy.at \in 1..3
  /\ copy.pc = "reading" /\ ~ raced =>
       /\ copy.services = Stored
       /\ copy.parts = {p \in parts : /\ \E c \in 1..copy.at - 1 : p.kind = Kinds[c]
                                      /\ \E s \in Stored : s.id = p.service}
  /\ copy.pc = "copying" /\ ~ raced => image = Tree(Source, copy.services, copy.parts)

\* The inductive invariant of DeviceAssembly.
AssemblyIInv ==
  Columns /\ AssemblyTypeOK /\ Tied /\ Filling /\ Configured /\ StopsForAReason /\ Numbered /\ ReadSoFar

LEMMA KindsAre ==
  /\ Range(Kinds) = {"property", "event", "command"}
  /\ \A c \in 1..3 : Kinds[c] \in Range(Kinds)
  /\ \A b, c \in 1..3 : Kinds[b] = Kinds[c] => b = c
  /\ \A kd \in Range(Kinds) : \E c \in 1..3 : kd = Kinds[c]
<1>1. Kinds = <<"property", "event", "command">> /\ DOMAIN Kinds = 1..3
  BY DEF Kinds
<1>2. Kinds[1] = "property" /\ Kinds[2] = "event" /\ Kinds[3] = "command"
  BY <1>1
<1>3. \A c \in 1..3 : c = 1 \/ c = 2 \/ c = 3
  OBVIOUS
<1>4. Range(Kinds) = {Kinds[c] : c \in 1..3}
  BY <1>1 DEF Range
<1> QED
  BY <1>2, <1>3, <1>4

LEMMA LeastOf ==
  ASSUME NEW n \in Nat, NEW S \in SUBSET (1..n), S # {}
  PROVE  Min(S) \in S /\ \A x \in S : Min(S) <= x
<1>1. PICK x \in S : \A y \in S : ~ (<<y, x>> \in OpToRel(<, Nat))
  <2>1. S \subseteq Nat
    OBVIOUS
  <2> QED
    BY <2>1, NatLessThanWellFounded, WFMin
<1>2. \A y \in S : x <= y
  <2>1. OpToRel(<, Nat) = {ss \in Nat \X Nat : ss[1] < ss[2]}
    BY DEF OpToRel
  <2>2. ASSUME NEW y \in S PROVE x <= y
    <3>1. y \in Nat /\ x \in Nat
      OBVIOUS
    <3>2. <<y, x>> \notin {ss \in Nat \X Nat : ss[1] < ss[2]}
      BY <1>1, <2>1
    <3>3. ~ (y < x)
      BY <3>1, <3>2
    <3> QED
      BY <3>1, <3>3
  <2> QED
    BY <2>2
<1> QED
  BY <1>1, <1>2 DEF Min

\* FindDeviceServiceSpec returns the first entry of the name, if there is one.
LEMMA FindIs ==
  ASSUME NEW l \in Seq(Entries), NEW name
  PROVE  /\ Find(name, l) \in 0..Len(l)
         /\ Find(name, l) = 0 => \A h \in 1..Len(l) : l[h].name # name
         /\ Find(name, l) # 0 => l[Find(name, l)].name = name /\ First(l, Find(name, l))
<1> DEFINE at == {j \in 1..Len(l) : l[j].name = name}
<1>1. CASE at = {}
  BY <1>1 DEF Find
<1>2. CASE at # {}
  <2>1. Find(name, l) = Min(at)
    BY <1>2 DEF Find
  <2>2. Len(l) \in Nat /\ at \in SUBSET (1..Len(l))
    OBVIOUS
  <2>3. Min(at) \in at /\ \A x \in at : Min(at) <= x
    BY <1>2, <2>2, LeastOf
  <2>4. First(l, Min(at))
    BY <2>2, <2>3 DEF First
  <2> QED
    BY <2>1, <2>2, <2>3, <2>4
<1> QED
  BY <1>1, <1>2

LEMMA FirstIsFound ==
  ASSUME NEW l \in Seq(Entries), NEW h \in 1..Len(l)
  PROVE  /\ First(l, h) <=> Find(l[h].name, l) = h
         /\ Find(l[h].name, l) \in 1..h
<1> DEFINE f == Find(l[h].name, l)
<1>1. f \in 1..Len(l) /\ l[f].name = l[h].name /\ First(l, f)
  BY FindIs
<1>2. f <= h
  BY <1>1 DEF First
<1>3. First(l, h) => f = h
  BY <1>1, <1>2 DEF First
<1> QED
  BY <1>1, <1>2, <1>3

LEMMA OneFirst ==
  ASSUME NEW l \in Seq(Entries), NEW g \in 1..Len(l), NEW h \in 1..Len(l),
         First(l, g), First(l, h), l[g].name = l[h].name
  PROVE  g = h
BY FirstIsFound

\* One round of the loop over the model.
LEMMA LinkOne ==
  ASSUME NEW l \in Seq(Entries), NEW m \in Seq(Specs), NEW n \in Nat, n < Len(m), LinkedTo(l, m, n),
         NEW l2,
         LET at == Find(m[n + 1].name, l)
         IN  l2 = IF at = 0 THEN Append(l, [name |-> m[n + 1].name, config |-> <<>>, model |-> n + 1])
                  ELSE [l EXCEPT ![at].model = n + 1]
  PROVE  l2 \in Seq(Entries) /\ LinkedTo(l2, m, n + 1)
<1> DEFINE name == m[n + 1].name
           at == Find(name, l)
           new == [name |-> name, config |-> <<>>, model |-> n + 1]
<1>1. name \in Labels /\ Len(l) \in Nat
  <2>1. n + 1 \in 1..Len(m) /\ m[n + 1] \in Specs
    OBVIOUS
  <2> QED
    BY <2>1 DEF Specs
<1>2. new \in Entries
  <2>1. <<>> \in Settings
    <3>1. <<>> \in [{} -> Configs]
      OBVIOUS
    <3> QED
      BY <3>1 DEF Settings
  <2> QED
    BY <1>1, <2>1 DEF Entries
<1>3. CASE at = 0
  <2>1. l2 = Append(l, new)
    BY <1>3
  <2>2. l2 \in Seq(Entries) /\ Len(l2) = Len(l) + 1 /\ l2[Len(l) + 1] = new
        /\ \A h \in 1..Len(l) : l2[h] = l[h]
    BY <1>2, <2>1
  <2>3. \A h \in 1..Len(l) : l[h].name # name
    BY <1>3, FindIs
  <2>4. \A h \in 1..Len(l) : First(l2, h) <=> First(l, h)
    BY <2>2 DEF First
  <2>5. First(l2, Len(l) + 1)
    BY <2>2, <2>3 DEF First
  <2>6. ASSUME NEW h \in 1..Len(l2)
        PROVE  /\ l2[h].model \in 0..n + 1
               /\ l2[h].model # 0 => /\ First(l2, h) /\ m[l2[h].model].name = l2[h].name
                                     /\ \A j \in l2[h].model + 1..n + 1 : m[j].name # l2[h].name
               /\ l2[h].model = 0 /\ First(l2, h) => \A j \in 1..n + 1 : m[j].name # l2[h].name
    <3>1. CASE h \in 1..Len(l)
      <4>1. l2[h] = l[h] /\ l[h].model \in 0..n /\ l[h].name # name
        BY <2>2, <2>3, <3>1 DEF LinkedTo
      <4>2. \A j \in 1..n + 1 : j \in 1..n \/ j = n + 1
        OBVIOUS
      <4>3. \A j \in l[h].model + 1..n + 1 : j \in l[h].model + 1..n \/ j = n + 1
        BY <4>1
      <4>4. /\ l[h].model # 0 => /\ First(l, h) /\ m[l[h].model].name = l[h].name
                                 /\ \A j \in l[h].model + 1..n : m[j].name # l[h].name
            /\ l[h].model = 0 /\ First(l, h) => \A j \in 1..n : m[j].name # l[h].name
        BY <3>1 DEF LinkedTo
      <4>5. First(l2, h) <=> First(l, h)
        BY <2>4, <3>1
      <4>6. m[n + 1].name = name
        OBVIOUS
      <4> HIDE DEF name, new, at
      <4>7. l2[h].model \in 0..n + 1
        BY <4>1
      <4>8. ASSUME l[h].model # 0, NEW j \in l[h].model + 1..n + 1 PROVE m[j].name # l[h].name
        BY <4>1, <4>3, <4>4, <4>6, <4>8
      <4>9. ASSUME l[h].model = 0, First(l, h), NEW j \in 1..n + 1 PROVE m[j].name # l[h].name
        BY <4>1, <4>2, <4>4, <4>6, <4>9
      <4> QED
        BY <4>1, <4>4, <4>5, <4>7, <4>8, <4>9
    <3>2. CASE h = Len(l) + 1
      BY <2>2, <2>5, <3>2
    <3> QED
      BY <1>1, <2>2, <3>1, <3>2
  <2>7. ASSUME NEW j \in 1..n + 1 PROVE \E h \in 1..Len(l2) : l2[h].name = m[j].name
    <3>1. CASE j \in 1..n
      BY <1>1, <2>2, <3>1 DEF LinkedTo
    <3>2. CASE j = n + 1
      BY <1>1, <2>2, <3>2
    <3> QED
      BY <3>1, <3>2
  <2> QED
    BY <2>2, <2>6, <2>7 DEF LinkedTo
<1>4. CASE at # 0
  <2>1. at \in 1..Len(l) /\ l[at].name = name /\ First(l, at)
    BY <1>4, FindIs
  <2>2. l2 = [l EXCEPT ![at].model = n + 1]
    BY <1>4
  <2>3. [l[at] EXCEPT !.model = n + 1] \in Entries
    <3>1. l[at] \in Entries /\ n + 1 \in Nat
      BY <2>1
    <3> QED
      BY <3>1 DEF Entries
  <2>4. l2 \in Seq(Entries) /\ Len(l2) = Len(l)
    BY <2>1, <2>2, <2>3
  <2>5. /\ \A h \in 1..Len(l) : h # at => l2[h] = l[h]
        /\ l2[at].model = n + 1 /\ l2[at].name = name
    BY <2>1, <2>2, <1>2 DEF Entries
  <2>6. \A h \in 1..Len(l) : l2[h].name = l[h].name
    BY <2>1, <2>5
  <2>7. \A h \in 1..Len(l) : First(l2, h) <=> First(l, h)
    BY <2>6 DEF First
  <2>8. ASSUME NEW h \in 1..Len(l2)
        PROVE  /\ l2[h].model \in 0..n + 1
               /\ l2[h].model # 0 => /\ First(l2, h) /\ m[l2[h].model].name = l2[h].name
                                     /\ \A j \in l2[h].model + 1..n + 1 : m[j].name # l2[h].name
               /\ l2[h].model = 0 /\ First(l2, h) => \A j \in 1..n + 1 : m[j].name # l2[h].name
    <3>1. CASE h # at
      <4>1. l2[h] = l[h] /\ l[h].model \in 0..n
        BY <2>4, <2>5, <3>1 DEF LinkedTo
      <4>2. First(l, h) => l[h].name # name
        BY <2>1, <2>4, <3>1, OneFirst
      <4>3. \A j \in 1..n + 1 : j \in 1..n \/ j = n + 1
        OBVIOUS
      <4>4. \A j \in l[h].model + 1..n + 1 : j \in l[h].model + 1..n \/ j = n + 1
        BY <4>1
      <4>5. /\ l[h].model # 0 => /\ First(l, h) /\ m[l[h].model].name = l[h].name
                                 /\ \A j \in l[h].model + 1..n : m[j].name # l[h].name
            /\ l[h].model = 0 /\ First(l, h) => \A j \in 1..n : m[j].name # l[h].name
        BY <2>4 DEF LinkedTo
      <4>6. First(l2, h) <=> First(l, h)
        BY <2>4, <2>7
      <4>7. m[n + 1].name = name
        OBVIOUS
      <4> HIDE DEF name, new, at
      <4>8. l2[h].model \in 0..n + 1
        BY <4>1
      <4>9. ASSUME l[h].model # 0, NEW j \in l[h].model + 1..n + 1 PROVE m[j].name # l[h].name
        BY <4>1, <4>2, <4>4, <4>5, <4>7, <4>9
      <4>10. ASSUME l[h].model = 0, First(l, h), NEW j \in 1..n + 1 PROVE m[j].name # l[h].name
        BY <4>1, <4>2, <4>3, <4>5, <4>7, <4>10
      <4> QED
        BY <4>1, <4>5, <4>6, <4>8, <4>9, <4>10
    <3>2. CASE h = at
      <4>1. l2[h].model = n + 1 /\ l2[h].name = name /\ First(l2, h) /\ m[n + 1].name = name
        BY <2>1, <2>4, <2>5, <2>7, <3>2
      <4>2. n + 1 # 0 /\ n + 1 \in 0..n + 1 /\ (n + 1) + 1..n + 1 = {}
        OBVIOUS
      <4> HIDE DEF name, new, at
      <4> QED
        BY <4>1, <4>2
    <3> QED
      BY <3>1, <3>2
  <2>9. ASSUME NEW j \in 1..n + 1 PROVE \E h \in 1..Len(l2) : l2[h].name = m[j].name
    <3>1. CASE j \in 1..n
      BY <2>4, <2>6, <3>1 DEF LinkedTo
    <3>2. CASE j = n + 1
      BY <2>1, <2>4, <2>6, <3>2
    <3> QED
      BY <3>1, <3>2
  <2> QED
    BY <2>4, <2>8, <2>9 DEF LinkedTo
<1> QED
  BY <1>3, <1>4

\* Each entry is tied to a service of its own, and a service has an entry unless a
\* later one has its name.
LEMMA OneEntry ==
  ASSUME NEW l \in Seq(Entries), NEW m \in Seq(Specs), LinkedTo(l, m, Len(m))
  PROVE  /\ \A g, h \in 1..Len(l) : l[g].model = l[h].model /\ l[g].model # 0 => g = h
         /\ \A j \in 1..Len(m) :
              (\E h \in 1..Len(l) : l[h].model = j) <=> ~ \E i \in j + 1..Len(m) : m[i].name = m[j].name
         /\ \A h \in 1..Len(l) : l[h].model # 0 => Find(m[l[h].model].name, l) = h
<1>1. ASSUME NEW g \in 1..Len(l), NEW h \in 1..Len(l), l[g].model = l[h].model, l[g].model # 0
      PROVE  g = h
  BY <1>1, OneFirst DEF LinkedTo
<1>2. ASSUME NEW j \in 1..Len(m), NEW h \in 1..Len(l), l[h].model = j
      PROVE  ~ \E i \in j + 1..Len(m) : m[i].name = m[j].name
  BY <1>2 DEF LinkedTo
<1>3. ASSUME NEW j \in 1..Len(m), ~ \E i \in j + 1..Len(m) : m[i].name = m[j].name
      PROVE  \E h \in 1..Len(l) : l[h].model = j
  <2>1. PICK g \in 1..Len(l) : l[g].name = m[j].name
    BY DEF LinkedTo
  <2> DEFINE entry == Find(m[j].name, l)
  <2>a. entry # 0 /\ entry \in 0..Len(l) /\ l[entry].name = m[j].name /\ First(l, entry)
    BY <2>1, FindIs
  <2>2. PICK h \in 1..Len(l) : l[h].name = m[j].name /\ First(l, h)
    <3>1. entry \in 1..Len(l)
      BY <2>a
    <3> QED
      BY <2>a, <3>1
  <2>3. l[h].model # 0 /\ l[h].model \in 1..Len(m)
    BY <2>2 DEF LinkedTo
  <2>4. m[l[h].model].name = m[j].name /\ \A i \in l[h].model + 1..Len(m) : m[i].name # m[j].name
    BY <2>2, <2>3 DEF LinkedTo
  <2>5. ~ (l[h].model < j)
    BY <2>3, <2>4
  <2>6. ~ (l[h].model > j)
    BY <1>3, <2>3, <2>4
  <2> QED
    BY <2>3, <2>5, <2>6
<1>4. ASSUME NEW h \in 1..Len(l), l[h].model # 0 PROVE Find(m[l[h].model].name, l) = h
  BY <1>4, FirstIsFound DEF LinkedTo
<1> QED
  BY <1>1, <1>2, <1>3, <1>4

LEMMA AssemblyStarts ==
  ASSUME AssemblyInit
  PROVE  AssemblyIInv
<1>1. PICK r \in Requests :
        list = [j \in 1..Len(r) |-> [name |-> r[j].name, config |-> r[j].config, model |-> 0]]
  BY DEF AssemblyInit
<1>2. r \in Seq(Wishes) /\ Len(r) \in Nat
  <2>1. r \in Seq(Wishes)
    BY AssemblyAssumption
  <2> QED
    BY <2>1
<1>3. \A j \in 1..Len(r) : [name |-> r[j].name, config |-> r[j].config, model |-> 0] \in Entries
  <2>1. ASSUME NEW j \in 1..Len(r)
        PROVE  [name |-> r[j].name, config |-> r[j].config, model |-> 0] \in Entries
    <3>1. r[j] \in Wishes
      BY <1>2
    <3> QED
      BY <3>1 DEF Wishes, Entries
  <2> QED
    BY <2>1
<1>4. list \in Seq(Entries) /\ Len(list) = Len(r) /\ \A h \in 1..Len(list) : list[h].model = 0
  BY <1>1, <1>2, <1>3
<1>5. model \in Seq(Specs)
  BY AssemblyAssumption DEF AssemblyInit
<1>6. Columns /\ AssemblyTypeOK
  <2>1. copy \in [pc : {"idle", "reading", "copying", "done", "failed"}, at : Nat,
                  services : SUBSET ServiceRows, parts : SUBSET PartRows] /\ copy.pc = "idle"
    BY DEF AssemblyInit
  <2>2. Len(model) \in Nat /\ pos = 1 /\ kind = 1 /\ place = "link" /\ parts = {} /\ services = {}
        /\ updates = 0 /\ faults = 0 /\ raced = FALSE
    BY <1>5 DEF AssemblyInit
  <2>3. Columns
    <3>1. services \subseteq ServiceRows /\ parts \subseteq PartRows /\ raced \in BOOLEAN
      BY <2>2
    <3>2. pos \in Nat /\ kind \in 1..3 /\ updates \in Nat /\ faults \in Nat
      BY <2>2
    <3> QED
      BY <1>4, <1>5, <2>1, <3>1, <3>2 DEF Columns
  <2>4. AssemblyTypeOK
    BY <2>1, <2>2 DEF AssemblyTypeOK
  <2> QED
    BY <2>3, <2>4
<1>7. Tied
  BY <1>4 DEF AssemblyInit, Tied, Linked, LinkedTo
<1>8. Filling /\ Configured /\ StopsForAReason /\ Numbered /\ ReadSoFar
  BY DEF AssemblyInit, Filling, Configured, StopsForAReason, Numbered, ReadSoFar, Stored
<1> QED
  BY <1>6, <1>7, <1>8 DEF AssemblyIInv

\* The parts that StoreServiceSpec stores.
LEMMA NewParts ==
  ASSUME Columns, AssemblyTypeOK, Tied, place = "specs", list[pos].model # 0
  PROVE  LET at == list[pos].model
             names == model[at].parts[Kinds[kind]]
         IN  /\ at \in 1..Len(model) /\ pos \in 1..Len(list) /\ kind \in 1..3 /\ names \subseteq Labels
             /\ \A n \in names : [service |-> at, kind |-> Kinds[kind], name |-> n,
                                  config |-> Given(list[pos], n)] \in PartRows
<1> DEFINE at == list[pos].model
           names == model[at].parts[Kinds[kind]]
<1>1. pos \in 1..Len(list) /\ kind \in 1..3 /\ list[pos] \in Entries /\ Len(model) \in Nat
  BY DEF Columns, AssemblyTypeOK
<1>2. at \in 1..Len(model)
  BY <1>1 DEF Tied, Linked, LinkedTo
<1>3. model[at] \in Specs
  BY <1>2 DEF Columns
<1>4. names \subseteq Labels /\ Kinds[kind] \in Range(Kinds)
  BY <1>1, <1>3, KindsAre DEF Specs
<1>5. \A n \in names : Given(list[pos], n) \in Configs \cup {Blank}
  <2>1. PICK S \in SUBSET Labels : list[pos].config \in [S -> Configs]
    BY <1>1 DEF Entries, Settings
  <2> QED
    BY <2>1 DEF Given
<1> QED
  BY <1>1, <1>2, <1>4, <1>5 DEF PartRows

LEMMA CopiedRows ==
  ASSUME Columns
  PROVE  /\ \A s \in copy.services :
              /\ CopiedService(s) \in ServiceRows /\ CopiedService(s).id = Len(model) + s.id
              /\ CopiedService(s).device = Copied /\ CopiedService(s).of = s.id
              /\ CopiedService(s).name = s.name
         /\ \A p \in copy.parts :
              /\ CopiedPart(p) \in PartRows /\ CopiedPart(p).service = Len(model) + p.service
              /\ CopiedPart(p).kind = p.kind /\ CopiedPart(p).name = p.name /\ CopiedPart(p).config = p.config
<1>1. Len(model) \in Nat /\ copy.services \subseteq ServiceRows /\ copy.parts \subseteq PartRows
  BY DEF Columns
<1>2. ASSUME NEW s \in copy.services
      PROVE  /\ CopiedService(s) \in ServiceRows /\ CopiedService(s).id = Len(model) + s.id
             /\ CopiedService(s).device = Copied /\ CopiedService(s).of = s.id
             /\ CopiedService(s).name = s.name
  <2>1. s \in ServiceRows
    BY <1>1
  <2> QED
    BY <1>1, <2>1 DEF CopiedService, NewId, ServiceRows
<1>3. ASSUME NEW p \in copy.parts
      PROVE  /\ CopiedPart(p) \in PartRows /\ CopiedPart(p).service = Len(model) + p.service
             /\ CopiedPart(p).kind = p.kind /\ CopiedPart(p).name = p.name /\ CopiedPart(p).config = p.config
  <2>1. p \in PartRows
    BY <1>1
  <2> QED
    BY <1>1, <2>1 DEF CopiedPart, NewId, PartRows
<1> QED
  BY <1>2, <1>3

\* UpdatePropertyAccessConfig changes the configuration of parts and nothing else.
LEMMA ConfigUpdated ==
  ASSUME Columns, NEW s, NEW n, NEW c \in Configs, UpdateConfig(s, n, c)
  PROVE  /\ parts' \subseteq PartRows
         /\ \A q \in parts' : \E p \in parts : q.service = p.service /\ q.kind = p.kind /\ q.name = p.name
         /\ \A p \in parts : \E q \in parts' : q.service = p.service /\ q.kind = p.kind /\ q.name = p.name
         /\ UNCHANGED <<store, services, copy, attrs, faults, image>>
         /\ updates' = updates + 1 /\ Changed
<1> DEFINE new(p) == IF p.service = s /\ p.name = n /\ p.kind = "property" THEN [p EXCEPT !.config = c] ELSE p
<1>1. parts' = {new(p) : p \in parts}
  BY DEF UpdateConfig
<1>2. ASSUME NEW p \in parts
      PROVE  new(p) \in PartRows /\ new(p).service = p.service /\ new(p).kind = p.kind /\ new(p).name = p.name
  <2>1. p \in PartRows
    BY DEF Columns
  <2> QED
    BY <2>1 DEF PartRows
<1> HIDE DEF new
<1>3. parts' \subseteq PartRows
  BY <1>1, <1>2
<1>4. \A q \in parts' : \E p \in parts : q.service = p.service /\ q.kind = p.kind /\ q.name = p.name
  BY <1>1, <1>2
<1>5. \A p \in parts : \E q \in parts' : q.service = p.service /\ q.kind = p.kind /\ q.name = p.name
  BY <1>1, <1>2
<1> QED
  BY <1>3, <1>4, <1>5 DEF UpdateConfig

LEMMA ColumnsStep ==
  ASSUME AssemblyIInv, [AssemblyNext]_assemblyVars
  PROVE  Columns'
<1>0. Columns /\ AssemblyTypeOK /\ Tied
  BY DEF AssemblyIInv
<1>1. CASE LinkService
  <2>1. pos - 1 \in Nat /\ pos - 1 < Len(model) /\ LinkedTo(list, model, pos - 1) /\ pos = (pos - 1) + 1
    BY <1>0, <1>1 DEF Columns, AssemblyTypeOK, Tied, Linked, LinkService
  <2>2. list' \in Seq(Entries)
    BY <1>0, <1>1, <2>1, LinkOne DEF Columns, LinkService
  <2> QED
    BY <1>0, <1>1, <2>2 DEF Columns, LinkService, contents, ghosts
<1>2. CASE AddServices
  <2>1. \A j \in 1..Len(model) : [id |-> j, device |-> Source, name |-> model[j].name, of |-> j] \in ServiceRows
    <3>1. \A j \in 1..Len(model) : model[j] \in Specs /\ j \in Nat
      BY <1>0 DEF Columns
    <3> QED
      BY <3>1 DEF Specs, ServiceRows
  <2>2. services' \subseteq ServiceRows
    BY <1>0, <1>2, <2>1 DEF Columns, AddServices
  <2>3. raced' \in BOOLEAN
    BY <1>0, <1>2 DEF Columns, AddServices, Changed
  <2>4. pos' \in Nat /\ faults' \in Nat
    BY <1>0, <1>2 DEF Columns, AddServices, MayFault
  <2> QED
    BY <1>0, <1>2, <2>2, <2>3, <2>4 DEF Columns, AddServices
<1>3. CASE StoreSpec
  <2>1. parts' \subseteq PartRows
    BY <1>0, <1>3, NewParts DEF Columns, StoreSpec, Given
  <2>2. raced' \in BOOLEAN /\ faults' \in Nat
    <3>1. UNCHANGED raced \/ Changed
      BY <1>3 DEF StoreSpec
    <3>2. UNCHANGED faults \/ MayFault
      BY <1>3 DEF StoreSpec
    <3>3. raced' \in BOOLEAN
      BY <1>0, <3>1 DEF Columns, Changed
    <3>4. faults' \in Nat
      BY <1>0, <3>2 DEF Columns, MayFault
    <3> QED
      BY <3>3, <3>4
  <2>3. pos' \in Nat /\ kind' \in 1..3
    <3>1. UNCHANGED <<pos, kind>> \/ Advance
      BY <1>3 DEF StoreSpec
    <3> QED
      BY <1>0, <3>1 DEF Columns, Advance
  <2> QED
    BY <1>0, <1>3, <2>1, <2>2, <2>3 DEF Columns, StoreSpec
<1>4. ASSUME NEW p \in parts, NEW c \in Configs, UpdateConfig(p.service, p.name, c) PROVE Columns'
  <2>1. /\ parts' \subseteq PartRows /\ updates' = updates + 1 /\ Changed
        /\ UNCHANGED <<store, services, copy, attrs, faults, image>>
    BY <1>0, <1>4, ConfigUpdated
  <2>2. raced' \in BOOLEAN
    BY <1>0, <2>1 DEF Columns, Changed
  <2> QED
    BY <1>0, <2>1, <2>2 DEF Columns, store
<1>5. CASE ReadServices
  BY <1>0, <1>5 DEF Columns, ReadServices, contents, store
<1>6. CASE Preload
  <2>1. copy' \in [pc : {"idle", "reading", "copying", "done", "failed"}, at : Nat,
                   services : SUBSET ServiceRows, parts : SUBSET PartRows]
    <3>1. copy.at + 1 \in Nat /\ (copy.parts \cup {p \in parts : p.kind = Kinds[copy.at] /\
            \E s \in copy.services : s.id = p.service}) \subseteq PartRows
      BY <1>0 DEF Columns
    <3> QED
      BY <1>0, <1>6, <3>1 DEF Columns, Preload
  <2> QED
    BY <1>0, <1>6, <2>1 DEF Columns, Preload, contents, store
<1>7. CASE CopyDeviceInstance
  <2>1. services' \subseteq ServiceRows /\ parts' \subseteq PartRows
    BY <1>0, <1>7, CopiedRows DEF Columns, CopyDeviceInstance, contents
  <2>2. faults' \in Nat
    BY <1>0, <1>7 DEF Columns, CopyDeviceInstance, MayFault
  <2>3. copy' \in [pc : {"idle", "reading", "copying", "done", "failed"}, at : Nat,
                   services : SUBSET ServiceRows, parts : SUBSET PartRows]
    BY <1>0, <1>7 DEF Columns, CopyDeviceInstance
  <2> QED
    BY <1>0, <1>7, <2>1, <2>2, <2>3 DEF Columns, CopyDeviceInstance, store, ghosts
<1>8. CASE ProcessEnds
  BY <1>0, <1>8 DEF Columns, ProcessEnds, contents, ghosts, MayFault
<1>9. CASE UNCHANGED assemblyVars
  BY <1>0, <1>9 DEF Columns, assemblyVars
<1> QED
  BY <1>1, <1>2, <1>3, <1>4, <1>5, <1>6, <1>7, <1>8, <1>9 DEF AssemblyNext

LEMMA TiedStep ==
  ASSUME AssemblyIInv, [AssemblyNext]_assemblyVars
  PROVE  Tied'
<1>0. Columns /\ AssemblyTypeOK /\ Tied
  BY DEF AssemblyIInv
<1>1. CASE LinkService
  <2>1. pos - 1 \in Nat /\ pos - 1 < Len(model) /\ LinkedTo(list, model, pos - 1) /\ pos = (pos - 1) + 1
    BY <1>0, <1>1 DEF Columns, AssemblyTypeOK, Tied, Linked, LinkService
  <2>2. LinkedTo(list', model, (pos - 1) + 1)
    BY <1>0, <1>1, <2>1, LinkOne DEF Columns, LinkService
  <2>3. model' = model /\ place' = "link" /\ pos' - 1 = (pos - 1) + 1
    BY <1>0, <1>1 DEF Columns, LinkService
  <2> QED
    BY <2>2, <2>3 DEF Tied, Linked
<1>2. CASE AddServices
  <2>1. place = "link" /\ pos - 1 = Len(model) /\ model' = model /\ list' = list
    BY <1>0, <1>2 DEF Columns, AssemblyTypeOK, AddServices
  <2>2. place' \in {"specs", "failed"}
    BY <1>2 DEF AddServices
  <2> QED
    BY <1>0, <2>1, <2>2 DEF Tied, Linked
<1>3. CASE UNCHANGED <<model, list>> /\ place \in {"specs", "done", "panicked"}
           /\ place' \in {"specs", "done", "panicked", "failed"}
  BY <1>0, <1>3 DEF Tied, Linked
<1>4. CASE UNCHANGED <<model, list, place, pos>>
  BY <1>0, <1>4 DEF Tied, Linked
<1>5. CASE place' = "failed"
  BY <1>5 DEF Tied
<1>6. StoreSpec => UNCHANGED <<model, list>> /\ place = "specs" /\ place' \in {"specs", "done", "panicked", "failed"}
  BY DEF StoreSpec, Advance
<1>7. (\E p \in parts, c \in Configs : UpdateConfig(p.service, p.name, c)) \/ ReadServices \/ Preload \/ CopyDeviceInstance
      \/ UNCHANGED assemblyVars => UNCHANGED <<model, list, place, pos>>
  BY DEF UpdateConfig, ReadServices, Preload, CopyDeviceInstance, assemblyVars, store
<1>8. ProcessEnds => place' = "failed" \/ UNCHANGED <<model, list, place, pos>>
  BY DEF ProcessEnds
<1> QED
  BY <1>1, <1>2, <1>3, <1>4, <1>5, <1>6, <1>7, <1>8 DEF AssemblyNext

LEMMA NumberedStep ==
  ASSUME AssemblyIInv, [AssemblyNext]_assemblyVars
  PROVE  Numbered'
<1>0. Columns /\ AssemblyTypeOK /\ Tied /\ Numbered /\ ReadSoFar /\ Len(model) \in Nat
  BY DEF AssemblyIInv, Columns
<1>1. CASE AddServices
  <2> DEFINE row(j) == [id |-> j, device |-> Source, name |-> model[j].name, of |-> j]
  <2>1. services = {} /\ parts = {} /\ UNCHANGED <<model, copy, parts>>
    BY <1>0, <1>1 DEF Numbered, AddServices
  <2>2. CASE services' = services \cup {row(j) : j \in 1..Len(model)} /\ place' = "specs"
    <3>1. services' = {row(j) : j \in 1..Len(model)}
      BY <2>1, <2>2
    <3>2. \A s \in services' : s.device = Source /\ s.id \in 1..Len(model) /\ s.of = s.id
      BY <3>1
    <3>3. ASSUME NEW j \in 1..Len(model) PROVE \E s \in services' : s.id = j
      <4>1. row(j) \in services' /\ row(j).id = j
        BY <3>1
      <4> QED
        BY <4>1
    <3> QED
      BY <2>1, <2>2, <3>2, <3>3 DEF Numbered, Stored
  <2>3. CASE services' = services /\ place' = "failed"
    BY <1>0, <2>1, <2>3 DEF Numbered, Stored
  <2> QED
    BY <1>1, <2>2, <2>3 DEF AddServices
<1>2. CASE StoreSpec
  <2>1. UNCHANGED <<services, model, copy>> /\ place = "specs"
        /\ place' \in {"specs", "done", "panicked", "failed"}
    BY <1>2 DEF StoreSpec, Advance
  <2>2. \A p \in parts' : \E s \in services : s.id = p.service
    <3>1. CASE parts' = parts
      BY <1>0, <3>1 DEF Numbered
    <3>2. CASE list[pos].model # 0
      <4> DEFINE at == list[pos].model
      <4>1. at \in 1..Len(model)
        BY <1>0, <2>1, <3>2, NewParts
      <4>2. \A p \in parts' : p \in parts \/ p.service = at
        BY <1>2 DEF StoreSpec
      <4>3. \E s \in services : s.id = at
        BY <1>0, <2>1, <4>1 DEF Numbered
      <4> QED
        BY <1>0, <4>2, <4>3 DEF Numbered
    <3> QED
      BY <1>2, <3>1, <3>2 DEF StoreSpec
  <2> QED
    BY <1>0, <2>1, <2>2 DEF Numbered, Stored
<1>3. ASSUME NEW p \in parts, NEW c \in Configs, UpdateConfig(p.service, p.name, c) PROVE Numbered'
  <2>1. /\ \A q \in parts' : \E r \in parts : q.service = r.service
        /\ UNCHANGED <<store, services, copy>>
    BY <1>0, <1>3, ConfigUpdated
  <2> QED
    BY <1>0, <2>1 DEF Numbered, Stored, store
<1>4. CASE ReadServices \/ Preload
  <2>1. UNCHANGED <<contents, store>> /\ copy.pc # "done"
    BY <1>4 DEF ReadServices, Preload, Reading
  <2> QED
    BY <1>0, <2>1 DEF Numbered, Stored, contents, store
<1>5. CASE CopyDeviceInstance
  <2>0. copy.pc = "copying" /\ UNCHANGED <<model, place, kind>>
    BY <1>5 DEF CopyDeviceInstance, store
  <2>1. CASE UNCHANGED contents
    BY <1>0, <2>0, <2>1 DEF Numbered, Stored, contents
  <2>2. CASE /\ services' = services \cup {CopiedService(s) : s \in copy.services}
             /\ parts' = parts \cup {CopiedPart(p) : p \in copy.parts} /\ copy' = [copy EXCEPT !.pc = "done"]
    <3>1. copy'.pc = "done"
      BY <1>0, <2>2 DEF Columns
    <3>2. copy.services \subseteq Stored /\ \A s \in copy.services : s.id \in 1..Len(model) /\ s \in services
      BY <1>0 DEF ReadSoFar, Numbered, Stored
    <3>3. \A s \in copy.services : CopiedService(s).device = Copied /\ CopiedService(s).id > Len(model)
      BY <1>0, <3>2, CopiedRows
    <3>4. Source # Copied
      BY AssemblyAssumption
    <3>5. \A s \in services' \ Stored' : s.id > Len(model)
      BY <1>0, <2>2, <3>3 DEF Numbered, Stored
    <3>6. \A s \in Stored' : s \in Stored
      BY <2>2, <3>3, <3>4 DEF Stored
    <3>7. \A p \in copy.parts : \E s \in copy.services : CopiedPart(p).service = CopiedService(s).id
      BY <1>0, CopiedRows DEF ReadSoFar
    <3>8. \A p \in parts' : \E s \in services' : s.id = p.service
      BY <1>0, <2>2, <3>7 DEF Numbered
    <3>9. copy.services = {} => services' = services
      BY <2>2
    <3>10. place = "link" => copy.services = {}
      BY <1>0, <3>2 DEF Numbered
    <3> QED
      BY <1>0, <2>0, <2>2, <3>1, <3>5, <3>6, <3>8, <3>9, <3>10 DEF Numbered
  <2> QED
    BY <1>5, <2>1, <2>2 DEF CopyDeviceInstance
<1>6. CASE UNCHANGED <<model, contents, kind>> /\ (copy.pc = "done" => copy'.pc = "done")
           /\ (place' = place \/ place' = "failed" \/ place' = "link")
           /\ (place' = "link" => place = "link")
  BY <1>0, <1>6 DEF Numbered, Stored, contents
<1>7. ProcessEnds => UNCHANGED <<model, contents, kind>> /\ (copy.pc = "done" => copy'.pc = "done")
           /\ (place' = place \/ place' = "failed" \/ place' = "link")
           /\ (place' = "link" => place = "link")
  BY <1>0 DEF Columns, ProcessEnds
<1>8. LinkService \/ UNCHANGED assemblyVars =>
           UNCHANGED <<model, contents, kind>> /\ (copy.pc = "done" => copy'.pc = "done")
           /\ (place' = place \/ place' = "failed" \/ place' = "link")
           /\ (place' = "link" => place = "link")
  BY DEF LinkService, assemblyVars, contents
<1> QED
  BY <1>1, <1>2, <1>3, <1>4, <1>5, <1>6, <1>7, <1>8 DEF AssemblyNext

LEMMA AssemblyTypesStep ==
  ASSUME AssemblyIInv, [AssemblyNext]_assemblyVars, Numbered', Columns'
  PROVE  AssemblyTypeOK'
<1>0. Columns /\ AssemblyTypeOK /\ Tied /\ Len(model) \in Nat /\ Len(list) \in Nat
  BY DEF AssemblyIInv, Columns
<1>1. /\ copy'.pc \in {"idle", "reading", "copying", "done", "failed"}
      /\ \A p \in parts' : p.kind \in Range(Kinds) /\ \E s \in services' : s.id = p.service
  BY DEF Columns, Numbered, PartRows
<1>2. /\ place' \in {"link", "specs", "done", "failed", "panicked"}
      /\ place' = "link" => pos' \in 1..Len(model') + 1
      /\ place' = "specs" => pos' \in 1..Len(list') /\ kind' \in 1..3
  <2>1. CASE LinkService
    BY <1>0, <2>1 DEF LinkService, AssemblyTypeOK
  <2>2. CASE AddServices
    <3>1. model # <<>> => 1 \in 1..Len(list)
      <4>1. place = "link" /\ pos - 1 = Len(model)
        BY <1>0, <2>2 DEF AddServices, AssemblyTypeOK, Columns
      <4>2. LinkedTo(list, model, Len(model))
        BY <1>0, <4>1 DEF Tied, Linked
      <4>3. model # <<>> => 1 \in 1..Len(model)
        BY <1>0 DEF Columns
      <4>4. 1 \in 1..Len(model) => \E h \in 1..Len(list) : TRUE
        BY <4>2 DEF LinkedTo
      <4> QED
        BY <1>0, <4>3, <4>4
    <3>2. kind' = kind /\ kind \in 1..3 /\ list' = list
      BY <1>0, <2>2 DEF Columns, AddServices
    <3> QED
      BY <2>2, <3>1, <3>2 DEF AddServices
  <2>3. CASE StoreSpec
    <3>1. place = "specs" /\ list' = list /\ pos \in 1..Len(list) /\ kind \in 1..3
      BY <1>0, <2>3 DEF StoreSpec, AssemblyTypeOK
    <3>2. CASE place' \in {"panicked", "failed"}
      BY <3>2
    <3>3. CASE Advance
      BY <1>0, <3>1, <3>3 DEF Advance
    <3> QED
      BY <2>3, <3>2, <3>3 DEF StoreSpec
  <2>4. CASE UNCHANGED <<model, list, pos, kind>> /\ (place' = place \/ place' = "failed")
    BY <1>0, <2>4 DEF AssemblyTypeOK
  <2>5. ProcessEnds => UNCHANGED <<model, list, pos, kind>> /\ (place' = place \/ place' = "failed")
    BY DEF ProcessEnds
  <2>6. (\E p \in parts, c \in Configs : UpdateConfig(p.service, p.name, c)) \/ ReadServices \/ Preload \/ CopyDeviceInstance
        \/ UNCHANGED assemblyVars => UNCHANGED <<model, list, pos, kind>> /\ place' = place
    BY DEF UpdateConfig, ReadServices, Preload, CopyDeviceInstance, assemblyVars, store
  <2> QED
    BY <2>1, <2>2, <2>3, <2>4, <2>5, <2>6 DEF AssemblyNext
<1> QED
  BY <1>1, <1>2 DEF AssemblyTypeOK

LEMMA StopsStep ==
  ASSUME AssemblyIInv, [AssemblyNext]_assemblyVars
  PROVE  StopsForAReason'
<1>0. Columns /\ AssemblyTypeOK /\ Tied /\ StopsForAReason /\ faults \in Nat
  BY DEF AssemblyIInv, Columns
<1>1. UNCHANGED model /\ (faults' = faults \/ faults' = faults + 1)
  BY DEF AssemblyNext, LinkService, AddServices, StoreSpec, UpdateConfig, ReadServices, Preload,
         CopyDeviceInstance, ProcessEnds, assemblyVars, store, MayFault
<1>2. place' = "failed" => faults' > 0 \/ model' = <<>>
  <2>1. CASE place = "failed"
    BY <1>0, <1>1, <2>1 DEF StopsForAReason
  <2>2. CASE place # "failed" /\ place' = "failed"
    <3>1. MayFault \/ model = <<>>
      BY <2>2 DEF AssemblyNext, LinkService, AddServices, StoreSpec, Advance, UpdateConfig, ReadServices, Preload,
                  CopyDeviceInstance, ProcessEnds, assemblyVars, store
    <3> QED
      BY <1>0, <1>1, <3>1 DEF MayFault
  <2> QED
    BY <2>1, <2>2
<1>3. ASSUME place' = "panicked"
      PROVE  \/ \A j \in 1..Len(model') : model'[j].name # list'[pos'].name
             \/ Find(list'[pos'].name, list') < pos'
  <2>1. CASE place = "panicked"
    <3>1. UNCHANGED <<list, pos>>
      BY <2>1 DEF AssemblyNext, LinkService, AddServices, StoreSpec, UpdateConfig, ReadServices, Preload,
                  CopyDeviceInstance, ProcessEnds, assemblyVars, store
    <3> QED
      BY <1>0, <1>1, <2>1, <3>1 DEF StopsForAReason
  <2>2. CASE place # "panicked"
    <3>1. StoreSpec /\ list[pos].model = 0 /\ UNCHANGED <<list, pos>> /\ place = "specs"
      BY <1>3, <2>2 DEF AssemblyNext, LinkService, AddServices, StoreSpec, Advance, UpdateConfig, ReadServices, Preload,
                  CopyDeviceInstance, ProcessEnds, assemblyVars, store
    <3>2. pos \in 1..Len(list) /\ list \in Seq(Entries)
      BY <1>0, <3>1 DEF AssemblyTypeOK, Columns
    <3>3. CASE First(list, pos)
      <4>1. \A j \in 1..Len(model) : model[j].name # list[pos].name
        BY <1>0, <3>1, <3>2, <3>3 DEF Tied, Linked, LinkedTo
      <4> QED
        BY <1>1, <3>1, <4>1
    <3>4. CASE ~ First(list, pos)
      <4>1. Find(list[pos].name, list) \in 1..pos /\ Find(list[pos].name, list) # pos
        BY <3>2, <3>4, FirstIsFound
      <4>2. Find(list[pos].name, list) < pos
        BY <3>2, <4>1
      <4> QED
        BY <3>1, <4>2
    <3> QED
      BY <3>3, <3>4
  <2> QED
    BY <2>1, <2>2
<1> QED
  BY <1>2, <1>3 DEF StopsForAReason

\* The parts of entry h and kind c, once StoreServiceSpec has stored them.
LEMMA PassedNext ==
  ASSUME Columns, AssemblyTypeOK, place = "specs", Advance, UNCHANGED list,
         NEW h \in 1..Len(list), NEW c \in 1..3
  PROVE  Passed(h, c)' <=> Passed(h, c) \/ (h = pos /\ c = kind)
<1>1. pos \in 1..Len(list) /\ kind \in 1..3 /\ Len(list) \in Nat
  BY DEF Columns, AssemblyTypeOK
<1>2. CASE kind < 3
  BY <1>1, <1>2 DEF Advance, Passed
<1>3. CASE kind = 3 /\ pos = Len(list)
  BY <1>1, <1>3 DEF Advance, Passed
<1>4. CASE kind = 3 /\ pos # Len(list)
  <2>1. kind' = 1 /\ pos' = pos + 1 /\ place' = "specs"
    BY <1>4 DEF Advance
  <2> QED
    BY <1>1, <1>4, <2>1 DEF Passed
<1> QED
  BY <1>1, <1>2, <1>3, <1>4

LEMMA FillingStep ==
  ASSUME AssemblyIInv, [AssemblyNext]_assemblyVars
  PROVE  Filling'
<1>0. Columns /\ AssemblyTypeOK /\ Tied /\ Filling /\ Numbered /\ ReadSoFar
      /\ Len(model) \in Nat /\ Len(list) \in Nat
  BY DEF AssemblyIInv, Columns
<1>1. CASE AddServices
  <2>1. parts' = {} /\ place' # "done" /\ (place' = "specs" => pos' = 1 /\ kind' = 1)
    BY <1>0, <1>1 DEF AddServices, Numbered
  <2>2. \A j, kd : NamesOf(j, kd)' = {}
    BY <2>1 DEF NamesOf
  <2>3. place' = "specs" => \A h \in 1..Len(list'), c \in 1..3 : ~ Passed(h, c)'
    BY <2>1 DEF Passed
  <2> QED
    BY <2>1, <2>2, <2>3 DEF Filling
<1>2. CASE StoreSpec
  <2>0. place = "specs" /\ UNCHANGED <<model, list>>
    BY <1>2 DEF StoreSpec
  <2>1. CASE place' \in {"panicked", "failed"}
    BY <2>1 DEF Filling
  <2>2. CASE place' \notin {"panicked", "failed"}
    <3> DEFINE at == list[pos].model
               names == model[at].parts[Kinds[kind]]
               new == {[service |-> at, kind |-> Kinds[kind], name |-> n, config |-> Given(list[pos], n)] : n \in names}
    <3>1. at # 0 /\ parts' = parts \cup new /\ Advance
      BY <1>2, <2>2 DEF StoreSpec, Given
    <3>2. at \in 1..Len(model) /\ pos \in 1..Len(list) /\ kind \in 1..3
      BY <1>0, <2>0, <3>1, NewParts
    <3>3. ASSUME NEW j \in 1..Len(model), NEW c \in 1..3
          PROVE  NamesOf(j, Kinds[c])' = IF \E h \in 1..Len(list') : list'[h].model = j /\ Passed(h, c)'
                                         THEN model'[j].parts[Kinds[c]] ELSE {}
      <4>1. NamesOf(j, Kinds[c]) = IF \E h \in 1..Len(list) : list[h].model = j /\ Passed(h, c)
                                   THEN model[j].parts[Kinds[c]] ELSE {}
        BY <1>0, <2>0 DEF Filling
      <4>2. \A h \in 1..Len(list) : Passed(h, c)' <=> Passed(h, c) \/ (h = pos /\ c = kind)
        BY <1>0, <2>0, <3>1, PassedNext
      <4>3. CASE j = at /\ c = kind
        <5>1. \A p \in new : p.service = j /\ p.kind = Kinds[c] /\ p.name \in names
          BY <4>3
        <5>2. ASSUME NEW n \in names PROVE \E p \in new : p.service = j /\ p.kind = Kinds[c] /\ p.name = n
          <6> DEFINE p == [service |-> at, kind |-> Kinds[kind], name |-> n, config |-> Given(list[pos], n)]
          <6>1. p \in new /\ p.service = j /\ p.kind = Kinds[c] /\ p.name = n
            BY <4>3
          <6> QED
            BY <6>1
        <5>3. NamesOf(j, Kinds[c])' = NamesOf(j, Kinds[c]) \cup names
          <6> HIDE DEF new, names, at
          <6> QED
            BY <3>1, <5>1, <5>2 DEF NamesOf
        <5>4. NamesOf(j, Kinds[c])' = names
          BY <4>1, <4>3, <5>3
        <5> QED
          BY <2>0, <3>2, <4>2, <4>3, <5>4
      <4>4. CASE ~ (j = at /\ c = kind)
        <5>1. \A p \in new : ~ (p.service = j /\ p.kind = Kinds[c])
          <6>1. c # kind => Kinds[c] # Kinds[kind]
            BY <3>2, KindsAre
          <6> QED
            BY <4>4, <6>1
        <5>2. NamesOf(j, Kinds[c])' = NamesOf(j, Kinds[c])
          <6> HIDE DEF new
          <6> QED
            BY <3>1, <5>1 DEF NamesOf
        <5>3. (\E h \in 1..Len(list) : list[h].model = j /\ Passed(h, c)')
                <=> \E h \in 1..Len(list) : list[h].model = j /\ Passed(h, c)
          BY <4>2, <4>4
        <5> QED
          BY <2>0, <4>1, <5>2, <5>3
      <4> QED
        BY <4>3, <4>4
    <3> QED
      BY <2>0, <3>3 DEF Filling
  <2> QED
    BY <2>1, <2>2
<1>3. ASSUME UNCHANGED <<model, list, place, pos, kind>>, \A j \in 1..Len(model), kd \in Range(Kinds) :
                                                             NamesOf(j, kd)' = NamesOf(j, kd)
      PROVE  Filling'
  <2>1. \A h, c : Passed(h, c)' <=> Passed(h, c)
    BY <1>3 DEF Passed
  <2> QED
    BY <1>0, <1>3, <2>1, KindsAre DEF Filling
<1>4. ASSUME NEW p \in parts, NEW c \in Configs, UpdateConfig(p.service, p.name, c) PROVE Filling'
  <2>1. /\ \A q \in parts' : \E r \in parts : q.service = r.service /\ q.kind = r.kind /\ q.name = r.name
        /\ \A r \in parts : \E q \in parts' : q.service = r.service /\ q.kind = r.kind /\ q.name = r.name
        /\ UNCHANGED store
    BY <1>0, <1>4, ConfigUpdated
  <2>2. \A j, kd : NamesOf(j, kd)' = NamesOf(j, kd)
    BY <2>1 DEF NamesOf
  <2> QED
    BY <1>3, <2>1, <2>2 DEF store
<1>5. CASE CopyDeviceInstance
  <2>1. UNCHANGED store
    BY <1>5 DEF CopyDeviceInstance
  <2>2. CASE parts' = parts
    BY <1>3, <2>1, <2>2 DEF store, NamesOf
  <2>3. CASE parts' = parts \cup {CopiedPart(p) : p \in copy.parts}
    <3>1. \A p \in copy.parts : CopiedPart(p).service \notin 1..Len(model)
      <4>1. \A p \in copy.parts : p.service \in 1..Len(model)
        BY <1>0 DEF ReadSoFar, Numbered, Stored
      <4> QED
        BY <1>0, <4>1, CopiedRows
    <3>2. \A j \in 1..Len(model), kd \in Range(Kinds) : NamesOf(j, kd)' = NamesOf(j, kd)
      BY <2>3, <3>1 DEF NamesOf
    <3> QED
      BY <1>3, <2>1, <3>2 DEF store
  <2> QED
    BY <1>5, <2>2, <2>3 DEF CopyDeviceInstance, contents
<1>6. CASE LinkService
  BY <1>6 DEF LinkService, Filling
<1>7. CASE ProcessEnds
  <2>1. CASE place' = "failed"
    BY <2>1 DEF Filling
  <2>2. CASE place' # "failed"
    BY <1>3, <1>7, <2>2 DEF ProcessEnds, contents, NamesOf
  <2> QED
    BY <2>1, <2>2
<1>8. CASE ReadServices \/ Preload \/ UNCHANGED assemblyVars
  <2>1. UNCHANGED <<store, parts>>
    BY <1>8 DEF ReadServices, Preload, assemblyVars, contents, store
  <2> QED
    BY <1>3, <2>1 DEF store, NamesOf
<1> QED
  BY <1>1, <1>2, <1>4, <1>5, <1>6, <1>7, <1>8 DEF AssemblyNext

LEMMA ConfiguredStep ==
  ASSUME AssemblyIInv, [AssemblyNext]_assemblyVars
  PROVE  Configured'
<1>0. Columns /\ AssemblyTypeOK /\ Tied /\ Configured /\ Numbered /\ ReadSoFar
      /\ Len(model) \in Nat /\ Len(list) \in Nat
  BY DEF AssemblyIInv, Columns
<1>1. CASE AddServices
  <2>1. parts' = {}
    BY <1>0, <1>1 DEF AddServices, Numbered
  <2> QED
    BY <2>1 DEF Configured
<1>2. CASE StoreSpec
  <2>0. place = "specs" /\ UNCHANGED <<model, list, updates>>
    BY <1>2 DEF StoreSpec
  <2>1. CASE place' \in {"panicked", "failed"}
    BY <2>1 DEF Configured
  <2>2. CASE place' \notin {"panicked", "failed"}
    <3> DEFINE at == list[pos].model
               names == model[at].parts[Kinds[kind]]
               new == {[service |-> at, kind |-> Kinds[kind], name |-> n, config |-> Given(list[pos], n)] : n \in names}
    <3>1. at # 0 /\ parts' = parts \cup new
      BY <1>2, <2>2 DEF StoreSpec, Given
    <3>2. pos \in 1..Len(list)
      BY <1>0, <2>0, <3>1, NewParts
    <3>3. \A p \in new : p.service = at /\ p.config = Given(list[pos], p.name)
      OBVIOUS
    <3> HIDE DEF new
    <3> QED
      BY <1>0, <2>0, <3>1, <3>2, <3>3 DEF Configured, Given
  <2> QED
    BY <2>1, <2>2
<1>3. CASE \E p \in parts, c \in Configs : UpdateConfig(p.service, p.name, c)
  <2>1. updates' = updates + 1 /\ updates \in Nat
    BY <1>0, <1>3 DEF UpdateConfig, Columns
  <2> QED
    BY <2>1 DEF Configured
<1>4. CASE CopyDeviceInstance
  <2>1. UNCHANGED store /\ UNCHANGED updates
    BY <1>4 DEF CopyDeviceInstance
  <2>2. \A p \in copy.parts : CopiedPart(p).service \notin 1..Len(model)
    <3>1. \A p \in copy.parts : p.service \in 1..Len(model)
      BY <1>0 DEF ReadSoFar, Numbered, Stored
    <3> QED
      BY <1>0, <3>1, CopiedRows
  <2>3. parts' = parts \/ parts' = parts \cup {CopiedPart(p) : p \in copy.parts}
    BY <1>4 DEF CopyDeviceInstance, contents
  <2> QED
    BY <1>0, <2>1, <2>2, <2>3 DEF Configured, store, Given
<1>5. CASE LinkService
  BY <1>5 DEF LinkService, Configured
<1>6. CASE UNCHANGED <<model, list, parts, updates>> /\ (place' = place \/ place' = "failed")
  BY <1>0, <1>6 DEF Configured, Given
<1>7. ReadServices \/ Preload \/ ProcessEnds \/ UNCHANGED assemblyVars
        => UNCHANGED <<model, list, parts, updates>> /\ (place' = place \/ place' = "failed")
  BY DEF ReadServices, Preload, ProcessEnds, assemblyVars, contents, store
<1> QED
  BY <1>1, <1>2, <1>3, <1>4, <1>5, <1>6, <1>7 DEF AssemblyNext

LEMMA ReadSoFarStep ==
  ASSUME AssemblyIInv, [AssemblyNext]_assemblyVars
  PROVE  ReadSoFar'
<1>0. Columns /\ AssemblyTypeOK /\ Tied /\ Numbered /\ ReadSoFar
  BY DEF AssemblyIInv
<1>1. ASSUME UNCHANGED <<copy, attrs, image>>, services \subseteq services',
             Changed \/ UNCHANGED <<services, parts, raced>>
      PROVE  ReadSoFar'
  <2>1. Stored \subseteq Stored'
    BY <1>1 DEF Stored
  <2>2. /\ copy.services \subseteq Stored'
        /\ \A p \in copy.parts : \E s \in copy.services : s.id = p.service
        /\ copy.pc # "done" => DOMAIN attrs = {Source}
        /\ copy.pc = "reading" => copy.at \in 1..3
    BY <1>0, <2>1 DEF ReadSoFar
  <2>3. ~ raced' => ~ raced
    BY <1>1 DEF Changed
  <2>4. copy.pc = "reading" /\ ~ raced' => UNCHANGED <<services, parts>>
    BY <1>1 DEF Changed, Reading
  <2>5. copy.pc = "copying" /\ ~ raced' => image = Tree(Source, copy.services, copy.parts)
    BY <1>0, <2>3 DEF ReadSoFar
  <2>6. copy.pc = "reading" /\ ~ raced' =>
          /\ copy.services = Stored
          /\ copy.parts = {p \in parts : /\ \E c \in 1..copy.at - 1 : p.kind = Kinds[c]
                                         /\ \E s \in Stored : s.id = p.service}
    BY <1>0, <2>3 DEF ReadSoFar
  <2>7. copy.pc = "reading" /\ ~ raced' => Stored' = Stored /\ parts' = parts
    BY <2>4 DEF Stored
  <2>8. copy.pc = "reading" /\ ~ raced' =>
          /\ copy.services = Stored'
          /\ copy.parts = {p \in parts' : /\ \E c \in 1..copy.at - 1 : p.kind = Kinds[c]
                                          /\ \E s \in Stored' : s.id = p.service}
    BY <2>6, <2>7
  <2>9. copy' = copy /\ attrs' = attrs /\ image' = image
    BY <1>1
  <2>10. Tree(Source, copy.services, copy.parts)' = Tree(Source, copy.services, copy.parts)
    BY <2>9 DEF Tree
  <2> QED
    BY <2>2, <2>5, <2>8, <2>9, <2>10 DEF ReadSoFar
<1>2. CASE AddServices
  BY <1>1, <1>2 DEF AddServices
<1>3. CASE StoreSpec
  <2>1. UNCHANGED <<services, copy, attrs, image>>
    BY <1>3 DEF StoreSpec
  <2>2. Changed \/ UNCHANGED <<parts, raced>>
    BY <1>3 DEF StoreSpec
  <2> QED
    BY <1>1, <2>1, <2>2
<1>4. CASE \E p \in parts, c \in Configs : UpdateConfig(p.service, p.name, c)
  BY <1>1, <1>4 DEF UpdateConfig
<1>5. CASE LinkService \/ UNCHANGED assemblyVars
  BY <1>1, <1>5 DEF LinkService, assemblyVars, contents, ghosts
<1>6. CASE ReadServices
  <2>1. /\ copy'.pc = "reading" /\ copy'.at = 1 /\ copy'.parts = {} /\ copy'.services = Stored
        /\ copy.pc = "idle" /\ UNCHANGED <<services, parts, attrs>>
    BY <1>6 DEF ReadServices, contents, Stored
  <2>2. Stored' = Stored
    BY <2>1 DEF Stored
  <2>3. DOMAIN attrs' = {Source}
    BY <1>0, <2>1 DEF ReadSoFar
  <2>4. copy'.parts = {p \in parts' : /\ \E c \in 1..copy'.at - 1 : p.kind = Kinds[c]
                                      /\ \E s \in Stored' : s.id = p.service}
    <3>1. 1..copy'.at - 1 = {}
      BY <2>1
    <3> QED
      BY <2>1, <3>1
  <2> QED
    BY <2>1, <2>2, <2>3, <2>4 DEF ReadSoFar
<1>7. CASE Preload
  <2>1. /\ copy.pc = "reading" /\ copy.at \in 1..3 /\ UNCHANGED <<services, parts, attrs, raced>>
        /\ Stored' = Stored /\ DOMAIN attrs = {Source}
    BY <1>0, <1>7 DEF Preload, Reading, contents, ReadSoFar, Stored
  <2> DEFINE got == {p \in parts : p.kind = Kinds[copy.at] /\ \E s \in copy.services : s.id = p.service}
  <2>2. /\ copy'.services = copy.services /\ copy'.at = copy.at + 1
        /\ copy'.parts = copy.parts \cup got
        /\ copy'.pc = IF copy.at = 3 THEN "copying" ELSE "reading"
    BY <1>0, <1>7, <2>1 DEF Preload, Columns
  <2>3. /\ copy'.services \subseteq Stored'
        /\ \A p \in copy'.parts : \E s \in copy'.services : s.id = p.service
        /\ copy'.pc = "reading" => copy'.at \in 1..3
    BY <1>0, <2>1, <2>2 DEF ReadSoFar
  <2>4. ASSUME ~ raced
        PROVE  /\ copy'.services = Stored
               /\ copy'.parts = {p \in parts : /\ \E c \in 1..copy.at : p.kind = Kinds[c]
                                               /\ \E s \in Stored : s.id = p.service}
    <3>1. copy.services = Stored /\ copy.parts = {p \in parts : /\ \E c \in 1..copy.at - 1 : p.kind = Kinds[c]
                                                                /\ \E s \in Stored : s.id = p.service}
      BY <1>0, <2>1, <2>4 DEF ReadSoFar
    <3>2. \A p : (\E c \in 1..copy.at : p.kind = Kinds[c])
                   <=> p.kind = Kinds[copy.at] \/ \E c \in 1..copy.at - 1 : p.kind = Kinds[c]
      <4>1. \A c : c \in 1..copy.at <=> c \in 1..copy.at - 1 \/ c = copy.at
        BY <2>1
      <4> QED
        BY <4>1
    <3> QED
      BY <2>2, <3>1, <3>2
  <2>5. ASSUME ~ raced, copy.at = 3
        PROVE  image' = Tree(Source, copy'.services, copy'.parts)
    <3>1. image' = Tree(Source, services, parts)
      BY <1>7, <2>5 DEF Preload
    <3>2. copy'.services = Stored /\ copy'.parts = {p \in parts : \E s \in Stored : s.id = p.service}
      <4>1. \A p \in parts : \E c \in 1..copy.at : p.kind = Kinds[c]
        BY <1>0, <2>5, KindsAre DEF Columns, PartRows
      <4> QED
        BY <2>4, <2>5, <4>1
    <3>3. {t \in services : t.device = Source} = {t \in copy'.services : t.device = Source}
      BY <3>2 DEF Stored
    <3>4. \A s \in {t \in services : t.device = Source} :
            {q \in parts : q.service = s.id} = {q \in copy'.parts : q.service = s.id}
      BY <3>2 DEF Stored
    <3> QED
      BY <3>1, <3>3, <3>4 DEF Tree
  <2>6. ASSUME ~ raced, copy'.pc = "reading"
        PROVE  copy'.parts = {p \in parts' : /\ \E c \in 1..copy'.at - 1 : p.kind = Kinds[c]
                                             /\ \E s \in Stored' : s.id = p.service}
    <3>1. copy'.at - 1 = copy.at
      BY <2>1, <2>2
    <3> QED
      BY <2>1, <2>4, <2>6, <3>1
  <2> QED
    BY <2>1, <2>2, <2>3, <2>4, <2>5, <2>6 DEF ReadSoFar, Tree
<1>8. CASE CopyDeviceInstance
  <2>1. /\ copy'.services = copy.services /\ copy'.parts = copy.parts /\ copy.pc = "copying"
        /\ copy'.pc \in {"done", "failed"}
    BY <1>0, <1>8 DEF CopyDeviceInstance, Columns
  <2>2. Stored \subseteq Stored'
    BY <1>8 DEF CopyDeviceInstance, Stored, contents
  <2>3. copy'.pc = "failed" => attrs' = attrs
    BY <1>0, <1>8 DEF CopyDeviceInstance, Columns
  <2> QED
    BY <1>0, <2>1, <2>2, <2>3 DEF ReadSoFar
<1>9. CASE ProcessEnds
  <2>1. CASE copy' = copy
    BY <1>1, <1>9, <2>1 DEF ProcessEnds, contents, ghosts
  <2>2. CASE copy' # copy
    <3>1. /\ copy'.services = copy.services /\ copy'.parts = copy.parts /\ copy'.pc = "failed"
          /\ UNCHANGED <<services, attrs>> /\ copy.pc # "done"
      BY <1>0, <1>9, <2>2 DEF ProcessEnds, contents, Columns
    <3> QED
      BY <1>0, <3>1 DEF ReadSoFar, Stored
  <2> QED
    BY <2>1, <2>2
<1> QED
  BY <1>2, <1>3, <1>4, <1>5, <1>6, <1>7, <1>8, <1>9 DEF AssemblyNext

LEMMA AssemblyInductive == AssemblySpec => []AssemblyIInv
<1>1. AssemblyInit => AssemblyIInv
  BY AssemblyStarts
<1>2. AssemblyIInv /\ [AssemblyNext]_assemblyVars => AssemblyIInv'
  <2>1. ASSUME AssemblyIInv, [AssemblyNext]_assemblyVars PROVE AssemblyIInv'
    <3>1. Columns' /\ Tied' /\ Filling' /\ Configured' /\ StopsForAReason' /\ Numbered' /\ ReadSoFar'
      BY <2>1, ColumnsStep, TiedStep, FillingStep, ConfiguredStep, StopsStep, NumberedStep, ReadSoFarStep
    <3>2. AssemblyTypeOK'
      BY <2>1, <3>1, AssemblyTypesStep
    <3> QED
      BY <3>1, <3>2 DEF AssemblyIInv
  <2> QED
    BY <2>1
<1> QED
  BY <1>1, <1>2, PTL DEF AssemblySpec

\* The loops of StoreExtensionConfig stay within their lists, and every part that is stored
\* has its service.
THEOREM AssemblyTypeCorrect == AssemblySpec => []AssemblyTypeOK
<1>1. AssemblyIInv => AssemblyTypeOK
  BY DEF AssemblyIInv
<1> QED
  BY <1>1, AssemblyInductive, PTL

\* How StoreExtensionConfig ends tells what is stored: after nil, each service has the parts
\* of the model with the configuration of its entry, unless a later service took the entry;
\* it stops short only for a failure, an empty model, or an entry without a service.
THEOREM EndsTellTruth == AssemblySpec => []EndTellsTruth
<1>1. ASSUME AssemblyIInv, place = "done", NEW j \in 1..Len(model)
      PROVE  LET later == \E l \in j + 1..Len(model) : model[l].name = model[j].name
                 stored == {<<p.kind, p.name>> : p \in {q \in parts : q.service = j}}
                 asked == UNION {{<<kd, n>> : n \in model[j].parts[kd]} : kd \in Range(Kinds)}
                 entry == list[Find(model[j].name, list)].config
             IN  /\ stored = IF later THEN {} ELSE asked
                 /\ updates = 0 => \A p \in parts : p.service = j =>
                       p.config = IF p.name \in DOMAIN entry THEN entry[p.name] ELSE Blank
  <2> DEFINE later == \E l \in j + 1..Len(model) : model[l].name = model[j].name
             stored == {<<p.kind, p.name>> : p \in {q \in parts : q.service = j}}
             asked == UNION {{<<kd, n>> : n \in model[j].parts[kd]} : kd \in Range(Kinds)}
  <2>1. Columns /\ Filling /\ Configured /\ LinkedTo(list, model, Len(model))
    BY <1>1 DEF AssemblyIInv, Tied, Linked
  <2>2. /\ (\E h \in 1..Len(list) : list[h].model = j) <=> ~ later
        /\ \A h \in 1..Len(list) : list[h].model = j => Find(model[j].name, list) = h
    <3>1. list \in Seq(Entries) /\ model \in Seq(Specs) /\ j # 0
      BY <2>1 DEF Columns
    <3> QED
      BY <2>1, <3>1, OneEntry
  <2>3. \A kd \in Range(Kinds) : NamesOf(j, kd) = IF later THEN {} ELSE model[j].parts[kd]
    <3>1. ASSUME NEW c \in 1..3 PROVE NamesOf(j, Kinds[c]) = IF later THEN {} ELSE model[j].parts[Kinds[c]]
      <4>1. \A h \in 1..Len(list) : Passed(h, c)
        BY <1>1 DEF Passed
      <4> QED
        BY <1>1, <2>1, <2>2, <4>1 DEF Filling
    <3> QED
      BY <3>1, KindsAre
  <2>4. stored = {<<kd, n>> : kd \in Range(Kinds), n \in Labels} \cap
                 {x \in Range(Kinds) \X Labels : x[2] \in NamesOf(j, x[1])}
    BY <2>1 DEF Columns, PartRows, NamesOf
  <2>5. \A kd \in Range(Kinds) : model[j].parts[kd] \subseteq Labels
    <3>1. model[j] \in Specs
      BY <2>1 DEF Columns
    <3> QED
      BY <3>1 DEF Specs
  <2>6. stored = IF later THEN {} ELSE asked
    BY <2>3, <2>4, <2>5
  <2>7. ASSUME updates = 0, NEW p \in parts, p.service = j
        PROVE  p.config = Given(list[Find(model[j].name, list)], p.name)
    <3>1. p.service \in 1..Len(model) /\ (place = "specs" \/ place = "done")
      BY <1>1, <2>7
    <3>2. PICK h \in 1..Len(list) : list[h].model = j /\ p.config = Given(list[h], p.name)
      BY <2>1, <2>7, <3>1 DEF Configured
    <3> QED
      BY <2>2, <3>2
  <2> QED
    BY <2>6, <2>7 DEF Given
<1>2. AssemblyIInv => EndTellsTruth
  BY <1>1 DEF EndTellsTruth, AssembledWhenDone, AssemblyIInv
<1> QED
  BY <1>2, AssemblyInductive, PTL

\* A copy is stored as a whole or not at all, and is what the source was unless that changed
\* while it was read.
THEOREM CopiesFaithfully == AssemblySpec => FaithfulCopy
<1> DEFINE Copies == copy.pc # "done" /\ copy'.pc = "done" =>
             IF Copied \in DOMAIN attrs'
             THEN raced \/ Tree(Copied, services', parts') = image
             ELSE faults' > 0 /\ Tree(Copied, services', parts') = {}
<1>1. ASSUME AssemblyIInv, [AssemblyNext]_assemblyVars, copy.pc # "done", copy'.pc = "done" PROVE Copies
  <2>0. Columns /\ Numbered /\ ReadSoFar /\ Len(model) \in Nat /\ Source # Copied /\ faults \in Nat
    BY <1>1, AssemblyAssumption DEF AssemblyIInv, Columns
  <2>1. CopyDeviceInstance
    <3>0. copy' # copy
      BY <1>1
    <3>1. ~ LinkService /\ ~ AddServices
      BY <3>0 DEF LinkService, AddServices
    <3>2. ~ StoreSpec
      BY <3>0 DEF StoreSpec
    <3>3. \A p \in parts, c \in Configs : ~ UpdateConfig(p.service, p.name, c)
      BY <3>0 DEF UpdateConfig
    <3>4. ~ ReadServices
      BY <1>1 DEF ReadServices
    <3>5. ~ Preload
      <4>1. SUFFICES ASSUME Preload PROVE FALSE
        OBVIOUS
      <4>2. copy'.pc = IF copy.at = 3 THEN "copying" ELSE copy.pc
        BY <2>0, <4>1 DEF Preload, Columns
      <4> QED
        BY <1>1, <4>2
    <3>6. ~ ProcessEnds
      <4>1. SUFFICES ASSUME ProcessEnds PROVE FALSE
        OBVIOUS
      <4>2. copy'.pc = IF copy.pc \in {"done", "failed"} THEN copy.pc ELSE "failed"
        BY <2>0, <4>1 DEF ProcessEnds, Columns
      <4> QED
        BY <1>1, <4>2
    <3>7. ~ UNCHANGED assemblyVars
      BY <3>0 DEF assemblyVars
    <3> QED
      BY <1>1, <3>1, <3>2, <3>3, <3>4, <3>5, <3>6, <3>7 DEF AssemblyNext
  <2>2. \A s \in services : s.device = Source
    BY <1>1, <2>0 DEF Numbered, Stored
  <2>3. \A p \in parts : p.service \in 1..Len(model)
    BY <1>1, <2>0, <2>2 DEF Numbered, Stored
  <2>4. CASE UNCHANGED <<contents, attrs>> /\ MayFault
    <3>1. Copied \notin DOMAIN attrs'
      BY <1>1, <2>0, <2>4 DEF ReadSoFar
    <3>2. {t \in services' : t.device = Copied} = {}
      BY <2>0, <2>2, <2>4 DEF contents
    <3>3. Tree(Copied, services', parts') = {}
      BY <3>2 DEF Tree
    <3>4. faults' > 0
      BY <2>0, <2>4 DEF MayFault
    <3> QED
      BY <3>1, <3>3, <3>4
  <2>5. CASE /\ services' = services \cup {CopiedService(s) : s \in copy.services}
             /\ parts' = parts \cup {CopiedPart(p) : p \in copy.parts}
             /\ attrs' = [d \in {Source, Copied} |-> IF d = Source THEN attrs[d] ELSE CopyAttributes(attrs[Source])]
    <3>1. {t \in services' : t.device = Copied} = {CopiedService(s) : s \in copy.services}
      BY <2>0, <2>2, <2>5, CopiedRows
    <3>2. \A s \in copy.services : s.id \in 1..Len(model) /\ s.device = Source
      BY <2>0 DEF ReadSoFar, Numbered, Stored
    <3>3. \A p \in copy.parts : p.service \in 1..Len(model)
      BY <2>0, <3>2 DEF ReadSoFar
    <3>4. ASSUME NEW s \in copy.services
          PROVE  {q \in parts' : q.service = CopiedService(s).id}
                   = {CopiedPart(p) : p \in {q \in copy.parts : q.service = s.id}}
      <4>1. CopiedService(s).id = Len(model) + s.id /\ s.id \in 1..Len(model)
        BY <2>0, <3>2, CopiedRows
      <4>2. \A p \in copy.parts : CopiedPart(p).service = CopiedService(s).id <=> p.service = s.id
        BY <2>0, <3>3, <4>1, CopiedRows
      <4>3. \A q \in parts : q.service # CopiedService(s).id
        BY <2>0, <2>3, <4>1
      <4> QED
        BY <2>5, <4>2, <4>3
    <3>5. ASSUME NEW s \in copy.services
          PROVE  {<<p.kind, p.name, p.config>> : p \in {q \in parts' : q.service = CopiedService(s).id}}
                   = {<<p.kind, p.name, p.config>> : p \in {q \in copy.parts : q.service = s.id}}
      BY <2>0, <3>4, CopiedRows
    <3> DEFINE node(s) == [name |-> s.name, id |-> s.id,
                           parts |-> {<<p.kind, p.name, p.config>> : p \in {q \in copy.parts : q.service = s.id}}]
    <3>6. Tree(Copied, services', parts') = {node(s) : s \in copy.services}
      <4>1. Tree(Copied, services', parts') =
              {[name |-> t.name, id |-> t.of,
                parts |-> {<<p.kind, p.name, p.config>> : p \in {q \in parts' : q.service = t.id}}] :
               t \in {CopiedService(s) : s \in copy.services}}
        BY <2>0, <3>1 DEF Tree
      <4> DEFINE copied(t) == [name |-> t.name, id |-> t.of,
                   parts |-> {<<p.kind, p.name, p.config>> : p \in {q \in parts' : q.service = t.id}}]
      <4>2. ASSUME NEW s \in copy.services PROVE copied(CopiedService(s)) = node(s)
        <5>1. CopiedService(s).name = s.name /\ CopiedService(s).of = s.id
          BY <2>0, CopiedRows
        <5> QED
          BY <3>5, <5>1
      <4>3. Tree(Copied, services', parts') = {copied(t) : t \in {CopiedService(s) : s \in copy.services}}
        BY <4>1
      <4> HIDE DEF copied, node
      <4> QED
        BY <4>2, <4>3
    <3>7. Tree(Source, copy.services, copy.parts) = {node(s) : s \in copy.services}
      <4>1. {t \in copy.services : t.device = Source} = copy.services
        BY <3>2
      <4> QED
        BY <4>1 DEF Tree
    <3>8. Copied \in DOMAIN attrs'
      BY <2>5
    <3>9. copy.pc = "copying"
      BY <2>1 DEF CopyDeviceInstance
    <3> QED
      BY <2>0, <3>6, <3>7, <3>8, <3>9 DEF ReadSoFar
  <2> QED
    BY <2>1, <2>4, <2>5 DEF CopyDeviceInstance
<1>2. AssemblyIInv /\ [AssemblyNext]_assemblyVars => [Copies]_assemblyVars
  BY <1>1
<1> QED
  BY <1>2, AssemblyInductive, PTL DEF AssemblySpec, FaithfulCopy
================================================================================

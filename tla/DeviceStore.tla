----------------------------- MODULE DeviceStore -----------------------------
(***************************************************************************)
(* The tables around a device and the handlers that change them while      *)
(* DeleteDeviceInstance is under way.                                      *)
(*                                                                         *)
(* A device instance owns service instances, and a service owns event,     *)
(* property and command instances; the database keeps these with foreign   *)
(* keys.  Three tables refer to devices, events and rules by a bare id     *)
(* that no foreign key checks: event_rule_relation, which ties a rule      *)
(* linkage to an event, device_data_forward_relation, which ties a data    *)
(* forward to a device, and the alert tables.  The code alone keeps those  *)
(* free of dangling rows.                                                  *)
(*                                                                         *)
(* DeleteDeviceInstance deletes rows in a transaction (visible to others   *)
(* at its commit only) and event-rule relations outside it (at once and    *)
(* for good).  `rows` holds the committed rows of the tables the           *)
(* transaction touches, dead[c] the rows it has deleted and not committed. *)
(* Events stand for properties and commands too, which are deleted in the  *)
(* same way and have no relations; alerts for log and history.             *)
(***************************************************************************)
EXTENDS Integers, FiniteSets

CONSTANTS
  Calls,                  \* handlers that may be deleting something
  Devices, Services, Events, Alerts,  \* row ids
  Rules, Forwards,        \* ids of rule linkages and data forwards
  DeviceOf,               \* the device of a service or an alert
  ServiceOf,              \* the service of an event
  SameName,               \* the events that bear one name, by event
  NoDevice                \* the empty device id

Links == Forwards \X Devices      \* device_data_forward_relation
Relations == Rules \X Events      \* event_rule_relation

ASSUME StoreAssumption ==
  /\ DeviceOf \in [Services \cup Alerts -> Devices]
  /\ ServiceOf \in [Events -> Services]
  /\ SameName \in [Events -> SUBSET Events]
  /\ \A e \in Events : e \in SameName[e] /\ \A f \in SameName[e] : ServiceOf[f] = ServiceOf[e]
  /\ NoDevice \notin Devices
  /\ Devices \cap Services = {} /\ Devices \cap Events = {} /\ Devices \cap Alerts = {}
  /\ Services \cap Events = {} /\ Services \cap Alerts = {} /\ Events \cap Alerts = {}
  /\ (Devices \cup Services \cup Events \cup Alerts) \cap (Links \cup Relations) = {}

VARIABLES
  rows,       \* committed rows of the tables that transactions touch
  owners,     \* live rule linkages and data forwards
  relations,  \* event_rule_relation, never part of a transaction
  unused,     \* ids of generated rows that were never used
  pc,         \* where each call is
  target,     \* what each call deletes
  todo,       \* services whose events a call has still to look up
  cur,        \* the service whose rows a call handles
  found,      \* events whose relations a call has still to delete
  dead,       \* rows deleted in the open transaction of a call
  late        \* history: rows inserted or left too late for any clean-up

vars == <<rows, owners, relations, unused, pc, target, todo, cur, found, dead, late>>

Generated == Services \cup Events \cup Alerts \cup Rules \cup Forwards
Rows == Devices \cup Services \cup Events \cup Alerts \cup Links

EventsOf(S)   == {e \in Events : ServiceOf[e] \in S}
ServicesOf(d) == {s \in Services : DeviceOf[s] = d}
RelationsOf(E) == {x \in Relations : x[2] \in E}
LinksOf(d)    == {x \in Links : x[2] = d}
AlertsOf(d)   == {a \in Alerts : DeviceOf[a] = d}

\* Where(&ServiceInstance{DeviceID: d}): gorm drops a condition on a zero field.
Matching(d) == IF d = NoDevice THEN Services ELSE ServicesOf(d)

\* Rows another open transaction has deleted are locked.
Locked(c, R) == \E x \in Calls \ {c} : dead[x] \cap R # {}

\* The rows a statement of c's transaction sees (read committed).
Seen(c) == rows \ dead[c]

Goto(c, p) == pc' = [pc EXCEPT ![c] = p]

\* The call returns and what it had open is closed.
Return(c) ==
  /\ Goto(c, "idle")
  /\ dead' = [dead EXCEPT ![c] = {}]
  /\ todo' = [todo EXCEPT ![c] = {}]
  /\ found' = [found EXCEPT ![c] = {}]

\* The call returns without a change to any table: Rollback, where it holds a
\* transaction.
Rollback(c) ==
  /\ Return(c)
  /\ UNCHANGED <<rows, owners, relations, unused, target, cur, late>>

\* A statement of the transaction deletes R and the call goes on at p.
TxDelete(c, R, p) ==
  /\ ~ Locked(c, R)
  /\ dead' = [dead EXCEPT ![c] = @ \cup (R \cap Seen(c))]
  /\ Goto(c, p)
  /\ UNCHANGED <<rows, owners, relations, unused, target, todo, cur, found, late>>

-----------------------------------------------------------------------------
(* DeleteDeviceInstance *)

Begin(c, d) ==
  /\ pc[c] = "idle"
  /\ Goto(c, "find")
  /\ target' = [target EXCEPT ![c] = d]
  /\ UNCHANGED <<rows, owners, relations, unused, todo, cur, found, dead, late>>

FindServices(c) ==
  /\ pc[c] = "find"
  /\ \/ /\ todo' = [todo EXCEPT ![c] = rows \cap Matching(target[c])]
        /\ Goto(c, "scan")
        /\ UNCHANGED <<rows, owners, relations, unused, target, cur, found, dead, late>>
     \/ Rollback(c)

\* The next service of the loop: its committed events, read outside tx.  An
\* error is logged and the events count as none.
LookupEvents(c, s) ==
  /\ pc[c] = "scan"
  /\ s \in todo[c]
  /\ todo' = [todo EXCEPT ![c] = @ \ {s}]
  /\ cur' = [cur EXCEPT ![c] = s]
  /\ Goto(c, "unlink")
  /\ \/ /\ found' = [found EXCEPT ![c] = rows \cap EventsOf({s})]
        /\ UNCHANGED late
     \/ late' = late \cup (relations \cap RelationsOf(EventsOf({s})))
        /\ UNCHANGED found
  /\ UNCHANGED <<rows, owners, relations, unused, target, dead>>

\* DeleteEventRuleRelationByEventId for one of the events found, outside tx
\* and for good; its error is ignored.
DeleteRelations(c, e) ==
  /\ pc[c] \in {"unlink", "evUnlink"}
  /\ e \in found[c]
  /\ found' = [found EXCEPT ![c] = @ \ {e}]
  /\ \/ /\ relations' = relations \ RelationsOf({e})
        /\ late' = late \ RelationsOf({e})
     \/ /\ late' = late \cup (relations \cap RelationsOf({e}))
        /\ UNCHANGED relations
  /\ UNCHANGED <<rows, owners, unused, pc, target, todo, cur, dead>>

\* Deliberately wrong: the loop does not delete the rows of its service.
DeleteNoRows(c) ==
  /\ pc[c] = "unlink"
  /\ found[c] = {}
  /\ TxDelete(c, {}, "scan") \/ Rollback(c)

\* The rows of the service; then on to the next one.
DeleteRows(c) ==
  /\ pc[c] = "unlink"
  /\ found[c] = {}
  /\ TxDelete(c, EventsOf({cur[c]}), "scan") \/ Rollback(c)

\* Deliberately wrong: the delete of the services takes an empty id for granted.
DeleteServicesUnguarded(c) ==
  /\ pc[c] = "scan"
  /\ todo[c] = {}
  /\ \/ /\ Seen(c) \cap EventsOf(Seen(c) \cap Matching(target[c])) = {}
        /\ TxDelete(c, Matching(target[c]), "commit")
     \/ Rollback(c)

\* A foreign key rejects the delete of a service that still has rows; without
\* an id the delete has no condition, which gorm refuses.
DeleteServices(c) ==
  /\ pc[c] = "scan"
  /\ todo[c] = {}
  /\ \/ /\ target[c] # NoDevice
        /\ Seen(c) \cap EventsOf(Seen(c) \cap ServicesOf(target[c])) = {}
        /\ TxDelete(c, ServicesOf(target[c]), "device")
     \/ Rollback(c)

DeleteDevice(c) ==
  /\ pc[c] = "device"
  /\ \/ /\ Seen(c) \cap ServicesOf(target[c]) = {}
        /\ TxDelete(c, {target[c]}, "forwards")
     \/ Rollback(c)

\* Deliberately wrong: the data-forward relations of the device stay.
DeleteNoForwards(c) ==
  /\ pc[c] = "forwards"
  /\ TxDelete(c, {}, "alerts") \/ Rollback(c)

DeleteForwards(c) ==
  /\ pc[c] = "forwards"
  /\ TxDelete(c, LinksOf(target[c]), "alerts") \/ Rollback(c)

\* An error here returns with the transaction open; it will never commit.
DeleteAlerts(c) ==
  /\ pc[c] = "alerts"
  /\ TxDelete(c, AlertsOf(target[c]), "commit") \/ Rollback(c)

\* The error of Commit is ignored: the call then ends as if it had committed.
Commit(c) ==
  /\ pc[c] = "commit"
  /\ \/ /\ rows' = rows \ dead[c]
        /\ late' = late \ dead[c]
        /\ Return(c)
        /\ UNCHANGED <<owners, relations, unused, target, cur>>
     \/ Rollback(c)

-----------------------------------------------------------------------------
(* The other deletes *)

\* DeleteEventInstance deletes the events of one name (p = "nameLookup"), and
\* DeleteEventInstanceByServiceId those of a service, committed at once.
DeleteEvents(c, E, p) ==
  /\ pc[c] = "idle"
  /\ ~ Locked(c, E)
  /\ rows' = rows \ E
  /\ late' = (late \ E) \cup (relations \cap RelationsOf(E \cap rows))
  /\ Goto(c, p)
  /\ found' = [found EXCEPT ![c] = E]
  /\ UNCHANGED <<owners, relations, unused, target, todo, cur, dead>>

\* Only then are the same events looked up, for their relations: the rows just
\* deleted are gone, so only events that came since are found, by name the
\* first of them.
LookupDeleted(c) ==
  /\ \/ /\ pc[c] = "nameLookup"
        /\ \E F \in SUBSET (found[c] \cap rows) :
             /\ Cardinality(F) <= 1
             /\ found' = [found EXCEPT ![c] = F]
     \/ /\ pc[c] = "serviceLookup"
        /\ \E F \in {{}, found[c] \cap rows} : found' = [found EXCEPT ![c] = F]
  /\ Goto(c, "evUnlink")
  /\ UNCHANGED <<rows, owners, relations, unused, target, todo, cur, dead, late>>

\* DeleteServiceInstance: the foreign keys refuse it while the services of
\* the device have rows.
DeleteServiceInstance(d) ==
  /\ rows \cap EventsOf(rows \cap ServicesOf(d)) = {}
  /\ \A c \in Calls : dead[c] \cap ServicesOf(d) = {}
  /\ rows' = rows \ ServicesOf(d)
  /\ UNCHANGED <<owners, relations, unused, pc, target, todo, cur, found, dead, late>>

\* DeleteRuleLinkage, DeleteDataForward and their batches: the rules or
\* forwards first, committed at once.
DeleteOwners(c, O) ==
  /\ pc[c] = "idle"
  /\ owners' = owners \ O
  /\ found' = [found EXCEPT ![c] = O]
  /\ Goto(c, "owUnlink")
  /\ UNCHANGED <<rows, relations, unused, target, todo, cur, dead, late>>

RelationsBy(o) == {x \in Relations : x[1] = o}
LinksBy(o)     == {x \in Links : x[1] = o}

\* Then, one after the other, their relations, errors being ignored.
DeleteOwned(c, o) ==
  /\ pc[c] = "owUnlink"
  /\ o \in found[c]
  /\ found' = [found EXCEPT ![c] = @ \ {o}]
  /\ \/ /\ ~ Locked(c, LinksBy(o))
        /\ relations' = relations \ RelationsBy(o)
        /\ rows' = rows \ LinksBy(o)
        /\ late' = late \ (RelationsBy(o) \cup LinksBy(o))
     \/ /\ late' = late \cup (relations \cap RelationsBy(o)) \cup (rows \cap LinksBy(o))
        /\ UNCHANGED <<relations, rows>>
  /\ UNCHANGED <<owners, unused, pc, target, todo, cur, dead>>

\* The loop over the relations ends.
Unlinked(c) ==
  /\ pc[c] \in {"evUnlink", "owUnlink"}
  /\ found[c] = {}
  /\ Rollback(c)

\* What one statement unbinds: a rule from one event or from the events of an event
\* model, a data forward from one device or from the devices of a model, some devices
\* from every data forward, some rules from every event.
Bindings ==
  (UNION {SUBSET RelationsBy(r) : r \in Rules}) \cup (UNION {SUBSET LinksBy(f) : f \in Forwards})
  \cup {{x \in Links : x[2] \in D} : D \in SUBSET Devices}
  \cup {{x \in Relations : x[1] \in R} : R \in SUBSET Rules}

Unbind(X) ==
  /\ X \cap (rows \cup relations) # {} /\ \A c \in Calls : X \cap dead[c] = {}
  /\ relations' = relations \ X
  /\ rows' = rows \ X
  /\ late' = late \ X
  /\ UNCHANGED <<owners, unused, pc, target, todo, cur, found, dead>>

-----------------------------------------------------------------------------
(* Inserts *)

\* AddRuleLinkage and AddDataForward.
AddOwner(o) ==
  /\ o \in unused
  /\ owners' = owners \cup {o}
  /\ unused' = unused \ {o}
  /\ UNCHANGED <<rows, relations, pc, target, todo, cur, found, dead, late>>

Deleting(c, d) == pc[c] \in {"find", "scan", "unlink", "device", "forwards", "alerts", "commit"}
                  /\ target[c] = d

\* A delete of the event's device is past the point where it would still find
\* a relation of the event.
Missed(c, e) ==
  /\ Deleting(c, DeviceOf[ServiceOf[e]])
  /\ pc[c] # "find"
  /\ ServiceOf[e] \notin todo[c]
  /\ e \notin found[c]

\* The call has yet to delete the rows of service s, its lookup being done.
InHand(c, s) == pc[c] = "unlink" /\ cur[c] = s

\* AddDeviceInstanceAll: a device with services and their events, or nothing.
AddDevice(d, S, E) ==
  /\ d \notin rows
  /\ S \cup E \subseteq unused
  /\ rows' = rows \cup {d} \cup S \cup E
  /\ unused' = unused \ (S \cup E)
  /\ late' = late \cup {e \in E : \E c \in Calls : Missed(c, e)}
  /\ UNCHANGED <<owners, relations, pc, target, todo, cur, found, dead>>

\* AddServiceInstance and AddEventInstance: the foreign key wants a parent
\* that is there and that no open transaction has deleted.
AddChild(x, parent, missed) ==
  /\ x \in unused
  /\ parent \in rows
  /\ \A c \in Calls : parent \notin dead[c]
  /\ rows' = rows \cup {x}
  /\ unused' = unused \ {x}
  /\ late' = IF missed THEN late \cup {x} ELSE late
  /\ UNCHANGED <<owners, relations, pc, target, todo, cur, found, dead>>

AddServiceInstance(s) == AddChild(s, DeviceOf[s], FALSE)

AddEventInstance(e) ==
  AddChild(e, ServiceOf[e], \E c \in Calls : Missed(c, e) /\ ~ InHand(c, ServiceOf[e]))

\* Deliberately wrong: the rule and the event swapped.
BindSwapped(r, e) ==
  /\ r \notin unused /\ e \notin unused
  /\ relations' = relations \cup {<<e, r>>}
  /\ UNCHANGED <<rows, owners, unused, pc, target, todo, cur, found, dead, late>>

\* AddEventRuleRelation: ids that were read earlier, which may be gone.
BindEvent(r, e) ==
  /\ r \notin unused /\ e \notin unused
  /\ <<r, e>> \notin relations
  /\ relations' = relations \cup {<<r, e>>}
  /\ late' = IF r \notin owners \/ e \notin rows \/ \E c \in Calls : Missed(c, e)
             THEN late \cup {<<r, e>>} ELSE late
  /\ UNCHANGED <<rows, owners, unused, pc, target, todo, cur, found, dead>>

\* A delete of device d has already deleted the rows of this kind.
Past(d, places) == \E c \in Calls : Deleting(c, d) /\ pc[c] \in places

\* AddDeviceDataForwardRelation.
BindDevice(f, d) ==
  /\ f \notin unused
  /\ <<f, d>> \notin rows
  /\ rows' = rows \cup {<<f, d>>}
  /\ late' = IF f \notin owners \/ d \notin rows \/ Past(d, {"alerts", "commit"})
             THEN late \cup {<<f, d>>} ELSE late
  /\ UNCHANGED <<owners, relations, unused, pc, target, todo, cur, found, dead>>

\* AddAlertLog and AddAlertHistory.
AddAlert(a) ==
  /\ a \in unused
  /\ rows' = rows \cup {a}
  /\ unused' = unused \ {a}
  /\ late' = IF DeviceOf[a] \notin rows \/ Past(DeviceOf[a], {"commit"})
             THEN late \cup {a} ELSE late
  /\ UNCHANGED <<owners, relations, pc, target, todo, cur, found, dead>>

\* The server dies and starts again: the database rolls back what was open.
\* What a two-step delete of a rule or forward had not deleted yet stays.
Crash ==
  /\ pc' = [c \in Calls |-> "idle"]
  /\ dead' = [c \in Calls |-> {}]
  /\ todo' = [c \in Calls |-> {}]
  /\ found' = [c \in Calls |-> {}]
  /\ late' = late \cup {x \in relations : x[1] \notin owners}
                  \cup {x \in rows \cap Links : x[1] \notin owners}
  /\ UNCHANGED <<rows, owners, relations, unused, target, cur>>

-----------------------------------------------------------------------------
Init ==
  /\ rows = {} /\ owners = {} /\ relations = {} /\ late = {}
  /\ unused = Generated
  /\ pc = [c \in Calls |-> "idle"]
  /\ target = [c \in Calls |-> NoDevice]
  /\ cur \in [Calls -> Services]
  /\ todo = [c \in Calls |-> {}]
  /\ found = [c \in Calls |-> {}]
  /\ dead = [c \in Calls |-> {}]

\* The steps of a delete that has begun.
Step(c) ==
  \/ FindServices(c)
  \/ \E s \in Services : LookupEvents(c, s)
  \/ \E e \in Events : DeleteRelations(c, e)
  \/ DeleteRows(c) \/ DeleteServices(c) \/ DeleteDevice(c)
  \/ DeleteForwards(c) \/ DeleteAlerts(c) \/ Commit(c)
  \/ LookupDeleted(c)
  \/ \E o \in Rules \cup Forwards : DeleteOwned(c, o)
  \/ Unlinked(c)

Enter(c) ==
  \/ \E d \in Devices \cup {NoDevice} : Begin(c, d)
  \/ \E e \in Events : DeleteEvents(c, SameName[e], "nameLookup")
  \/ \E s \in Services : DeleteEvents(c, EventsOf({s}), "serviceLookup")
  \/ \E O \in SUBSET owners : DeleteOwners(c, O)

Insert ==
  \/ \E d \in Devices : \E S \in SUBSET ServicesOf(d) :
       \E E \in SUBSET EventsOf(S) : AddDevice(d, S, E)
  \/ \E s \in Services : AddServiceInstance(s)
  \/ \E e \in Events : AddEventInstance(e)
  \/ \E o \in Rules \cup Forwards : AddOwner(o)
  \/ \E r \in Rules, e \in Events : BindEvent(r, e)
  \/ \E f \in Forwards, d \in Devices : BindDevice(f, d)
  \/ \E a \in Alerts : AddAlert(a)

Next ==
  \/ \E c \in Calls : Enter(c) \/ Step(c)
  \/ Insert
  \/ \E X \in Bindings : Unbind(X)
  \/ \E d \in Devices : DeleteServiceInstance(d)
  \/ Crash

Spec == Init /\ [][Next]_vars

-----------------------------------------------------------------------------
Places == {"idle", "find", "scan", "unlink", "device", "forwards", "alerts", "commit",
           "nameLookup", "serviceLookup", "evUnlink", "owUnlink"}

TypeOK ==
  /\ rows \subseteq Rows
  /\ owners \subseteq Rules \cup Forwards
  /\ relations \subseteq Relations
  /\ unused \subseteq Generated
  /\ pc \in [Calls -> Places]
  /\ target \in [Calls -> Devices \cup {NoDevice}]
  /\ cur \in [Calls -> Services]
  /\ todo \in [Calls -> SUBSET Services]
  /\ found \in [Calls -> SUBSET (Events \cup Rules \cup Forwards)]
  /\ dead \in [Calls -> SUBSET Rows]
  /\ late \subseteq Rows \cup Relations

\* A rule or forward whose relations are still being deleted.
Unlinking(o) == \E c \in Calls : pc[c] = "owUnlink" /\ o \in found[c]

\* The rows that no foreign key checks do not outlive what they refer to:
\* whatever the deletes interleave with, a relation, link or alert without its
\* rule, event, forward or device was inserted after the delete had passed it,
\* or its own delete failed, or the event went by DeleteEventInstance, which
\* never deletes a relation of the event it deletes.
NoLeftovers ==
  /\ \A x \in relations :
       x[1] \notin owners \/ x[2] \notin rows => x \in late \/ Unlinking(x[1])
  /\ \A x \in rows \cap Links :
       x[1] \notin owners \/ x[2] \notin rows => x \in late \/ Unlinking(x[1])
  /\ \A a \in rows \cap Alerts : DeviceOf[a] \notin rows => a \in late

\* DeleteDeviceInstance deletes in an order and so completely that when it
\* comes to the services no foreign key can refuse them, except for events
\* that another call added behind its back.
OnlyRacesBlockDelete ==
  \A c \in Calls :
    pc[c] = "scan" /\ todo[c] = {} =>
      Seen(c) \cap EventsOf(ServicesOf(target[c])) \subseteq late

\* To everybody else a device and all its services and events disappear in one
\* step or not at all, and nothing else disappears with them, although the
\* delete takes a statement per table and service, any of which may fail, and
\* the server may crash between them.
Atomic == INSTANCE AtomicDevices
            WITH alive <- rows \cap Devices, parts <- rows \cap (Services \cup Events)

DeleteIsAtomic == Atomic!Spec
=============================================================================

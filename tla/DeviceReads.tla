----------------------------- MODULE DeviceReads -----------------------------
(***************************************************************************)
(* Reads that take several statements while others write: is a property or *)
(* an event of a device model in use, which devices has an edge, what is   *)
(* there of one device, which events has it.  None of them runs in a       *)
(* transaction, and most go on when one of their statements fails.         *)
(*                                                                         *)
(* A device model has service models, and these part models (properties,   *)
(* events, commands); a device has service instances, and these part       *)
(* instances.  Foreign keys tie each row to the one above.  `rows` holds   *)
(* what is committed.  Readers do not disturb each other, so one call is   *)
(* followed; kept, seen and failed are its history, which only properties  *)
(* read: the rows that were there all the time since it began, those that  *)
(* were there at some time, and those it could not read or read below.     *)
(***************************************************************************)
EXTENDS Naturals, Sequences

CONSTANTS
  Devices, Services, Parts,           \* ids of instance rows
  ServiceModels, PartModels,          \* ids of model rows
  DeviceOf, ServiceOf,                \* the device of a service, the service of a part
  ServiceModelOf,                     \* the service model of a part model
  ModelOf,                            \* the device model of a device or service model
  EdgeOf, ProtocolOf,                 \* of a device
  KindOf, NameOf, Blank,              \* of parts and part models; the empty name
  NoId,                               \* the empty id
  MaxWrites                           \* bound: commits of others during the call

Kinds == {"property", "event", "command"}

\* gorm does the preloads of a query in the order of their names.
Preloads == <<"command", "event", "property">>

Rows == Devices \cup Services \cup Parts \cup ServiceModels \cup PartModels

ASSUME ReadsAssumption ==
  /\ DeviceOf \in [Services -> Devices]
  /\ ServiceOf \in [Parts -> Services]
  /\ ServiceModelOf \in [PartModels -> ServiceModels]
  /\ KindOf \in [Parts \cup PartModels -> Kinds]
  /\ NoId \notin Rows /\ MaxWrites \in Nat
  /\ Devices \cap (Services \cup Parts \cup ServiceModels \cup PartModels) = {}
  /\ Services \cap (Parts \cup ServiceModels \cup PartModels) = {}
  /\ Parts \cap (ServiceModels \cup PartModels) = {} /\ ServiceModels \cap PartModels = {}

VARIABLES
  rows,      \* committed rows
  pc,        \* where the call is
  what,      \* the function called
  arg,       \* the id it was given, where it was given one
  wanted,    \* the devices its listing asks for
  todo,      \* devices the loop has still to visit
  cur,       \* services of the device in hand and their parts, as far as read
  kinds,     \* kinds of parts still to be read for them
  open,      \* services that have still to be asked
  got,       \* what the call will return
  answer,    \* how it ended: "yes", "no", "error" or, with got, "list"
  writes,    \* commits of others since it began
  kept, seen, failed

history == <<writes, kept, seen, failed>>
vars == <<rows, pc, what, arg, wanted, todo, cur, kinds, open, got, answer, history>>

Above(x) == CASE x \in Services -> {DeviceOf[x]}
              [] x \in Parts -> {ServiceOf[x]}
              [] x \in PartModels -> {ServiceModelOf[x]}
              [] OTHER -> {}

\* The foreign keys hold.
Closed(R) == \A x \in R : Above(x) \subseteq R

DevicesOfModel(p) == {d \in Devices : ModelOf[d] = ModelOf[ServiceModelOf[p]]}
ServicesOf(d) == {s \in Services : DeviceOf[s] = d}
PartsOf(S, K) == {i \in Parts : ServiceOf[i] \in S /\ KindOf[i] \in K}

IsCheck == what \in {"property", "event"}

Answer(a) == pc' = "done" /\ answer' = a

Sees == UNCHANGED <<rows, what, arg, writes, kept, seen>>

-----------------------------------------------------------------------------
(* The functions called *)

Call(w, a, D, p) ==
  /\ pc = "idle"
  /\ what' = w /\ arg' = a /\ wanted' = D
  /\ pc' = p
  /\ todo' = IF p = "loop" THEN {a} ELSE {}
  /\ kept' = rows /\ seen' = rows
  /\ UNCHANGED <<rows, cur, kinds, open, got, answer, writes, failed>>

IsExistPropertyInstanceByPropertyModelId(p) ==
  KindOf[p] = "property" /\ Call("property", p, DevicesOfModel(p), "part")

\* Deliberately wrong: the model is not looked up among the events.
IsExistEventOfAnyKind(p) == Call("event", p, DevicesOfModel(p), "part")

IsExistEventInstanceByEventModelId(p) ==
  KindOf[p] = "event" /\ Call("event", p, DevicesOfModel(p), "part")

GetAllDeviceInstancesV2(e, t) ==
  Call("group", NoId, {d \in Devices : EdgeOf[d] = e /\ ProtocolOf[d] = t}, "list")

GetAllDeviceInstancesV2ByEdgeId(e) ==
  Call("group", NoId, {d \in Devices : EdgeOf[d] = e}, "list")

\* The protocols of the devices of an edge: `got` holds the devices they are of.
GetAllProtocolTypeInThisEdge(e) ==
  Call("protocols", NoId, {d \in Devices : EdgeOf[d] = e}, "list")

GetDeviceInstanceAllInfo(d) == Call("device", d, {d}, "list")

GetEventInstanceByDeviceId(d) == Call("events", d, {}, "loop")

-----------------------------------------------------------------------------
(* Their statements, each of which may fail *)

\* What a call answers when it stops: the check for properties has no error
\* to return and says that the property is not in use, and the protocols of an
\* edge that cannot be read are none.
Refusal == CASE what = "property" -> "no" [] what = "protocols" -> "list" [] OTHER -> "error"

\* First(row, id) and on to p, or an answer.
FirstOf(x, p) ==
  /\ \/ x \in rows /\ pc' = p /\ UNCHANGED <<answer, failed>>
     \/ x \notin rows /\ Answer(Refusal) /\ UNCHANGED failed
     \/ Answer(Refusal) /\ failed' = failed \cup {x}
  /\ UNCHANGED <<wanted, todo, cur, kinds, open, got>>
  /\ Sees

GetPropertyModelByPropertyId == pc = "part" /\ what = "property" /\ FirstOf(arg, "model")

GetEventModelByEventId == pc = "part" /\ what = "event" /\ FirstOf(arg, "model")

GetServiceModelByServiceModelId == pc = "model" /\ FirstOf(ServiceModelOf[arg], "list")

\* The devices of a model or of an edge, or the one that must be there.
ListDevices ==
  /\ pc = "list"
  /\ \/ /\ what = "device" => arg \in rows
        /\ todo' = IF what = "protocols" THEN {} ELSE rows \cap wanted
        /\ got' = IF IsCheck THEN {} ELSE rows \cap wanted
        /\ pc' = "loop"
        /\ UNCHANGED <<answer, failed>>
     \/ /\ what = "device" /\ arg \notin rows
        /\ Answer("error")
        /\ UNCHANGED <<todo, got, failed>>
     \/ /\ Answer(Refusal) /\ failed' = failed \cup wanted
        /\ UNCHANGED <<todo, got>>
  /\ UNCHANGED <<wanted, cur, kinds, open>>
  /\ Sees

\* Where(ServiceInstance{DeviceID: d}): gorm drops a condition on a zero field.
Matching(d) == IF d = NoId THEN Services ELSE ServicesOf(d)

\* The services of a device cannot be read: the functions that look at one
\* device return the error, the loops go on to the next device.
LeaveOut(X) ==
  /\ failed' = failed \cup X
  /\ cur' = {} /\ kinds' = <<>>
  /\ IF what \in {"device", "events"} THEN Answer("error") ELSE UNCHANGED <<pc, answer>>
  /\ UNCHANGED <<open, got>>

\* GetServiceInstanceByDeviceID is four statements: the services and, when
\* there are any, the parts of each kind.
ReadServices(d) ==
  /\ pc = "loop" /\ kinds = <<>> /\ open = {} /\ d \in todo
  /\ todo' = todo \ {d}
  /\ \/ /\ cur' = Matching(d) \cap rows
        /\ kinds' = IF cur' = {} THEN <<>> ELSE Preloads
        /\ UNCHANGED <<pc, open, got, answer, failed>>
     \/ LeaveOut({d})
  /\ UNCHANGED wanted
  /\ Sees

Read(k) == cur \cup (PartsOf(cur, {k}) \cap rows)

PreloadMore ==
  /\ Len(kinds) > 1
  /\ cur' = Read(Head(kinds))
  /\ kinds' = Tail(kinds)
  /\ UNCHANGED <<pc, open, got, answer, failed>>

\* All is read: the caller keeps it or asks each service.
PreloadLast ==
  /\ Len(kinds) = 1
  /\ cur' = {} /\ kinds' = <<>>
  /\ IF what \in {"group", "device"}
       THEN got' = got \cup Read(Head(kinds)) /\ UNCHANGED open
       ELSE open' = cur \cap Services /\ UNCHANGED got
  /\ UNCHANGED <<pc, answer, failed>>

Preload ==
  /\ kinds # <<>>
  /\ PreloadMore \/ PreloadLast \/ LeaveOut(cur)
  /\ UNCHANGED <<wanted, todo>>
  /\ Sees

\* A service that cannot be asked counts as one without parts.
Ask(s) ==
  /\ pc = "loop" /\ s \in open
  /\ open' = open \ {s}
  /\ UNCHANGED <<wanted, todo, cur, kinds>>
  /\ Sees

Unanswered(s) == failed' = failed \cup {s} /\ UNCHANGED <<pc, got, answer>>

\* Deliberately wrong: another table is counted.
CountedCommands(s, k, n) == {i \in PartsOf({s}, {"command"}) : n = Blank \/ NameOf[i] = n}

\* Count of Where(PropertyInstance{ServiceID: s, Name: n}), Event alike.
Counted(s, k, n) == {i \in PartsOf({s}, {k}) : n = Blank \/ NameOf[i] = n}

\* IsExistPropertyInstance, IsExistEventInstance.
IsExistInstance(s) ==
  /\ IsCheck
  /\ Ask(s)
  /\ \/ /\ Counted(s, what, NameOf[arg]) \cap rows # {}
        /\ Answer("yes") /\ UNCHANGED <<got, failed>>
     \/ /\ Counted(s, what, NameOf[arg]) \cap rows = {}
        /\ UNCHANGED <<pc, got, answer, failed>>
     \/ Unanswered(s)

GetEventInstanceByServiceId(s) ==
  /\ what = "events"
  /\ Ask(s)
  /\ \/ /\ got' = got \cup (PartsOf({s}, {"event"}) \cap rows)
        /\ UNCHANGED <<pc, answer, failed>>
     \/ Unanswered(s)

\* Deliberately wrong: the loop ends with the first device.
LoopEndsEarly ==
  /\ pc = "loop" /\ kinds = <<>> /\ open = {}
  /\ Answer(IF IsCheck THEN "no" ELSE "list")
  /\ UNCHANGED <<wanted, todo, cur, kinds, open, got, failed>>
  /\ Sees

LoopEnds ==
  /\ pc = "loop" /\ todo = {} /\ kinds = <<>> /\ open = {}
  /\ Answer(IF IsCheck THEN "no" ELSE "list")
  /\ UNCHANGED <<wanted, todo, cur, kinds, open, got, failed>>
  /\ Sees

-----------------------------------------------------------------------------
(* The writers, each one commit *)

\* What is written before the call or after it cannot matter to it.
Write(new) ==
  /\ pc \notin {"idle", "done"} /\ writes < MaxWrites
  /\ writes' = writes + 1
  /\ rows' = new
  /\ kept' = kept \cap new
  /\ seen' = seen \cup new
  /\ UNCHANGED <<pc, what, arg, wanted, todo, cur, kinds, open, got, answer, failed>>

\* Ids are not used twice.
Unused == Rows \ seen

\* Create inserts the rows it is given with what hangs below them; a row of
\* another that is gone is refused.
Create(docs) ==
  /\ docs # {} /\ docs \subseteq Unused
  /\ Closed(rows \cup docs)
  /\ Write(rows \cup docs)

Below(S) == {x \in Rows : Above(x) \cap S # {}}

AddDeviceInstance(d, docs) == docs \subseteq Below({d} \cup Below({d})) /\ Create({d} \cup docs)

AddServiceInstance(S, docs) == docs \subseteq Below(S) /\ Create(S \cup docs)

AddPropertyInstance(docs) == (\A i \in docs : KindOf[i] = "property") /\ Create(docs)

AddEventInstance(docs) == (\A i \in docs : KindOf[i] = "event") /\ Create(docs)

AddCommandInstance(docs) == (\A i \in docs : KindOf[i] = "command") /\ Create(docs)

AddServiceModel(m, docs) == docs \subseteq Below({m}) /\ Create({m} \cup docs)

AddPropertyModel(p) == KindOf[p] = "property" /\ Create({p})

AddEventModel(p) == KindOf[p] = "event" /\ Create({p})

\* Delete; rows with others below them are refused.
Delete(R) ==
  /\ R \cap rows # {}
  /\ Closed(rows \ R)
  /\ Write(rows \ R)

\* One commit for readers: see AtomicDevices.
DeleteDeviceInstance(d) == d \in rows /\ Delete({d} \cup Below({d} \cup Below({d})))

DeleteServiceInstance(d) == Delete(ServicesOf(d))

DeletePropertyInstance(n, s) == Delete({i \in PartsOf({s}, {"property"}) : NameOf[i] = n})

DeletePropertyInstanceByServiceId(s) == Delete(PartsOf({s}, {"property"}))

DeleteEventInstance(n, s) == Delete({i \in PartsOf({s}, {"event"}) : NameOf[i] = n})

DeleteEventInstanceByServiceId(s) == Delete(PartsOf({s}, {"event"}))

DeleteCommandInstance(n, s) == Delete({i \in PartsOf({s}, {"command"}) : NameOf[i] = n})

DeleteCommandInstanceByServiceId(s) == Delete(PartsOf({s}, {"command"}))

DeletePropertyModel(p) == KindOf[p] = "property" /\ Delete({p})

DeleteEventModel(p) == KindOf[p] = "event" /\ Delete({p})

DeleteServiceModel(m) == Delete({m})

-----------------------------------------------------------------------------
Init ==
  /\ rows \in {R \in SUBSET Rows : Closed(R)}
  /\ pc = "idle" /\ what = "group" /\ arg = NoId /\ answer = "error"
  /\ wanted = {} /\ todo = {} /\ cur = {} /\ kinds = <<>> /\ open = {} /\ got = {}
  /\ writes = 0 /\ kept = {} /\ seen = {} /\ failed = {}

Begin ==
  \/ \E p \in PartModels : IsExistPropertyInstanceByPropertyModelId(p)
                        \/ IsExistEventInstanceByEventModelId(p)
  \/ \E d \in Devices : GetAllDeviceInstancesV2(EdgeOf[d], ProtocolOf[d])
                     \/ GetAllDeviceInstancesV2ByEdgeId(EdgeOf[d])
                     \/ GetAllProtocolTypeInThisEdge(EdgeOf[d])
  \/ \E d \in Devices \cup {NoId} : GetDeviceInstanceAllInfo(d) \/ GetEventInstanceByDeviceId(d)

Step ==
  \/ GetPropertyModelByPropertyId \/ GetEventModelByEventId
  \/ GetServiceModelByServiceModelId \/ ListDevices
  \/ \E d \in Devices \cup {NoId} : ReadServices(d)
  \/ Preload
  \/ \E s \in Services : IsExistInstance(s) \/ GetEventInstanceByServiceId(s)
  \/ LoopEnds

Insert ==
  \/ \E d \in Devices \cap Unused : \E docs \in SUBSET (Unused \cap Below({d} \cup Below({d}))) :
       AddDeviceInstance(d, docs)
  \/ \E S \in SUBSET (Services \cap Unused) \ {{}} : \E docs \in SUBSET (Unused \cap Below(S)) :
       AddServiceInstance(S, docs)
  \/ \E docs \in SUBSET (Parts \cap Unused) :
       AddPropertyInstance(docs) \/ AddEventInstance(docs) \/ AddCommandInstance(docs)
  \/ \E m \in ServiceModels \cap Unused : \E docs \in SUBSET (Unused \cap Below({m})) :
       AddServiceModel(m, docs)
  \/ \E p \in PartModels : AddPropertyModel(p) \/ AddEventModel(p)

Remove ==
  \/ \E d \in Devices : DeleteDeviceInstance(d) \/ DeleteServiceInstance(d)
  \/ \E s \in Services : \/ DeletePropertyInstanceByServiceId(s)
                         \/ DeleteEventInstanceByServiceId(s)
                         \/ DeleteCommandInstanceByServiceId(s)
  \/ \E i \in Parts : \/ DeletePropertyInstance(NameOf[i], ServiceOf[i])
                      \/ DeleteEventInstance(NameOf[i], ServiceOf[i])
                      \/ DeleteCommandInstance(NameOf[i], ServiceOf[i])
  \/ \E p \in PartModels : DeletePropertyModel(p) \/ DeleteEventModel(p)
  \/ \E m \in ServiceModels : DeleteServiceModel(m)

Next == Begin \/ Step \/ Insert \/ Remove

Spec == Init /\ [][Next]_vars

-----------------------------------------------------------------------------
(* Properties *)

\* Every variable keeps its type, and a check looks at a part model of its kind.
TypeOK ==
  /\ rows \subseteq Rows
  /\ pc \in {"idle", "part", "model", "list", "loop", "done"}
  /\ what \in {"property", "event", "group", "protocols", "device", "events"}
  /\ IF IsCheck THEN arg \in PartModels /\ KindOf[arg] = what ELSE arg \in Devices \cup {NoId}
  /\ wanted \cup todo \subseteq Devices \cup {NoId}
  /\ kinds \in Seq(Kinds) /\ cur \subseteq Services \cup Parts /\ open \subseteq Services
  /\ got \subseteq Devices \cup Services \cup Parts
  /\ answer \in {"yes", "no", "error", "list"}
  /\ writes \in 0 .. MaxWrites /\ kept \subseteq seen /\ seen \subseteq Rows
  /\ failed \subseteq Rows \cup {NoId}

\* All that a listing is about.
Asked == CASE what = "events" -> PartsOf(Matching(arg), {"event"})
           [] what = "protocols" -> wanted
           [] OTHER -> wanted \cup Below(wanted) \cup Below(Below(wanted))

\* A statement that was to find the row failed.
Unread(x) == ({x} \cup Above(x) \cup UNION {Above(y) : y \in Above(x)}) \cap failed # {}

\* The parts of the devices of its model that bear the name of the part model.
Uses(p) == {i \in Parts : /\ KindOf[i] = KindOf[p] /\ NameOf[i] = NameOf[p]
                           /\ DeviceOf[ServiceOf[i]] \in DevicesOfModel(p)}

\* Whatever is written in the meantime and however many statements fail, what
\* was there from the first statement to the last is found, unless a statement
\* on the way to it failed.  The check for events then answers "no" for no
\* other reason; the one for properties also where its models were deleted or
\* could not be read; GetDeviceInstanceAllInfo leaves nothing out, and no other
\* than the list of protocols leaves a device out.
NothingMissed ==
  pc = "done" =>
    /\ answer = "no" =>
         \A i \in Uses(arg) \cap kept :
           Unread(i) \/ (what = "property" /\ ~ {arg, ServiceModelOf[arg]} \subseteq kept \ failed)
    /\ answer = "list" =>
         /\ \A x \in Asked \cap kept :
              x \in got \/ (Unread(x) /\ (x \in Devices => what = "protocols"))
         /\ what = "device" => failed = {}

\* What is found was there at some time of the call, below a device asked for:
\* a part of that name in whatever service of a device of the model (of any
\* name when the model has none), and no list has a row without the one above.
NothingInvented ==
  pc = "done" =>
    /\ answer = "yes" =>
         \E i \in seen \cap PartsOf(UNION {ServicesOf(d) : d \in wanted}, {what}) :
           NameOf[i] = NameOf[arg] \/ NameOf[arg] = Blank
    /\ answer = "list" => got \subseteq seen \cap Asked
    /\ what \in {"group", "device"} => Closed(got)
=============================================================================

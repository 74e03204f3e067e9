--------------------------- MODULE DeviceReads_proofs ---------------------------
(***************************************************************************)
(* What the reads of DeviceReads find and miss, for any number of rows,     *)
(* writes and failing statements.                                           *)
(***************************************************************************)
EXTENDS DeviceReads, SequenceTheorems, TLAPS

\* The services of the devices asked for.
Base == IF what = "events" THEN Matching(arg) ELSE {s \in Services : DeviceOf[s] \in wanted}

\* The kinds of parts that have still to be read.
Left(ks) == {ks[n] : n \in 1 .. Len(ks)}

\* The table of others: closed under the foreign keys, and what was there all the
\* time is there, and what is there was there at some time.
Table == Closed(rows) /\ (pc # "idle" => kept \subseteq rows /\ rows \subseteq seen)

\* What each function asks for, and where it keeps it.
Places ==
  /\ pc = "idle" => failed = {} /\ what = "group"
  /\ pc \in {"idle", "part", "model", "list"} => cur = {} /\ kinds = <<>> /\ open = {} /\ got = {}
  /\ pc \in {"part", "model"} => IsCheck
  /\ pc = "list" => what # "events"
  /\ IsCheck => wanted = DevicesOfModel(arg) /\ got = {}
  /\ what = "device" => wanted = {arg}
  /\ what # "device" => wanted \subseteq Devices
  /\ todo \subseteq IF what = "events" THEN {arg} ELSE wanted \cap Devices
  /\ what = "protocols" => todo = {} /\ cur = {} /\ open = {}
  /\ kinds = <<>> <=> cur = {}
  /\ kinds # <<>> => open = {} /\ pc = "loop"
  /\ what \in {"group", "device"} => open = {}

\* What is found was there below a device asked for, and its parents are found.
Finds ==
  /\ pc # "idle" => cur \cup got \subseteq seen
  /\ cur \cap Services \subseteq Base /\ open \subseteq Base
  /\ \A i \in cur \cap Parts : ServiceOf[i] \in cur
  /\ got \subseteq Asked
  /\ what \in {"group", "device"} =>
       /\ todo \subseteq got /\ Closed(got)
       /\ \A s \in cur \cap Services : DeviceOf[s] \in got

\* A service of a device that has still to be visited, and one still to be asked.
ToVisit(s) == \E d \in todo : s \in Matching(d)
Asking(s) == s \in cur \cup open \/ ToVisit(s)

\* In the loop, what was there all the time is found, or will be, or a statement
\* on the way to it failed.
ListMisses ==
  pc = "loop" /\ what \in {"group", "device"} =>
    /\ wanted \cap kept \subseteq got
    /\ \A s \in Services \cap kept : DeviceOf[s] \in wanted =>
         s \in got \cup cur \/ ToVisit(s) \/ Unread(s)
    /\ \A i \in Parts \cap kept : DeviceOf[ServiceOf[i]] \in wanted =>
         \/ i \in got \cup cur \/ ToVisit(ServiceOf[i]) \/ Unread(i)
         \/ ServiceOf[i] \in cur /\ KindOf[i] \in Left(kinds)
ProtocolMisses == pc = "loop" /\ what = "protocols" => wanted \cap kept \subseteq got
CheckMisses ==
  pc = "loop" /\ IsCheck => \A i \in Uses(arg) \cap kept : Asking(ServiceOf[i]) \/ Unread(i)
EventMisses ==
  pc = "loop" /\ what = "events" =>
    \A i \in PartsOf(Matching(arg), {"event"}) \cap kept : i \in got \/ Asking(ServiceOf[i]) \/ Unread(i)
DeviceIsWhole == what = "device" /\ (pc # "done" \/ answer = "list") => failed = {}

Misses ==
  /\ ListMisses /\ ProtocolMisses /\ CheckMisses /\ EventMisses /\ DeviceIsWhole
  /\ NothingMissed

Shape == TypeOK /\ Table /\ Places

IInv == Shape /\ Finds /\ NothingInvented /\ Misses
-----------------------------------------------------------------------------
\* The row above a row, by its table.
LEMMA AboveIs ==
  /\ \A d \in Devices \cup ServiceModels : Above(d) = {}
  /\ \A s \in Services : Above(s) = {DeviceOf[s]} /\ DeviceOf[s] \in Devices
  /\ \A i \in Parts : Above(i) = {ServiceOf[i]} /\ ServiceOf[i] \in Services
  /\ \A p \in PartModels : Above(p) = {ServiceModelOf[p]} /\ ServiceModelOf[p] \in ServiceModels
<1>1. \A d \in Devices \cup ServiceModels : Above(d) = {}
  BY ReadsAssumption DEF Above
<1>2. \A s \in Services : Above(s) = {DeviceOf[s]}
  BY ReadsAssumption DEF Above
<1>3. \A i \in Parts : Above(i) = {ServiceOf[i]}
  BY ReadsAssumption DEF Above
<1>4. \A p \in PartModels : Above(p) = {ServiceModelOf[p]}
  BY ReadsAssumption DEF Above
<1> QED
  BY <1>1, <1>2, <1>3, <1>4, ReadsAssumption

\* A statement that was to find a row or a row above it failed.
LEMMA UnreadAfter ==
  /\ \A d \in Devices : d \in failed' => Unread(d)'
  /\ \A s \in Services : s \in failed' \/ DeviceOf[s] \in failed' => Unread(s)'
  /\ \A i \in Parts :
       i \in failed' \/ ServiceOf[i] \in failed' \/ DeviceOf[ServiceOf[i]] \in failed' => Unread(i)'
<1>1. \A x \in Rows : x \in failed' \/ (\E y \in Above(x) : y \in failed' \/ Above(y) \cap failed' # {})
        => Unread(x)'
  BY DEF Unread, Above
<1> QED
  BY <1>1, AboveIs DEF Rows

LEMMA UnreadStays == failed \subseteq failed' => \A x : Unread(x) => Unread(x)'
BY DEF Unread

\* The kinds still to be read.
LEMMA LeftIs ==
  /\ Left(<<>>) = {} /\ Left(Preloads) = Kinds
  /\ \A ks \in Seq(Kinds) : ks # <<>> =>
       /\ Tail(ks) \in Seq(Kinds) /\ Head(ks) \in Kinds
       /\ \A k \in Left(ks) : k = Head(ks) \/ k \in Left(Tail(ks))
       /\ Len(ks) = 1 => Tail(ks) = <<>>
       /\ Len(ks) > 1 => Tail(ks) # <<>>
<1>1. Left(<<>>) = {}
  BY DEF Left
<1>2. Left(Preloads) = Kinds
  <2>1. Preloads[1] = "command" /\ Preloads[2] = "event" /\ Preloads[3] = "property" /\ Len(Preloads) = 3
    BY DEF Preloads
  <2> QED
    BY <2>1 DEF Left, Kinds
<1>3. ASSUME NEW ks \in Seq(Kinds), ks # <<>>
      PROVE  /\ Tail(ks) \in Seq(Kinds) /\ Head(ks) \in Kinds
             /\ \A k \in Left(ks) : k = Head(ks) \/ k \in Left(Tail(ks))
             /\ Len(ks) = 1 => Tail(ks) = <<>>
             /\ Len(ks) > 1 => Tail(ks) # <<>>
  <2>1. /\ Tail(ks) \in Seq(Kinds) /\ Head(ks) \in Kinds /\ Head(ks) = ks[1]
        /\ Len(Tail(ks)) = Len(ks) - 1 /\ Len(ks) \in Nat
        /\ \A n \in 1 .. Len(Tail(ks)) : Tail(ks)[n] = ks[n + 1]
    BY <1>3, HeadTailProperties, LenProperties
  <2>2. ASSUME NEW n \in 1 .. Len(ks) PROVE ks[n] = Head(ks) \/ ks[n] \in Left(Tail(ks))
    <3>1. CASE n = 1
      BY <2>1, <3>1
    <3>2. CASE n # 1
      <4>1. n - 1 \in 1 .. Len(Tail(ks)) /\ Tail(ks)[n - 1] = ks[n]
        BY <2>1, <3>2
      <4> QED
        BY <4>1 DEF Left
    <3> QED
      BY <3>1, <3>2
  <2>3. ASSUME NEW k \in Left(ks) PROVE k = Head(ks) \/ k \in Left(Tail(ks))
    <3>1. PICK n \in 1 .. Len(ks) : k = ks[n]
      BY DEF Left
    <3> QED
      BY <2>2, <3>1
  <2>4. ASSUME Len(ks) = 1, Tail(ks) # <<>> PROVE FALSE
    <3>1. Len(Tail(ks)) = 0
      BY <2>1, <2>4
    <3>2. Len(Tail(ks)) \in Nat \ {0}
      BY <2>1, <2>4, EmptySeq
    <3> QED
      BY <3>1, <3>2
  <2>5. Len(ks) > 1 => Tail(ks) # <<>>
    BY <2>1, EmptySeq
  <2> QED
    BY <2>1, <2>3, <2>4, <2>5
<1> QED
  BY <1>1, <1>2, <1>3

\* A step of the call leaves the tables and what it was asked alone.
LEMMA StepKeeps ==
  ASSUME Step
  PROVE  /\ UNCHANGED <<rows, what, arg, wanted, writes, kept, seen>>
         /\ failed \subseteq failed'
BY DEF Step, GetPropertyModelByPropertyId, GetEventModelByEventId, GetServiceModelByServiceModelId,
   FirstOf, ListDevices, ReadServices, LeaveOut, Preload, PreloadMore, PreloadLast, IsExistInstance,
   GetEventInstanceByServiceId, Ask, Unanswered, LoopEnds, Sees

\* Whatever others do is one commit that keeps the foreign keys.
LEMMA OthersWrite ==
  ASSUME Insert \/ Remove
  PROVE  \E new : Write(new) /\ Closed(new) /\ (rows \subseteq Rows => new \subseteq Rows)
<1>1. ASSUME NEW docs, Create(docs) PROVE \E new : Write(new) /\ Closed(new) /\ (rows \subseteq Rows => new \subseteq Rows)
  BY <1>1 DEF Create, Unused
<1>2. ASSUME NEW R, Delete(R) PROVE \E new : Write(new) /\ Closed(new) /\ (rows \subseteq Rows => new \subseteq Rows)
  BY <1>2 DEF Delete
<1> QED
  BY <1>1, <1>2 DEF Insert, AddDeviceInstance, AddServiceInstance, AddPropertyInstance, AddEventInstance,
     AddCommandInstance, AddServiceModel, AddPropertyModel, AddEventModel, Remove, DeleteDeviceInstance,
     DeleteServiceInstance, DeletePropertyInstance, DeletePropertyInstanceByServiceId,
     DeleteEventInstance, DeleteEventInstanceByServiceId, DeleteCommandInstance,
     DeleteCommandInstanceByServiceId, DeletePropertyModel, DeleteEventModel, DeleteServiceModel

\* How a call begins.
LEMMA Begins ==
  ASSUME Begin
  PROVE  \E w, a, D, p :
           /\ Call(w, a, D, p)
           /\ w \in {"property", "event", "group", "protocols", "device", "events"}
           /\ w \in {"property", "event"} => a \in PartModels /\ KindOf[a] = w /\ D = DevicesOfModel(a) /\ p = "part"
           /\ w \in {"group", "protocols"} => a = NoId /\ D \subseteq Devices /\ p = "list"
           /\ w = "device" => a \in Devices \cup {NoId} /\ D = {a} /\ p = "list"
           /\ w = "events" => a \in Devices \cup {NoId} /\ D = {} /\ p = "loop"
<1> DEFINE Goal == \E w, a, D, p :
           /\ Call(w, a, D, p)
           /\ w \in {"property", "event", "group", "protocols", "device", "events"}
           /\ w \in {"property", "event"} => a \in PartModels /\ KindOf[a] = w /\ D = DevicesOfModel(a) /\ p = "part"
           /\ w \in {"group", "protocols"} => a = NoId /\ D \subseteq Devices /\ p = "list"
           /\ w = "device" => a \in Devices \cup {NoId} /\ D = {a} /\ p = "list"
           /\ w = "events" => a \in Devices \cup {NoId} /\ D = {} /\ p = "loop"
<1> SUFFICES Goal
  OBVIOUS
<1>1. ASSUME NEW p \in PartModels,
             \/ IsExistPropertyInstanceByPropertyModelId(p)
             \/ IsExistEventInstanceByEventModelId(p)
      PROVE  Goal
  <2>1. KindOf[p] \in {"property", "event"} /\ Call(KindOf[p], p, DevicesOfModel(p), "part")
    BY <1>1 DEF IsExistPropertyInstanceByPropertyModelId, IsExistEventInstanceByEventModelId
  <2> QED
    BY <2>1
<1>2. ASSUME NEW d \in Devices,
             \/ GetAllDeviceInstancesV2(EdgeOf[d], ProtocolOf[d])
             \/ GetAllDeviceInstancesV2ByEdgeId(EdgeOf[d])
             \/ GetAllProtocolTypeInThisEdge(EdgeOf[d])
      PROVE  Goal
  <2>1. \E w \in {"group", "protocols"}, D \in SUBSET Devices : Call(w, NoId, D, "list")
    BY <1>2 DEF GetAllDeviceInstancesV2, GetAllDeviceInstancesV2ByEdgeId, GetAllProtocolTypeInThisEdge
  <2> QED
    BY <2>1
<1>3. ASSUME NEW d \in Devices \cup {NoId}, GetDeviceInstanceAllInfo(d) PROVE Goal
  BY <1>3 DEF GetDeviceInstanceAllInfo
<1>4. ASSUME NEW d \in Devices \cup {NoId}, GetEventInstanceByDeviceId(d) PROVE Goal
  BY <1>4 DEF GetEventInstanceByDeviceId
<1> HIDE DEF Goal
<1> QED
  BY <1>1, <1>2, <1>3, <1>4 DEF Begin

\* A preload reads the parts of the next kind, or fails; after the last kind all is
\* kept, or its services are asked.
PreloadOf(k) ==
  /\ kinds' # <<>> /\ Left(kinds) \subseteq Left(kinds') \cup {k}
  /\ cur' = Read(k)
  /\ UNCHANGED <<pc, open, got, answer, failed>>

PreloadEnds(k) ==
  /\ kinds' = <<>> /\ Left(kinds) \subseteq {k} /\ cur' = {}
  /\ IF what \in {"group", "device"} THEN got' = got \cup Read(k) /\ UNCHANGED open
     ELSE open' = cur \cap Services /\ UNCHANGED got
  /\ UNCHANGED <<pc, answer, failed>>

LEMMA PreloadEffect ==
  ASSUME kinds \in Seq(Kinds), Preload
  PROVE  /\ kinds # <<>> /\ kinds' \in Seq(Kinds)
         /\ UNCHANGED <<rows, what, arg, wanted, todo, writes, kept, seen>>
         /\ (\E k \in Kinds : PreloadOf(k) \/ PreloadEnds(k)) \/ LeaveOut(cur)
<1>1. kinds # <<>> /\ UNCHANGED <<rows, what, arg, wanted, todo, writes, kept, seen>>
  BY DEF Preload, Sees
<1> DEFINE k == Head(kinds)
<1>2. /\ k \in Kinds /\ Tail(kinds) \in Seq(Kinds)
      /\ \A j \in Left(kinds) : j = k \/ j \in Left(Tail(kinds))
      /\ Len(kinds) = 1 => Tail(kinds) = <<>>
      /\ Len(kinds) > 1 => Tail(kinds) # <<>>
  BY <1>1, LeftIs
<1>3. CASE PreloadMore
  <2>1. PreloadOf(k)
    BY <1>2, <1>3 DEF PreloadMore, PreloadOf
  <2>2. kinds' \in Seq(Kinds)
    BY <1>2, <1>3 DEF PreloadMore
  <2> QED
    BY <1>1, <1>2, <2>1, <2>2
<1>4. CASE PreloadLast
  <2>1. Left(kinds) \subseteq {k}
    BY <1>2, <1>4, LeftIs DEF PreloadLast
  <2>2. PreloadEnds(k)
    BY <1>4, <2>1 DEF PreloadLast, PreloadEnds
  <2>3. kinds' \in Seq(Kinds)
    BY <1>4, EmptySeq DEF PreloadLast
  <2> QED
    BY <1>1, <1>2, <2>2, <2>3
<1>5. CASE LeaveOut(cur)
  BY <1>1, <1>5, EmptySeq DEF LeaveOut
<1> QED
  BY <1>3, <1>4, <1>5 DEF Preload

\* The types are kept by every action.
LEMMA TypeStep == Shape /\ [Next]_vars => TypeOK'
<1> SUFFICES ASSUME Shape, [Next]_vars PROVE TypeOK'
  OBVIOUS
<1> USE ReadsAssumption DEF Shape, TypeOK, Rows, IsCheck
<1>1. CASE Begin
  <2>1. PICK w, a, D, p :
           /\ Call(w, a, D, p)
           /\ w \in {"property", "event", "group", "protocols", "device", "events"}
           /\ w \in {"property", "event"} => a \in PartModels /\ KindOf[a] = w /\ D = DevicesOfModel(a) /\ p = "part"
           /\ w \in {"group", "protocols"} => a = NoId /\ D \subseteq Devices /\ p = "list"
           /\ w = "device" => a \in Devices \cup {NoId} /\ D = {a} /\ p = "list"
           /\ w = "events" => a \in Devices \cup {NoId} /\ D = {} /\ p = "loop"
    BY <1>1, Begins
  <2>2. D \subseteq Devices \cup {NoId} /\ p \in {"part", "list", "loop"} /\ (p = "loop" => a \in Devices \cup {NoId})
    BY <2>1 DEF DevicesOfModel
  <2>3. IF IsCheck' THEN arg' \in PartModels /\ KindOf[arg'] = what' ELSE arg' \in Devices \cup {NoId}
    BY <2>1 DEF Call
  <2> QED
    BY <2>1, <2>2, <2>3 DEF Call
<1>2. ASSUME NEW x \in PartModels \cup ServiceModels, NEW p \in {"model", "list"}, FirstOf(x, p) PROVE TypeOK'
  BY <1>2 DEF FirstOf, Answer, Refusal, Sees
<1>3. CASE ListDevices
  <2>1. wanted \cap rows \subseteq Devices
    BY DEF Places
  <2>2. wanted \subseteq Rows \cup {NoId}
    OBVIOUS
  <2> QED
    BY <1>3, <2>1, <2>2 DEF ListDevices, Answer, Refusal, Sees
<1>4. ASSUME NEW X, X \subseteq Rows \cup {NoId}, LeaveOut(X), Sees, todo' \subseteq todo, wanted' = wanted PROVE TypeOK'
  <2>1. kinds' \in Seq(Kinds)
    BY <1>4 DEF LeaveOut
  <2> QED
    BY <1>4, <2>1 DEF LeaveOut, Answer, Sees
<1>5. ASSUME NEW d \in Devices \cup {NoId}, ReadServices(d) PROVE TypeOK'
  <2>1. CASE /\ cur' = Matching(d) \cap rows /\ kinds' = IF cur' = {} THEN <<>> ELSE Preloads
             /\ UNCHANGED <<pc, open, got, answer, failed>>
    <3>1. cur' \subseteq Services
      BY <2>1 DEF Matching, ServicesOf
    <3>2. Preloads \in Seq(Kinds)
      BY DEF Preloads, Kinds
    <3>3. kinds' \in Seq(Kinds)
      BY <2>1, <3>2, EmptySeq
    <3> QED
      BY <1>5, <2>1, <3>1, <3>3 DEF ReadServices, Sees
  <2>2. CASE LeaveOut({d})
    BY <1>4, <1>5, <2>2 DEF ReadServices
  <2> QED
    BY <1>5, <2>1, <2>2 DEF ReadServices
<1>6. CASE Preload
  <2>1. \A k : PartsOf(cur, {k}) \subseteq Parts
    BY DEF PartsOf
  <2>2. ASSUME NEW k, PreloadOf(k), kinds' \in Seq(Kinds) PROVE TypeOK'
    <3>1. cur' \subseteq Services \cup Parts
      BY <2>1, <2>2 DEF PreloadOf, Read
    <3> QED
      BY <1>6, <2>2, <3>1 DEF Preload, PreloadOf, Sees
  <2>3. ASSUME NEW k, PreloadEnds(k), kinds' \in Seq(Kinds) PROVE TypeOK'
    <3>1. got' \subseteq Devices \cup Services \cup Parts /\ open' \subseteq Services /\ cur' = {}
      BY <2>1, <2>3 DEF PreloadEnds, Read
    <3> QED
      BY <1>6, <2>3, <3>1 DEF Preload, PreloadEnds, Sees
  <2>4. CASE LeaveOut(cur)
    BY <1>4, <1>6, <2>4 DEF Preload
  <2> QED
    BY <1>6, <2>2, <2>3, <2>4, PreloadEffect
<1>7. ASSUME NEW s \in Services, IsExistInstance(s) \/ GetEventInstanceByServiceId(s) PROVE TypeOK'
  <2>1. PartsOf({s}, {"event"}) \subseteq Parts
    BY DEF PartsOf
  <2>2. got' \subseteq Devices \cup Services \cup Parts /\ failed' \subseteq Rows \cup {NoId}
    BY <1>7, <2>1 DEF IsExistInstance, GetEventInstanceByServiceId, Unanswered
  <2>3. answer' \in {"yes", "no", "error", "list"} /\ pc' \in {pc, "done"} /\ open' \subseteq open
    BY <1>7 DEF IsExistInstance, GetEventInstanceByServiceId, Unanswered, Answer, Ask
  <2> QED
    BY <1>7, <2>2, <2>3 DEF IsExistInstance, GetEventInstanceByServiceId, Ask, Sees
<1>8. CASE LoopEnds
  BY <1>8 DEF LoopEnds, Answer, Sees
<1>9. CASE Insert \/ Remove
  <2>1. PICK new : Write(new) /\ new \subseteq Rows
    BY <1>9, OthersWrite
  <2> QED
    BY <2>1 DEF Write
<1>10. CASE UNCHANGED vars
  BY <1>10 DEF vars, history
<1> HIDE DEF Shape, TypeOK
<1>11. CASE GetPropertyModelByPropertyId \/ GetEventModelByEventId \/ GetServiceModelByServiceModelId
  <2>1. pc \in {"part", "model"} => arg \in PartModels /\ ServiceModelOf[arg] \in ServiceModels
    BY DEF Shape, TypeOK, Places
  <2> QED
    BY <1>2, <1>11, <2>1 DEF GetPropertyModelByPropertyId, GetEventModelByEventId, GetServiceModelByServiceModelId
<1> QED
  BY <1>1, <1>3, <1>5, <1>6, <1>7, <1>8, <1>9, <1>10, <1>11 DEF Next, Step

LEMMA TableStep == Shape /\ [Next]_vars => Table'
<1> SUFFICES ASSUME Shape, [Next]_vars PROVE Table'
  OBVIOUS
<1> USE DEF Shape, Table
<1>1. CASE Begin
  BY <1>1, Begins DEF Call, Closed
<1>2. CASE Step
  <2>1. pc # "idle"
    BY <1>2 DEF Places, Step, GetPropertyModelByPropertyId, GetEventModelByEventId,
       GetServiceModelByServiceModelId, ListDevices, ReadServices, Preload, IsExistInstance,
       GetEventInstanceByServiceId, Ask, LoopEnds
  <2> QED
    BY <1>2, <2>1, StepKeeps DEF Closed
<1>3. CASE Insert \/ Remove
  <2>1. PICK new : Write(new) /\ Closed(new)
    BY <1>3, OthersWrite
  <2>2. Closed(rows')
    BY <2>1 DEF Write
  <2>3. Closed(rows)'
    BY <2>2 DEF Closed
  <2> QED
    BY <2>1, <2>3 DEF Write
<1>4. CASE UNCHANGED vars
  BY <1>4 DEF vars, history, Closed
<1> QED
  BY <1>1, <1>2, <1>3, <1>4 DEF Next

\* How the call gets from one place to the next.
LEMMA PlacesStep == Shape /\ [Next]_vars => Places'
<1> SUFFICES ASSUME Shape, [Next]_vars PROVE Places'
  OBVIOUS
<1> USE DEF Shape, Places, IsCheck
<1>1. CASE Begin
  <2>1. PICK w, a, D, p :
           /\ Call(w, a, D, p)
           /\ w \in {"property", "event", "group", "protocols", "device", "events"}
           /\ w \in {"property", "event"} => a \in PartModels /\ KindOf[a] = w /\ D = DevicesOfModel(a) /\ p = "part"
           /\ w \in {"group", "protocols"} => a = NoId /\ D \subseteq Devices /\ p = "list"
           /\ w = "device" => a \in Devices \cup {NoId} /\ D = {a} /\ p = "list"
           /\ w = "events" => a \in Devices \cup {NoId} /\ D = {} /\ p = "loop"
    BY <1>1, Begins
  <2>2. /\ pc = "idle" /\ what' = w /\ arg' = a /\ wanted' = D /\ pc' = p
        /\ todo' = IF p = "loop" THEN {a} ELSE {}
        /\ UNCHANGED <<cur, kinds, open, got, failed>>
    BY <2>1 DEF Call
  <2>3. \A x : DevicesOfModel(x) \subseteq Devices /\ DevicesOfModel(x)' = DevicesOfModel(x)
    BY DEF DevicesOfModel
  <2> QED
    BY <2>1, <2>2, <2>3
<1>2. CASE Step /\ ~ Preload /\ ~ \E d \in Devices \cup {NoId} : ReadServices(d)
  <2>0. UNCHANGED <<what, arg, wanted>> /\ (DevicesOfModel(arg)' = DevicesOfModel(arg))
    BY <1>2, StepKeeps DEF DevicesOfModel
  <2>1. CASE GetPropertyModelByPropertyId \/ GetEventModelByEventId \/ GetServiceModelByServiceModelId
    BY <2>0, <2>1 DEF GetPropertyModelByPropertyId, GetEventModelByEventId,
       GetServiceModelByServiceModelId, FirstOf, Answer
  <2>2. CASE ListDevices
    <3>1. wanted \cap rows \subseteq wanted \cap Devices
      BY ReadsAssumption DEF TypeOK, Rows
    <3> QED
      BY <2>0, <2>2, <3>1 DEF ListDevices, Answer
  <2>3. ASSUME NEW s \in Services, IsExistInstance(s) \/ GetEventInstanceByServiceId(s) PROVE Places'
    <3>1. /\ UNCHANGED <<todo, cur, kinds>> /\ open' \subseteq open /\ pc' \in {"loop", "done"}
          /\ IsCheck => got' = got
          /\ pc = "loop" /\ s \in open
      BY <2>3 DEF IsExistInstance, GetEventInstanceByServiceId, Ask, Unanswered, Answer
    <3> QED
      BY <2>0, <3>1
  <2>4. CASE LoopEnds
    BY <2>0, <2>4 DEF LoopEnds, Answer
  <2> QED
    BY <1>2, <2>1, <2>2, <2>3, <2>4 DEF Step
<1>3. ASSUME NEW X, LeaveOut(X), pc = "loop", todo' \subseteq todo,
             UNCHANGED <<what, arg, wanted>>
      PROVE  Places'
  <2>1. DevicesOfModel(arg)' = DevicesOfModel(arg)
    BY <1>3 DEF DevicesOfModel
  <2>2. pc' \in {"loop", "done"} /\ cur' = {} /\ kinds' = <<>> /\ UNCHANGED <<open, got>>
    BY <1>3 DEF LeaveOut, Answer
  <2> QED
    BY <1>3, <2>1, <2>2
<1>4. ASSUME NEW d \in Devices \cup {NoId}, ReadServices(d) PROVE Places'
  <2>1. UNCHANGED <<what, arg, wanted>> /\ DevicesOfModel(arg)' = DevicesOfModel(arg) /\ pc = "loop"
    BY <1>4 DEF ReadServices, Sees, DevicesOfModel
  <2>2. CASE LeaveOut({d})
    BY <1>3, <1>4, <2>1, <2>2 DEF ReadServices
  <2>3. CASE /\ cur' = Matching(d) \cap rows
             /\ kinds' = IF cur' = {} THEN <<>> ELSE Preloads
             /\ UNCHANGED <<pc, open, got, answer, failed>>
    <3>1. Preloads # <<>> /\ what # "protocols"
      BY <1>4 DEF Preloads, ReadServices
    <3> QED
      BY <1>4, <2>1, <2>3, <3>1 DEF ReadServices
  <2> QED
    BY <1>4, <2>2, <2>3 DEF ReadServices
<1>5. CASE Preload
  <2>1. /\ kinds # <<>> /\ UNCHANGED <<rows, what, arg, wanted, todo>>
        /\ (\E k \in Kinds : PreloadOf(k) \/ PreloadEnds(k)) \/ LeaveOut(cur)
    BY <1>5, PreloadEffect DEF TypeOK
  <2>2. DevicesOfModel(arg)' = DevicesOfModel(arg) /\ pc = "loop" /\ cur # {}
    BY <2>1 DEF DevicesOfModel
  <2>3. ASSUME NEW k, PreloadOf(k) PROVE Places'
    <3>1. cur' # {} /\ kinds' # <<>> /\ UNCHANGED <<pc, open, got, failed>>
      BY <2>2, <2>3 DEF PreloadOf, Read
    <3> QED
      BY <2>1, <2>2, <3>1
  <2>4. ASSUME NEW k, PreloadEnds(k) PROVE Places'
    <3>1. /\ cur' = {} /\ kinds' = <<>> /\ UNCHANGED <<pc, failed>>
          /\ IF what \in {"group", "device"} THEN UNCHANGED open ELSE UNCHANGED got
      BY <2>4 DEF PreloadEnds
    <3> QED
      BY <2>1, <2>2, <3>1
  <2> QED
    BY <1>3, <2>1, <2>2, <2>3, <2>4
<1>6. CASE Insert \/ Remove
  <2>1. PICK new : Write(new)
    BY <1>6, OthersWrite
  <2>2. DevicesOfModel(arg)' = DevicesOfModel(arg)
    BY <2>1 DEF Write, DevicesOfModel
  <2> QED
    BY <2>1, <2>2 DEF Write
<1>7. CASE UNCHANGED vars
  BY <1>7 DEF vars, history, DevicesOfModel
<1> HIDE DEF Shape, Places, IsCheck
<1> QED
  BY <1>1, <1>2, <1>4, <1>5, <1>6, <1>7 DEF Next

\* Nothing is left to do for a call that is done, and nobody writes after it.
LEMMA Ended == Shape /\ pc = "done" /\ Next => FALSE
BY Begins, OthersWrite DEF Shape, Places, Next, Call, Step, GetPropertyModelByPropertyId,
   GetEventModelByEventId, GetServiceModelByServiceModelId, ListDevices, ReadServices, Preload,
   IsExistInstance, GetEventInstanceByServiceId, Ask, LoopEnds, Write

LEMMA NoIdIsNoDevice == NoId \notin Devices
BY ReadsAssumption DEF Rows

\* What a listing of devices with all below them is about.
LEMMA AskedIs ==
  ASSUME Shape, what \notin {"events", "protocols"}, NEW x \in Devices \cup Services \cup Parts
  PROVE  x \in Asked <=> \/ x \in Devices /\ x \in wanted
                         \/ x \in Services /\ DeviceOf[x] \in wanted
                         \/ x \in Parts /\ DeviceOf[ServiceOf[x]] \in wanted
<1>1. wanted \subseteq Devices \cup {NoId}
  BY DEF Shape, TypeOK
<1>2. Asked = wanted \cup Below(wanted) \cup Below(Below(wanted))
  BY DEF Asked
<1>3. \A y \in Rows : y \in Below(wanted) <=> y \in Services /\ DeviceOf[y] \in wanted
  BY <1>1, AboveIs, ReadsAssumption DEF Below, Rows
<1>4. \A y \in Rows : y \in Below(Below(wanted)) <=>
         y \in Parts /\ ServiceOf[y] \in Services /\ DeviceOf[ServiceOf[y]] \in wanted
  <2>1. Below(wanted) \subseteq Services
    BY <1>3 DEF Below
  <2>2. \A y \in Rows : y \in Below(Below(wanted)) <=> \E z \in Above(y) : z \in Below(wanted)
    BY DEF Below
  <2>3. \A y \in Rows : (\E z \in Above(y) : z \in Below(wanted)) <=>
                           y \in Parts /\ ServiceOf[y] \in Below(wanted)
    BY <2>1, AboveIs, ReadsAssumption DEF Rows
  <2> QED
    BY <1>3, <2>2, <2>3, AboveIs DEF Rows
<1> QED
  BY <1>1, <1>2, <1>3, <1>4, AboveIs, ReadsAssumption DEF Rows

LEMMA AskedStays == UNCHANGED <<what, arg, wanted>> => Asked' = Asked /\ Base' = Base
BY DEF Asked, Base, Below, Above, PartsOf, Matching, ServicesOf

\* Services are read for devices asked for, and parts for services that were read.
LEMMA FindsStep == Shape /\ Finds /\ [Next]_vars => Finds'
<1> SUFFICES ASSUME Shape, Finds, [Next]_vars PROVE Finds'
  OBVIOUS
<1>0. /\ cur \subseteq Services \cup Parts /\ got \subseteq Devices \cup Services \cup Parts
      /\ open \subseteq Services /\ rows \subseteq Rows /\ Services \cap Parts = {}
      /\ \A i \in Parts : ServiceOf[i] \in Services
      /\ \A s \in Services : DeviceOf[s] \in Devices
  BY ReadsAssumption DEF Shape, TypeOK
<1>1. CASE Begin
  <2>1. /\ pc = "idle" /\ UNCHANGED <<cur, open, got>>
        /\ what' \in {"group", "device"} => todo' = {}
    BY <1>1, Begins DEF Call
  <2>2. cur = {} /\ open = {} /\ got = {}
    BY <2>1 DEF Shape, Places
  <2> QED
    BY <2>1, <2>2 DEF Finds, Closed
<1>2. ASSUME UNCHANGED <<what, arg, wanted, todo, cur, got>>, open' \subseteq open,
             pc' # "idle" => pc # "idle", seen \subseteq seen'
      PROVE  Finds'
  <2>1. Closed(got)' = Closed(got)
    BY <1>2 DEF Closed, Above
  <2> QED
    BY <1>2, <2>1, AskedStays DEF Finds
<1>3. ASSUME Step PROVE UNCHANGED <<rows, what, arg, wanted, seen>> /\ pc # "idle" /\ rows \subseteq seen
  <2>1. pc # "idle"
    BY <1>3 DEF Shape, Places, Step, GetPropertyModelByPropertyId, GetEventModelByEventId,
       GetServiceModelByServiceModelId, ListDevices, ReadServices, Preload, IsExistInstance,
       GetEventInstanceByServiceId, Ask, LoopEnds
  <2> QED
    BY <1>3, <2>1, StepKeeps DEF Shape, Table
<1>4. ASSUME ListDevices, Step PROVE Finds'
  <2>1. CASE UNCHANGED <<todo, got>>
    BY <1>2, <1>3, <1>4, <2>1 DEF ListDevices
  <2>2. CASE /\ todo' = IF what = "protocols" THEN {} ELSE rows \cap wanted
             /\ got' = IF IsCheck THEN {} ELSE rows \cap wanted
    <3>1. rows \cap wanted \subseteq Devices /\ cur = {} /\ open = {} /\ what # "events"
      BY <1>4, <2>2, ReadsAssumption DEF Shape, TypeOK, Places, ListDevices, Rows
    <3>2. rows \cap wanted \subseteq Asked
      <4>1. CASE what = "protocols"
        BY <4>1 DEF Asked
      <4> QED
        BY <3>1, <4>1, AskedIs
    <3>3. Closed(got)'
      BY <2>2, <3>1, AboveIs DEF Closed
    <3>4. cur' = {} /\ open' = {} /\ got' \subseteq rows \cap wanted
      BY <1>4, <2>2, <3>1 DEF ListDevices
    <3>5. what \in {"group", "device"} => todo' \subseteq got'
      BY <2>2 DEF IsCheck
    <3> QED
      BY <1>3, <1>4, <3>2, <3>3, <3>4, <3>5, AskedStays DEF Finds
  <2> QED
    BY <1>4, <2>1, <2>2 DEF ListDevices
<1>5. ASSUME NEW X, LeaveOut(X), Step, todo' \subseteq todo PROVE Finds'
  <2>1. cur' = {} /\ UNCHANGED <<open, got>> /\ UNCHANGED <<what, arg, wanted, seen>> /\ pc # "idle"
    BY <1>3, <1>5 DEF LeaveOut
  <2>2. Closed(got)' = Closed(got)
    BY <2>1 DEF Closed, Above
  <2> QED
    BY <1>5, <2>1, <2>2, AskedStays DEF Finds
<1>6. ASSUME NEW d \in Devices \cup {NoId}, ReadServices(d), Step PROVE Finds'
  <2>1. CASE LeaveOut({d})
    BY <1>5, <1>6, <2>1 DEF ReadServices
  <2>2. CASE cur' = Matching(d) \cap rows /\ UNCHANGED <<pc, open, got>>
    <3>0. d \in todo /\ todo \subseteq IF what = "events" THEN {arg} ELSE wanted \cap Devices
      BY <1>6 DEF ReadServices, Shape, Places
    <3>1. cur' \subseteq Base /\ cur' \subseteq Services
      <4>1. CASE what = "events"
        BY <2>2, <3>0, <4>1 DEF Base, Matching, ServicesOf
      <4>2. CASE what # "events"
        BY <2>2, <3>0, <4>2, NoIdIsNoDevice DEF Base, Matching, ServicesOf
      <4> QED
        BY <4>1, <4>2
    <3>2. ASSUME what \in {"group", "device"}, NEW s \in cur' PROVE DeviceOf[s] \in got
      <4>1. d \in Devices /\ d \in got
        BY <3>0, <3>2 DEF Finds
      <4> QED
        BY <2>2, <3>2, <4>1, NoIdIsNoDevice DEF Matching, ServicesOf
    <3>3. Closed(got)' = Closed(got) /\ todo' \subseteq todo
      BY <1>6, <2>2 DEF Closed, Above, ReadServices
    <3> QED
      BY <1>0, <1>3, <1>6, <2>2, <3>1, <3>2, <3>3, AskedStays DEF Finds
  <2> QED
    BY <1>6, <2>1, <2>2 DEF ReadServices
<1>7. ASSUME Preload, Step PROVE Finds'
  <2>1. /\ UNCHANGED <<rows, what, arg, wanted, todo, seen>>
        /\ (\E k \in Kinds : PreloadOf(k) \/ PreloadEnds(k)) \/ LeaveOut(cur)
    BY <1>7, PreloadEffect DEF Shape, TypeOK
  <2>2. ASSUME NEW k
        PROVE  /\ Read(k) \cap Services = cur \cap Services /\ Read(k) \subseteq seen
               /\ Read(k) \subseteq Services \cup Parts
               /\ \A i \in Read(k) \cap Parts : ServiceOf[i] \in cur
    BY <1>0, <1>3, <1>7 DEF Read, PartsOf, Finds
  <2>3. ASSUME NEW k, PreloadOf(k) PROVE Finds'
    <3>1. Closed(got)' = Closed(got)
      BY <2>3 DEF PreloadOf, Closed, Above
    <3>2. \A i \in cur' \cap Parts : ServiceOf[i] \in cur'
      BY <2>2, <2>3 DEF PreloadOf, Read
    <3> QED
      BY <1>3, <1>7, <2>1, <2>2, <2>3, <3>1, <3>2, AskedStays DEF PreloadOf, Finds
  <2>4. ASSUME NEW k, PreloadEnds(k), what \in {"group", "device"} PROVE Finds'
    <3>1. got' = got \cup Read(k) /\ UNCHANGED <<open, pc>> /\ cur' = {}
      BY <2>4 DEF PreloadEnds
    <3>2. \A x \in Read(k) : x \in Asked
      <4> TAKE x \in Read(k)
      <4>1. \A s \in cur \cap Services : DeviceOf[s] \in wanted
        BY <2>4 DEF Finds, Base
      <4>2. CASE x \in Services
        BY <2>2, <2>4, <4>1, <4>2, AskedIs
      <4>3. CASE x \in Parts
        <5>1. ServiceOf[x] \in cur \cap Services
          BY <1>0, <2>2, <4>3
        <5> QED
          BY <2>4, <4>1, <4>3, <5>1, AskedIs
      <4> QED
        BY <2>2, <4>2, <4>3
    <3>3. Closed(got')
      <4>1. \A x \in Read(k) : Above(x) \subseteq got'
        <5> TAKE x \in Read(k)
        <5>1. CASE x \in Services
          <6>1. x \in cur \cap Services
            BY <2>2, <5>1
          <6>2. DeviceOf[x] \in got
            BY <2>4, <6>1 DEF Finds
          <6> QED
            BY <3>1, <5>1, <6>2, AboveIs
        <5>2. CASE x \in Parts
          <6>1. ServiceOf[x] \in cur /\ cur \subseteq got'
            BY <2>2, <3>1, <5>2 DEF Read
          <6> QED
            BY <5>2, <6>1, AboveIs
        <5> QED
          BY <2>2, <5>1, <5>2
      <4> QED
        BY <2>4, <3>1, <4>1 DEF Finds, Closed
    <3>4. Closed(got)'
      BY <3>3 DEF Closed, Above
    <3> QED
      BY <1>3, <1>7, <2>1, <2>2, <2>4, <3>1, <3>2, <3>4, AskedStays DEF Finds
  <2>5. ASSUME NEW k, PreloadEnds(k), what \notin {"group", "device"} PROVE Finds'
    <3>1. open' = cur \cap Services /\ UNCHANGED <<got, pc>> /\ cur' = {}
      BY <2>5 DEF PreloadEnds
    <3> QED
      BY <1>3, <1>7, <2>1, <2>5, <3>1, AskedStays DEF Finds
  <2> QED
    BY <1>5, <1>7, <2>1, <2>3, <2>4, <2>5
<1>8. ASSUME NEW s \in Services, GetEventInstanceByServiceId(s), Step PROVE Finds'
  <2>1. /\ what = "events" /\ s \in open /\ open' \subseteq open /\ UNCHANGED <<todo, cur>>
        /\ got' \subseteq got \cup (PartsOf({s}, {"event"}) \cap rows)
    BY <1>8 DEF GetEventInstanceByServiceId, Ask, Unanswered
  <2>2. PartsOf({s}, {"event"}) \subseteq Asked
    BY <2>1 DEF Finds, Base, Asked, PartsOf
  <2> QED
    BY <1>3, <1>8, <2>1, <2>2, AskedStays DEF Finds
<1>9. ASSUME NEW s \in Services, IsExistInstance(s), Step PROVE Finds'
  <2>1. UNCHANGED <<todo, cur, got>> /\ open' \subseteq open
    BY <1>9 DEF IsExistInstance, Ask, Unanswered
  <2> QED
    BY <1>2, <1>3, <1>9, <2>1
<1>10. CASE Insert \/ Remove
  BY <1>2, <1>10, OthersWrite DEF Write
<1>11. CASE UNCHANGED vars
  BY <1>2, <1>11 DEF vars, history
<1>12. ASSUME Step, \/ GetPropertyModelByPropertyId \/ GetEventModelByEventId
                   \/ GetServiceModelByServiceModelId \/ LoopEnds
       PROVE Finds'
  BY <1>2, <1>3, <1>12 DEF GetPropertyModelByPropertyId, GetEventModelByEventId,
     GetServiceModelByServiceModelId, FirstOf, LoopEnds
<1>13. CASE Step
  BY <1>4, <1>6, <1>7, <1>8, <1>9, <1>12, <1>13 DEF Step
<1> QED
  BY <1>1, <1>10, <1>11, <1>13 DEF Next

\* A check answers "yes" for a part that it counted.
LEMMA InventedStep == Shape /\ Finds /\ NothingInvented /\ [Next]_vars => NothingInvented'
<1> SUFFICES ASSUME Shape, Finds, NothingInvented, [Next]_vars, pc' = "done" PROVE NothingInvented'
  BY DEF NothingInvented
<1>1. Shape' /\ Finds'
  BY TypeStep, TableStep, PlacesStep, FindsStep DEF Shape
<1>2. CASE UNCHANGED vars
  BY <1>2 DEF vars, history, NothingInvented, IsCheck, Asked, Closed, Above, Below, PartsOf, Matching, ServicesOf
<1>3. CASE Next
  <2>1. pc # "done"
    BY <1>3, Ended
  <2>2. Step
    BY <1>3, <2>1, Begins, OthersWrite DEF Next, Call, Write
  <2>3. UNCHANGED <<rows, what, arg, wanted, seen>>
    BY <2>2, StepKeeps
  <2>4. ASSUME answer' = "yes"
        PROVE  \E i \in seen' \cap PartsOf(UNION {ServicesOf(d) : d \in wanted'}, {what'}) :
                  NameOf[i] = NameOf[arg'] \/ NameOf[arg'] = Blank
    <3>1. PICK s \in Services : IsExistInstance(s) /\ Counted(s, what, NameOf[arg]) \cap rows # {}
      BY <2>1, <2>2, <2>4, <1>1 DEF Step, GetPropertyModelByPropertyId, GetEventModelByEventId,
         GetServiceModelByServiceModelId, FirstOf, ListDevices, ReadServices, LeaveOut, Preload, PreloadMore,
         PreloadLast, IsExistInstance, GetEventInstanceByServiceId, Ask, Unanswered, LoopEnds, Answer, Refusal,
         IsCheck, Shape
    <3>2. PICK i \in rows : i \in Counted(s, what, NameOf[arg])
      BY <3>1
    <3>3. s \in open /\ what # "events"
      BY <3>1 DEF IsExistInstance, IsCheck, Ask
    <3>4. DeviceOf[s] \in wanted /\ s \in ServicesOf(DeviceOf[s])
      BY <3>3 DEF Finds, Base, ServicesOf
    <3>5. i \in PartsOf(UNION {ServicesOf(d) : d \in wanted}, {what})
      BY <3>2, <3>4 DEF Counted, PartsOf
    <3>6. i \in seen
      BY <2>2, <3>1, <3>2 DEF IsExistInstance, Ask, Shape, Table
    <3> QED
      BY <2>3, <3>2, <3>5, <3>6 DEF Counted
  <2>5. PartsOf(UNION {ServicesOf(d) : d \in wanted}, {what})' = PartsOf(UNION {ServicesOf(d) : d \in wanted'}, {what'})
    BY DEF PartsOf, ServicesOf
  <2>6. got' \subseteq seen' \cap Asked' /\ (what' \in {"group", "device"} => Closed(got)')
    BY <1>1 DEF Finds
  <2> QED
    BY <2>4, <2>5, <2>6 DEF NothingInvented
<1> QED
  BY <1>2, <1>3

\* What the loop is after stays the same while the call goes on.
LEMMA UsesStays ==
  UNCHANGED <<what, arg, wanted>> =>
    /\ Uses(arg)' = Uses(arg)
    /\ PartsOf(Matching(arg), {"event"})' = PartsOf(Matching(arg), {"event"})
    /\ IsCheck' = IsCheck
BY DEF Uses, DevicesOfModel, PartsOf, Matching, ServicesOf, IsCheck

LEMMA ToVisitStays == ASSUME NEW s PROVE todo \subseteq todo' /\ ToVisit(s) => ToVisit(s)'
BY DEF ToVisit, Matching, ServicesOf

\* Which services a visit reads.
LEMMA VisitReads ==
  ASSUME Shape, NEW d \in todo, todo' = todo \ {d}, NEW s \in Services, s \in rows, ToVisit(s)
  PROVE  s \in Matching(d) \cap rows \/ ToVisit(s)'
BY DEF ToVisit, Matching, ServicesOf

\* A service or part that was there all the time has its parents there.
LEMMA ParentsStay ==
  ASSUME Shape, pc # "idle", NEW x \in kept
  PROVE  /\ x \in rows
         /\ x \in Services => DeviceOf[x] \in rows
         /\ x \in Parts => ServiceOf[x] \in rows /\ DeviceOf[ServiceOf[x]] \in rows
<1>1. x \in rows /\ Closed(rows)
  BY DEF Shape, Table
<1>2. ASSUME NEW y \in rows
      PROVE  /\ y \in Services => DeviceOf[y] \in rows
             /\ y \in Parts => ServiceOf[y] \in rows
  BY <1>1, AboveIs DEF Closed
<1> QED
  BY <1>1, <1>2, AboveIs

\* The loop over the devices with all below them.
LEMMA ListLoop ==
  ASSUME Shape, Finds, ListMisses, Step, pc = "loop", pc' = "loop", what \in {"group", "device"}
  PROVE  ListMisses'
<1>0. /\ UNCHANGED <<rows, what, arg, wanted, kept, seen>> /\ failed \subseteq failed'
      /\ open = {} /\ ~ IsCheck /\ what # "events"
  BY StepKeeps DEF Shape, Places, IsCheck
<1>1. /\ \A x : Unread(x) => Unread(x)'
      /\ \A x \in kept : /\ x \in Services => x \in rows
                         /\ x \in Parts => x \in rows /\ ServiceOf[x] \in rows /\ ServiceOf[x] \in Services
  BY <1>0, UnreadStays, ParentsStay, AboveIs
<1>2. ASSUME NEW d \in Devices \cup {NoId}, ReadServices(d) PROVE ListMisses'
  <2>1. d \in todo /\ todo' = todo \ {d} /\ kinds = <<>> /\ cur = {} /\ d \in Devices
    BY <1>0, <1>2 DEF ReadServices, Shape, Places
  <2>2. CASE LeaveOut({d})
    <3>1. cur' = {} /\ got' = got /\ d \in failed'
      BY <2>2 DEF LeaveOut
    <3>2. ASSUME NEW s \in Services, s \in rows, ToVisit(s)
          PROVE  DeviceOf[s] = d \/ ToVisit(s)'
      BY <2>1, <3>2, VisitReads, NoIdIsNoDevice DEF Matching, ServicesOf
    <3>3. \A s \in Services : DeviceOf[s] = d => Unread(s)'
      BY <3>1, UnreadAfter
    <3>4. \A i \in Parts : DeviceOf[ServiceOf[i]] = d => Unread(i)'
      BY <3>1, UnreadAfter
    <3> QED
      BY <1>0, <1>1, <2>1, <3>1, <3>2, <3>3, <3>4 DEF ListMisses
  <2>3. CASE cur' = Matching(d) \cap rows /\ kinds' = (IF cur' = {} THEN <<>> ELSE Preloads) /\ got' = got
    <3>1. \A s \in Services : s \in rows /\ ToVisit(s) => s \in cur' \/ ToVisit(s)'
      BY <2>1, <2>3, VisitReads
    <3>2. \A s \in cur', i \in Parts : KindOf[i] \in Left(kinds')
      BY <2>3, LeftIs, ReadsAssumption
    <3> QED
      BY <1>0, <1>1, <2>1, <2>3, <3>1, <3>2 DEF ListMisses
  <2> QED
    BY <1>2, <2>2, <2>3 DEF ReadServices
<1>3. CASE Preload
  <2>1. /\ kinds # <<>> /\ UNCHANGED todo
        /\ (\E k \in Kinds : PreloadOf(k) \/ PreloadEnds(k)) \/ LeaveOut(cur)
    BY <1>3, PreloadEffect DEF Shape, TypeOK
  <2>2. \A s : ToVisit(s) => ToVisit(s)'
    BY <2>1, ToVisitStays
  <2>3. ASSUME NEW k,
               NEW i \in Parts \cap kept, ServiceOf[i] \in cur, KindOf[i] = k
        PROVE  i \in Read(k)
    BY <1>1, <2>3 DEF Read, PartsOf
  <2>4. ASSUME NEW k, PreloadOf(k) PROVE ListMisses'
    <3>1. cur' = Read(k) /\ got' = got /\ cur \subseteq cur'
          /\ \A j \in Left(kinds) : j \in Left(kinds') \/ j = k
      BY <2>4 DEF PreloadOf, Read
    <3> QED
      BY <1>0, <1>1, <2>2, <2>3, <3>1 DEF ListMisses
  <2>5. ASSUME NEW k, PreloadEnds(k) PROVE ListMisses'
    <3>1. got' = got \cup Read(k) /\ cur \subseteq Read(k) /\ \A j \in Left(kinds) : j = k
      BY <2>5 DEF PreloadEnds, Read
    <3> QED
      BY <1>0, <1>1, <2>2, <2>3, <3>1 DEF ListMisses
  <2>6. CASE LeaveOut(cur)
    <3>1. cur' = {} /\ got' = got /\ cur \subseteq failed'
      BY <2>6 DEF LeaveOut
    <3>2. \A s \in Services : s \in cur => Unread(s)'
      BY <3>1, UnreadAfter
    <3>3. \A i \in Parts : i \in cur \/ ServiceOf[i] \in cur => Unread(i)'
      BY <3>1, UnreadAfter
    <3> QED
      BY <1>0, <1>1, <2>2, <3>1, <3>2, <3>3 DEF ListMisses
  <2> QED
    BY <2>1, <2>4, <2>5, <2>6
<1> QED
  BY <1>0, <1>2, <1>3 DEF Step, GetPropertyModelByPropertyId, GetEventModelByEventId,
     GetServiceModelByServiceModelId, ListDevices, IsExistInstance, GetEventInstanceByServiceId, Ask,
     LoopEnds, Answer

\* The loop of the checks: a service stays to be asked until its parts are counted.
LEMMA CheckLoop ==
  ASSUME Shape, CheckMisses, Step, pc = "loop", pc' = "loop", IsCheck
  PROVE  CheckMisses'
<1>0. /\ UNCHANGED <<rows, what, arg, wanted, kept, seen>> /\ Uses(arg)' = Uses(arg)
      /\ what \notin {"group", "device", "events"} /\ KindOf[arg] = what
  BY StepKeeps, UsesStays DEF Shape, TypeOK, IsCheck
<1>1. \A i \in Uses(arg) \cap kept :
        /\ i \in Parts /\ i \in rows /\ ServiceOf[i] \in rows /\ ServiceOf[i] \in Services
        /\ Asking(ServiceOf[i]) \/ Unread(i)'
  BY <1>0, StepKeeps, UnreadStays, ParentsStay, AboveIs DEF Uses, CheckMisses
<1> DEFINE Goal == \A i \in Uses(arg) \cap kept : Asking(ServiceOf[i])' \/ Unread(i)'
<1>2. Goal => CheckMisses'
  <2>1. ASSUME NEW i PROVE Asking(ServiceOf[i])' <=> (ServiceOf[i] \in cur' \cup open' \/ ToVisit(ServiceOf[i])')
    BY DEF Asking
  <2> QED
    BY <1>0, <2>1 DEF CheckMisses, Asking
<1> SUFFICES ASSUME NEW i \in Uses(arg) \cap kept, Asking(ServiceOf[i])
             PROVE  ServiceOf[i] \in cur' \cup open' \/ ToVisit(ServiceOf[i])' \/ Unread(i)'
  BY <1>1, <1>2 DEF Asking
<1> DEFINE s == ServiceOf[i]
<1>3. i \in Parts /\ i \in rows /\ s \in rows /\ s \in Services /\ (s \in cur \cup open \/ ToVisit(s))
  BY <1>1 DEF Asking
<1> HIDE DEF Goal, s
<1>4. ASSUME NEW d \in Devices \cup {NoId}, ReadServices(d) PROVE s \in cur' \/ ToVisit(s)' \/ Unread(i)'
  <2>1. /\ d \in todo /\ todo' = todo \ {d} /\ cur = {} /\ open = {} /\ d \in Devices
    BY <1>0, <1>4 DEF ReadServices, Shape, Places
  <2>2. s \in Matching(d) \cap rows \/ ToVisit(s)'
    BY <1>3, <2>1, VisitReads
  <2>3. CASE LeaveOut({d})
    <3>1. d \in failed'
      BY <2>3 DEF LeaveOut
    <3>2. s \in Matching(d) => DeviceOf[s] = d
      BY <2>1, NoIdIsNoDevice DEF Matching, ServicesOf
    <3>3. s \in Matching(d) => Unread(i)'
      BY <1>3, <3>1, <3>2, UnreadAfter DEF s
    <3> QED
      BY <2>2, <3>3
  <2> QED
    BY <1>4, <2>2, <2>3 DEF ReadServices
<1>5. CASE Preload
  <2>1. /\ kinds # <<>> /\ UNCHANGED todo
        /\ (\E k \in Kinds : PreloadOf(k) \/ PreloadEnds(k)) \/ LeaveOut(cur)
    BY <1>5, PreloadEffect DEF Shape, TypeOK
  <2>2. open = {} /\ (ToVisit(s) => ToVisit(s)')
    BY <2>1, ToVisitStays DEF Shape, Places
  <2>3. ASSUME NEW k, PreloadOf(k) PROVE s \in cur \/ ToVisit(s) => s \in cur' \/ ToVisit(s)'
    BY <2>2, <2>3 DEF PreloadOf, Read
  <2>4. ASSUME NEW k, PreloadEnds(k) PROVE s \in cur \/ ToVisit(s) => s \in open' \/ ToVisit(s)'
    BY <1>0, <1>3, <2>2, <2>4 DEF PreloadEnds
  <2>5. ASSUME LeaveOut(cur), s \in cur PROVE Unread(i)'
    BY <1>3, <2>5, UnreadAfter DEF LeaveOut, s
  <2> QED
    BY <1>3, <2>1, <2>2, <2>3, <2>4, <2>5 DEF s
<1>6. ASSUME NEW t \in Services, IsExistInstance(t) PROVE s \in cur' \cup open' \/ ToVisit(s)' \/ Unread(i)'
  <2>1. open' = open \ {t} /\ UNCHANGED <<todo, cur>>
    BY <1>6 DEF IsExistInstance, Ask
  <2>2. CASE Counted(t, what, NameOf[arg]) \cap rows = {}
    <3>1. s # t
      BY <1>0, <1>3, <2>2 DEF Counted, PartsOf, Uses, s
    <3> QED
      BY <1>3, <2>1, <3>1, ToVisitStays
  <2>3. CASE Unanswered(t)
    <3>1. s = t => Unread(i)'
      BY <1>3, <2>3, UnreadAfter DEF Unanswered, s
    <3> QED
      BY <1>3, <2>1, <3>1, ToVisitStays
  <2> QED
    BY <1>6, <2>2, <2>3 DEF IsExistInstance, Answer
<1> QED
  BY <1>0, <1>4, <1>5, <1>6 DEF Step, GetPropertyModelByPropertyId, GetEventModelByEventId,
     GetServiceModelByServiceModelId, ListDevices, GetEventInstanceByServiceId, LoopEnds, Answer, s

\* The loop over the services of one device.
LEMMA EventLoop ==
  ASSUME Shape, EventMisses, Step, pc = "loop", pc' = "loop", what = "events"
  PROVE  EventMisses'
<1> DEFINE E == PartsOf(Matching(arg), {"event"})
<1>0. /\ UNCHANGED <<rows, what, arg, wanted, kept, seen>> /\ E' = E /\ ~ IsCheck
  BY StepKeeps, UsesStays DEF IsCheck
<1>1. \A i \in E \cap kept :
        /\ i \in Parts /\ i \in rows /\ ServiceOf[i] \in rows /\ ServiceOf[i] \in Services /\ KindOf[i] = "event"
        /\ i \in got \/ ServiceOf[i] \in cur \cup open \/ ToVisit(ServiceOf[i]) \/ Unread(i)'
  BY <1>0, StepKeeps, UnreadStays, ParentsStay, AboveIs DEF PartsOf, EventMisses, Asking
<1>2. (\A i \in E \cap kept :
         i \in got' \/ ServiceOf[i] \in cur' \cup open' \/ ToVisit(ServiceOf[i])' \/ Unread(i)') => EventMisses'
  BY <1>0 DEF EventMisses, Asking
<1> SUFFICES ASSUME NEW i \in E \cap kept, ~ Unread(i)'
             PROVE  i \in got' \/ ServiceOf[i] \in cur' \cup open' \/ ToVisit(ServiceOf[i])'
  BY <1>2
<1> DEFINE s == ServiceOf[i]
<1>3. /\ i \in Parts /\ i \in rows /\ s \in rows /\ s \in Services /\ KindOf[i] = "event"
      /\ i \in got \/ s \in cur \cup open \/ ToVisit(s)
  BY <1>1
<1> HIDE DEF E, s
<1>4. ASSUME NEW d \in Devices \cup {NoId}, ReadServices(d) PROVE i \in got' \/ s \in cur' \/ ToVisit(s)'
  <2>1. d \in todo /\ todo' = todo \ {d} /\ cur = {} /\ open = {} /\ got' = got
    BY <1>4 DEF ReadServices, LeaveOut, Shape, Places
  <2>2. ToVisit(s) => s \in Matching(d) \cap rows \/ ToVisit(s)'
    BY <1>3, <2>1, VisitReads
  <2>3. cur' = Matching(d) \cap rows
    BY <1>4 DEF ReadServices, LeaveOut, Answer
  <2> QED
    BY <1>3, <2>1, <2>2, <2>3
<1>5. CASE Preload
  <2>1. /\ kinds # <<>> /\ UNCHANGED todo
        /\ (\E k \in Kinds : PreloadOf(k) \/ PreloadEnds(k)) \/ LeaveOut(cur)
    BY <1>5, PreloadEffect DEF Shape, TypeOK
  <2>2. open = {} /\ (ToVisit(s) => ToVisit(s)')
    BY <2>1, ToVisitStays DEF Shape, Places
  <2>3. ASSUME NEW k, PreloadOf(k) PROVE got' = got /\ cur \subseteq cur'
    BY <2>3 DEF PreloadOf, Read
  <2>4. ASSUME NEW k, PreloadEnds(k) PROVE got' = got /\ (s \in cur => s \in open')
    BY <1>0, <1>3, <2>4 DEF PreloadEnds
  <2>5. ~ LeaveOut(cur)
    BY DEF LeaveOut, Answer
  <2> QED
    BY <1>3, <2>1, <2>2, <2>3, <2>4, <2>5 DEF s
<1>6. ASSUME NEW t \in Services, GetEventInstanceByServiceId(t)
      PROVE  i \in got' \/ s \in cur' \cup open' \/ ToVisit(s)'
  <2>1. open' = open \ {t} /\ UNCHANGED <<todo, cur>> /\ got \subseteq got'
    BY <1>6 DEF GetEventInstanceByServiceId, Ask, Unanswered
  <2>2. s = t => i \in got'
    <3>1. CASE got' = got \cup (PartsOf({t}, {"event"}) \cap rows)
      BY <1>3, <3>1 DEF PartsOf, s
    <3>2. CASE Unanswered(t)
      <4>1. s = t => Unread(i)'
        BY <1>3, <3>2, UnreadAfter DEF Unanswered, s
      <4> QED
        BY <4>1
    <3> QED
      BY <1>6, <3>1, <3>2 DEF GetEventInstanceByServiceId
  <2> QED
    BY <1>3, <2>1, <2>2, ToVisitStays
<1> QED
  BY <1>0, <1>4, <1>5, <1>6 DEF Step, GetPropertyModelByPropertyId, GetEventModelByEventId,
     GetServiceModelByServiceModelId, ListDevices, IsExistInstance, LoopEnds, Answer, s

\* The loop starts with the devices that are there.
LEMMA LoopStarts ==
  ASSUME Shape, ListDevices, Step, pc' = "loop"
  PROVE  ListMisses' /\ ProtocolMisses' /\ CheckMisses'
<1>1. /\ UNCHANGED <<rows, what, arg, wanted, kept, seen>> /\ Uses(arg)' = Uses(arg) /\ pc = "list"
  BY StepKeeps, UsesStays DEF ListDevices
<1>2. /\ todo' = IF what = "protocols" THEN {} ELSE rows \cap wanted
      /\ got' = IF IsCheck THEN {} ELSE rows \cap wanted
  BY DEF ListDevices, Answer
<1>3. \A x \in kept : /\ x \in rows
                      /\ x \in Services => DeviceOf[x] \in rows
                      /\ x \in Parts => ServiceOf[x] \in rows /\ DeviceOf[ServiceOf[x]] \in rows
  BY <1>1, ParentsStay
<1>4. ASSUME NEW s \in Services, DeviceOf[s] \in rows \cap wanted, what # "protocols" PROVE ToVisit(s)'
  <2>1. DeviceOf[s] \in todo' /\ s \in Matching(DeviceOf[s])'
    BY <1>2, <1>4, AboveIs, NoIdIsNoDevice DEF Matching, ServicesOf
  <2> QED
    BY <2>1 DEF ToVisit
<1>5. ListMisses'
  BY <1>1, <1>2, <1>3, <1>4, AboveIs DEF ListMisses, IsCheck
<1>6. ProtocolMisses'
  BY <1>1, <1>2, <1>3 DEF ProtocolMisses, IsCheck
<1>7. CheckMisses'
  <2>1. ASSUME IsCheck, NEW i \in Uses(arg) \cap kept PROVE ToVisit(ServiceOf[i])'
    <3>1. DeviceOf[ServiceOf[i]] \in wanted
      BY <2>1 DEF Uses, Shape, Places
    <3>2. ServiceOf[i] \in Services /\ DeviceOf[ServiceOf[i]] \in rows
      BY <1>3, AboveIs DEF Uses
    <3> QED
      BY <1>4, <2>1, <3>1, <3>2 DEF IsCheck
  <2> QED
    BY <1>1, <2>1 DEF CheckMisses, Asking, IsCheck
<1> QED
  BY <1>5, <1>6, <1>7

\* The loop over events starts with the one device, whether it is there or not.
LEMMA EventsStart ==
  ASSUME Begin
  PROVE  pc = "idle" /\ pc' # "done" /\ failed' = failed
         /\ (pc' = "loop" => what' = "events" /\ EventMisses')
<1>1. PICK w, a, D, p :
        /\ Call(w, a, D, p)
        /\ w \in {"property", "event", "group", "protocols", "device", "events"}
        /\ w \in {"property", "event"} => a \in PartModels /\ KindOf[a] = w /\ D = DevicesOfModel(a) /\ p = "part"
        /\ w \in {"group", "protocols"} => a = NoId /\ D \subseteq Devices /\ p = "list"
        /\ w = "device" => a \in Devices \cup {NoId} /\ D = {a} /\ p = "list"
        /\ w = "events" => a \in Devices \cup {NoId} /\ D = {} /\ p = "loop"
  BY Begins
<1>2. ASSUME pc' = "loop" PROVE what' = "events" /\ todo' = {arg'}
  BY <1>1, <1>2 DEF Call
<1>3. ASSUME pc' = "loop", NEW i \in PartsOf(Matching(arg), {"event"})' PROVE Asking(ServiceOf[i])'
  BY <1>2, <1>3 DEF Asking, ToVisit, PartsOf, Matching
<1> QED
  BY <1>1, <1>2, <1>3 DEF Call, EventMisses

\* What the call was asked for are devices, services and parts.
LEMMA AskedRows == ASSUME Shape, NEW x \in Asked, x \in kept, pc # "idle"
                   PROVE  /\ x \in Devices \cup Services \cup Parts
                          /\ what = "events" => x \in Parts
<1>1. wanted \subseteq Devices \cup {NoId} /\ x \in Rows /\ NoId \notin Rows
  BY ReadsAssumption DEF Shape, TypeOK, Table
<1>2. ASSUME NEW S, NEW y \in Below(S), S \subseteq Devices \cup Services \cup {NoId} PROVE y \in Services \cup Parts
  <2>1. y \in Rows /\ Above(y) \cap S # {}
    BY <1>2 DEF Below
  <2>2. y \notin Devices \cup ServiceModels
    BY <2>1, AboveIs
  <2>3. y \notin PartModels
    <3>1. ServiceModels \cap (Devices \cup Services \cup {NoId}) = {}
      BY ReadsAssumption DEF Rows
    <3> QED
      BY <1>2, <2>1, <3>1, AboveIs
  <2> QED
    BY <2>1, <2>2, <2>3 DEF Rows
<1>3. Below(wanted) \subseteq Services
  <2>1. ASSUME NEW y \in Below(wanted) PROVE y \notin Parts
    <3>1. Above(y) \cap wanted # {}
      BY DEF Below
    <3>2. Services \cap (Devices \cup {NoId}) = {}
      BY ReadsAssumption DEF Rows
    <3> QED
      BY <1>1, <3>1, <3>2, AboveIs
  <2> QED
    BY <1>1, <1>2, <2>1
<1>4. Below(Below(wanted)) \subseteq Services \cup Parts
  BY <1>2, <1>3
<1> QED
  BY <1>1, <1>3, <1>4 DEF Asked, PartsOf

\* The call ends, and all that was there all the time is found or was not read.
LEMMA EndTells ==
  ASSUME Shape, Finds, Misses, Step, pc' = "done"
  PROVE  NothingMissed'
<1>0. /\ UNCHANGED <<rows, what, arg, wanted, kept, seen>> /\ Uses(arg)' = Uses(arg)
      /\ Asked' = Asked /\ failed \subseteq failed'
      /\ pc \notin {"idle", "done"}
  <2>1. pc \notin {"idle", "done"}
    BY Ended DEF Next, Shape, Places, Step, GetPropertyModelByPropertyId, GetEventModelByEventId,
       GetServiceModelByServiceModelId, ListDevices, ReadServices, Preload, IsExistInstance,
       GetEventInstanceByServiceId, Ask, LoopEnds
  <2> QED
    BY <2>1, StepKeeps, UsesStays, AskedStays
<1> DEFINE Missed == {i \in Uses(arg) \cap kept : ~ Unread(i)'}
           NoModel == what = "property" /\ ~ {arg, ServiceModelOf[arg]} \subseteq kept \ failed'
           Lost == {x \in Asked \cap kept :
                      ~ (x \in got' \/ (Unread(x)' /\ (x \in Devices => what = "protocols")))}
<1>1. SUFFICES /\ answer' = "no" => Missed = {} \/ NoModel
               /\ answer' = "list" => Lost = {} /\ (what = "device" => failed' = {})
  <2>1. ASSUME Missed = {} \/ NoModel, NEW i \in Uses(arg)' \cap kept'
        PROVE  Unread(i)' \/ (what' = "property" /\ ~ {arg', ServiceModelOf[arg']} \subseteq kept' \ failed')
    BY <1>0, <2>1
  <2>2. ASSUME Lost = {}, NEW x \in Asked' \cap kept'
        PROVE  x \in got' \/ (Unread(x)' /\ (x \in Devices => what' = "protocols"))
    BY <1>0, <2>2
  <2> HIDE DEF Missed, NoModel, Lost
  <2>3. ASSUME answer' = "no"
        PROVE  \A i \in Uses(arg)' \cap kept' :
                 Unread(i)' \/ (what' = "property" /\ ~ {arg', ServiceModelOf[arg']} \subseteq kept' \ failed')
    BY <1>1, <2>1, <2>3
  <2>4. ASSUME answer' = "list"
        PROVE  /\ \A x \in Asked' \cap kept' : x \in got' \/ (Unread(x)' /\ (x \in Devices => what' = "protocols"))
               /\ what' = "device" => failed' = {}
    BY <1>0, <1>1, <2>2, <2>4
  <2> QED
    BY <2>3, <2>4 DEF NothingMissed
<1>2. ASSUME NEW x, NEW p \in {"model", "list"}, FirstOf(x, p), pc \in {"part", "model"},
             x \in {arg, ServiceModelOf[arg]}
      PROVE  (answer' = "no" /\ NoModel) \/ answer' = "error"
  <2>1. IsCheck /\ (x \notin rows \/ x \in failed') /\ answer' = Refusal
    BY <1>2 DEF Shape, Places, FirstOf, Answer
  <2>2. kept \subseteq rows
    BY <1>0 DEF Shape, Table
  <2> QED
    BY <1>2, <2>1, <2>2 DEF Refusal, IsCheck
<1>3. ASSUME ListDevices PROVE \/ answer' = "no" /\ Missed = {}
                               \/ answer' = "list" /\ what = "protocols" /\ Lost = {}
                               \/ answer' = "error"
  <2>1. \/ answer' = "error"
        \/ answer' = Refusal /\ failed' = failed \cup wanted
    BY <1>3 DEF ListDevices, Answer
  <2>2. CASE answer' = "no" /\ what = "property" /\ failed' = failed \cup wanted
    <3>1. ASSUME NEW i \in Uses(arg) PROVE Unread(i)'
      <4>1. i \in Parts /\ DeviceOf[ServiceOf[i]] \in failed'
        BY <2>2 DEF Uses, Shape, Places, IsCheck
      <4> QED
        BY <4>1, UnreadAfter
    <3> QED
      BY <2>2, <3>1
  <2>3. CASE answer' = "list" /\ what = "protocols" /\ failed' = failed \cup wanted
    <3>1. ASSUME NEW x \in Asked PROVE Unread(x)'
      <4>1. x \in Devices /\ x \in failed'
        BY <2>3 DEF Asked, Shape, Places
      <4> QED
        BY <4>1, UnreadAfter
    <3> QED
      BY <2>3, <3>1
  <2> QED
    BY <2>1, <2>2, <2>3 DEF Refusal
<1>4. ASSUME NEW X, LeaveOut(X), pc = "loop" PROVE answer' = "error"
  BY <1>4 DEF LeaveOut, Answer
<1>5. ASSUME LoopEnds, IsCheck PROVE answer' = "no" /\ Missed = {}
  <2>1. pc = "loop" /\ todo = {} /\ kinds = <<>> /\ open = {} /\ cur = {} /\ answer' = "no"
    BY <1>5 DEF LoopEnds, Answer, Shape, Places
  <2>2. \A i \in Uses(arg) \cap kept : Unread(i)
    BY <1>5, <2>1 DEF Misses, CheckMisses, Asking, ToVisit
  <2> QED
    BY <1>0, <2>1, <2>2, UnreadStays
<1>6. ASSUME LoopEnds, ~ IsCheck
      PROVE  answer' = "list" /\ Lost = {} /\ (what = "device" => failed' = {})
  <2>1. /\ pc = "loop" /\ todo = {} /\ kinds = <<>> /\ open = {} /\ cur = {} /\ answer' = "list"
        /\ UNCHANGED <<failed, got>>
    BY <1>6 DEF LoopEnds, Answer, Shape, Places
  <2>2. what = "device" => failed' = {}
    BY <2>1 DEF Misses, DeviceIsWhole
  <2>3. ASSUME NEW x \in Asked \cap kept
        PROVE  x \in got \/ (Unread(x) /\ (x \in Devices => what = "protocols"))
    <3>1. x \in Devices \cup Services \cup Parts
      BY <1>0, <2>3, AskedRows
    <3>2. CASE what = "events"
      <4>1. x \in Parts /\ x \notin Devices
        BY <1>0, <2>3, <3>2, AskedRows, ReadsAssumption
      <4>2. x \in got \/ Unread(x)
        BY <2>1, <2>3, <3>2 DEF Misses, EventMisses, Asking, ToVisit, Asked
      <4> QED
        BY <4>1, <4>2
    <3>3. CASE what = "protocols"
      BY <2>1, <2>3, <3>3 DEF Misses, ProtocolMisses, Asked
    <3>4. CASE what \in {"group", "device"}
      <4>1. /\ wanted \cap kept \subseteq got
            /\ \A s \in Services \cap kept : DeviceOf[s] \in wanted => s \in got \/ Unread(s)
            /\ \A i \in Parts \cap kept : DeviceOf[ServiceOf[i]] \in wanted => i \in got \/ Unread(i)
        BY <2>1, <3>4 DEF Misses, ListMisses, ToVisit
      <4>2. Devices \cap (Services \cup Parts) = {}
        BY ReadsAssumption
      <4>3. \/ x \in Devices /\ x \in wanted
            \/ x \in Services /\ DeviceOf[x] \in wanted
            \/ x \in Parts /\ DeviceOf[ServiceOf[x]] \in wanted
        BY <2>3, <3>1, <3>4, AskedIs
      <4> QED
        BY <2>3, <4>1, <4>2, <4>3
    <3> QED
      BY <1>6, <3>2, <3>3, <3>4 DEF Shape, TypeOK, IsCheck
  <2> QED
    BY <1>0, <2>1, <2>2, <2>3, UnreadStays
<1> HIDE DEF Missed, NoModel, Lost
<1>7. ASSUME NEW s \in Services, IsExistInstance(s) PROVE answer' = "yes"
  BY <1>7 DEF IsExistInstance, Ask, Unanswered, Answer
<1>8. ASSUME NEW s \in Services, GetEventInstanceByServiceId(s) PROVE FALSE
  BY <1>8 DEF GetEventInstanceByServiceId, Ask, Unanswered, Answer
<1>9. ASSUME Preload PROVE answer' = "error"
  <2>1. pc = "loop"
    BY <1>9 DEF Preload, Shape, Places
  <2> QED
    BY <1>4, <1>9, <2>1 DEF Preload, PreloadMore, PreloadLast
<1>10. ASSUME NEW d, ReadServices(d) PROVE answer' = "error"
  BY <1>4, <1>10 DEF ReadServices
<1>11. ASSUME \/ GetPropertyModelByPropertyId \/ GetEventModelByEventId \/ GetServiceModelByServiceModelId
       PROVE  (answer' = "no" /\ NoModel) \/ answer' = "error"
  BY <1>2, <1>11 DEF GetPropertyModelByPropertyId, GetEventModelByEventId, GetServiceModelByServiceModelId
<1> QED
  BY <1>3, <1>5, <1>6, <1>7, <1>8, <1>9, <1>10, <1>11 DEF Step

\* A statement of GetDeviceInstanceAllInfo that fails ends it.
LEMMA WholeStep == ASSUME Shape, DeviceIsWhole, Step PROVE DeviceIsWhole'
<1> SUFFICES ASSUME what = "device", pc' # "done" \/ answer' = "list" PROVE failed' = {}
  BY StepKeeps DEF DeviceIsWhole
<1>1. pc \notin {"part", "model"} /\ ~ IsCheck /\ Refusal = "error"
  BY DEF Shape, Places, IsCheck, Refusal
<1>2. pc # "done"
  BY Ended DEF Next
<1>3. failed = {}
  BY <1>2 DEF DeviceIsWhole
<1>4. ASSUME NEW X PROVE ~ LeaveOut(X)
  BY DEF LeaveOut, Answer
<1>5. ASSUME NEW d, ReadServices(d) PROVE failed' = failed
  BY <1>4, <1>5 DEF ReadServices
<1>6. ASSUME Preload PROVE failed' = failed
  BY <1>4, <1>6 DEF Preload, PreloadMore, PreloadLast
<1> QED
  BY <1>1, <1>3, <1>5, <1>6 DEF Step, GetPropertyModelByPropertyId, GetEventModelByEventId,
     GetServiceModelByServiceModelId, ListDevices, Answer, IsExistInstance, GetEventInstanceByServiceId, LoopEnds

\* Nothing that was there all the time is lost on the way.
LEMMA MissesStep == Shape /\ Finds /\ Misses /\ [Next]_vars => Misses'
<1> SUFFICES ASSUME Shape, Finds, Misses, [Next]_vars PROVE Misses'
  OBVIOUS
<1>1. CASE Begin
  <2>1. /\ pc = "idle" /\ pc' # "done" /\ failed' = {} /\ (pc' = "loop" => what' = "events" /\ EventMisses')
    BY <1>1, EventsStart DEF Shape, Places
  <2> QED
    BY <2>1 DEF Misses, ListMisses, ProtocolMisses, CheckMisses, EventMisses, DeviceIsWhole, NothingMissed, IsCheck
<1>2. CASE Step
  <2>1. /\ what' = what /\ IsCheck' = IsCheck
    BY <1>2, StepKeeps DEF IsCheck
  <2>2. DeviceIsWhole'
    BY <1>2, WholeStep DEF Misses
  <2>3. CASE pc' = "done"
    BY <1>2, <2>2, <2>3, EndTells DEF Misses, ListMisses, ProtocolMisses, CheckMisses, EventMisses
  <2>4. CASE pc' = "loop" /\ pc = "loop"
    <3>1. ListMisses'
      BY <1>2, <2>1, <2>4, ListLoop DEF Misses, ListMisses
    <3>2. ProtocolMisses'
      <4>1. ASSUME what = "protocols" PROVE UNCHANGED <<wanted, kept>> /\ got \subseteq got'
        BY <1>2, <2>4, <4>1, StepKeeps DEF Step, GetPropertyModelByPropertyId, GetEventModelByEventId,
           GetServiceModelByServiceModelId, ListDevices, ReadServices, LeaveOut, Preload, PreloadMore,
           PreloadLast, IsExistInstance, GetEventInstanceByServiceId, LoopEnds, Unanswered
      <4> QED
        BY <2>1, <2>4, <4>1 DEF Misses, ProtocolMisses
    <3>3. CheckMisses'
      BY <1>2, <2>1, <2>4, CheckLoop DEF Misses, CheckMisses
    <3>4. EventMisses'
      BY <1>2, <2>1, <2>4, EventLoop DEF Misses, EventMisses
    <3> QED
      BY <2>2, <2>4, <3>1, <3>2, <3>3, <3>4 DEF Misses, NothingMissed
  <2>5. CASE pc' = "loop" /\ pc # "loop"
    <3>1. ListDevices
      BY <1>2, <2>5 DEF Step, GetPropertyModelByPropertyId, GetEventModelByEventId,
         GetServiceModelByServiceModelId, FirstOf, Answer, ReadServices, Preload, Shape, Places,
         IsExistInstance, GetEventInstanceByServiceId, Ask, LoopEnds
    <3>2. EventMisses'
      BY <2>1, <3>1 DEF EventMisses, ListDevices, Shape, Places
    <3> QED
      BY <1>2, <2>2, <2>5, <3>1, <3>2, LoopStarts DEF Misses, NothingMissed
  <2>6. CASE pc' \notin {"done", "loop"}
    BY <2>2, <2>6 DEF Misses, ListMisses, ProtocolMisses, CheckMisses, EventMisses, NothingMissed
  <2> QED
    BY <2>3, <2>4, <2>5, <2>6
<1>3. ASSUME UNCHANGED <<pc, what, arg, wanted, todo, cur, kinds, open, got, answer, failed>>,
             kept' \subseteq kept, pc' = "done" => kept' = kept
      PROVE  Misses'
  <2>1. /\ \A x : Unread(x)' = Unread(x)
        /\ \A x : ToVisit(x)' = ToVisit(x)
        /\ \A x : Asking(x)' = Asking(x)
        /\ Uses(arg)' = Uses(arg) /\ Asked' = Asked /\ Left(kinds)' = Left(kinds)
        /\ PartsOf(Matching(arg), {"event"})' = PartsOf(Matching(arg), {"event"}) /\ IsCheck' = IsCheck
    BY <1>3, UsesStays, AskedStays
       DEF Unread, Above, ToVisit, Asking, Matching, ServicesOf, Left
  <2>2. ListMisses'
    BY <1>3, <2>1 DEF Misses, ListMisses, ToVisit, Unread, Above, Left, Matching, ServicesOf
  <2>3. ProtocolMisses' /\ DeviceIsWhole'
    BY <1>3 DEF Misses, ProtocolMisses, DeviceIsWhole
  <2>4. CheckMisses' /\ EventMisses'
    <3>1. \A x : Asking(x) => (x \in cur \cup open \/ ToVisit(x))'
      BY <1>3 DEF Asking, ToVisit, Matching, ServicesOf
    <3> QED
      BY <1>3, <2>1, <3>1 DEF Misses, CheckMisses, EventMisses, Asking, Unread, Above, ToVisit, Matching, ServicesOf
  <2>5. NothingMissed'
    BY <1>3, <2>1 DEF Misses, NothingMissed, Unread, Above
  <2> QED
    BY <2>2, <2>3, <2>4, <2>5 DEF Misses
<1>4. CASE Insert \/ Remove
  <2>1. PICK new : Write(new)
    BY <1>4, OthersWrite
  <2> QED
    BY <1>3, <2>1 DEF Write
<1>5. CASE UNCHANGED vars
  BY <1>3, <1>5 DEF vars, history
<1> QED
  BY <1>1, <1>2, <1>4, <1>5 DEF Next

\* The call that has not begun.
LEMMA InitHolds == Init => IInv
<1> SUFFICES ASSUME Init PROVE IInv
  OBVIOUS
<1>1. TypeOK
  <2>1. kinds \in Seq(Kinds)
    BY EmptySeq DEF Init
  <2> QED
    BY <2>1, ReadsAssumption DEF Init, TypeOK, IsCheck
<1>2. Table /\ Places
  BY DEF Init, Table, Places, IsCheck
<1>3. Finds /\ NothingInvented
  BY DEF Init, Finds, NothingInvented, Closed
<1>4. Misses
  BY DEF Init, Misses, ListMisses, ProtocolMisses, CheckMisses, EventMisses, DeviceIsWhole, NothingMissed
<1> QED
  BY <1>1, <1>2, <1>3, <1>4 DEF IInv, Shape

LEMMA Invariance == Spec => []IInv
<1>1. IInv /\ [Next]_vars => IInv'
  BY TypeStep, TableStep, PlacesStep, FindsStep, InventedStep, MissesStep DEF IInv, Shape
<1> QED
  BY InitHolds, <1>1, PTL DEF Spec

\* The variables keep their types, and a check looks at a part model of its kind
\* (IsExistPropertyInstanceByPropertyModelId, IsExistEventInstanceByEventModelId).
THEOREM TypeCorrect == Spec => []TypeOK
<1>1. IInv => TypeOK
  BY DEF IInv, Shape
<1> QED
  BY Invariance, <1>1, PTL

\* Whatever others write between the statements and however many of these fail,
\* what was there from the first to the last is found or a statement on the way to
\* it failed (the loops of GetAllDeviceInstancesV2 and of the checks of use that go
\* on, GetDeviceInstanceAllInfo and GetEventInstanceByDeviceId that do not).
THEOREM NothingIsMissed == Spec => []NothingMissed
<1>1. IInv => NothingMissed
  BY DEF IInv, Misses
<1> QED
  BY Invariance, <1>1, PTL

\* What the same functions return was there at some time of the call below a device
\* they were asked for, and no list of devices has a row without the one above it.
THEOREM NothingIsInvented == Spec => []NothingInvented
<1>1. IInv => NothingInvented
  BY DEF IInv
<1> QED
  BY Invariance, <1>1, PTL
=============================================================================

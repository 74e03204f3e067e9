---------------------------- MODULE DeviceAssembly ----------------------------
(***************************************************************************)
(* How a device gets its services: StoreExtensionConfig builds them from the *)
(* device model and the configuration of a request, in many statements       *)
(* without a transaction; CopyDeviceInstance copies a device that was read   *)
(* with its services, in one transaction.  Access configurations are updated *)
(* meanwhile and the process may end.                                        *)
(***************************************************************************)
EXTENDS Integers, Sequences, FiniteSets, FiniteSetsExt

CONSTANTS
  Source, Copied,  \* the device that is built, and its copy
  Labels,     \* names of services and parts
  Models,     \* device models: sequences of [name, parts], parts: kind -> names
  Requests,   \* requests: sequences of [name, config], config: names -> configs
  Attributes, \* of the device: [os, category, auth, secret, tags]
  Configs,    \* access configurations
  Blank,      \* the empty string
  MaxUpdates, \* bound: updates of an access configuration
  MaxFaults   \* bound: statements that fail

Kinds == <<"property", "event", "command">>

Settings == UNION {[S -> Configs] : S \in SUBSET Labels}
Wishes == [name : Labels, config : Settings]
Specs == [name : Labels, parts : [Range(Kinds) -> SUBSET Labels]]

ASSUME AssemblyAssumption ==
  /\ \A m \in Models : m \in Seq(Specs)
  /\ \A r \in Requests : r \in Seq(Wishes)
  /\ Source # Copied
  /\ MaxUpdates \in Nat /\ MaxFaults \in Nat

VARIABLES
  model,     \* the device model as it was read
  list,      \* ec.Services: [name, config, model (an index of model, or 0)]
  services,  \* rows of service_instance: [id, device, name]
  parts,     \* rows below a service: [service, kind, name, config]
  place,     \* where StoreExtensionConfig is
  pos, kind, \* the entry of the model, later of list, and the kind it is at
  copy,      \* CopyDeviceInstance and the reads before it
  attrs,     \* device -> its attributes, for the devices that are stored
  updates, faults,
  raced,     \* ghost: the source changed while it was read
  image      \* ghost: the source when the last read was done

assemblyVars ==
  <<model, list, services, parts, place, pos, kind, copy, attrs, updates, faults, raced, image>>
contents == <<services, parts>>
store == <<model, list, place, pos, kind>>
ghosts == <<raced, image>>

\* CopyDeviceInstance is between the first and the last of its reads.
Reading == copy.pc = "reading"
MayFault == faults < MaxFaults /\ faults' = faults + 1

\* The services of a device with their parts, apart from ids.
Tree(device, ss, ps) ==
  {[name |-> s.name, id |-> IF device = Source THEN s.id ELSE s.of,
    parts |-> {<<p.kind, p.name, p.config>> : p \in {q \in ps : q.service = s.id}}] :
   s \in {t \in ss : t.device = device}}
\* What was read may no longer be what is stored.
Changed == raced' = (raced \/ Reading)

-----------------------------------------------------------------------------
(* StoreExtensionConfig and StoreServiceSpec. *)

\* FindDeviceServiceSpec: the first entry of that name, or 0.
Find(name, l) == LET at == {j \in 1..Len(l) : l[j].name = name}
                 IN  IF at = {} THEN 0 ELSE Min(at)

\* Each service of the model is tied to the entry of its name, which is appended if
\* there is none: a later service of the same name takes the entry over.
LinkService ==
  /\ place = "link" /\ pos <= Len(model)
  /\ LET at == Find(model[pos].name, list)
     IN  list' = IF at = 0 THEN Append(list, [name |-> model[pos].name, config |-> <<>>, model |-> pos])
                 ELSE [list EXCEPT ![at].model = pos]
  /\ pos' = pos + 1
  /\ UNCHANGED <<model, contents, place, kind, copy, attrs, updates, faults, ghosts>>

\* One statement stores all services; gorm refuses to store none.
AddServices ==
  /\ place = "link" /\ pos > Len(model)
  /\ \/ /\ model # <<>>
        /\ services' = services \cup
             {[id |-> j, device |-> Source, name |-> model[j].name, of |-> j] : j \in 1..Len(model)}
        /\ place' = "specs" /\ pos' = 1
        /\ Changed /\ UNCHANGED faults
     \/ /\ model = <<>> /\ place' = "failed" /\ UNCHANGED <<services, pos, faults, raced>>
     \/ /\ MayFault /\ place' = "failed" /\ UNCHANGED <<services, pos, raced>>
  /\ UNCHANGED <<model, list, parts, kind, copy, attrs, updates, image>>

\* Deliberately wrong: the commands are forgotten; the loop runs past its end.
AdvanceTooSoon ==
  IF kind < 2 THEN kind' = kind + 1 /\ UNCHANGED <<pos, place>>
  ELSE kind' = 1 /\ pos' = pos + 1 /\ place' = IF pos = Len(list) THEN "done" ELSE place
AdvancePast ==
  IF kind < 3 THEN kind' = kind + 1 /\ UNCHANGED <<pos, place>>
  ELSE kind' = 1 /\ pos' = pos + 1 /\ place' = IF pos > Len(list) THEN "done" ELSE place

Advance ==
  IF kind < 3 THEN kind' = kind + 1 /\ UNCHANGED <<pos, place>>
  ELSE kind' = 1 /\ pos' = pos + 1 /\ place' = IF pos = Len(list) THEN "done" ELSE place

\* The parts of one kind, with the configuration of the request where it has one.
\* An entry that no service of the model was tied to has no model to look at.
StoreSpec ==
  /\ place = "specs"
  /\ LET at == list[pos].model
         names == model[at].parts[Kinds[kind]]
         new == {[service |-> at, kind |-> Kinds[kind], name |-> n,
                  config |-> IF n \in DOMAIN list[pos].config THEN list[pos].config[n] ELSE Blank] :
                 n \in names}
     IN  \/ /\ at = 0 /\ place' = "panicked" /\ UNCHANGED <<parts, pos, kind, faults, raced>>
         \/ /\ at # 0 /\ parts' = parts \cup new
            /\ (IF names = {} THEN UNCHANGED raced ELSE Changed)
            /\ Advance /\ UNCHANGED faults
         \/ /\ at # 0 /\ names # {} /\ MayFault
            /\ place' = "failed" /\ UNCHANGED <<parts, pos, kind, raced>>
  /\ UNCHANGED <<model, list, services, copy, attrs, updates, image>>

\* UpdatePropertyAccessConfig: by service and name.
UpdateConfig(s, n, c) ==
  /\ updates < MaxUpdates /\ updates' = updates + 1
  /\ \E p \in parts : p.service = s /\ p.name = n /\ p.kind = "property"
  /\ parts' = {IF p.service = s /\ p.name = n /\ p.kind = "property"
               THEN [p EXCEPT !.config = c] ELSE p : p \in parts}
  /\ Changed
  /\ UNCHANGED <<store, services, copy, attrs, faults, image>>

-----------------------------------------------------------------------------
(* GetServiceInstanceByDeviceID and CopyDeviceInstance. *)

ReadServices ==
  /\ copy.pc = "idle"
  /\ copy' = [pc |-> "reading", at |-> 1, services |-> {s \in services : s.device = Source},
              parts |-> {}]
  /\ raced' = FALSE
  /\ UNCHANGED <<contents, store, attrs, updates, faults, image>>

\* Preload: the parts of one kind of the services that were read.
Preload ==
  /\ Reading
  /\ copy' = [copy EXCEPT !.at = @ + 1,
       !.parts = @ \cup {p \in parts : /\ p.kind = Kinds[copy.at]
                                       /\ \E s \in copy.services : s.id = p.service},
       !.pc = IF copy.at = 3 THEN "copying" ELSE @]
  /\ image' = IF copy.at = 3 THEN Tree(Source, services, parts) ELSE image
  /\ UNCHANGED <<contents, store, attrs, updates, faults, raced>>

\* Deliberately wrong: one id for all services of the copy.
OneId(id) == Len(model) + 1

\* The copy's services get ids of their own: here, after those of the source.
NewId(id) == Len(model) + id

\* Attributes of the copy; status and state start anew.
CopyAttributes(a) ==
  [os |-> a.os, category |-> a.os, auth |-> a.auth, secret |-> a.auth, tags |-> Blank]

CopiedService(s) == [id |-> NewId(s.id), device |-> Copied, name |-> s.name, of |-> s.id]
CopiedPart(p) == [p EXCEPT !.service = NewId(p.service)]

\* AddDeviceInstanceAll: five inserts in a transaction, of rows nobody knows yet.
CopyDeviceInstance ==
  /\ copy.pc = "copying"
  /\ \/ /\ services' = services \cup {CopiedService(s) : s \in copy.services}
        /\ parts' = parts \cup {CopiedPart(p) : p \in copy.parts}
        /\ attrs' = [d \in {Source, Copied} |-> IF d = Source THEN attrs[d]
                                              ELSE CopyAttributes(attrs[Source])]
        /\ copy' = [copy EXCEPT !.pc = "done"] /\ UNCHANGED faults
     \* an insert fails, or Commit does and its error is dropped
     \/ /\ MayFault
        /\ \E end \in {"failed", "done"} : copy' = [copy EXCEPT !.pc = end]
        /\ UNCHANGED <<contents, attrs>>
  /\ UNCHANGED <<store, updates, ghosts>>

\* The process ends; the transaction of the copy is rolled back.
ProcessEnds ==
  /\ MayFault
  /\ place' = IF place \in {"done", "failed", "panicked"} THEN place ELSE "failed"
  /\ copy' = [copy EXCEPT !.pc = IF @ \in {"done", "failed"} THEN @ ELSE "failed"]
  /\ UNCHANGED <<model, list, pos, kind, contents, attrs, updates, ghosts>>

AssemblyInit ==
  /\ model \in Models
  /\ \E r \in Requests : list = [j \in 1..Len(r) |->
                                   [name |-> r[j].name, config |-> r[j].config, model |-> 0]]
  /\ services = {} /\ parts = {}
  /\ place = "link" /\ pos = 1 /\ kind = 1
  /\ copy = [pc |-> "idle", at |-> 0, services |-> {}, parts |-> {}]
  /\ \E a \in Attributes : attrs = [d \in {Source} |-> a]
  /\ updates = 0 /\ faults = 0 /\ raced = FALSE /\ image = {}

AssemblyNext ==
  \/ LinkService \/ AddServices \/ StoreSpec
  \/ \E p \in parts, c \in Configs : UpdateConfig(p.service, p.name, c)
  \/ ReadServices \/ Preload \/ CopyDeviceInstance
  \/ ProcessEnds

AssemblySpec == AssemblyInit /\ [][AssemblyNext]_assemblyVars

-----------------------------------------------------------------------------
(* Properties. *)

\* The loops stay within their lists and every part belongs to a stored service.
AssemblyTypeOK ==
  /\ place \in {"link", "specs", "done", "failed", "panicked"}
  /\ place = "link" => pos \in 1..Len(model) + 1
  /\ place = "specs" => pos \in 1..Len(list) /\ kind \in 1..3
  /\ copy.pc \in {"idle", "reading", "copying", "done", "failed"}
  /\ \A p \in parts : p.kind \in Range(Kinds) /\ \E s \in services : s.id = p.service

\* StoreExtensionConfig that returns nil has stored every part of every service
\* of the model, with the configuration of the request's first entry for that
\* service, and nothing else; a service whose name a later one has stays empty.
AssembledWhenDone ==
  place = "done" => \A j \in 1..Len(model) :
     LET later == \E l \in j + 1..Len(model) : model[l].name = model[j].name
         stored == {<<p.kind, p.name>> : p \in {q \in parts : q.service = j}}
         asked == UNION {{<<kd, n>> : n \in model[j].parts[kd]} : kd \in Range(Kinds)}
         entry == list[Find(model[j].name, list)].config
     IN  /\ stored = IF later THEN {} ELSE asked
         /\ updates = 0 => \A p \in parts : p.service = j =>
               p.config = IF p.name \in DOMAIN entry THEN entry[p.name] ELSE Blank

\* It stops short only for a statement that failed, a model without services, or
\* (a nil pointer) an entry of the request that no service of the model matches
\* or that repeats the name of one before it.
StopsForAReason ==
  /\ place = "failed" => faults > 0 \/ model = <<>>
  /\ place = "panicked" => \/ \A j \in 1..Len(model) : model[j].name # list[pos].name
                           \/ Find(list[pos].name, list) < pos

\* How StoreExtensionConfig ends tells what it has stored, or why not.
EndTellsTruth == AssembledWhenDone /\ StopsForAReason

\* CopyDeviceInstance stores all that was read under ids of its own, or nothing
\* if a statement failed; the copy has the services, parts and configurations the
\* source had, unless the source changed between the reads.
FaithfulCopy ==
  [][ copy.pc # "done" /\ copy'.pc = "done" =>
        IF Copied \in DOMAIN attrs'
        THEN raced \/ Tree(Copied, services', parts') = image
        ELSE faults' > 0 /\ Tree(Copied, services', parts') = {} ]_assemblyVars

\* "copy sub device to other edge" (device_instance_types.go:411): what describes
\* the device is the same for the copy.
CopyKeepsAttributes ==
  Copied \in DOMAIN attrs => attrs[Copied] = attrs[Source]
=============================================================================

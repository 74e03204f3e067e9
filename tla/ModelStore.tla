------------------------------ MODULE ModelStore ------------------------------
(***************************************************************************)
(* Device models: the rows device_model <- service_model <- property, event *)
(* and command_model (one kind, "part", here).  AddAllDeviceModel stores a  *)
(* model in many statements, only the parts of one service in a             *)
(* transaction; DeleteDeviceModel removes a model in one transaction;       *)
(* UpdateDeviceModelName renames it; single services and parts are added,    *)
(* saved and deleted, and devices of a model come and go.  Several of them   *)
(* run at once on a database with row locks, foreign keys (those of          *)
(* service_model and device_instance refer to the model) and a unique index  *)
(* on the name of a model.                                                   *)
(***************************************************************************)
EXTENDS Naturals, Sequences, FiniteSets

CONSTANTS
  Adders,      \* concurrent calls of AddAllDeviceModel
  Names,       \* names of device models
  NameOf,      \* the name each adder asks for
  Wanted,      \* the services each adder stores: a sequence of [name, parts]
  RowNames,    \* names of the services and parts that others add and save
  Empty,       \* the empty string as the name of a service or part
  Gone,        \* the name of a model that is not stored
  MaxModels,   \* bound: models ever created
  MaxDeletes,  \* bound: calls of DeleteDeviceModel, one after the other
  MaxOthers,   \* bound: statements of others: renames, services and parts stored
  MaxErased,   \* bound: services and parts that others delete
  MaxFaults,   \* bound: calls in which statements fail for reasons of their own
  Deleter,     \* the caller of DeleteDeviceModel
  Others,      \* whoever changes one row at a time
  Device       \* stands for a device that uses a model

Labels == RowNames \cup {Empty}

ASSUME RequestAssumption ==
  /\ NameOf \in [Adders -> Names]
  /\ Gone \notin Names /\ Deleter \notin Adders /\ Others \notin Adders \cup {Deleter}
  /\ Device \notin Adders \cup {Others}
  /\ Wanted \in [Adders -> Seq([name : Labels, parts : Seq(Labels)])]
  /\ MaxModels \in Nat /\ MaxDeletes \in Nat /\ MaxOthers \in Nat /\ MaxErased \in Nat /\ MaxFaults \in Nat

VARIABLES
  models,     \* id -> name, or Gone: committed rows of device_model
  services,   \* committed rows of service_model: [id, model, name, by]
  parts,      \* committed rows below a service: [service, name, by], by: who stored or
              \* saved it (ghost), and a number
  users,      \* id -> how many committed rows of device_instance are of the model
  lastModel,  \* auto_increment of device_model
  lastService,\* auto_increment of service_model
  adder,      \* the local state of every AddAllDeviceModel
  deleter,    \* the local state of DeleteDeviceModel; busy (ghost): the calls it
              \* overlaps, and Device if a device used the model when it began
  others,     \* statements of others so far, but for deletes
  erased,     \* deletes of others so far
  read,       \* parts somebody has read and that were deleted since
  deletes,    \* calls of DeleteDeviceModel so far
  faults,     \* the callers of whom a statement failed for a reason of its own
  disturbed,  \* ghost: ids of models renamed or deleted so far
  cut         \* ghost: ids of models of which others deleted or renamed something

vars == <<models, services, parts, users, lastModel, lastService, adder, deleter,
          others, erased, read, deletes, faults, disturbed, cut>>
tables == <<models, services, parts, lastModel, lastService>>
rest == <<users, others, erased, read, cut>>

Ids == 1..MaxModels
Finished == {"done", "failed", "crashed"}

Init ==
  /\ models = [i \in Ids |-> Gone]
  /\ services = {} /\ parts = {} /\ users = [i \in Ids |-> 0]
  /\ lastModel = 0 /\ lastService = 0
  /\ adder = [a \in Adders |->
       [pc |-> "check", made |-> 0, id |-> 0, i |-> 1, sid |-> 0, todo |-> <<>>, buf |-> {}]]
  /\ deleter = [pc |-> "idle", id |-> 0, scan |-> {}, doomed |-> {}, services |-> {}, busy |-> {}]
  /\ others = 0 /\ erased = 0 /\ read = {} /\ deletes = 0 /\ faults = {} /\ disturbed = {} /\ cut = {}

-----------------------------------------------------------------------------
(* What a statement sees and what it waits for. *)

\* A struct condition drops a column whose value is the zero value.
Named(rows, name) == {r \in rows : name = Empty \/ r.name = name}

ServicesOf(id) == {s \in services : s.model = id}
PartsOf(sid) == {p \in parts : p.service = sid}
Taken(name) == \E i \in Ids : models[i] = name

\* A delete that has not ended holds the rows it marked.
ModelLocked(id) == deleter.pc = "commit" /\ deleter.id = id
ServiceLocked(sid) == sid \in deleter.services

\* A foreign key: an insert below the row has not been committed yet.
ServiceHeld(sid) == \E a \in Adders : \E p \in adder[a].buf : p.service = sid

MayFault == Cardinality(faults) < MaxFaults

-----------------------------------------------------------------------------
(* AddAllDeviceModel. *)

GoTo(a, pc) == adder' = [adder EXCEPT ![a].pc = pc]
Here(a, pc) == adder[a].pc = pc
Service(a) == Wanted[a][adder[a].i]
NextService(a, i) ==
  [adder[a] EXCEPT !.pc = IF i <= Len(Wanted[a]) THEN "service" ELSE "done",
                   !.i = i, !.buf = {}, !.todo = <<>>]

\* Deliberately wrong: the transaction is left open with what it stored.
AddFailsKeepsTx(a) ==
  /\ adder[a].pc \notin Finished \cup {"check", "service", "part", "commit"}
  /\ MayFault /\ faults' = faults \cup {a}
  /\ GoTo(a, "failed")
  /\ UNCHANGED <<tables, deleter, rest, deletes, disturbed>>

\* Any statement may fail: the call returns, its transaction is rolled back.
\* The check and the existence queries read a failure as "does not exist".
AddFails(a) ==
  /\ adder[a].pc \notin Finished \cup {"check", "service", "part"}
  /\ MayFault /\ faults' = faults \cup {a}
  /\ IF Here(a, "commit")
     THEN adder' = [adder EXCEPT ![a] = NextService(a, adder[a].i + 1)]
     ELSE adder' = [adder EXCEPT ![a].pc = "failed", ![a].buf = {}]
  /\ UNCHANGED <<tables, deleter, rest, deletes, disturbed>>

\* While the name is taken the loop goes back to its label with the same name.
CheckName(a) ==
  /\ Here(a, "check")
  /\ \/ ~Taken(NameOf[a]) /\ UNCHANGED faults
     \/ MayFault /\ faults' = faults \cup {a}
  /\ GoTo(a, "create")
  /\ UNCHANGED <<tables, deleter, rest, deletes, disturbed>>

CreateModel(a) ==
  /\ Here(a, "create")
  /\ IF Taken(NameOf[a])
     THEN GoTo(a, "failed") /\ UNCHANGED <<models, lastModel>>
     ELSE /\ lastModel < MaxModels
          /\ lastModel' = lastModel + 1
          /\ models' = [models EXCEPT ![lastModel + 1] = NameOf[a]]
          /\ adder' = [adder EXCEPT ![a].pc = "get", ![a].made = lastModel + 1]
  /\ UNCHANGED <<services, parts, lastService, deleter, rest, deletes, faults, disturbed>>

\* The new row is read back by its name.
ReadModel(a) ==
  /\ Here(a, "get")
  /\ IF Taken(NameOf[a])
     THEN adder' = [adder EXCEPT ![a] =
            [NextService(a, 1) EXCEPT !.id = CHOOSE i \in Ids : models[i] = NameOf[a]]]
     ELSE GoTo(a, "failed")
  /\ UNCHANGED <<tables, deleter, rest, deletes, faults, disturbed>>

\* Deliberately wrong: a service that exists is skipped with its parts.
SkipKnownService(a) ==
  /\ Here(a, "service")
  /\ IF Named(ServicesOf(adder[a].id), Service(a).name) = {}
     THEN GoTo(a, "addservice")
     ELSE adder' = [adder EXCEPT ![a] = NextService(a, adder[a].i + 1)]
  /\ UNCHANGED <<tables, deleter, rest, deletes, faults, disturbed>>

CheckService(a) ==
  /\ Here(a, "service")
  /\ \/ /\ GoTo(a, IF Named(ServicesOf(adder[a].id), Service(a).name) = {}
                    THEN "addservice" ELSE "getservice")
        /\ UNCHANGED faults
     \/ MayFault /\ faults' = faults \cup {a} /\ GoTo(a, "addservice")
  /\ UNCHANGED <<tables, deleter, rest, deletes, disturbed>>

CreateService(a) ==
  /\ Here(a, "addservice") /\ ~ModelLocked(adder[a].id)
  /\ IF models[adder[a].id] = Gone
     THEN GoTo(a, "failed") /\ UNCHANGED <<services, lastService>>
     ELSE /\ lastService' = lastService + 1
          /\ services' = services \cup {[id |-> lastService + 1, model |-> adder[a].id,
                                         name |-> Service(a).name, by |-> a]}
          /\ GoTo(a, "getservice")
  /\ UNCHANGED <<models, parts, lastModel, deleter, rest, deletes, faults, disturbed>>

\* The first service of that name, and Begin.
ReadService(a) ==
  /\ Here(a, "getservice")
  /\ LET found == Named(ServicesOf(adder[a].id), Service(a).name)
     IN  IF found = {}
         THEN GoTo(a, "failed")
         ELSE \E s \in found :
                /\ \A t \in found : s.id <= t.id
                /\ adder' = [adder EXCEPT ![a].sid = s.id, ![a].todo = Service(a).parts,
                                ![a].pc = IF Service(a).parts = <<>> THEN "commit" ELSE "part"]
  /\ UNCHANGED <<tables, deleter, rest, deletes, faults, disturbed>>

\* Deliberately wrong: the loop does not advance.
AfterPartStuck(a, buf) == [adder[a] EXCEPT !.buf = buf, !.pc = "part"]

AfterPart(a, buf) ==
  [adder[a] EXCEPT !.buf = buf, !.todo = Tail(adder[a].todo),
     !.pc = IF Len(adder[a].todo) = 1 THEN "commit" ELSE "part"]

\* Deliberately wrong: parts are stored without looking for them.
NoCheckPart(a) ==
  /\ Here(a, "part") /\ GoTo(a, "addpart")
  /\ UNCHANGED <<tables, deleter, rest, deletes, faults, disturbed>>

\* The query is outside the transaction: it sees committed rows only.
CheckPart(a) ==
  /\ Here(a, "part")
  /\ \/ /\ IF Named(PartsOf(adder[a].sid), Head(adder[a].todo)) = {}
           THEN GoTo(a, "addpart")
           ELSE adder' = [adder EXCEPT ![a] = AfterPart(a, adder[a].buf)]
        /\ UNCHANGED faults
     \/ MayFault /\ faults' = faults \cup {a} /\ GoTo(a, "addpart")
  /\ UNCHANGED <<tables, deleter, rest, deletes, disturbed>>

CreatePart(a) ==
  /\ Here(a, "addpart") /\ ~ServiceLocked(adder[a].sid)
  /\ IF \E s \in services : s.id = adder[a].sid
     THEN adder' = [adder EXCEPT ![a] = AfterPart(a, adder[a].buf \cup
            {[service |-> adder[a].sid, name |-> Head(adder[a].todo), by |-> <<a, adder[a].i, Len(adder[a].todo)>>]})]
     ELSE adder' = [adder EXCEPT ![a].pc = "failed", ![a].buf = {}]
  /\ UNCHANGED <<tables, deleter, rest, deletes, faults, disturbed>>

CommitService(a) ==
  /\ Here(a, "commit")
  /\ parts' = parts \cup adder[a].buf
  /\ adder' = [adder EXCEPT ![a] = NextService(a, adder[a].i + 1)]
  /\ UNCHANGED <<models, services, lastModel, lastService, deleter, rest, deletes,
                 faults, disturbed>>

AddStep(a) ==
  \/ CheckName(a) \/ CreateModel(a) \/ ReadModel(a)
  \/ CheckService(a) \/ CreateService(a) \/ ReadService(a)
  \/ CheckPart(a) \/ CreatePart(a) \/ CommitService(a)

-----------------------------------------------------------------------------
(* DeleteDeviceModel and UpdateDeviceModelName. *)

Send(pc) == deleter' = [deleter EXCEPT !.pc = pc]
EndDelete(pc) ==
  deleter' = [deleter EXCEPT !.pc = pc, !.scan = {}, !.doomed = {}, !.services = {}]

\* Any statement may fail, and Rollback is called; a failing Commit is ignored.
DeleteFails ==
  /\ deleter.pc \notin {"idle"} \cup Finished
  /\ MayFault /\ faults' = faults \cup {Deleter}
  /\ EndDelete(IF deleter.pc = "commit" THEN "done" ELSE "failed")
  /\ UNCHANGED <<tables, adder, rest, deletes, disturbed>>

Used(id) == id # 0 /\ users[id] > 0

\* The struct condition of id 0 is empty: every service is listed.
Listed(id) == {s.id : s \in IF id = 0 THEN services ELSE ServicesOf(id)}

\* Begin, and the services are listed outside the transaction.
ListServices(id) ==
  /\ deleter.pc \in {"idle"} \cup Finished /\ deletes < MaxDeletes
  /\ deletes' = deletes + 1
  /\ deleter' = [pc |-> "parts", id |-> id, scan |-> Listed(id), doomed |-> {},
                 services |-> {}, busy |-> {a \in Adders : adder[a].pc \notin Finished}
                                           \cup {d \in {Device} : Used(id)}]
  /\ UNCHANGED <<tables, adder, rest, faults, disturbed>>

\* The parts of the next listed service.
DeleteParts ==
  /\ deleter.pc = "parts"
  /\ \E sid \in deleter.scan :
       deleter' = [deleter EXCEPT !.scan = deleter.scan \ {sid},
                                  !.doomed = deleter.doomed \cup PartsOf(sid)]
  /\ UNCHANGED <<tables, adder, rest, deletes, faults, disturbed>>

\* Without a condition gorm refuses the statement; a part left below a service
\* makes the foreign key refuse it.  It waits for inserts below its services.
DeleteServices ==
  /\ deleter.pc = "parts" /\ deleter.scan = {}
  /\ \A s \in ServicesOf(deleter.id) : ~ServiceHeld(s.id)
  /\ IF /\ deleter.id # 0
        /\ \A s \in ServicesOf(deleter.id) : PartsOf(s.id) \subseteq deleter.doomed
     THEN deleter' = [deleter EXCEPT !.pc = "model", !.services = Listed(deleter.id)]
     ELSE EndDelete("failed")
  /\ UNCHANGED <<tables, adder, rest, deletes, faults, disturbed>>

\* A service stored since then, or a device of the model, makes a foreign key
\* refuse the statement.
DeleteModel ==
  /\ deleter.pc = "model"
  /\ IF Listed(deleter.id) \subseteq deleter.services /\ ~Used(deleter.id)
     THEN Send("commit") ELSE EndDelete("failed")
  /\ UNCHANGED <<tables, adder, rest, deletes, faults, disturbed>>

CommitDelete ==
  /\ deleter.pc = "commit"
  /\ models' = [models EXCEPT ![deleter.id] = Gone]
  /\ services' = {s \in services : s.id \notin deleter.services}
  /\ parts' = parts \ deleter.doomed
  /\ disturbed' = disturbed \cup {deleter.id}
  /\ EndDelete("done")
  /\ UNCHANGED <<lastModel, lastService, adder, rest, deletes, faults>>

-----------------------------------------------------------------------------
(* Single rows.  Each is one statement: it waits for rows that a delete holds, *)
(* and where a foreign key or the unique index refuses it nothing happens.     *)

Other == others < MaxOthers /\ others' = others + 1 /\ UNCHANGED erased
Erase == erased < MaxErased /\ erased' = erased + 1 /\ UNCHANGED others
ModelOf(sid) == (CHOOSE s \in services : s.id = sid).model

\* What is stored below a model while it is being deleted may refuse the delete.
Meets(id) == deleter' = IF deleter.id = id /\ deleter.pc \notin {"idle"} \cup Finished
                        THEN [deleter EXCEPT !.busy = deleter.busy \cup {Others}] ELSE deleter

Rename(i, name) ==
  /\ Other /\ models[i] \notin {Gone, name}
  /\ ~ModelLocked(i) /\ ~Taken(name)
  /\ models' = [models EXCEPT ![i] = name]
  /\ disturbed' = disturbed \cup {i}
  /\ UNCHANGED <<services, parts, users, lastModel, lastService, adder, deleter, read,
                 deletes, faults, cut>>

AddDeviceModel(name) ==
  /\ Other /\ ~Taken(name) /\ lastModel < MaxModels
  /\ lastModel' = lastModel + 1
  /\ models' = [models EXCEPT ![lastModel + 1] = name]
  /\ UNCHANGED <<services, parts, users, lastService, adder, deleter, read, deletes,
                 faults, disturbed, cut>>

AddServiceModel(i, name) ==
  /\ Other /\ models[i] # Gone /\ ~ModelLocked(i)
  /\ lastService' = lastService + 1
  /\ services' = services \cup {[id |-> lastService + 1, model |-> i, name |-> name,
                                 by |-> Others]}
  /\ Meets(i)
  /\ UNCHANGED <<models, parts, users, lastModel, adder, read, deletes, faults, disturbed,
                 cut>>

\* Refused while there are parts; it waits for parts that are being stored.
DeleteServiceModel(s) ==
  /\ Erase /\ s \in services /\ PartsOf(s.id) = {}
  /\ ~ServiceLocked(s.id) /\ ~ServiceHeld(s.id)
  /\ services' = services \ {s} /\ cut' = cut \cup {s.model}
  /\ UNCHANGED <<models, parts, users, lastModel, lastService, adder, deleter, read,
                 deletes, faults, disturbed>>

StorePart(sid, name) ==
  /\ \E s \in services : s.id = sid
  /\ ~ServiceLocked(sid)
  /\ parts' = parts \cup {[service |-> sid, name |-> name, by |-> <<Others, others>>]}
  /\ Meets(ModelOf(sid)) /\ UNCHANGED cut

\* Nothing looks for a part of the same name here.
AddCommandModel(sid, name) ==
  /\ Other /\ StorePart(sid, name)
  /\ UNCHANGED <<models, services, users, lastModel, lastService, adder, read, deletes,
                 faults, disturbed>>

DeleteCommandModel(p) ==
  /\ Erase /\ p \in parts \ deleter.doomed
  /\ parts' = parts \ {p} /\ read' = read \cup {p}
  /\ cut' = cut \cup {ModelOf(p.service)}
  /\ UNCHANGED <<models, services, users, lastModel, lastService, adder, deleter, deletes,
                 faults, disturbed>>

\* gorm's Save writes every column, the name too, and stores the row again if it
\* is gone.  Without an id in the command it is AddCommandModel.
SaveCommandModel(p, name) ==
  /\ Other
  /\ \/ /\ p \in parts \ deleter.doomed
        /\ parts' = (parts \ {p}) \cup {[p EXCEPT !.name = name, !.by = <<Others, others>>]}
        /\ cut' = cut \cup {ModelOf(p.service)}
        /\ UNCHANGED deleter
     \/ p \in read \ parts /\ StorePart(p.service, name)
  /\ UNCHANGED <<models, services, users, lastModel, lastService, adder, read, deletes,
                 faults, disturbed>>

\* A device of a stored model.  What the delete of a device does to its own rows
\* is in DeviceStore.
AddDeviceInstance(i) ==
  /\ Other /\ models[i] # Gone /\ ~ModelLocked(i)
  /\ users' = [users EXCEPT ![i] = @ + 1]
  /\ Meets(i)
  /\ UNCHANGED <<tables, adder, read, deletes, faults, disturbed, cut>>

DeleteDeviceInstance(i) ==
  /\ Erase /\ users[i] > 0
  /\ users' = [users EXCEPT ![i] = @ - 1]
  /\ UNCHANGED <<tables, adder, deleter, read, deletes, faults, disturbed, cut>>

\* The process ends; the database rolls back what is not committed.
Crash ==
  /\ MayFault /\ faults' = faults \cup {Deleter}
  /\ adder' = [a \in Adders |->
       IF adder[a].pc \in Finished THEN adder[a]
       ELSE [adder[a] EXCEPT !.pc = "crashed", !.buf = {}]]
  /\ IF deleter.pc \in {"idle"} \cup Finished THEN UNCHANGED deleter
     ELSE EndDelete("crashed")
  /\ UNCHANGED <<tables, rest, deletes, disturbed>>

DeleteStep == DeleteParts \/ DeleteServices \/ DeleteModel \/ CommitDelete

Next ==
  \/ \E a \in Adders : AddStep(a) \/ AddFails(a)
  \/ \E id \in 0..lastModel : ListServices(id)
  \/ DeleteStep \/ DeleteFails
  \/ \E i \in Ids, name \in Names : Rename(i, name)
  \/ \E name \in Names : AddDeviceModel(name)
  \/ \E i \in Ids, name \in RowNames : AddServiceModel(i, name)
  \/ \E s \in services : DeleteServiceModel(s)
  \/ \E sid \in 1..lastService, name \in RowNames : AddCommandModel(sid, name)
  \/ \E p \in parts : DeleteCommandModel(p)
  \/ \E p \in parts \cup read, name \in RowNames : SaveCommandModel(p, name)
  \/ \E i \in Ids : AddDeviceInstance(i) \/ DeleteDeviceInstance(i)
  \/ Crash

\* Every call runs in a goroutine of its own and the database serves each.
Fairness == /\ \A a \in Adders : WF_vars(AddStep(a))
            /\ WF_vars(DeleteStep)

Spec == Init /\ [][Next]_vars
FairSpec == Spec /\ Fairness

-----------------------------------------------------------------------------
(* Properties. *)

\* The rows and the local states of the calls are of their types.
TypeOK ==
  /\ models \in [Ids -> Names \cup {Gone}] /\ users \in [Ids -> Nat]
  /\ \A s \in services : s.model \in Ids /\ s.id \in 1..lastService
  /\ \A p \in parts : \E s \in services : s.id = p.service
  /\ \A p \in parts : p.by[1] \in Adders \cup {Others}
  /\ \A a \in Adders :
       /\ adder[a].pc \in Finished \cup {"check", "create", "get", "service", "addservice",
                          "getservice", "part", "addpart", "commit"}
       /\ adder[a].id \in 0..lastModel /\ adder[a].made \in 0..lastModel
       /\ adder[a].buf # {} => adder[a].pc \in {"part", "addpart", "commit"}
  /\ deleter.pc \in Finished \cup {"idle", "parts", "model", "commit"}
  /\ faults \subseteq Adders \cup {Deleter} /\ disturbed \cup cut \subseteq Ids

\* The model a call fills has the service, with all of its parts.
Holds(id, want) ==
  \E s \in Named(ServicesOf(id), want.name) :
     \A k \in 1..Len(want.parts) : Named(PartsOf(s.id), want.parts[k]) # {}

\* AddAllDeviceModel that returns nil has stored every service with its parts,
\* unless a statement of it failed (a failing Commit goes unnoticed), or the model
\* was deleted since or others took something out of it: the checks for existence
\* never skip what is not there.
StoredWhenDone ==
  \A a \in Adders :
     /\ adder[a].pc = "done" /\ a \notin faults
     /\ models[adder[a].id] # Gone /\ adder[a].id \notin cut
     => \A i \in 1..Len(Wanted[a]) : Holds(adder[a].id, Wanted[a][i])

\* AddAllDeviceModel reads its model back by name and may get another one: only
\* when the one it made was renamed or deleted.  Otherwise, it fails for no
\* reason but a service of it that others deleted, or the race for the name (and
\* then nothing was stored).
FailsForAReason ==
  \A a \in Adders :
     LET own == adder[a].made \notin disturbed
     IN  /\ adder[a].id \notin {0, adder[a].made} => ~own
         /\ adder[a].pc = "failed" /\ a \notin faults
            => \/ ~own \/ adder[a].id \in disturbed \cup cut
               \/ adder[a].made = 0 /\ \A p \in parts : p.by[1] # a

Twins(p, q) == p # q /\ p.service = q.service /\ p.name = q.name
TwinServices == \E s, t \in services :
  /\ s.id # t.id /\ s.model = t.model /\ s.name = t.name
  /\ Others \notin {s.by, t.by}
Repeats(a) == \E i \in 1..Len(Wanted[a]) :
  \E j, k \in 1..Len(Wanted[a][i].parts) : j # k /\ Wanted[a][i].parts[j] = Wanted[a][i].parts[k]
Shared == \E a, b \in Adders : a # b /\ adder[a].id = adder[b].id /\ adder[a].id # 0

\* No index keeps names unique below a model, only the checks before each insert.
\* Two rows of one name need one of: two calls filling one model, a failing check,
\* or (the check does not see the transaction's own rows) a request that repeats
\* a name within a service; services are checked against stored ones, so a
\* request that repeats a service's name stores one.  Or one of the rows was added
\* or saved by itself, where nothing is checked.
TwinsNeedARace ==
  /\ TwinServices => Shared \/ faults # {}
  /\ \A p, q \in parts :
       Twins(p, q) /\ Others \notin {p.by[1], q.by[1]}
       => Shared \/ faults # {} \/ Repeats(p.by[1])

\* A delete of a model is refused only when the id was 0, a statement of it failed,
\* a device used the model when the delete began, or somebody stored below the model
\* while it ran: a call that fills it, or others who added a service, a part or a
\* device.  It never stumbles over rows it could have deleted itself.
DeleteRefusedForCause ==
  deleter.pc = "failed" => \/ Deleter \in faults \/ deleter.id = 0
                          \/ deleter.busy \cap {Others, Device} # {}
                          \/ \E a \in deleter.busy \cap Adders : adder[a].id = deleter.id

\* What AddAllDeviceModel and DeleteDeviceModel return can be relied on: nil
\* means stored, and an error has one of the reasons above.
ResultTellsTruth == StoredWhenDone /\ FailsForAReason /\ DeleteRefusedForCause

\* The loop at the start of AddAllDeviceModel never picks another name: the call
\* returns if the name is free in the end, or if it is past the loop.
AddReturns ==
  \A a \in Adders : <>[](~Taken(NameOf[a]) \/ adder[a].pc # "check")
                     => <>(adder[a].pc \in Finished)
=============================================================================

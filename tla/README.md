# A TLA+ verification of ithings

ithings is the server of an Internet-of-Things system, in Go. It keeps devices,
device models, alerts, rules and data forwards in a relational database, and
reported values and events in InfluxDB. This directory holds TLA+ models of the
parts of it that have state and order, TLC configurations that check them on
small instances, and proofs of the main results with TLAPS.

The repository is the storage layer of a larger program. It has no tests, and most
callers of the model layer (MQTT transport, gRPC, web API) are elsewhere: here it
is a set of functions that any number of handler goroutines call at once. The
models let callers do so in any order.

Contents: [the system](#the-system) · [the modules](#the-modules) ·
[the runs](#the-runs) · [fairness](#fairness) · [the proofs](#the-proofs) ·
[findings](#findings) · [what is not modelled](#what-is-not-modelled) ·
[plan](#plan) · [running it](#running-it)

## The system

All paths are below `src/`.

| Component | Code | State | Operations |
|---|---|---|---|
| Connection pool | `common/dbm/dbm.go`, `global.DBAccess` | at most `max_open_conns` connections (10 as shipped), row locks of open transactions | `Begin`, `Commit`, `Rollback`, every statement |
| Devices and relations | `common/dbm/model/{device,service,property,event,command}_instance.go`, `event_rule_relation.go`, `device_dataForward_relation.go`, `rule_linkage.go`, `data_forward.go` | tables with foreign keys; three tables of bare ids without | add, bind, unbind, delete |
| Device models | `common/dbm/model/{device,service,property,event,command}_model.go`, `common/types/v1/device_model_types.go` | device_model ← service_model ← parts | `AddAllDeviceModel`, `DeleteDeviceModel`, `UpdateDeviceModelName`; single services and parts |
| Reads of devices, checks of use | `common/dbm/model/{device,service,property,event}_{instance,model}.go` | none of their own | `IsExist…InstanceBy…ModelId`, `GetAllDeviceInstancesV2…`, `GetAllProtocolTypeInThisEdge`, `GetDeviceInstanceAllInfo`, `GetEventInstanceByDeviceId` |
| Device assembly and copy | `common/types/v1/device_instance_types.go` | the services and parts of one device | `StoreExtensionConfig`, `StoreServiceSpec`, `CopyDeviceInstance` |
| Listings | `common/dbm/model/*.go` | rows with creation and update stamps | pages, totals; insert, save, delete |
| Alerts | `common/dbm/model/alert_log.go` | alert status, device health | `InitAlertLogByEdgeId`, `InitAlertLogByDeviceId`, `SaveAlertLog` |
| Start and configuration | `common/config`, `common/dbm`, `common/influxdbm`, `webserver` | the loaded file, the open database, the client | `init` functions, `AutoMigrate`, `InitInfluxDb`, listen |
| Time series | `common/influxdbm/influx_store` | points in InfluxDB, the client variable | `StoreTwin`, `StoreEvent`, queries, `DeleteTwin`, `StopClient` |
| Edge messages | `common/types/message.go`, `common/utils/model_message.go` | request objects, shared with the transport by pointer | `BuildRequest`, `SetContent`, `SendRequest2Edge`, `SendResponse2Edge`, parsing of topics |
| Conversions, encryption | `common/utils`, `common/crypto` | none | pure functions |
| Web, spreadsheets, logging, goroutine pool | the rest | none of their own | one route; output; wrappers |

**Interaction.** Everything relational goes through one variable, `global.DBAccess`,
and so through one pool. Functions call each other directly; there are no channels,
no locks of Go's own and no callbacks. Concurrency comes from the callers, and
what orders it is the database: row locks, foreign keys, unique indexes, and
what a statement can see of an open transaction. Time series go to a second
server with which there are no transactions.

**What is hard.**

- *Transactions that leave themselves.* `DeleteDeviceInstance`, `DeleteDeviceModel`
  and `AddAllDeviceModel` run statements on `global.DBAccess` while their own
  transaction is open. Each such statement takes a second connection (it can wait
  for others that do the same), does not see what the transaction wrote, and is
  not undone with it.
- *Several statements, no transaction.* Adding a model, assembling a device,
  resetting alerts and deleting a rule are sequences of commits: any of
  them can fail, the process can end between two, other calls can act between two.
- *Errors that are dropped*: of every `Commit`, of look-ups inside loops, of two
  early returns without `Rollback`, of `InitInfluxDb`.
- *Check, then insert*, with nothing in the schema to keep names unique below a model.
- *Zero values in conditions*: gorm leaves a struct field with its zero value out of
  the condition, so an empty device id or model id 0 means every row.
- *Pages that are queries of their own* over an order that every update changes.
- *A store that may do what it did not confirm*: InfluxDB writes that time out.
- *Reads of several statements* outside any transaction, most of which go on when one of them fails.
- *Messages made late*: a request is handed over by pointer and becomes topic and payload only
  when it is published; names are found in a topic by the position of its levels.
- *Loops*: the name loop of `AddAllDeviceModel` never looks at its new name.

`PROJECT.json` lists each of these hazards with its line and the properties that cover it.

**What makes each component correct.** The pool: no connection is lost or returned
twice, and calls do not block each other for good. Devices: a device goes with all
it owns in one step, and nothing refers to what is gone. Models: a nil result means
everything is stored, an error has a cause, names stay unique. Assembly: the device
has what the model says with what the request configures. Listings: a client that
reads all pages sees what was there. Alerts: no alert is left behind, health comes
last. Start: a running process has its tables and its retention policy. Time
series: what was confirmed is found and reads back as the same number, what was deleted
stays away. Reads: what was there all the time is found, what is found was there. Messages:
a reply belongs to the request it names, and what is published is what was meant.

## The modules

Each module names the functions it models as actions, and each constant
and bound is explained where it is declared. Operators called *Deliberately wrong*
are variants of a definition with a plausible bug; each property fails when its
variant takes the definition's place. `PROJECT.json` maps every definition to its
lines.

### ConnPool: connections and locks

State: where each call is (`pc`), the loop counters it has left, connections
handed out (`inUse`), which transaction has written an object's rows (`lock`),
connections lost for good (`leaked`). Each place in the code that asks the pool for
a connection is an action `Acquire` with a *want* place before it; each stretch
between two requests is one action, with success and failure as disjuncts. `AddAllDeviceModel` is the name loop,
the model stored and read back, and per service a check, an insert, a read and a transaction. Inserts and
writes wait for rows of their object that an open transaction holds. Plain reads and
writes stand for all one-statement functions. `InnoDB` chooses between the lock
behaviour of MySQL and of Postgres. Data is reduced to counts, which `DeviceStore` and
`ModelStore` spell out. It extends to any number of handlers, pool sizes and loop
lengths.

- `PoolAccounting`: every connection in use belongs to a running call, or
  was lost at the alert deletes (`device_instance.go:564-571`, returns without `Rollback`).
- `LockOwnership`: a call that has returned blocks nobody, except for a leaked
  transaction under InnoDB.
- `GridlockIsNested`: all calls wait only if one waits for its second connection or leaks
  have used up the pool. With two connections and two deletes this does happen.
- `StuckTogether` (liveness): a call stays for good only in a gridlock of all calls or in the name loop of
  `AddAllDeviceModel`, which asks for the same taken name again and again; none starves while others go on, not even
  beside a call in that loop.
- `NoGridlock`: with more connections than calls and leaks together there is no gridlock. This is
  proved and has no run of its own.

### DeviceStore and AtomicDevices: the tables of devices

State: the committed rows, the rows each open transaction has deleted (`dead`), the
relations that are deleted outside it at once, and the local variables of each delete. Actions:
each statement of `DeleteDeviceInstance`, of the deletes of events, rules and
forwards, their failures, a crash, the inserts, and the statements by which users unbind a
forward or a rule (`Unbind`). `Locked` and `Seen` say what another
call sees and what it waits for. `late` is history: rows that came after the delete
had passed their table, and rows left by a statement that failed or a delete that never looks for them.

- `NoLeftovers`: relations, links and alerts without their rule, event, device or
  forward are all in `late`; a delete that runs undisturbed leaves none.
- `OnlyRacesBlockDelete`: a foreign key refuses the delete only for events others added.
- `DeleteIsAtomic`: **refinement.** `AtomicDevices` is what a reader of the tables may
  rely on: nothing is without an owner, a device takes all it owns with it in one step.
  The mapping is `alive <- rows \cap Devices`, `parts <- rows \cap (Services \cup Events)`:
  committed rows.

### ModelStore: device models

State: committed rows of the three levels, how many devices use each model, auto-increment counters, the local state of
each `AddAllDeviceModel` (its place, the model it made, the one it read back, the
rows of its open transaction `buf`), the deleter and its doomed rows. `Others` store, save and delete
single services and parts, rename models, and add and delete devices of a model, whose foreign key the delete of the model meets; `SaveCommandModel` is gorm's `Save`, which inserts
a row that is gone. A check sees committed rows
only, its own transaction's not included (`Named` drops an empty name, as gorm does).

- `ResultTellsTruth`, of three parts. `StoredWhenDone`: nil means every service is stored with every part,
  unless a statement failed or the model, or that row, was deleted since. `FailsForAReason`: otherwise a call
  fails only for a race for the name or for a row that others deleted; it fills another call's model
  only after a rename or a delete. `DeleteRefusedForCause`: a delete is refused only because a device used the model when it began,
  for a row or a device stored below the model beside it, for id 0, or for a failure.
- `TwinsNeedARace`: two rows of one name below a model need two calls in one model, a
  failed check, a request that repeats a part (a repeated service is caught), or a row stored
  or saved by itself, where nothing is checked.
- `AddReturns`: the call returns if the name is free in the end, or once past the loop.
  It does not return otherwise: the loop builds another name and checks the old one.

### DeviceAssembly: building and copying a device

State: the model as read, the merged list of services, the rows stored so far, the copy
and its reads. `LinkService` is one round of the loop that ties the services of the model to the entries of
the request; `StoreSpec` and `Advance` are the loops that store; the copy reads services and parts in
four statements and stores them in one transaction.

- `EndTellsTruth`, of two parts. `AssembledWhenDone`: after a nil result the rows are those of the model, with the
  configuration of the request's first entry for the service; a service whose name a later
  one repeats stays empty. `StopsForAReason`: it stops short only for a failed statement, a model
  without services, or a nil pointer (an entry no service matches, or a repeated one).
- `FaithfulCopy`: the copy is complete or absent, and equals a state
  the source had, unless the source changed between the reads.
- `CopyKeepsAttributes` is violated: see [findings](#findings).

### LogPager: pages and totals

State: one table (`listing`), chosen at the start, with rows `[status, created, updated]`; the clock;
what each writer is about to write and the time it took for it (`stamp`); the client's query, page and
what it has seen. There is an operator per listing and one per total, so that two that should agree can
differ, as those of `alert_history` do: listed by creation time, counted by update time.
An insert and a save each take their time in Go and reach the database later (`AddStamp`, `AddInsert`; `SaveStamp`, `SaveUpdate`), so two saves of
a row may cross, and the row falls back to the older time. The client starts beside writers that have taken their time already.
`Page` allows any order among rows of one key. `track` records what changed in
the client's result.

- `PagesFit`, of two parts. `MissedOnlyByLeaving`: a client that reads to the end misses rows only because others
  left the result or fell behind, by such a crossing, before it came to them, one for one. `RepeatedOnlyByArriving`: it sees a row twice only
  because others arrived or rose.
- `TotalFitsListing`: the total is the size of the listing, but for `alert_history`,
  where it differs by at most the rows whose two stamps differ.

### AlertReset: resetting alerts

State: alerts, device health, and each reset's list, devices and place. One
action per statement of the loops, any of which may fail and be skipped, beside the other
writers. `owed` is history: the alerts a reset found and was the last to write.

- `NothingForgotten`: past its loop a reset has given its status to all it answers for.
- `HealthLast` (an action property): the health is written after the alerts, and only for
  devices in scope.
- `SplitNeedsOverlap`: two resets leave a mixture only if they overlapped or a statement failed.

### Startup: from the file to the web server

State: the file and environment, what was loaded, the open database, the InfluxDB
client, the tables and policies that survive restarts, and which servers are down. Actions
follow the init functions in order; `Kill`, `Edit`, `GoDown` and `ComeUp` are the world's.

- `ServesOnTables`: a running process has every table, in the database that file and
  environment name, whatever half-finished starts came before.
- `TimeSeriesReady`: it writes under the retention the file asks for, unless InfluxDB is not
  wanted or failed it.
- `DiesForAReason`, `StartEnds`: why a start fails, and that it ends.
- `OpensWhatTheFileNames` is violated: see [findings](#findings).

### DeviceReads: reads of several statements

State: the committed `rows` of instances and models; one call (`what`, `arg`, `pc`) with the devices,
services and kinds of parts it has still to read, what it has `got` and its `answer`. Readers do not disturb each other,
so one call among writers is enough. Each statement is an action that may fail; a failed one ends the call
or is skipped, as in the code. `GetServiceInstanceByDeviceID` is four statements: the services, then a preload per kind. `kept`, `seen` and
`failed` are history: rows that were there from the first statement on, rows that were there at some time, rows a failing statement was to find.
The six functions share these actions because they share that code; they differ in how they
begin, in what an error makes of them (`Refusal`, `LeaveOut`) and in what they do with a service.

- `NothingMissed`: what was there all the time is found, unless a statement on the way to it failed. So the
  check for events answers "not in use" for no other reason; that for properties does also where its models are
  gone or cannot be read, as it has no error to return.
- `NothingInvented`: what is found was there at some time of the call and belongs to what was asked for.
  A model without a name is taken for in use by a part of any name.

### EdgeMessages: requests and replies

State: the core's request objects (`heap`), what the transport has still to publish (`queue`: pointers to requests,
copies of responses), what arrived and waits for the core (`core`), what was published in each direction
(`down`, `up`). A message that was published stays and may arrive never, late, again and in any order. `BuildTopic`,
`ParseRequest` and `ParseResponse` are the functions of `message.go` over sequences of levels; a name with a slash has several.
Broker, transport, mappers and the loop of the core are external.

- `RepliesFitRequests`: a reply bears the id of a request and goes to the mapper that made it; an answer comes from
  where the request went. A slash in an edge or mapper name is the one exception: a mapper `m/report` gets what is meant for
  the mapper `m` with operation `report` and replies to it on a topic that is then parsed as a request.
- `SentAsMeant`: the content published is what its object was last given before a send, unless json refused it or
  the object was changed after a send. The topic leads back to the names, cut at a slash in the resource.
- `Answered` (liveness): a request that reached the core is replied to, unless json refuses the reply: then nobody is told.

### Conversions: numbers and text

`Text` is `ToString` of a number, `ToInt` is the function of that name, with the width of an int as a constant; `Atoi` drops its error, so
text that is no integer is 0 and text out of range is cut. Floats are what JSON numbers arrive as. `FormatFloat` with precision -1 writes the fewest digits that are
read back as the float, and zeros for the rest: up to `Exact` (2^53) these are the digits of the number, beyond it they need not be. `FloatDigits` gives them
and `Unfit` gives the int that a float outside the range becomes, which is the processor's affair; both are
constants. `TimeSeries` extends it: values are stored as text.

### TimeSeries: twins and events in InfluxDB

State: the points stored (`db`, by measurement, tags and millisecond), the batch each call is
stamping, writes and deletes that timed out and may still be done (`limbo`, `stray`), the client variable.
`StoreTwin` is `Store`, a `NewPoint` per value, then `WritesPoints` or `WriteFails`. `DeleteTwin` takes effect, or `DeleteFails`: it is lost, or done later (`DeleteLate`).
What the model assumes of InfluxDB
(one point per key, the last write wins, late writes, retention) is marked external.

- `AckedIsFound`: a value whose call returned nil is found
  until it is deleted or too old, unless it shared a millisecond with another value of its property: with its digits, but for
  a `uint` that does not fit an int, and for a float beyond 2^53, which has the digits of `FormatFloat`.
- `ReadsBack`: the text that is found turns back into the int of the value that was reported, but for fractions, a
  `uint64` that does not fit, and floats beyond 2^53 or the range of an int, which give the int nearest to the digits of their text.
- `DeletedStaysDeleted`: what `DeleteTwin` was asked to delete does not come back,
  except from a call that had stamped it before, or a write that had timed out.

## The runs

Every run is exhaustive within its bounds. `CHECK_DEADLOCK FALSE` stands where a bound runs out or
the system may really stop (a gridlocked pool, a dead process, all calls returned).

| Run | Question | Bounds and why they are enough |
|---|---|---|
| `pool` | Who can block whom, and is everything accounted for, when the pool is too small? | 2 calls over 2 connections, 2 objects, 2 services, 1 event, 2 leaks: two nested calls fill the pool, each can hold what the other waits for, and the leaks alone can fill the pool; two services and one event make the loops repeat and end |
| `device_tables` | Does anything outlive what it refers to, with two deletes at once? | 2 deletes, 1 device, 1 service, 2 events of one name, 1 rule, 1 forward, 1 alert: deletes of device, events, rule and forward meet on one relation and one link; the empty device id included |
| `device_models` | What do results of adding, deleting and renaming models mean? | 2 adds of one name, one with a repeated part, one with an empty service name; 1 delete of a model, 1 statement of others that stores (a row, a name or a device) and 1 that deletes, 1 call with failing statements; a third call would repeat one of the pairs |
| `device_reads` | What do reads in several statements miss or invent? | 2 devices of one model with a service each, a property, a command and an event, a service model, 2 part models, 2 commits of others: one row can go and another come between any two statements |
| `device_assembly` | Does a device get what it should, and its copy the same? | 4 models (none, one, two services, two of a name) and 4 requests; 2 updates, 1 failure, a crash anywhere |
| `log_pages` | What does a paging client miss or repeat? | 10 listings, 2 rows and 1 insert, pages of 1, 1 writer that may have taken its time before, 1 save or delete, 4 ms, a window that rows straddle with their two stamps; pages of 1 put a page boundary at every row; one leaving, falling or arriving row already shifts pages against each other. States after the client's last page are cut off (`UntilLastPage`): what is written then takes part in no page, and totals do not depend on the client |
| `alert_resets` | Do resets reach all their alerts? | 2 resets, 2 alerts, 2 devices of one edge, 1 other write, resets with failures: 1; every pair of statements of two resets is interleaved |
| `edge_messages` | Do replies and contents belong to their requests? | 1 request object, used again, and 1 request of a mapper; edges `a` and `a/b`, mappers `reply` and `reply/report`, resource `r/s`; 2 messages waiting for the transport, 1 for the core: a reply can overtake, repeat and be parsed as a request, and a name can look like an operation |
| `startup` | What does a running process rest on? | 11 files, 2 environments, 3 tables, 3 starts, 1 outage, 1 edit: an interrupted start, a changed file and a start on what they left |
| `time_series` | Is what was confirmed found, as the same number, and what was deleted gone? | 2 goroutines, 2 calls, 1 delete, 1 lost or late write or delete, 3 ms, retention of 1 ms, ints of 7 bits and floats of 4 bits, whose shortest digits an ASSUME of `MCTimeSeries` works out (48 is written 50, 72 is written 70 and fits no int): two calls share a millisecond, and one spans the delete |
| `device_copy` | Does a copy describe the same device? (violated) | as `device_assembly` |
| `startup_database` | Does GormInit open what the file names? (violated) | as `startup` |

The bounds are constants with `Max` in their names, guards in the actions that count. Symmetry is used
where the values are interchangeable and no temporal property other than of single steps is checked: calls, resets, alerts, writers, statuses.

Known weak points of the bounds: `device_models` has one delete and one statement of others, so a model that is deleted
twice under changing names is not seen; `pool` has no bystander beside a gridlock of two; `log_pages` has one writer, so of two crossing statements one is pending from the start, and pages of one row; `time_series` has two calls, so a third value of a millisecond is not seen; `device_assembly` has models of two services; in `device_reads` no event is in use by the name and model asked for, so that the check for events may answer so is covered by the proof. The proofs cover all of these.

## Fairness

- *ConnPool*: strong fairness of `Acquire` and `Step` for each call. A goroutine is always
  scheduled again and every statement is answered. `database/sql` hands a returned connection to
  a waiting request, and the database hands a freed row to a waiting statement, so a request that is enabled
  again and again is served. Nothing makes a handler start.
- *ModelStore*: weak fairness of each call's next statement; `AddReturns` is conditional on the name
  being free in the end, which no fairness of the code can give.
- *Startup*: weak fairness of the steps of a start (one goroutine, statements that return or fail).
  Kills, outages, edits and restarts have none.
- *EdgeMessages*: weak fairness of `Publish` and of `Handle`. The transport goes on with its queue and the core
  with what it was handed; nothing is assumed of the network or the mappers.
- The other modules are checked for safety only.

## The proofs

`tlapm` checks every theorem to the last leaf, for all values of the constants that satisfy the
named assumptions of the modules (`PoolAssumption`, `StoreAssumption` and so on), which TLC evaluates in the runs. The assumptions
say that the identifiers of different tables differ, what refers to what, and that bounds are numbers. Each invariant and each action property
that a passing run checks has a theorem, and so has the refinement; the inductive invariant of each module was checked by TLC before it was proved.
`Devices_proofs` and `Logs_proofs` each prove about two specifications, which have no variable in common.

**`ConnPool_proofs`.** Assumes a finite set of calls, and any pool size, loop lengths and lock behaviour.
`IInv = Typing ∧ LoopCounters ∧ PoolAccounting ∧ LockOwnership`. `LoopCounters` is
needed because whether a call goes on to another statement depends on the counters that its place promises to be positive.
`PoolAccounting` counts calls, so the proof is about cardinalities: `MoveCount` says how the number of
calls in a set of places changes when one call moves, `AccountingMove` reduces each action to
arithmetic on four indicator terms. That `inUse` is never negative is not in `Typing`: it follows from the accounting.
- `TypeCorrect`, `Accounting`, `Ownership`: the invariants of the run `pool`.
- `GridlockFree`, stated of `NoGridlock`, which no run repeats: if `MaxOpen > Cardinality(Calls) + MaxLeaks`, the calls never all wait. If
  all wait, each holds at most one connection, so one is left, nobody waits for the pool, and the owner of the
  row that is waited for can go on.
- `GridlockNeedsNesting`: in a pool of any size, only nested requests or leaks stop all calls.

As shipped (10 connections), `GridlockFree` covers at most nine handlers without leaks.

**`Devices_proofs`, the deletes.** `StoreAssumption`: rows of different tables are different, and every service, event, rule, forward and alert has its owner.
`IInv = Structure ∧ RelationsDone ∧ RowsDone ∧ NoLeftovers`. `Structure` says what the locks and keys give: `RowsLocked` (what a transaction has
deleted is deleted by no other, and nothing is added below it), `StaysInDevice` (a delete with an id deletes nothing of another device; without one it never
gets past the services), `LoopPlaces` (what the scan has still before it is not marked). `RelationsDone` and `RowsDone` are `NoLeftovers` for a delete
half-way: what its scan has passed is gone, or is in `late`. Without them the commit would have to be trusted.
- `TypeCorrect`, `Leftovers`, `OnlyRacesBlock`: the invariants of the run `device_tables`.
- `DeletesAtomically`, the refinement: initial states map to initial states; only `CommitDelete` and the inserts change the mapped state. The commit maps to
  one `Delete` of `AtomicDevices`, since `RowsLocked` and `StaysInDevice` leave exactly the services and events of the device in `dead`; every other step stutters.

**`Devices_proofs`, assembly and copy.** `AssemblyAssumption`: models and requests are sequences, of any length, of a name with parts or configurations, and source and copy
are two devices. Names may repeat in both.
`AssemblyIInv = Columns ∧ AssemblyTypeOK ∧ Tied ∧ Filling ∧ Configured ∧ StopsForAReason ∧ Numbered ∧ ReadSoFar`. `Tied` has what the loop over the model has done after n services: an entry
is tied to the last service of its name so far, if it is the first entry of that name, and each of the n services has an entry (`LinkOne` is one round of the loop). So an entry without a service, at which the
storing loop panics, is one whose name the model does not have or an earlier entry has; and of services of one name only the last has an entry (`OneEntry`). `Filling` is the stored part
half-way: a service has its parts of a kind once the loop has passed its entry and that kind, and none before. `Configured`: each part has the configuration of the entry tied to its service, until somebody updates one.
`Numbered`: the services of the source have the positions of the model as ids, the copy's come after them. `ReadSoFar`: if nothing changed since the first read, what was read is what is stored, of the kinds that were read.
- `AssemblyTypeCorrect`, `EndsTellTruth`, `CopiesFaithfully`: the properties of the run `device_assembly`, for every device model, request and number of updates and failures.

**`ModelStore_proofs`.** `RequestAssumption`: a request is a name and a list of services, each with a name and a list of names of parts, and the markers for other writers, the
delete and a row that is gone differ from calls and names. The proof is in two layers. `Structure = Types ∧ Keys ∧ Locals ∧ Buffers ∧ OwnRows ∧ Marks` is inductive by itself and says who owns what: `Keys` what unique index and foreign keys give, `Local` that
what a call has left to do is the end of the parts of the service in hand, `Buffer` that the rows of an open transaction are below a service that nobody can delete,
`OwnRow` that each row a call stored is below the model it fills and is the one its tag names, `Marks` that a delete marks rows of its model only and holds every
call that stores beside it to account. On it rest, one after the other:
  `Refusals` (what a delete has not marked of its model was stored beside it, at each of its three places, and a device of the model was there when it began or came since); `OwnModels` (a model that nobody renamed or deleted is there and is the one the call reads back);
  `Progress` (`StoredWhenDone` for a call half-way: the services before the one in hand are filled, and of this one what is not left to do is stored or in the open transaction);
  `Fails` (the part of `FailsForAReason` that a failing call establishes); `Checked` (a row that a check did not find, the call has not stored).
  The tags of the rows (call, service, what was left to do) are what makes `Checked` inductive: a check does not see the rows of its own open transaction, so
  that two of these have different names follows only from their being different entries of the request, and fails where a request repeats a part.
- `TypeCorrect`, `ResultsTellTruth`, `TwinsOnlyByRaces`: the invariants of the run `device_models`, for any number of calls, requests, models,
  deletes and writes of others; this covers the model that is deleted twice under changing names, which the bounds of the run do not. `RefusedForAReason` is the part about deletes, which needs `Structure` and `Refusals` alone.

**`DeviceReads_proofs`.** `IInv = Shape ∧ Finds ∧ NothingInvented ∧ Misses`. `Places` says which variables each of the six functions uses at each place, `Finds` that
what was found was there below what was asked for, and `Misses` has `NothingMissed` for a call half-way: what was kept is found, or below
something still to be read, or unread for a failure. It has one conjunct per kind of function, as they keep their results in different places.
- `TypeCorrect`, `NothingIsMissed`, `NothingIsInvented`, for any tables, writers and failures.

**`TimeSeries_proofs`.** `IInv = Calls ∧ Stamps ∧ AllVouched ∧ Accounted ∧ HeldThen ∧ DeletedStaysDeleted`. `AllVouched`: each point in the database, in a batch or in a
write that may still be done bears the text of a value that was stamped with its key. `Accounted`: an acknowledged point is there or was taken out. `HeldThen`:
whoever holds a point older than a delete held it then; it is what makes `DeletedStaysDeleted` inductive.
- `TypeCorrect`, `AckedFound`, `ReadsBackAlways`, `StaysDeleted`, for any requests, callers and widths of an int, and for any digits of floats that satisfy `NumberAssumption` (those of a float within
  `Exact` are the number's own). What `ToInt` of `Text` gives is a lemma about `Conversions` (`TextReadsBack`), by cases on types and ranges.

**`EdgeMessages_proofs`.** The names have any number of levels, so the first part is about sequences: `RequestLevels` and `ReplyLevels` say what the parsers find at the
positions 4, 6, 7 and 8 of what `BuildTopic` makes, `HeadingsAlike` that topics of the core and of a mapper agree below their prefixes.
`IInv = Types ∧ Held ∧ Places`: what waits, is under way or has arrived is in a set that the objects and the requests of mappers account for (`Waiting`, `Requests`, `Responses`,
`IsSent`, `IsAnswer`...). These sets only grow (`Kept`: objects keep their names, and those that were sent and not changed since their content), so a step has to answer for what it adds alone.
- `TypeCorrect`, `RepliesFit`, `SentIsMeant`, for any names, objects, values and lengths of the queues. The attempt to prove `RepliesFit` showed that an earlier form of the property,
  in which only a request to a name with a slash could lead to such a reply, was wrong: it is the mapper that has the slash.

**`Logs_proofs`, resets.** `Inv = TypeOK ∧ LoopInvariant ∧ ListsMatchPc ∧ DevicesInScope ∧ IdleHasNoDevices`.
`NothingForgotten` speaks of the end of the loop; `LoopInvariant` is its form within the loop: what is owed is
still on the list or has the status already. `ListsMatchPc` turns one into the other. For `SplitNeedsOverlap`, `SInv` adds `Sequential`: of two resets without
failures of which one began after the other had ended, what the second found has its status or is still on its list.
- `TypeCorrect`, `ResetsReachEveryAlert`, `HealthComesLast`, `SplitsNeedOverlap`, for any number of resets, alerts, devices and writes.

**`Logs_proofs`, listings.** The rank of a row is the number of rows of the result with a greater key. Rows that have their place to themselves have different ranks (`RanksDiffer`), so at most k of them
have a rank among k numbers (`FewBetween`), and a page has those of rank `Offset(page)` up to `Offset(page) + Limit`, in whatever order the database gives the rest (`PageHas`).
A write lowers a rank by the rows that left at most, and raises it by those that arrived (`RanksMove`; a row whose key a crossing save makes smaller counts among those that left, one whose key grows among those that arrived).
`PagerIInv = PagerColumns ∧ PagerTypeOK ∧ SavesLater ∧ Followed ∧ MissingFew ∧ RepeatedFew` counts both (`SavesLater`: the time taken for a save is not before the creation of its row, which keeps the stamps of a row in order): of the steady rows in front of the page to come at most `left` have not been got (`Skipped`),
and at most `arrived` were got twice, or were got and stand behind it (`Doubled`).
- `PagerTypeCorrect`, `PagesFitTogether`, `TotalsFit`: the invariants of the run `log_pages`, for any rows, page size and number of writers. `QuietTableReadOnce` is what `PagesFit` means for a table that
  stays as it is: the client gets each row that has its place to itself, and none twice. `TotalsFit` rests on `PagerTypeOK`: what is listed and not counted, or
  counted and not listed, was created before its last update.

**`Startup_proofs`.** `IInv` says how far the start is at each step: `FileLoaded`, `SectionRead`,
`DatabaseOpen`, `TablesSoFar` (the tables before the loop's place exist), `SeriesSoFar` (alter is tried
only where a policy exists or the server failed), and `DiesForAReason` itself.
- `TypeCorrect`, `RunsOnTables`, `SeriesReady`, `DeathExplained`, for any files, environments, tables, and any number of starts, outages and edits.

**Only model-checked.** Liveness: `StuckTogether`, `AddReturns`, `StartEnds`, `Answered`. Liveness under fairness and
ENABLED are out of the prover's reach, and so is induction over data, that is, what a recursive definition computes for every input.
No module uses RECURSIVE operators.

## Findings

1. **A copied device is not the same device** (`device_copy`). `CopyDeviceInstance` takes `DeviceCategory` from `DeviceOS`
   (`common/types/v1/device_instance_types.go:425`) and `Secret` from `DeviceAuthType` (`:433`), and leaves `Tags` empty; the
   comment at `:411` says "copy sub device to other edge".
2. **SQLite cannot be used** (`startup_database`). `GetDBConfig` knows it as `sqlite3` (`common/config/ithings_config.go:95`),
   `GormInit` as `sqlite` (`common/dbm/dbm.go:22`); with either name the process ends. The comment at `dbm.go:17` says
   "GormInit init the database according to the config file."

Behaviour that no document contradicts is not listed here but in the properties' exceptions and the hazards: the gridlock of a
small pool, the two returns without `Rollback`, the endless name loop, relations that outlive an event deleted by `DeleteEventInstance`,
the empty id that deletes the parts of everything, the event filter that compares with the service's name.

## What is not modelled

- *Transport, broker, mappers*: not in this repository. `EdgeMessages` has them as external; the code of a response and the id of a
  response of the core are left out, since nothing here looks at them.
- *Conversions*: floats that are no numbers (JSON has none), booleans, bytes and structures as text are left out; `GetDayTime` and `GetFromNowTime` (whose days end 999 ms early) are called by nothing.
- *Encryption*: functions of their input around library ciphers, called by nothing here.
- *Transport and server configurations*: read once and used by nothing here but the web server's address.
- *Single-row updates* of names, configurations and states of devices, rules and forwards: one statement, no order. Where others depend on them (status, health, access configuration) they are actions.
- *Requests that panic at once*: entries of a device's configuration that are nil or have no name (`device_instance_types.go:191`, `:201`, `:211`) are outside the requests of `DeviceAssembly`.
- *Protocol types*: one table, one check before an insert; its unique column decides between two inserts whatever the
  check saw. The check itself passes the name to gorm as a condition (`protocol.go:60`): what the statement then means is a matter of its text.
- *The event filter* (`event_store.go:154`) compares the event with the service's name; queries by event are modelled as the code does it, and no document says otherwise.
- *Web and edge types, error codes, logging, spreadsheets, the goroutine pool*: no state, or not used by anything here.
- *Routes*: the one route sends a wake-up packet.
- *Library internals*: gorm, `database/sql`, the databases and InfluxDB appear as far as the code depends on them, as definitions marked external.
- Wall clocks are taken not to go back; database time-outs other than lock waits are failures of a statement.

## Plan

1. *Done*: pool, devices, models, assembly, listings, alert resets, start, time series, reads, edge messages, conversions; proofs for all of them, of everything the passing runs
   check but liveness.
2. *Modelling that is left*: the listings of relations and parts, which have no pages, and the plain updates of one row, where a reader of several statements meets them.

A composition worth having later: `ConnPool` with the statements of `ModelStore`, so that a nested check can also time out.

## Running it

    tlc -workers 2 -config MCConnPool.cfg MCConnPool
    tlapm ConnPool_proofs.tla

Each `MC*.cfg` belongs to the module its name begins with. The longest run takes about two minutes on two cores,
each proof module up to about four minutes.

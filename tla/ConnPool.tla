------------------------------ MODULE ConnPool ------------------------------
(***************************************************************************)
(* The one pool of database connections behind global.DBAccess and the     *)
(* calls that compete for it.  Every handler goroutine of the server calls *)
(* the model layer, and the model layer takes connections in three ways:   *)
(*                                                                         *)
(*   - a plain statement (most functions of common/dbm/model) takes one    *)
(*     connection and gives it back when the statement returns;            *)
(*   - a transaction keeps the connection that Begin took until Commit or  *)
(*     Rollback;                                                           *)
(*   - DeleteDeviceInstance, DeleteDeviceModel and AddAllDeviceModel run   *)
(*     statements on global.DBAccess, not on tx, while their transaction   *)
(*     is open: they wait for a second connection while holding one.       *)
(*                                                                         *)
(* The rows a transaction has written stay locked until it ends, and a     *)
(* statement that meets a locked row keeps its connection while it waits.  *)
(* Every device and model is taken to have rows, so that the first delete  *)
(* of a transaction locks some.                                            *)
(* The data is abstracted to the counts that steer the loops; module       *)
(* DeviceStore models what the same statements do to the tables.           *)
(***************************************************************************)
EXTENDS Integers, FiniteSets

CONSTANTS
  Calls,          \* the handler goroutines that may be inside the model layer
  Objects,        \* the devices and device models they work on
  MaxOpen,        \* SetMaxOpenConns
  MaxServices,    \* bound on the services of one device or device model
  MaxEvents,      \* bound on the events of one service
  MaxLeaks,       \* bound on the failures of the two alert deletes
  InnoDB,         \* TRUE on MySQL: a wait for a row ends in an error, and a
                  \* failed statement leaves the locks of its transaction;
                  \* FALSE on Postgres: the wait lasts as long as the lock,
                  \* and a failed statement frees them
  Nobody, Orphan  \* lock owners: no one, a transaction that was never ended

ASSUME PoolAssumption ==
  /\ IsFiniteSet(Calls)
  /\ MaxOpen \in Nat \ {0}
  /\ MaxServices \in Nat
  /\ MaxEvents \in Nat
  /\ MaxLeaks \in Nat
  /\ InnoDB \in BOOLEAN
  /\ Nobody \notin Calls
  /\ Orphan \notin Calls
  /\ Nobody # Orphan

VARIABLES
  pc,        \* where each call is
  obj,       \* the object each call works on
  services,  \* services each call still has to handle
  events,    \* events of the current service each call still has to handle
  inUse,     \* connections the pool has handed out
  lock,      \* which call's open transaction has written the rows of an object
  leaked     \* connections whose transaction was never ended

vars == <<pc, obj, services, events, inUse, lock, leaked>>

-----------------------------------------------------------------------------
(* Places in the code.  "di" is DeleteDeviceInstance, "dm" DeleteDeviceModel, *)
(* "am" AddAllDeviceModel, "rd" a plain read and "wr" a plain write.          *)

WantTx     == {"diBegin", "dmBegin", "amBegin"}
WantSecond == {"diLookup", "diRelation", "dmFind", "amCheck"}
WantOne    == {"amName", "amModel", "amRead", "amService", "amInsert", "amGet",
               "rdWait", "wrWait"}

\* A call in one of these holds the connection of an open transaction ...
InTx       == WantSecond \cup
              {"diLookupQ", "diRelationQ", "dmFindQ", "amCheckQ",
               "diFind", "diRows", "diParents", "diAlerts", "diCommit",
               "dmRows", "dmParents", "dmCommit", "amNext", "amCreate"}
\* ... and in one of these a connection for a single statement.
InStmt     == {"diLookupQ", "diRelationQ", "dmFindQ", "amCheckQ",
               "amNameQ", "amModelQ", "amReadQ", "amServiceQ", "amInsertQ",
               "amGetQ", "rdQ", "wrQ"}
\* Statements that write rows of the call's object.
Writing    == {"diRows", "diParents", "dmRows", "dmParents", "amModelQ",
               "amInsertQ", "amCreate", "wrQ"}
\* The loop in which AddAllDeviceModel looks for a free name.
NameLoop   == {"amName", "amNameQ"}

Places     == {"idle"} \cup WantTx \cup WantOne \cup InTx \cup InStmt

\* Where a call goes when the pool grants the connection it waits for.
Granted(p) ==
  CASE p = "diBegin"    -> "diFind"
    [] p = "dmBegin"    -> "dmFind"
    [] p = "amBegin"    -> "amNext"
    [] p = "diLookup"   -> "diLookupQ"
    [] p = "diRelation" -> "diRelationQ"
    [] p = "dmFind"     -> "dmFindQ"
    [] p = "amCheck"    -> "amCheckQ"
    [] p = "amName"     -> "amNameQ"
    [] p = "amModel"    -> "amModelQ"
    [] p = "amRead"     -> "amReadQ"
    [] p = "amService"  -> "amServiceQ"
    [] p = "amInsert"   -> "amInsertQ"
    [] p = "amGet"      -> "amGetQ"
    [] p = "rdWait"     -> "rdQ"
    [] p = "wrWait"     -> "wrQ"

-----------------------------------------------------------------------------
Goto(c, p) == pc' = [pc EXCEPT ![c] = p]

\* The rows of c's object are free for c to write.
RowsFree(c) == lock[obj[c]] \in {Nobody, c}

\* A write need not wait (any longer): it may return, at least with an error.
MayReturn(c) == RowsFree(c) \/ InnoDB

\* Deliberately wrong: the end of a transaction frees no rows.
UnlockNothing(c, heir) == lock

\* The locks when the transaction of c ends, the rows going to `heir`.
Unlock(c, heir) == [o \in Objects |-> IF lock[o] = c THEN heir ELSE lock[o]]

\* Commit and Rollback alike: the connection returns and the rows are freed.
EndTx(c, p) ==
  /\ Goto(c, p)
  /\ inUse' = inUse - 1
  /\ lock' = Unlock(c, Nobody)

Rollback(c) ==
  /\ EndTx(c, "idle")
  /\ UNCHANGED <<obj, services, events, leaked>>

\* The connection of a single statement returns with the statement.
EndStmt(c, p) ==
  /\ Goto(c, p)
  /\ inUse' = inUse - 1

\* A handler enters the model layer.
Start(c, o) ==
  /\ pc[c] = "idle"
  /\ \E p \in {"diBegin", "dmBegin", "amName", "rdWait", "wrWait"} : Goto(c, p)
  /\ obj' = [obj EXCEPT ![c] = o]
  /\ \E n \in 0..MaxServices : services' = [services EXCEPT ![c] = n]
  /\ UNCHANGED <<events, inUse, lock, leaked>>

\* Deliberately wrong: a pool without a limit.
AcquireUnlimited(c) ==
  /\ pc[c] \in WantTx \cup WantSecond \cup WantOne
  /\ Goto(c, Granted(pc[c]))
  /\ inUse' = inUse + 1
  /\ UNCHANGED <<obj, services, events, lock, leaked>>

\* The pool hands out a connection while fewer than MaxOpen are out.
Acquire(c) ==
  /\ pc[c] \in WantTx \cup WantSecond \cup WantOne
  /\ inUse < MaxOpen
  /\ Goto(c, Granted(pc[c]))
  /\ inUse' = inUse + 1
  /\ UNCHANGED <<obj, services, events, lock, leaked>>

-----------------------------------------------------------------------------
(* DeleteDeviceInstance *)

\* The head of the loop over the services, n of them left.
InstanceLoop(n) == IF n > 0 THEN "diLookup" ELSE "diParents"

\* tx.Find of the services; its error rolls back.
FindServices(c) ==
  /\ pc[c] = "diFind"
  /\ \/ Rollback(c)
     \/ /\ Goto(c, InstanceLoop(services[c]))
        /\ UNCHANGED <<obj, services, events, inUse, lock, leaked>>

\* GetEventInstanceByServiceId on a connection of its own; an error is only
\* logged and leaves no events to handle.
LookupEvents(c) ==
  /\ pc[c] = "diLookupQ"
  /\ \E n \in 0..MaxEvents :
       /\ events' = [events EXCEPT ![c] = n]
       /\ EndStmt(c, IF n > 0 THEN "diRelation" ELSE "diRows")
  /\ UNCHANGED <<obj, services, lock, leaked>>

\* DeleteEventRuleRelationByEventId, whose result is ignored.
DeleteRelation(c) ==
  /\ pc[c] = "diRelationQ"
  /\ events' = [events EXCEPT ![c] = @ - 1]
  /\ EndStmt(c, IF events[c] > 1 THEN "diRelation" ELSE "diRows")
  /\ UNCHANGED <<obj, services, lock, leaked>>

\* Deliberately wrong: the loop over the services starts over.
DeleteRowsAgain(c) ==
  /\ pc[c] = "diRows"
  /\ MayReturn(c)
  /\ \/ Rollback(c)
     \/ /\ RowsFree(c)
        /\ lock' = [lock EXCEPT ![obj[c]] = c]
        /\ Goto(c, InstanceLoop(services[c]))
        /\ UNCHANGED <<obj, services, events, inUse, leaked>>

\* The three deletes of one service's properties, events and commands.
DeleteRows(c) ==
  /\ pc[c] = "diRows"
  /\ MayReturn(c)
  /\ \/ Rollback(c)
     \/ /\ RowsFree(c)
        /\ lock' = [lock EXCEPT ![obj[c]] = c]
        /\ services' = [services EXCEPT ![c] = @ - 1]
        /\ Goto(c, InstanceLoop(services[c] - 1))
        /\ UNCHANGED <<obj, events, inUse, leaked>>

\* The deletes of the services, the device and its data-forward relations.
DeleteParents(c) ==
  /\ pc[c] = "diParents"
  /\ MayReturn(c)
  /\ \/ Rollback(c)
     \/ /\ RowsFree(c)
        /\ lock' = [lock EXCEPT ![obj[c]] = c]
        /\ Goto(c, "diAlerts")
        /\ UNCHANGED <<obj, services, events, inUse, leaked>>

\* The deletes of the alert history and the alert log.  Their errors return
\* with the transaction still open: its connection never comes back.
DeleteAlerts(c) ==
  /\ pc[c] = "diAlerts"
  /\ \/ /\ Goto(c, "diCommit")
        /\ UNCHANGED <<obj, services, events, inUse, lock, leaked>>
     \/ /\ leaked < MaxLeaks
        /\ leaked' = leaked + 1
        /\ lock' = Unlock(c, IF InnoDB THEN Orphan ELSE Nobody)
        /\ Goto(c, "idle")
        /\ UNCHANGED <<obj, services, events, inUse>>

CommitInstance(c) ==
  /\ pc[c] = "diCommit"
  /\ EndTx(c, "idle")
  /\ UNCHANGED <<obj, services, events, leaked>>

-----------------------------------------------------------------------------
(* DeleteDeviceModel *)

ModelLoop(n) == IF n > 0 THEN "dmRows" ELSE "dmParents"

\* Deliberately wrong: an error of the read returns without a Rollback.
FindServiceModelsNoRollback(c) ==
  /\ pc[c] = "dmFindQ"
  /\ \E p \in {ModelLoop(services[c]), "idle"} : EndStmt(c, p)
  /\ UNCHANGED <<obj, services, events, lock, leaked>>

\* The service models are read on global.DBAccess, after Begin.
FindServiceModels(c) ==
  /\ pc[c] = "dmFindQ"
  /\ \/ /\ EndStmt(c, ModelLoop(services[c]))
        /\ UNCHANGED <<obj, services, events, lock, leaked>>
     \/ /\ Goto(c, "idle")
        /\ inUse' = inUse - 2
        /\ lock' = Unlock(c, Nobody)
        /\ UNCHANGED <<obj, services, events, leaked>>

DeleteModelRows(c) ==
  /\ pc[c] = "dmRows"
  /\ MayReturn(c)
  /\ \/ Rollback(c)
     \/ /\ RowsFree(c)
        /\ lock' = [lock EXCEPT ![obj[c]] = c]
        /\ services' = [services EXCEPT ![c] = @ - 1]
        /\ Goto(c, ModelLoop(services[c] - 1))
        /\ UNCHANGED <<obj, events, inUse, leaked>>

DeleteModelParents(c) ==
  /\ pc[c] = "dmParents"
  /\ MayReturn(c)
  /\ \/ Rollback(c)
     \/ /\ RowsFree(c)
        /\ lock' = [lock EXCEPT ![obj[c]] = c]
        /\ Goto(c, "dmCommit")
        /\ UNCHANGED <<obj, services, events, inUse, leaked>>

CommitModel(c) ==
  /\ pc[c] = "dmCommit"
  /\ EndTx(c, "idle")
  /\ UNCHANGED <<obj, services, events, leaked>>

-----------------------------------------------------------------------------
(* AddAllDeviceModel *)

\* IsExistDeviceModelByName.  A taken name is asked for again, for ever as
\* long as it is taken: the numbered name is only logged.  An error counts as
\* a free name.
CheckModelName(c) ==
  /\ pc[c] = "amNameQ"
  /\ \E p \in {"amName", "amModel"} : EndStmt(c, p)
  /\ UNCHANGED <<obj, services, events, lock, leaked>>

\* Create of the model, which waits for the rows an open delete holds.
CreateModel(c) ==
  /\ pc[c] = "amModelQ"
  /\ MayReturn(c)
  /\ \/ EndStmt(c, "idle")
     \/ RowsFree(c) /\ EndStmt(c, "amRead")
  /\ UNCHANGED <<obj, services, events, lock, leaked>>

\* The head of the loop over the services, n of them left.
AddLoop(n) == IF n > 0 THEN "amService" ELSE "idle"

\* GetDeviceModelByName; its error returns.
ReadModel(c) ==
  /\ pc[c] = "amReadQ"
  /\ \E p \in {AddLoop(services[c]), "idle"} : EndStmt(c, p)
  /\ UNCHANGED <<obj, services, events, lock, leaked>>

\* IsExistServiceModel: a service that exists is not created again.
CheckServiceName(c) ==
  /\ pc[c] = "amServiceQ"
  /\ \E p \in {"amInsert", "amGet"} : EndStmt(c, p)
  /\ UNCHANGED <<obj, services, events, lock, leaked>>

\* Create of the service, which refers to the row of its model.
CreateService(c) ==
  /\ pc[c] = "amInsertQ"
  /\ MayReturn(c)
  /\ \/ EndStmt(c, "idle")
     \/ RowsFree(c) /\ EndStmt(c, "amGet")
  /\ UNCHANGED <<obj, services, events, lock, leaked>>

\* The service is read back, and its transaction comes next, with so many
\* names to check and create.
ReadService(c) ==
  /\ pc[c] = "amGetQ"
  /\ \/ /\ EndStmt(c, "idle")
        /\ UNCHANGED <<services, events>>
     \/ /\ EndStmt(c, "amBegin")
        /\ services' = [services EXCEPT ![c] = @ - 1]
        /\ \E n \in 0..MaxEvents : events' = [events EXCEPT ![c] = n]
  /\ UNCHANGED <<obj, lock, leaked>>

\* The loops over the names of a service; after the last one tx.Commit.
NextName(c) ==
  /\ pc[c] = "amNext"
  /\ \/ /\ events[c] > 0
        /\ Goto(c, "amCheck")
        /\ UNCHANGED <<inUse, lock>>
     \/ /\ events[c] = 0
        /\ EndTx(c, AddLoop(services[c]))
  /\ UNCHANGED <<obj, services, events, leaked>>

\* IsExistPropertyModel and its siblings read outside tx, an error counting
\* as "no such row"; a row that exists is not created again.
CheckName(c) ==
  /\ pc[c] = "amCheckQ"
  /\ \/ /\ EndStmt(c, "amCreate")
        /\ UNCHANGED events
     \/ /\ EndStmt(c, "amNext")
        /\ events' = [events EXCEPT ![c] = @ - 1]
  /\ UNCHANGED <<obj, services, lock, leaked>>

\* tx.Create of the row.
CreateRow(c) ==
  /\ pc[c] = "amCreate"
  /\ MayReturn(c)
  /\ \/ Rollback(c)
     \/ /\ RowsFree(c)
        /\ lock' = [lock EXCEPT ![obj[c]] = c]
        /\ events' = [events EXCEPT ![c] = @ - 1]
        /\ Goto(c, "amNext")
        /\ UNCHANGED <<obj, services, inUse, leaked>>

-----------------------------------------------------------------------------
(* Plain statements: a read never waits for a row, a write may. *)

Read(c) ==
  /\ pc[c] = "rdQ"
  /\ EndStmt(c, "idle")
  /\ UNCHANGED <<obj, services, events, lock, leaked>>

Write(c) ==
  /\ pc[c] = "wrQ"
  /\ MayReturn(c)
  /\ EndStmt(c, "idle")
  /\ UNCHANGED <<obj, services, events, lock, leaked>>

-----------------------------------------------------------------------------
Init ==
  /\ pc = [c \in Calls |-> "idle"]
  /\ obj \in [Calls -> Objects]
  /\ services = [c \in Calls |-> 0]
  /\ events = [c \in Calls |-> 0]
  /\ inUse = 0
  /\ lock = [o \in Objects |-> Nobody]
  /\ leaked = 0

\* What the code and the database do once a call has its connections.
Step(c) ==
  \/ FindServices(c) \/ LookupEvents(c) \/ DeleteRelation(c) \/ DeleteRows(c)
  \/ DeleteParents(c) \/ DeleteAlerts(c) \/ CommitInstance(c)
  \/ FindServiceModels(c) \/ DeleteModelRows(c) \/ DeleteModelParents(c)
  \/ CommitModel(c)
  \/ CheckModelName(c) \/ CreateModel(c) \/ ReadModel(c)
  \/ CheckServiceName(c) \/ CreateService(c) \/ ReadService(c)
  \/ NextName(c) \/ CheckName(c) \/ CreateRow(c)
  \/ Read(c) \/ Write(c)

Next == \E c \in Calls : \/ \E o \in Objects : Start(c, o)
                         \/ Acquire(c)
                         \/ Step(c)

Spec == Init /\ [][Next]_vars

(***************************************************************************)
(* A goroutine is always scheduled again and a statement always returns.   *)
(* database/sql hands a returned connection to a waiting request, and the  *)
(* database hands a freed row to a waiting statement, so neither wait is   *)
(* starved by later comers: strong fairness for both.                      *)
(***************************************************************************)
Fairness == \A c \in Calls : SF_vars(Acquire(c)) /\ SF_vars(Step(c))

FairSpec == Spec /\ Fairness

-----------------------------------------------------------------------------
TypeOK ==
  /\ pc \in [Calls -> Places]
  /\ obj \in [Calls -> Objects]
  /\ services \in [Calls -> Nat]
  /\ events \in [Calls -> Nat]
  /\ inUse \in 0..MaxOpen
  /\ lock \in [Objects -> Calls \cup {Nobody, Orphan}]
  /\ leaked \in 0..MaxLeaks

TxCalls   == {c \in Calls : pc[c] \in InTx}
StmtCalls == {c \in Calls : pc[c] \in InStmt}

\* Every connection the pool counts as in use is held by a transaction or a
\* statement of a call that is still running, or was lost at the alert
\* deletes of DeleteDeviceInstance: no other early return keeps one, and none
\* returns one twice.
PoolAccounting == inUse = Cardinality(TxCalls) + Cardinality(StmtCalls) + leaked

\* Written rows belong to the open transaction of a call on that object, and
\* rows without an owner exist only where an unfinished transaction keeps its
\* locks: a call that has returned blocks nobody, unless it leaked.
LockOwnership ==
  \A o \in Objects :
    /\ lock[o] \in Calls => /\ pc[lock[o]] \in InTx
                            /\ obj[lock[o]] = o
    /\ lock[o] = Orphan => InnoDB /\ leaked > 0

\* A call waits for the pool or for rows that another transaction has written.
Waiting(c) ==
  \/ /\ pc[c] \in WantTx \cup WantSecond \cup WantOne
     /\ inUse = MaxOpen
  \/ /\ pc[c] \in Writing
     /\ ~ MayReturn(c)

Busy == {c \in Calls : pc[c] # "idle"}

\* Calls are running and each of them waits.
Gridlock == Busy # {} /\ \A c \in Busy : Waiting(c)

\* With a pool that is too small, the calls stop for good only where one of
\* the three functions waits for a second connection while its transaction is
\* open, or where leaked transactions have used up the pool: plain statements
\* and transactions that stay on tx never stop each other.
GridlockIsNested ==
  Gridlock => \/ \E c \in Calls : pc[c] \in WantSecond
              \/ leaked = MaxOpen

\* With one connection more than calls and leaks together, the second
\* connections are always found and the calls never all wait.
NoGridlock == ~ Gridlock

\* In a pool of any size, whatever statements fail and whatever transactions
\* leak, a call stays for ever only in a gridlock that stops them all, or in
\* the name loop of AddAllDeviceModel, which asks for the same taken name over
\* and over: no call is kept from its connection or its rows while others go
\* on returning, not even by one in that loop.
StuckTogether ==
  \A c \in Calls : \/ []<>(pc[c] = "idle")
                  \/ <>[]Gridlock
                  \/ <>[](pc[c] \in NameLoop)
=============================================================================

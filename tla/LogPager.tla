------------------------------- MODULE LogPager -------------------------------
(***************************************************************************)
(* The listings of the logs, the devices, the models, the rules, the        *)
(* forwards and the alert configurations: a client reads one page after the *)
(* other (Where, Order ... desc, Offset, Limit) and a total, while others   *)
(* insert, save and delete rows.  Every page is a query of its own.         *)
(*                                                                         *)
(* Conditions on columns nobody changes are left out; "status" stands for a *)
(* column a save changes, where the condition is a keyword for whether the  *)
(* name has it.  Rows with the same key come in any order.                  *)
(***************************************************************************)
EXTENDS Integers, FiniteSets

CONSTANTS
  Tables,     \* the listings looked at, by table ("devices": without conditions)
  Writers,    \* goroutines that insert and save rows
  StatusValues, \* of the status column
  Absent,     \* a condition that is not given; no stamp
  Windows,    \* the creation times asked for: sets of times, or Absent
  Limit,      \* rows on a page
  InitRows,   \* bound: rows stored before the client starts
  MaxRows,    \* bound: rows ever stored
  MaxClock,   \* bound: the clock, in milliseconds
  MaxChanges  \* bound: saves and deletes

ASSUME PagerAssumption ==
  /\ Tables \subseteq {"alert_log", "alert_history", "rule_linkage_log",
                       "data_forward_log", "device_instance", "devices",
                       "alert_config", "device_model", "rule_linkage", "data_forward"}
  /\ Limit \in Nat \ {0} /\ Absent \notin StatusValues
  /\ InitRows \in Nat /\ MaxRows \in Nat /\ MaxClock \in Nat /\ MaxChanges \in Nat
  /\ InitRows <= MaxRows /\ InitRows < MaxClock

VARIABLES
  listing, \* the listing of this behaviour, by table
  rows,    \* id -> [status, created, updated], for the ids stored
  lastId,  \* auto_increment
  clock,   \* time.Now in milliseconds
  stamp,   \* writer -> the row it is about to write (New for an insert) and the
           \* time it took for it, or Absent
  changes, \* saves and deletes so far
  query,   \* the conditions of the client: [status, window]
  page,    \* the next page the client asks for
  ended,   \* the client got a page that was not full
  seen,    \* the rows it got
  again,   \* the rows it got more than once
  track    \* ghost: what happened to the result since the client started

pagerVars ==
  <<listing, rows, lastId, clock, stamp, changes, query, page, ended, seen, again, track>>
client == <<query, page, ended, seen, again>>

\* The rows that can be saved: entries of the history of alerts never are.
Saved(rs) == IF listing = "alert_history" THEN {} ELSE DOMAIN rs

\* The id of a row that has none yet: the zero value.
New == 0

\* The conditions each listing offers, and the statuses that then matter.
ByTime == listing \in {"alert_log", "alert_history", "rule_linkage_log", "data_forward_log"}
ByStatus == listing = "alert_log" \/ ~ (ByTime \/ listing = "devices")
Queries == [status : IF ByStatus THEN StatusValues \cup {Absent} ELSE {Absent},
            window : IF ByTime THEN Windows ELSE {Absent}]
Values == IF ByStatus THEN StatusValues ELSE {Absent}

-----------------------------------------------------------------------------
(* The queries, one operator per function: the ids of rows rs that match q.  *)

HasStatus(r, q) == q.status = Absent \/ r.status = q.status
Between(t, q) == q.window = Absent \/ t \in q.window

AlertLogs(rs, q) == {i \in DOMAIN rs : HasStatus(rs[i], q) /\ Between(rs[i].created, q)}
AlertLogCount(rs, q) ==
  Cardinality({i \in DOMAIN rs : HasStatus(rs[i], q) /\ Between(rs[i].created, q)})

AlertHistorys(rs, q) == {i \in DOMAIN rs : Between(rs[i].created, q)}

\* Deliberately wrong: the total ignores the end of the window.
AlertHistoryCountFrom(rs, q) ==
  Cardinality({i \in DOMAIN rs : q.window = Absent \/ \E t \in q.window : t <= rs[i].updated})

AlertHistoryCount(rs, q) == Cardinality({i \in DOMAIN rs : Between(rs[i].updated, q)})

RuleLinkageLogs(rs, q) == {i \in DOMAIN rs : Between(rs[i].created, q)}
RuleLinkageLogCount(rs, q) == Cardinality({i \in DOMAIN rs : Between(rs[i].created, q)})

DataForwardLogs(rs, q) == {i \in DOMAIN rs : Between(rs[i].created, q)}
DataForwardLogCount(rs, q) == Cardinality({i \in DOMAIN rs : Between(rs[i].created, q)})

DeviceInstances(rs, q) == {i \in DOMAIN rs : HasStatus(rs[i], q)}
DeviceInstanceCount(rs, q) == Cardinality({i \in DOMAIN rs : HasStatus(rs[i], q)})

\* The devices in the order of their updates.
DevicesByUpdate(rs) == DOMAIN rs
DeviceCount(rs) == Cardinality(DOMAIN rs)

AlertConfigs(rs, q) == {i \in DOMAIN rs : HasStatus(rs[i], q)}
AlertConfigCount(rs, q) == Cardinality({i \in DOMAIN rs : HasStatus(rs[i], q)})

DeviceModels(rs, q) == {i \in DOMAIN rs : HasStatus(rs[i], q)}
DeviceModelCount(rs, q) == Cardinality({i \in DOMAIN rs : HasStatus(rs[i], q)})

RuleLinkages(rs, q) == {i \in DOMAIN rs : HasStatus(rs[i], q)}
RuleLinkageCount(rs, q) == Cardinality({i \in DOMAIN rs : HasStatus(rs[i], q)})

DataForwards(rs, q) == {i \in DOMAIN rs : HasStatus(rs[i], q)}
DataForwardCount(rs, q) == Cardinality({i \in DOMAIN rs : HasStatus(rs[i], q)})

Result(rs, q) ==
  CASE listing = "alert_log" -> AlertLogs(rs, q)
    [] listing = "alert_history" -> AlertHistorys(rs, q)
    [] listing = "rule_linkage_log" -> RuleLinkageLogs(rs, q)
    [] listing = "data_forward_log" -> DataForwardLogs(rs, q)
    [] listing = "device_instance" -> DeviceInstances(rs, q)
    [] listing = "devices" -> DevicesByUpdate(rs)
    [] listing = "alert_config" -> AlertConfigs(rs, q)
    [] listing = "device_model" -> DeviceModels(rs, q)
    [] listing = "rule_linkage" -> RuleLinkages(rs, q)
    [] listing = "data_forward" -> DataForwards(rs, q)

Total(rs, q) ==
  CASE listing = "alert_log" -> AlertLogCount(rs, q)
    [] listing = "alert_history" -> AlertHistoryCount(rs, q)
    [] listing = "rule_linkage_log" -> RuleLinkageLogCount(rs, q)
    [] listing = "data_forward_log" -> DataForwardLogCount(rs, q)
    [] listing = "device_instance" -> DeviceInstanceCount(rs, q)
    [] listing = "devices" -> DeviceCount(rs)
    [] listing = "alert_config" -> AlertConfigCount(rs, q)
    [] listing = "device_model" -> DeviceModelCount(rs, q)
    [] listing = "rule_linkage" -> RuleLinkageCount(rs, q)
    [] listing = "data_forward" -> DataForwardCount(rs, q)

\* Some are ordered by their last update, the others by their creation, newest first.
Key(r) == IF listing \in {"alert_log", "alert_history", "alert_config", "device_model", "devices"}
          THEN r.updated ELSE r.created

Least(a, b) == IF a < b THEN a ELSE b

\* Deliberately wrong: pages counted from zero, and the page size as offset.
OffsetFromZero(p) == p * Limit
\* Offset((page - 1) * limit); gorm leaves out an offset that is not positive.
Offset(p) == IF p <= 1 THEN 0 ELSE (p - 1) * Limit

\* The pages p can be: what comes before it and what it holds, newest first.
Page(rs, q, p) ==
  LET ids == Result(rs, q)
      Newest(S, T) == \A i \in S, j \in T \ S : Key(rs[i]) >= Key(rs[j])
      skip == Least(Offset(p), Cardinality(ids))
      size == Least(Limit, Cardinality(ids) - skip)
  IN  UNION { {S \in SUBSET (ids \ before) :
                 Cardinality(S) = size /\ Newest(S, ids \ before)} :
              before \in {B \in SUBSET ids : Cardinality(B) = skip /\ Newest(B, ids)} }

-----------------------------------------------------------------------------
(* Bookkeeping of the properties: how the client's result changes.           *)

\* The rows that have their place in the order to themselves.
Tied(rs, q) == {i \in Result(rs, q) :
                  \E j \in Result(rs, q) : j # i /\ Key(rs[i]) = Key(rs[j])}

\* A row leaves its place when it leaves the result or falls behind others, and
\* arrives when it enters the result or rises.
Leaving(new) ==
  {i \in Result(rows, query) : i \notin Result(new, query) \/ Key(new[i]) < Key(rows[i])}
Arriving(new) ==
  {i \in Result(new, query) : i \notin Result(rows, query) \/ Key(new[i]) > Key(rows[i])}

Observe(new) ==
  track' = [kept |-> (track.kept \cap Result(new, query)) \ (Leaving(new) \cup Arriving(new)),
            tied |-> track.tied \cup Tied(new, query),
            left |-> track.left + Cardinality(Leaving(new)),
            arrived |-> track.arrived + Cardinality(Arriving(new))]

Write(new) == rows' = new /\ Observe(new)

-----------------------------------------------------------------------------
(* The writers. *)

Tick == /\ clock < MaxClock /\ clock' = clock + 1
        /\ UNCHANGED <<listing, rows, lastId, stamp, changes, client, track>>

\* A writer takes the time before its statement reaches the database.
TakeTime(w, i) == stamp[w] = Absent /\ stamp' = [stamp EXCEPT ![w] = [id |-> i, at |-> clock]]

\* Add...: the creation time is taken first,
AddStamp(w) ==
  /\ lastId < MaxRows /\ TakeTime(w, New)
  /\ UNCHANGED <<listing, rows, lastId, clock, changes, client, track>>

\* then gorm takes the update time, u, and then the row is inserted.
AddInsert(w, s, u) ==
  /\ stamp[w] # Absent /\ stamp[w].id = New /\ lastId < MaxRows
  /\ u \in stamp[w].at..clock
  /\ lastId' = lastId + 1
  /\ stamp' = [stamp EXCEPT ![w] = Absent]
  /\ Write([i \in DOMAIN rows \cup {lastId + 1} |->
              IF i \in DOMAIN rows THEN rows[i]
              ELSE [status |-> s, created |-> stamp[w].at, updated |-> u]])
  /\ UNCHANGED <<listing, clock, changes, client>>

\* Every save renews the update time, one that changes nothing included.  Gorm
\* takes it when it builds the statement,
SaveStamp(w, i) ==
  /\ i \in Saved(rows) /\ changes < MaxChanges
  /\ changes' = changes + 1 /\ TakeTime(w, i)
  /\ UNCHANGED <<listing, rows, lastId, clock, client, track>>

\* Deliberately wrong: the update time is the creation time less one.
SaveOld(w, s) ==
  /\ stamp[w] # Absent /\ stamp[w].id \in DOMAIN rows
  /\ stamp' = [stamp EXCEPT ![w] = Absent]
  /\ Write([rows EXCEPT ![stamp[w].id] = [@ EXCEPT !.updated = @ - 1, !.status = s]])
  /\ UNCHANGED <<listing, lastId, clock, changes, client>>

\* and the statement may run after that of a later save, or find the row deleted.
SaveUpdate(w, s) ==
  /\ stamp[w] # Absent /\ stamp[w].id # New
  /\ stamp' = [stamp EXCEPT ![w] = Absent]
  /\ Write([i \in DOMAIN rows |->
              IF i = stamp[w].id
              THEN [rows[i] EXCEPT !.updated = stamp[w].at, !.status = s]
              ELSE rows[i]])
  /\ UNCHANGED <<listing, lastId, clock, changes, client>>

\* One row, a batch, or all of them.
Delete(S) ==
  /\ changes < MaxChanges /\ changes' = changes + 1
  /\ Write([i \in DOMAIN rows \ S |-> rows[i]])
  /\ UNCHANGED <<listing, lastId, clock, stamp, client>>

-----------------------------------------------------------------------------
(* The client. *)

ReadPage ==
  /\ ~ended
  /\ \E got \in Page(rows, query, page) :
       /\ again' = again \cup (got \cap seen)
       /\ seen' = seen \cup got
       /\ ended' = (Cardinality(got) < Limit)
  /\ page' = page + 1
  /\ UNCHANGED <<listing, rows, lastId, clock, stamp, changes, query, track>>

\* The client starts beside writers that have taken their time before.
PagerInit ==
  /\ listing \in Tables
  /\ \E s \in [1..InitRows -> Values], u \in [1..InitRows -> 1..InitRows + 1] :
       /\ \A i \in 1..InitRows : i <= u[i]
       /\ rows = [i \in 1..InitRows |-> [status |-> s[i], created |-> i, updated |-> u[i]]]
  /\ lastId = InitRows /\ clock = InitRows + 1 /\ changes = 0
  /\ stamp \in [Writers -> {Absent} \cup
                  {p \in [id : {New} \cup Saved(rows), at : 1..InitRows + 1] : p.id <= p.at}]
  /\ query \in Queries /\ page \in {0, 1}
  /\ ended = FALSE /\ seen = {} /\ again = {}
  /\ track = [kept |-> Result(rows, query), tied |-> Tied(rows, query), left |-> 0,
              arrived |-> IF page = 0 THEN Limit ELSE 0]

PagerNext ==
  \/ Tick
  \/ \E w \in Writers :
       \/ AddStamp(w)
       \/ \E s \in Values, u \in 1..clock : AddInsert(w, s, u)
       \/ \E i \in DOMAIN rows : SaveStamp(w, i)
       \/ \E s \in Values : SaveUpdate(w, s)
  \/ \E S \in SUBSET DOMAIN rows : S # {} /\ Delete(S)
  \/ ReadPage

PagerSpec == PagerInit /\ [][PagerNext]_pagerVars

-----------------------------------------------------------------------------
(* Properties. *)

\* The rows have their columns; a row is never updated before it was created.
PagerTypeOK ==
  /\ DOMAIN rows \subseteq 1..lastId /\ lastId <= MaxRows
  /\ \A i \in DOMAIN rows :
       /\ rows[i].status \in Values
       /\ rows[i].created \in 1..rows[i].updated /\ rows[i].updated <= clock
  /\ \A w \in Writers : stamp[w] = Absent \/ stamp[w] \in [id : 0..lastId, at : 1..clock]
  /\ again \subseteq seen /\ seen \subseteq 1..lastId

\* The rows that were in the client's result all the time, in one place.
Steady == track.kept \ track.tied

\* GetAlertLogByPageAndCondition and its like: a client that reads to the last
\* page misses a steady row only because another row left the result, or fell
\* behind by a save whose time is older than that of the save before, one for
\* one; rows that arrive or rise never hide one.  (Rows of the same millisecond
\* may be missed: the order among them is the database's.)
MissedOnlyByLeaving ==
  ended => Cardinality(Steady \ seen) <= track.left

\* The client gets a steady row twice only because a row arrived or rose, one
\* for one; page 0 is page 1 again.
RepeatedOnlyByArriving == Cardinality(Steady \cap again) <= track.arrived

\* Both: reading page by page, a client misses and repeats no row but for a
\* change of the table, one for one.
PagesFit == MissedOnlyByLeaving /\ RepeatedOnlyByArriving

\* The total fits the listing for every condition, but for the history of
\* alerts: it counts by update time, so a row whose update time was taken a millisecond
\* after its creation time may be listed and not counted, or the other way round.
TotalFitsListing ==
  \A q \in Queries :
     LET off == Total(rows, q) - Cardinality(Result(rows, q))
         late == {i \in DOMAIN rows : rows[i].created < rows[i].updated}
     IN  IF listing = "alert_history" /\ q.window # Absent
         THEN off \in -Cardinality(late)..Cardinality(late)
         ELSE off = 0
=============================================================================

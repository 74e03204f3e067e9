------------------------------ MODULE TimeSeries ------------------------------
(***************************************************************************)
(* Reported twins and events in InfluxDB: StoreTwin and StoreEvent stamp a   *)
(* batch of points and write it, while others store, query and delete, the   *)
(* retention policy drops what is old, and writes and deletes are lost, or    *)
(* time out and are done all the same, at once or later.                     *)
(*                                                                           *)
(* InfluxDB keeps one point per measurement, tags and time: a key, here.      *)
(***************************************************************************)
EXTENDS Conversions, Sequences, FiniteSets

CONSTANTS
  Callers,    \* goroutines that store
  Requests,   \* what they store: [of (the measurement), device, values]; values:
              \* a sequence of [service, name, value], value a number or Nil
  Conditions, \* what is asked for or deleted: [device, service, name] or Blank each
  Nil, Blank,
  Keep,       \* duration of the retention policy, in milliseconds
  MaxClock,   \* bound: the clock, in milliseconds
  MaxCalls,   \* bound: calls of StoreTwin and StoreEvent
  MaxDeletes, \* bound: calls of DeleteTwin that succeed
  MaxFaults   \* bound: requests to InfluxDB that are lost or time out

ASSUME SeriesAssumption ==
  /\ Keep \in Nat /\ MaxClock \in Nat
  /\ \A r \in Requests :
       /\ r.of \in {"report_twin", "report_event"}
       /\ \A i \in 1 .. Len(r.values) : r.values[i].value = Nil \/ IsNumber(r.values[i].value)

VARIABLES
  db,       \* key -> text of the value, for the points stored
  clock,    \* time.Now in milliseconds
  client,   \* GetInfluxClient is not nil
  call,     \* caller -> the call it is in: [pc, request, i, batch]
  limbo,    \* batches whose writes timed out and may still be done
  stray,    \* conditions of deletes that timed out and may still be done
  calls, faults,
  sent,     \* ghost: key -> the values stamped with it
  acked,    \* ghost: keys of calls that returned nil
  gone,     \* ghost: keys that were deleted, or dropped by the policy
  deletes   \* ghost: deletes that were done: [condition, time, open]

vars == <<db, clock, client, call, limbo, stray, calls, faults, sent, acked, gone, deletes>>
bounds == <<calls, faults>>

Empty == [k \in {} |-> 0]  \* no point
Over(new, old) == [k \in DOMAIN new \cup DOMAIN old |-> IF k \in DOMAIN new THEN new[k] ELSE old[k]]
At(key, x) == [k \in {key} |-> x]

Idle == [pc |-> "idle", request |-> Nil, i |-> 0, batch |-> Empty]

-----------------------------------------------------------------------------
(* Conditions. *)

\* An empty name is no condition.
Asked(name, tag) == name = Blank \/ tag = name

\* Deliberately wrong: the property is compared with the name of the service.
TwinMatchesService(key, c) ==
  /\ key.of = "report_twin" /\ Asked(c.device, key.device)
  /\ Asked(c.service, key.service) /\ (c.name = Blank \/ key.name = c.service)

TwinMatches(key, c) ==
  /\ key.of = "report_twin" /\ Asked(c.device, key.device)
  /\ Asked(c.service, key.service) /\ Asked(c.name, key.name)

\* A condition on the event compares it with the name of the service.
EventMatches(key, c) ==
  /\ key.of = "report_event" /\ Asked(c.device, key.device)
  /\ Asked(c.service, key.service) /\ (c.name = Blank \/ key.name = c.service)

\* The points a query finds, without bounds on their time stamps or number.
QueryTwin(c) == {key \in DOMAIN db : client /\ TwinMatches(key, c)}
QueryEvent(c) == {key \in DOMAIN db : client /\ EventMatches(key, c)}

-----------------------------------------------------------------------------
(* StoreTwin and StoreEvent. *)

Stamping(r, i, batch) == [pc |-> "stamp", request |-> r, i |-> i, batch |-> batch]

\* Without a client the call returns nil and stores nothing.
Store(w, r) ==
  /\ call[w].pc = "idle" /\ calls < MaxCalls /\ calls' = calls + 1
  /\ call' = [call EXCEPT ![w] = IF client THEN Stamping(r, 1, Empty) ELSE Idle]
  /\ UNCHANGED <<db, clock, client, limbo, stray, faults, sent, acked, gone, deletes>>

\* Deliberately wrong: the time is rounded up to the next millisecond.
KeyRounded(r, i) == [of |-> r.of, device |-> r.device, service |-> r.values[i].service,
                     name |-> r.values[i].name, time |-> clock + 1]

\* The tags of a point and its time, with the precision of the batch.
Key(r, i) == [of |-> r.of, device |-> r.device, service |-> r.values[i].service,
              name |-> r.values[i].name, time |-> clock]

\* NewPoint stamps the next value with the time of now; a nil value is left out.
NewPoint(w) ==
  /\ call[w].pc = "stamp" /\ call[w].i <= Len(call[w].request.values)
  /\ LET r == call[w].request
         v == r.values[call[w].i].value
         key == Key(r, call[w].i)
         Go(batch) == [call EXCEPT ![w] = Stamping(r, call[w].i + 1, batch)]
     IN  IF v = Nil
         THEN call' = Go(call[w].batch) /\ UNCHANGED sent
         ELSE /\ call' = Go(Over(At(key, Text(v)), call[w].batch))
              /\ sent' = Over(At(key, (IF key \in DOMAIN sent THEN sent[key] ELSE {}) \cup {v}), sent)
  /\ UNCHANGED <<db, clock, client, limbo, stray, bounds, acked, gone, deletes>>

Ready(w) == call[w].pc = "stamp" /\ call[w].i > Len(call[w].request.values)
Apply(batch) == db' = Over(batch, db) /\ gone' = gone \ DOMAIN batch

\* Deliberately wrong: a write that fails returns nil.
WriteIgnored(w) ==
  /\ Ready(w)
  /\ \/ Apply(call[w].batch) /\ UNCHANGED faults
     \/ faults < MaxFaults /\ faults' = faults + 1 /\ UNCHANGED <<db, gone>>
  /\ acked' = acked \cup DOMAIN call[w].batch
  /\ call' = [call EXCEPT ![w] = Idle]
  /\ UNCHANGED <<clock, client, limbo, stray, calls, sent, deletes>>

\* Write sends the batch: it is stored and the call returns nil, ...
WritesPoints(w) ==
  /\ Ready(w)
  /\ Apply(call[w].batch)
  /\ acked' = acked \cup DOMAIN call[w].batch
  /\ call' = [call EXCEPT ![w] = Idle]
  /\ UNCHANGED <<clock, client, limbo, stray, bounds, sent, deletes>>

\* ... or it is lost, or there is no answer within the client's timeout, and the
\* call returns an error.
WriteFails(w) ==
  /\ Ready(w) /\ faults < MaxFaults /\ faults' = faults + 1
  /\ \/ UNCHANGED limbo
     \/ limbo' = limbo \cup {call[w].batch}
  /\ call' = [call EXCEPT ![w] = Idle]
  /\ UNCHANGED <<db, clock, client, stray, calls, sent, acked, gone, deletes>>

-----------------------------------------------------------------------------
(* DeleteTwin, StopClient and InfluxDB. *)

Batches == {call[w].batch : w \in Callers} \cup limbo
Open == UNION {DOMAIN b : b \in Batches}

\* InfluxDB deletes what matches c.
Remove(c) ==
  LET doomed == {key \in DOMAIN db : TwinMatches(key, c)}
  IN  /\ db' = [key \in DOMAIN db \ doomed |-> db[key]]
      /\ gone' = gone \cup doomed
      /\ deletes' = deletes \cup {[condition |-> c, time |-> clock, open |-> Open]}

DeleteTwin(c) ==
  /\ client /\ Cardinality(deletes) < MaxDeletes
  /\ Remove(c)
  /\ UNCHANGED <<clock, client, call, limbo, stray, bounds, sent, acked>>

\* The statement is refused or lost, or there is no answer in time.
DeleteFails(c) ==
  /\ client /\ faults < MaxFaults /\ faults' = faults + 1
  /\ \/ UNCHANGED stray
     \/ stray' = stray \cup {c}
  /\ UNCHANGED <<db, clock, client, call, limbo, calls, sent, acked, gone, deletes>>

\* InfluxDB does a delete nobody waits for any more.
DeleteLate(c) ==
  /\ c \in stray /\ stray' = stray \ {c}
  /\ Remove(c)
  /\ UNCHANGED <<clock, client, call, limbo, bounds, sent, acked>>

\* Calls that have the client already go on with it.
StopClient ==
  /\ client /\ client' = FALSE
  /\ UNCHANGED <<db, clock, call, limbo, stray, bounds, sent, acked, gone, deletes>>

\* InfluxDB does a write nobody waits for any more.
WriteLate(b) ==
  /\ b \in limbo /\ limbo' = limbo \ {b}
  /\ Apply(b)
  /\ UNCHANGED <<clock, client, call, stray, bounds, sent, acked, deletes>>

\* The retention policy drops what is older than its duration.
Expire ==
  LET old == {key \in DOMAIN db : key.time + Keep < clock}
  IN  /\ old # {}
      /\ db' = [key \in DOMAIN db \ old |-> db[key]]
      /\ gone' = gone \cup old
      /\ UNCHANGED <<clock, client, call, limbo, stray, bounds, sent, acked, deletes>>

Tick ==
  /\ clock < MaxClock /\ clock' = clock + 1
  /\ UNCHANGED <<db, client, call, limbo, stray, bounds, sent, acked, gone, deletes>>

Init ==
  /\ db = Empty /\ clock = 0 /\ client \in BOOLEAN
  /\ call = [w \in Callers |-> Idle] /\ limbo = {} /\ stray = {}
  /\ calls = 0 /\ faults = 0
  /\ sent = Empty /\ acked = {} /\ gone = {} /\ deletes = {}

Next ==
  \/ \E w \in Callers : \/ \E r \in Requests : Store(w, r)
                        \/ NewPoint(w) \/ WritesPoints(w) \/ WriteFails(w)
  \/ \E c \in Conditions : DeleteTwin(c) \/ DeleteFails(c) \/ DeleteLate(c)
  \/ StopClient \/ Expire \/ Tick
  \/ \E b \in limbo : WriteLate(b)

Spec == Init /\ [][Next]_vars

-----------------------------------------------------------------------------
(* Properties. *)

\* Points bear stamps that have been given out; a batch is a call's own.
TypeOK ==
  /\ DOMAIN db \subseteq DOMAIN sent /\ acked \subseteq DOMAIN sent
  /\ Open \subseteq DOMAIN sent
  /\ \A key \in DOMAIN sent : key.time \in 0..clock
  /\ \A w \in Callers : call[w].pc = "idle" => call[w] = Idle
  /\ DOMAIN db \cap gone = {}

\* A float whose text need not have its digits, or that fits no int.
Rounded(v) == v.type = "float" /\ v.n \notin -Exact .. Exact
Overflows(v) == v.type = "float" /\ v.n \notin MinInt .. MaxInt

\* A value whose StoreTwin returned nil is found by a query for its property, and
\* an event by a query for its service, until it is deleted or its time is over,
\* unless a value of the same property in the same millisecond took its place:
\* with its own digits, but for a uint that does not fit an int, and for a float
\* beyond Exact, which has the fewest digits that are read back as this float.
AckedIsFound ==
  client => \A key \in acked \ gone :
     LET c == [device |-> key.device, service |-> key.service,
               name |-> IF key.of = "report_twin" THEN key.name ELSE Blank]
     IN  /\ key \in IF key.of = "report_twin" THEN QueryTwin(c) ELSE QueryEvent(c)
         /\ \E v \in sent[key] :
              \/ db[key].n = v.n
              \/ v.type = "uint" /\ v.n > MaxInt
              \/ Rounded(v) /\ db[key].n = FloatDigits[v.n]

\* Whoever turns the text that a query returns back into an int gets what the
\* value reported is as an int, but for a fraction (its text is no integer, and
\* the error is dropped), for a uint64 that does not fit (the one wraps and the
\* text is cut to the largest int), and for a float beyond Exact or the range of an
\* int, of which it gets the digits of the text, cut to the nearest int.  A uint
\* that does not fit has wrapped in its text already.
ReadsBack ==
  \A key \in DOMAIN db : \E v \in sent[key] :
     \/ ToInt(db[key]) = ToInt(v)
     \/ v.part /\ ToInt(db[key]) = 0
     \/ v.type = "uint64" /\ v.n > MaxInt /\ ToInt(db[key]) = MaxInt
     \/ (Rounded(v) \/ Overflows(v)) /\ ToInt(db[key]) = Nearest(FloatDigits[v.n])

\* What DeleteTwin was asked to delete does not come back, but for the points of
\* a call that had stamped them before and wrote them after, or whose write had
\* timed out.
DeletedStaysDeleted ==
  \A d \in deletes : \A key \in DOMAIN db :
     key.of = "report_twin" /\ key.time < d.time
     /\ Asked(d.condition.device, key.device) /\ Asked(d.condition.service, key.service)
     /\ Asked(d.condition.name, key.name)
     => key \in d.open
=============================================================================

-------------------------- MODULE TimeSeries_proofs --------------------------
(***************************************************************************)
(* What InfluxDB holds of the values stored, for any number of callers,     *)
(* requests, faults and deletes and any duration of the retention policy.   *)
(***************************************************************************)
EXTENDS TimeSeries, TLAPS

\* A call is idle or stamps the values of its request, one after the other.
Calls ==
  /\ DOMAIN call = Callers /\ call = [w \in Callers |-> call[w]]
  /\ \A w \in Callers :
       \/ call[w] = Idle
       \/ /\ call[w] = Stamping(call[w].request, call[w].i, call[w].batch)
          /\ call[w].request \in Requests /\ call[w].i \in Nat \ {0}

\* Stamps are not ahead of the clock.
Stamps ==
  /\ clock \in Nat
  /\ \A key \in DOMAIN sent : key.time \in 0 .. clock /\ key.of \in {"report_twin", "report_event"}

\* Each point bears the text of a value that was stamped with its key.
Vouched(points, stamps) ==
  \A key \in DOMAIN points :
    key \in DOMAIN stamps /\ \E v \in stamps[key] : IsNumber(v) /\ points[key] = Text(v)

AllVouched == Vouched(db, sent) /\ \A b \in Batches : Vouched(b, sent)

\* An acknowledged point is in the database or was taken out of it.
Accounted ==
  /\ acked \subseteq DOMAIN db \cup gone /\ acked \subseteq DOMAIN sent
  /\ DOMAIN db \cap gone = {}

\* Whoever holds a point that is older than a delete held it then.
HeldThen ==
  \A d \in deletes :
    /\ d.time \in 0 .. clock
    /\ \A key \in Open : key.time < d.time => key \in d.open

IInv == Calls /\ Stamps /\ AllVouched /\ Accounted /\ HeldThen /\ DeletedStaysDeleted
-----------------------------------------------------------------------------
\* A function over another.
LEMMA OverIs ==
  ASSUME NEW new, NEW old
  PROVE  /\ DOMAIN Over(new, old) = DOMAIN new \cup DOMAIN old
         /\ \A k \in DOMAIN new : Over(new, old)[k] = new[k]
         /\ \A k \in DOMAIN old \ DOMAIN new : Over(new, old)[k] = old[k]
BY DEF Over

LEMMA AtIs == ASSUME NEW key, NEW x PROVE DOMAIN At(key, x) = {key} /\ At(key, x)[key] = x
BY DEF At

\* What NewPoint does of a value that is not nil.
Stamped(w, key, v) ==
  /\ key.time = clock /\ key.of \in {"report_twin", "report_event"} /\ IsNumber(v)
  /\ call' = [call EXCEPT ![w] =
                 Stamping(call[w].request, call[w].i + 1, Over(At(key, Text(v)), call[w].batch))]
  /\ DOMAIN sent' = DOMAIN sent \cup {key} /\ v \in sent'[key]
  /\ \A k \in DOMAIN sent : sent[k] \subseteq sent'[k]

LEMMA NewPointIs ==
  ASSUME Calls, NEW w \in Callers, NewPoint(w)
  PROVE  /\ call[w].request \in Requests /\ call[w].i \in Nat \ {0}
         /\ UNCHANGED <<db, clock, client, limbo, stray, bounds, acked, gone, deletes>>
         /\ \/ /\ call' = [call EXCEPT ![w] = Stamping(call[w].request, call[w].i + 1, call[w].batch)]
               /\ UNCHANGED sent
            \/ \E key, v : Stamped(w, key, v)
<1>1. /\ call[w].request \in Requests /\ call[w].i \in Nat \ {0}
      /\ call[w].i <= Len(call[w].request.values)
  BY DEF NewPoint, Calls, Idle
<1> DEFINE i == call[w].i
           v == call[w].request.values[i].value
           key == Key(call[w].request, i)
<1>3. CASE v = Nil
  BY <1>1, <1>3 DEF NewPoint
<1>4. CASE v # Nil
  <2>1. /\ call' = [call EXCEPT ![w] = Stamping(call[w].request, i + 1, Over(At(key, Text(v)), call[w].batch))]
        /\ sent' = Over(At(key, (IF key \in DOMAIN sent THEN sent[key] ELSE {}) \cup {v}), sent)
    BY <1>4 DEF NewPoint
  <2>2. IsNumber(v) /\ call[w].request.of \in {"report_twin", "report_event"}
    BY <1>1, <1>4, SeriesAssumption
  <2>3. key.time = clock /\ key.of \in {"report_twin", "report_event"}
    BY <2>2 DEF Key
  <2>4. DOMAIN sent' = DOMAIN sent \cup {key} /\ v \in sent'[key] /\ \A k \in DOMAIN sent : sent[k] \subseteq sent'[k]
    <3> HIDE DEF key, v
    <3> DEFINE S == (IF key \in DOMAIN sent THEN sent[key] ELSE {}) \cup {v}
    <3>1. v \in S /\ (key \in DOMAIN sent => sent[key] \subseteq S)
      OBVIOUS
    <3> HIDE DEF S
    <3>2. sent' = Over(At(key, S), sent)
      BY <2>1 DEF S
    <3>3. /\ DOMAIN sent' = {key} \cup DOMAIN sent /\ sent'[key] = S
          /\ \A k \in DOMAIN sent : k # key => sent'[k] = sent[k]
      <4> DEFINE A == At(key, S)
      <4>1. DOMAIN A = {key} /\ A[key] = S
        BY AtIs
      <4>2. sent' = Over(A, sent)
        BY <3>2
      <4> HIDE DEF A
      <4>3. DOMAIN sent' = DOMAIN A \cup DOMAIN sent
        BY <4>2, OverIs
      <4>4. sent'[key] = A[key]
        BY <4>1, <4>2 DEF Over
      <4>5. \A k \in DOMAIN sent : k # key => sent'[k] = sent[k]
        BY <4>1, <4>2 DEF Over
      <4> QED
        BY <4>1, <4>3, <4>4, <4>5
    <3> QED
      BY <3>1, <3>3
  <2>6. Stamped(w, key, v)
    <3> HIDE DEF key, v
    <3> QED
      BY <2>1, <2>2, <2>3, <2>4 DEF Stamped
  <2> QED
    BY <1>1, <2>6 DEF NewPoint
<1> QED
  BY <1>3, <1>4

\* A call goes from idle to stamping, from value to value, and back to idle.
LEMMA CallsStep == Calls /\ [Next]_vars => Calls'
<1> SUFFICES ASSUME Calls, [Next]_vars PROVE Calls'
  OBVIOUS
<1>1. ASSUME NEW w \in Callers, NEW r \in Requests, NEW i \in Nat \ {0}, NEW b,
             call' = [call EXCEPT ![w] = Stamping(r, i, b)]
      PROVE  Calls'
  <2>1. DOMAIN call' = Callers /\ call' = [x \in Callers |-> call'[x]] /\ call'[w] = Stamping(r, i, b)
        /\ \A x \in Callers \ {w} : call'[x] = call[x]
    BY <1>1 DEF Calls
  <2>2. Stamping(r, i, b).request = r /\ Stamping(r, i, b).i = i /\ Stamping(r, i, b).batch = b
    BY DEF Stamping
  <2> QED
    BY <2>1, <2>2 DEF Calls
<1>2. ASSUME NEW w \in Callers, call' = [call EXCEPT ![w] = Idle] PROVE Calls'
  BY <1>2 DEF Calls
<1>3. ASSUME NEW w \in Callers, NEW r \in Requests, Store(w, r) PROVE Calls'
  <2>1. CASE call' = [call EXCEPT ![w] = Stamping(r, 1, Empty)]
    <3> DEFINE i == 1
               b == Empty
    <3>1. i \in Nat \ {0} /\ call' = [call EXCEPT ![w] = Stamping(r, i, b)]
      BY <2>1
    <3> HIDE DEF i, b
    <3> QED
      BY <1>1, <3>1
  <2> QED
    BY <1>2, <1>3, <2>1 DEF Store
<1>4. ASSUME NEW w \in Callers, NewPoint(w) PROVE Calls'
  <2>1. call[w].request \in Requests /\ call[w].i + 1 \in Nat \ {0}
    BY <1>4, NewPointIs
  <2>2. CASE call' = [call EXCEPT ![w] = Stamping(call[w].request, call[w].i + 1, call[w].batch)]
    BY <1>1, <2>1, <2>2
  <2>3. ASSUME NEW key, NEW v, Stamped(w, key, v) PROVE Calls'
    BY <1>1, <2>1, <2>3 DEF Stamped
  <2> QED
    BY <1>4, <2>2, <2>3, NewPointIs
<1>5. ASSUME NEW w \in Callers, WritesPoints(w) \/ WriteFails(w) PROVE Calls'
  BY <1>2, <1>5 DEF WritesPoints, WriteFails
<1>6. ASSUME call' = call PROVE Calls'
  BY <1>6 DEF Calls
<1> QED
  BY <1>3, <1>4, <1>5, <1>6 DEF Next, DeleteTwin, DeleteFails, DeleteLate, StopClient, Expire, Tick, WriteLate, vars

\* The clock does not go back, and stamps are of now.
LEMMA StampsStep == Calls /\ Stamps /\ [Next]_vars => Stamps' /\ clock <= clock'
<1> SUFFICES ASSUME Calls, Stamps, [Next]_vars PROVE Stamps' /\ clock <= clock'
  OBVIOUS
<1>1. ASSUME UNCHANGED <<sent, clock>> PROVE Stamps' /\ clock <= clock'
  BY <1>1 DEF Stamps
<1>2. CASE Tick
  BY <1>2 DEF Tick, Stamps
<1>3. ASSUME NEW w \in Callers, NewPoint(w) PROVE Stamps' /\ clock <= clock'
  <2>1. clock' = clock /\ (sent' = sent \/ \E key, v : Stamped(w, key, v))
    BY <1>3, NewPointIs
  <2>2. ASSUME NEW key, NEW v, Stamped(w, key, v) PROVE Stamps'
    <3>1. /\ key.time = clock /\ key.of \in {"report_twin", "report_event"}
          /\ DOMAIN sent' = DOMAIN sent \cup {key} /\ clock \in Nat
      BY <2>2 DEF Stamped, Stamps
    <3> QED
      BY <2>1, <3>1 DEF Stamps
  <2> QED
    BY <1>1, <2>1, <2>2 DEF Stamps
<1> QED
  BY <1>1, <1>2, <1>3 DEF Next, Store, WritesPoints, WriteFails, DeleteTwin, DeleteFails, DeleteLate,
     StopClient, Expire, WriteLate, vars

\* Where batches come from.
LEMMA BatchStep ==
  ASSUME Calls, [Next]_vars, NEW b \in Batches'
  PROVE  \/ b \in Batches
         \/ DOMAIN b = {}
         \/ \E w \in Callers : \E key, v : Stamped(w, key, v) /\ b = Over(At(key, Text(v)), call[w].batch)
<1> DEFINE Goal == \/ b \in Batches
                   \/ DOMAIN b = {}
                   \/ \E w \in Callers : \E key, v :
                        Stamped(w, key, v) /\ b = Over(At(key, Text(v)), call[w].batch)
<1> SUFFICES Goal
  OBVIOUS
<1>1. ASSUME NEW w \in Callers, NEW c, call' = [call EXCEPT ![w] = c], limbo' \subseteq Batches,
             c.batch \in Batches \/ DOMAIN c.batch = {}
      PROVE  Goal
  <2>1. call'[w] = c /\ \A x \in Callers \ {w} : call'[x] = call[x]
    BY <1>1 DEF Calls
  <2> QED
    BY <1>1, <2>1 DEF Batches
<1>2. ASSUME call' = call, limbo' \subseteq limbo PROVE Goal
  BY <1>2 DEF Batches
<1>3. limbo \subseteq Batches /\ (\A w \in Callers : call[w].batch \in Batches)
  BY DEF Batches
<1>4. DOMAIN Idle.batch = {} /\ DOMAIN Empty = {} /\ \A r, i, f : Stamping(r, i, f).batch = f
  BY DEF Idle, Empty, Stamping
<1>5. ASSUME NEW w \in Callers, NEW r \in Requests, Store(w, r) PROVE Goal
  <2>1. limbo' = limbo /\ \/ call' = [call EXCEPT ![w] = Stamping(r, 1, Empty)]
                          \/ call' = [call EXCEPT ![w] = Idle]
    BY <1>5 DEF Store
  <2> HIDE DEF Goal
  <2>2. CASE call' = [call EXCEPT ![w] = Stamping(r, 1, Empty)]
    <3> DEFINE c == Stamping(r, 1, Empty)
    <3>1. DOMAIN c.batch = {} /\ call' = [call EXCEPT ![w] = c]
      BY <1>4, <2>2
    <3> HIDE DEF c
    <3> QED
      BY <1>1, <1>3, <2>1, <3>1
  <2>3. CASE call' = [call EXCEPT ![w] = Idle]
    BY <1>1, <1>3, <1>4, <2>1, <2>3
  <2> QED
    BY <2>1, <2>2, <2>3
<1>6. ASSUME NEW w \in Callers, NewPoint(w) PROVE Goal
  <2>1. limbo' = limbo
    BY <1>6, NewPointIs
  <2>2. CASE call' = [call EXCEPT ![w] = Stamping(call[w].request, call[w].i + 1, call[w].batch)]
    <3> DEFINE c == Stamping(call[w].request, call[w].i + 1, call[w].batch)
    <3>1. c.batch \in Batches /\ call' = [call EXCEPT ![w] = c]
      BY <1>3, <1>4, <2>2
    <3> HIDE DEF c, Goal
    <3> QED
      BY <1>1, <1>3, <2>1, <3>1
  <2>3. ASSUME NEW key, NEW v, Stamped(w, key, v) PROVE Goal
    <3> DEFINE f == Over(At(key, Text(v)), call[w].batch)
               c == Stamping(call[w].request, call[w].i + 1, f)
    <3>1. call' = [call EXCEPT ![w] = c] /\ c.batch = f
      BY <1>4, <2>3 DEF Stamped
    <3> HIDE DEF c, f
    <3>2. call'[w] = c /\ \A x \in Callers \ {w} : call'[x] = call[x]
      BY <3>1 DEF Calls
    <3>3. b \in Batches \/ b = f
      BY <2>1, <3>1, <3>2 DEF Batches
    <3> QED
      BY <2>3, <3>3 DEF f
  <2> QED
    BY <1>6, <2>2, <2>3, NewPointIs
<1>7. ASSUME NEW w \in Callers, WritesPoints(w) \/ WriteFails(w) PROVE Goal
  <2>1. limbo' \subseteq Batches /\ call' = [call EXCEPT ![w] = Idle]
    BY <1>3, <1>7 DEF WritesPoints, WriteFails
  <2> HIDE DEF Goal
  <2> QED
    BY <1>1, <1>4, <2>1
<1> HIDE DEF Goal
<1> QED
  BY <1>2, <1>5, <1>6, <1>7 DEF Next, DeleteTwin, DeleteFails, DeleteLate, StopClient, Expire, Tick, WriteLate, vars

\* Nothing that was stamped is forgotten.
LEMMA SentGrows ==
  ASSUME Calls, [Next]_vars
  PROVE  \A key \in DOMAIN sent : key \in DOMAIN sent' /\ sent[key] \subseteq sent'[key]
<1>1. ASSUME NEW w \in Callers, NewPoint(w)
      PROVE  \A key \in DOMAIN sent : key \in DOMAIN sent' /\ sent[key] \subseteq sent'[key]
  BY <1>1, NewPointIs DEF Stamped
<1> QED
  BY <1>1 DEF Next, Store, WritesPoints, WriteFails, DeleteTwin, DeleteFails, DeleteLate,
     StopClient, Expire, Tick, WriteLate, vars

\* How the database changes: a batch is written over it, or points are taken out.
LEMMA DbStep ==
  ASSUME Calls, [Next]_vars
  PROVE  \/ UNCHANGED <<db, gone, acked>>
         \/ \E b \in Batches : /\ db' = Over(b, db) /\ gone' = gone \ DOMAIN b
                               /\ acked \subseteq acked' /\ acked' \subseteq acked \cup DOMAIN b
         \/ \E D \in SUBSET DOMAIN db : /\ db' = [key \in DOMAIN db \ D |-> db[key]]
                                        /\ gone' = gone \cup D /\ acked' = acked
<1>1. ASSUME NEW w \in Callers, WritesPoints(w)
      PROVE  \E b \in Batches : /\ db' = Over(b, db) /\ gone' = gone \ DOMAIN b
                                /\ acked \subseteq acked' /\ acked' \subseteq acked \cup DOMAIN b
  BY <1>1 DEF WritesPoints, Apply, Batches
<1>2. ASSUME NEW b \in limbo, WriteLate(b)
      PROVE  b \in Batches /\ db' = Over(b, db) /\ gone' = gone \ DOMAIN b /\ acked' = acked
  BY <1>2 DEF WriteLate, Apply, Batches
<1>3. ASSUME NEW c \in Conditions, DeleteTwin(c) \/ DeleteLate(c)
      PROVE  \E D \in SUBSET DOMAIN db : /\ db' = [key \in DOMAIN db \ D |-> db[key]]
                                         /\ gone' = gone \cup D /\ acked' = acked
  BY <1>3 DEF DeleteTwin, DeleteLate, Remove
<1>4. ASSUME Expire
      PROVE  \E D \in SUBSET DOMAIN db : /\ db' = [key \in DOMAIN db \ D |-> db[key]]
                                         /\ gone' = gone \cup D /\ acked' = acked
  BY <1>4 DEF Expire
<1>5. ASSUME NEW w \in Callers, NewPoint(w) PROVE UNCHANGED <<db, gone, acked>>
  BY <1>5, NewPointIs
<1> QED
  BY <1>1, <1>2, <1>3, <1>4, <1>5 DEF Next, Store, WriteFails, DeleteFails, StopClient, Tick, vars

\* The digits that AckedIsFound allows, and the int that ReadsBack allows.
KeepsDigits(v, text) ==
  \/ text.n = v.n
  \/ v.type = "uint" /\ v.n > MaxInt
  \/ Rounded(v) /\ text.n = FloatDigits[v.n]

GivesBack(v, text) ==
  \/ ToInt(text) = ToInt(v)
  \/ v.part /\ ToInt(text) = 0
  \/ v.type = "uint64" /\ v.n > MaxInt /\ ToInt(text) = MaxInt
  \/ (Rounded(v) \/ Overflows(v)) /\ ToInt(text) = Nearest(FloatDigits[v.n])

LEMMA Ranges == MaxInt \in Int /\ MinInt = - MaxInt - 1 /\ Exact \in Nat
<1>1. 2^(Width - 1) \in Int
  BY NumberAssumption
<1> QED
  BY <1>1, NumberAssumption DEF MaxInt, MinInt

\* The text of a number is that number, within the limits of the two properties.
LEMMA TextReadsBack ==
  ASSUME NEW v, IsNumber(v)
  PROVE  KeepsDigits(v, Text(v)) /\ GivesBack(v, Text(v))
<1> DEFINE t == Text(v)
<1>1. /\ v.type \in {"int", "uint", "uint64", "float", "text"} /\ v.n \in Int /\ v.part \in BOOLEAN
      /\ v.type = "int" => v.n >= MinInt /\ v.n <= MaxInt
      /\ v.type \in {"uint", "uint64"} => v.n >= 0 /\ v.n <= 2 * MaxInt + 1
      /\ v.type = "float" => v.n \in DOMAIN FloatDigits
      /\ v.part => v.type = "text" \/ (v.type = "float" /\ v.n \in -Exact .. Exact)
  BY Ranges DEF IsNumber
<1>2. t.type = "text" /\ t.part = v.part /\ t.n = Digits(v)
  BY DEF Text
<1>3. ToInt(t) = IF v.part THEN 0 ELSE Nearest(Digits(v))
  BY <1>2 DEF ToInt, Atoi
<1> SUFFICES KeepsDigits(v, t) /\ GivesBack(v, t)
  OBVIOUS
<1> HIDE DEF t
<1>4. CASE v.type = "float"
  <2> DEFINE d == FloatDigits[v.n]
  <2>1. Digits(v) = d
    BY <1>4 DEF Digits
  <2>2. v.n \in -Exact .. Exact => d = v.n
    BY <1>1, <1>4, NumberAssumption
  <2>3. KeepsDigits(v, t)
    BY <1>2, <1>4, <2>1, <2>2 DEF KeepsDigits, Rounded
  <2>4. CASE v.part
    BY <1>3, <2>3, <2>4 DEF GivesBack
  <2>5. CASE ~ v.part /\ (Rounded(v) \/ Overflows(v))
    BY <1>3, <2>1, <2>3, <2>5 DEF GivesBack
  <2>6. CASE ~ v.part /\ ~ Rounded(v) /\ ~ Overflows(v)
    <3>1. v.n \in -Exact .. Exact /\ v.n \in MinInt .. MaxInt
      BY <1>4, <2>6 DEF Rounded, Overflows
    <3>2. v.n <= MaxInt /\ v.n >= MinInt
      BY <1>1, <3>1, Ranges
    <3>3. ToInt(t) = v.n
      BY <1>1, <1>3, <2>1, <2>2, <2>6, <3>1, <3>2, Ranges DEF Nearest
    <3>4. ToInt(v) = v.n
      BY <1>1, <1>4, <3>1, <3>2, Ranges DEF ToInt, AsInt
    <3> QED
      BY <2>3, <3>3, <3>4 DEF GivesBack
  <2> QED
    BY <1>1, <2>3, <2>4, <2>5, <2>6
<1>5. CASE v.type = "uint"
  <2>1. AsInt(v.n) \in Int /\ MinInt <= AsInt(v.n) /\ AsInt(v.n) <= MaxInt
    BY <1>1, <1>5, Ranges DEF AsInt
  <2>2. Digits(v) = AsInt(v.n) /\ ToInt(v) = AsInt(v.n)
    BY <1>5 DEF Digits, ToInt
  <2>3. ToInt(t) = AsInt(v.n)
    BY <1>1, <1>3, <1>5, <2>1, <2>2, Ranges DEF Nearest
  <2>4. v.n <= MaxInt => AsInt(v.n) = v.n
    BY <1>1, Ranges DEF AsInt
  <2>5. v.n > MaxInt \/ v.n <= MaxInt
    BY <1>1, Ranges
  <2> QED
    BY <1>2, <1>5, <2>2, <2>3, <2>4, <2>5 DEF KeepsDigits, GivesBack
<1>6. CASE v.type \in {"int", "uint64", "text"}
  <2>1. Digits(v) = v.n
    BY <1>6 DEF Digits
  <2>2. KeepsDigits(v, t)
    BY <1>2, <2>1 DEF KeepsDigits
  <2>3. CASE v.type = "text"
    BY <1>2, <1>3, <2>1, <2>2, <2>3 DEF GivesBack, ToInt, Atoi
  <2>4. CASE v.type # "text" /\ v.n <= MaxInt
    <3>1. ~ v.part /\ v.n >= MinInt
      BY <1>1, <1>6, <2>4, Ranges
    <3>2. ToInt(v) = v.n
      BY <1>1, <1>6, <2>4, Ranges DEF ToInt, AsInt
    <3>3. ToInt(t) = v.n
      BY <1>1, <1>3, <2>1, <2>4, <3>1, Ranges DEF Nearest
    <3> QED
      BY <2>2, <3>2, <3>3 DEF GivesBack
  <2>5. CASE v.type # "text" /\ v.n > MaxInt
    <3>1. ~ v.part /\ v.type = "uint64"
      BY <1>1, <1>6, <2>5, Ranges
    <3>2. ToInt(t) = MaxInt
      BY <1>1, <1>3, <2>1, <2>5, <3>1, Ranges DEF Nearest
    <3> QED
      BY <2>2, <2>5, <3>1, <3>2 DEF GivesBack
  <2>6. v.n > MaxInt \/ v.n <= MaxInt
    BY <1>1, Ranges
  <2> QED
    BY <2>2, <2>3, <2>4, <2>5, <2>6
<1> QED
  BY <1>1, <1>4, <1>5, <1>6

\* Points stay vouched for while more is stamped, and when they are put together.
LEMMA VouchedStays ==
  ASSUME NEW points, NEW s, NEW t, Vouched(points, s),
         \A key \in DOMAIN s : key \in DOMAIN t /\ s[key] \subseteq t[key]
  PROVE  Vouched(points, t)
BY DEF Vouched

LEMMA VouchedOver ==
  ASSUME NEW new, NEW old, NEW s, Vouched(new, s), Vouched(old, s)
  PROVE  Vouched(Over(new, old), s)
BY DEF Vouched, Over

LEMMA VouchedStep == Calls /\ AllVouched /\ [Next]_vars => AllVouched'
<1> SUFFICES ASSUME Calls, AllVouched, [Next]_vars PROVE AllVouched'
  OBVIOUS
<1> DEFINE t == sent'
<1>1. \A key \in DOMAIN sent : key \in DOMAIN t /\ sent[key] \subseteq t[key]
  BY SentGrows
<1> HIDE DEF t
<1>2. Vouched(db, t) /\ \A b \in Batches : Vouched(b, t)
  BY <1>1, VouchedStays DEF AllVouched
<1>3. Vouched(db', t)
  <2>1. ASSUME NEW b \in Batches, db' = Over(b, db) PROVE Vouched(db', t)
    BY <1>2, <2>1, VouchedOver
  <2>2. ASSUME NEW D, db' = [key \in DOMAIN db \ D |-> db[key]] PROVE Vouched(db', t)
    BY <1>2, <2>2 DEF Vouched
  <2> QED
    BY <1>2, <2>1, <2>2, DbStep
<1>4. ASSUME NEW b \in Batches' PROVE Vouched(b, t)
  <2>1. ASSUME NEW w \in Callers, NEW key, NEW v, Stamped(w, key, v), b = Over(At(key, Text(v)), call[w].batch)
        PROVE  Vouched(b, t)
    <3>1. Vouched(call[w].batch, t)
      BY <1>2 DEF Batches
    <3>2. Vouched(At(key, Text(v)), t)
      <4>1. IsNumber(v) /\ key \in DOMAIN t /\ v \in t[key]
        BY <2>1 DEF Stamped, t
      <4> DEFINE f == At(key, Text(v))
      <4>2. DOMAIN f = {key} /\ f[key] = Text(v)
        BY AtIs
      <4> HIDE DEF f
      <4>3. Vouched(f, t)
        BY <4>1, <4>2 DEF Vouched
      <4> QED
        BY <4>3 DEF f
    <3> QED
      BY <2>1, <3>1, <3>2, VouchedOver
  <2>2. CASE DOMAIN b = {}
    BY <2>2 DEF Vouched
  <2> QED
    BY <1>2, <1>4, <2>1, <2>2, BatchStep
<1> QED
  BY <1>3, <1>4 DEF AllVouched, t

LEMMA AccountedStep == Calls /\ Accounted /\ AllVouched /\ [Next]_vars => Accounted'
<1> SUFFICES ASSUME Calls, Accounted, AllVouched, [Next]_vars PROVE Accounted'
  OBVIOUS
<1>1. DOMAIN sent \subseteq DOMAIN sent' /\ \A b \in Batches : DOMAIN b \subseteq DOMAIN sent
  BY SentGrows DEF AllVouched, Vouched
<1>2. CASE UNCHANGED <<db, gone, acked>>
  BY <1>1, <1>2 DEF Accounted
<1>3. ASSUME NEW b \in Batches, db' = Over(b, db), gone' = gone \ DOMAIN b, acked' \subseteq acked \cup DOMAIN b
      PROVE  Accounted'
  <2>1. DOMAIN db' = DOMAIN b \cup DOMAIN db
    BY <1>3, OverIs
  <2> QED
    BY <1>1, <1>3, <2>1 DEF Accounted
<1>4. ASSUME NEW D \in SUBSET DOMAIN db, db' = [key \in DOMAIN db \ D |-> db[key]], gone' = gone \cup D, acked' = acked
      PROVE  Accounted'
  <2>1. DOMAIN db' = DOMAIN db \ D
    BY <1>4
  <2> QED
    BY <1>1, <1>4, <2>1 DEF Accounted
<1> QED
  BY <1>2, <1>3, <1>4, DbStep

\* The points that somebody holds.
LEMMA OpenIs ==
  /\ \A key : key \in Open <=> \E b \in Batches : key \in DOMAIN b
  /\ \A key : key \in Open' <=> \E b \in Batches' : key \in DOMAIN b
BY DEF Open

LEMMA HeldThenStep == Calls /\ Stamps /\ HeldThen /\ [Next]_vars => HeldThen'
<1> SUFFICES ASSUME Calls, Stamps, HeldThen, [Next]_vars PROVE HeldThen'
  OBVIOUS
<1>1. clock \in Nat /\ clock' \in Nat /\ clock <= clock'
  BY StampsStep DEF Stamps
<1>2. ASSUME NEW d \in deletes, NEW key \in Open', key.time < d.time PROVE key \in d.open
  <2>1. PICK b \in Batches' : key \in DOMAIN b
    BY OpenIs
  <2>2. \A c \in Batches : key \in DOMAIN c => key \in d.open
    BY <1>2, OpenIs DEF HeldThen
  <2>3. ASSUME NEW w \in Callers, NEW k, NEW v, Stamped(w, k, v), b = Over(At(k, Text(v)), call[w].batch)
        PROVE  key \in d.open
    <3>1. DOMAIN b = {k} \cup DOMAIN call[w].batch
      <4>1. DOMAIN b = DOMAIN At(k, Text(v)) \cup DOMAIN call[w].batch
        BY <2>3, OverIs
      <4> QED
        BY <4>1, AtIs
    <3>2. key # k
      BY <1>1, <1>2, <2>3 DEF Stamped, HeldThen
    <3>3. call[w].batch \in Batches
      BY DEF Batches
    <3> QED
      BY <2>1, <2>2, <3>1, <3>2, <3>3
  <2> QED
    BY <2>1, <2>2, <2>3, BatchStep
<1>3. \A d \in deletes : d.time \in 0 .. clock'
  BY <1>1 DEF HeldThen
<1>4. CASE deletes' = deletes
  BY <1>2, <1>3, <1>4 DEF HeldThen
<1>5. ASSUME NEW c \in Conditions, DeleteTwin(c) \/ DeleteLate(c) PROVE HeldThen'
  <2> DEFINE e == [condition |-> c, time |-> clock, open |-> Open]
  <2>1. deletes' = deletes \cup {e} /\ Open' = Open /\ clock' = clock
    BY <1>5 DEF DeleteTwin, DeleteLate, Remove, Open, Batches
  <2>2. e.time = clock /\ e.open = Open
    OBVIOUS
  <2> HIDE DEF e
  <2> QED
    BY <1>1, <1>2, <1>3, <2>1, <2>2 DEF HeldThen
<1>6. ASSUME NEW w \in Callers, NewPoint(w) PROVE deletes' = deletes
  BY <1>6, NewPointIs
<1> QED
  BY <1>4, <1>5, <1>6 DEF Next, Store, WritesPoints, WriteFails, DeleteFails, StopClient,
     Expire, Tick, WriteLate, vars

\* What a delete is asked to delete.
Doomed(key, c) ==
  /\ key.of = "report_twin"
  /\ Asked(c.device, key.device) /\ Asked(c.service, key.service) /\ Asked(c.name, key.name)

LEMMA DeletedStep == Calls /\ HeldThen /\ DeletedStaysDeleted /\ [Next]_vars => DeletedStaysDeleted'
<1> SUFFICES ASSUME Calls, HeldThen, DeletedStaysDeleted, [Next]_vars PROVE DeletedStaysDeleted'
  OBVIOUS
<1>1. \A d \in deletes : \A key \in DOMAIN db : Doomed(key, d.condition) /\ key.time < d.time => key \in d.open
  BY DEF DeletedStaysDeleted, Doomed
<1>2. SUFFICES ASSUME NEW d \in deletes', NEW key \in DOMAIN db', Doomed(key, d.condition), key.time < d.time
               PROVE  key \in d.open
  <2>1. \A d \in deletes' : \A key \in DOMAIN db' : Doomed(key, d.condition) /\ key.time < d.time => key \in d.open
    BY <1>2
  <2> QED
    BY <2>1 DEF DeletedStaysDeleted, Doomed, Asked
<1>3. CASE d \in deletes
  <2>1. key \in DOMAIN db \/ \E b \in Batches : key \in DOMAIN b
    <3>1. ASSUME NEW b \in Batches, db' = Over(b, db) PROVE DOMAIN db' = DOMAIN b \cup DOMAIN db
      BY <3>1, OverIs
    <3>2. ASSUME NEW D, db' = [k \in DOMAIN db \ D |-> db[k]] PROVE DOMAIN db' \subseteq DOMAIN db
      BY <3>2
    <3> QED
      BY <1>2, <3>1, <3>2, DbStep
  <2>2. (\E b \in Batches : key \in DOMAIN b) => key \in d.open
    BY <1>2, <1>3, OpenIs DEF HeldThen
  <2> QED
    BY <1>1, <1>2, <1>3, <2>1, <2>2
<1>4. ASSUME NEW c \in Conditions, DeleteTwin(c) \/ DeleteLate(c), d \notin deletes PROVE FALSE
  <2>1. d = [condition |-> c, time |-> clock, open |-> Open] /\ key \in DOMAIN db /\ ~ TwinMatches(key, c)
    BY <1>4 DEF DeleteTwin, DeleteLate, Remove
  <2>2. TwinMatches(key, c)
    BY <1>2, <2>1 DEF Doomed, TwinMatches
  <2> QED
    BY <2>1, <2>2
<1>5. ASSUME NEW w \in Callers, NewPoint(w) PROVE deletes' = deletes
  BY <1>5, NewPointIs
<1> QED
  BY <1>3, <1>4, <1>5 DEF Next, Store, WritesPoints, WriteFails, DeleteFails, StopClient,
     Expire, Tick, WriteLate, vars

LEMMA Invariance == Spec => []IInv
<1>1. Init => IInv
  <2> SUFFICES ASSUME Init PROVE IInv
    OBVIOUS
  <2>1. Calls
    BY DEF Init, Calls
  <2>2. DOMAIN db = {} /\ DOMAIN sent = {} /\ limbo = {} /\ \A w \in Callers : DOMAIN call[w].batch = {}
    BY DEF Init, Empty, Idle
  <2>3. \A b \in Batches : DOMAIN b = {}
    BY <2>2 DEF Batches
  <2> QED
    BY <2>1, <2>2, <2>3 DEF Init, IInv, Stamps, AllVouched, Vouched, Accounted, HeldThen, DeletedStaysDeleted
<1>2. IInv /\ [Next]_vars => IInv'
  BY CallsStep, StampsStep, VouchedStep, AccountedStep, HeldThenStep, DeletedStep DEF IInv
<1> QED
  BY <1>1, <1>2, PTL DEF Spec

\* Points in the database, in a batch or acknowledged bear stamps that were given out
\* (NewPoint of WritesPoints), and what is in the database was not taken out of it.
THEOREM TypeCorrect == Spec => []TypeOK
<1>1. IInv => TypeOK
  <2> SUFFICES ASSUME IInv PROVE TypeOK
    OBVIOUS
  <2>1. DOMAIN db \subseteq DOMAIN sent /\ Open \subseteq DOMAIN sent
    BY OpenIs DEF IInv, AllVouched, Vouched
  <2>2. \A w \in Callers : call[w].pc = "idle" => call[w] = Idle
    BY DEF IInv, Calls, Stamping
  <2> QED
    BY <2>1, <2>2 DEF IInv, Stamps, Accounted, TypeOK
<1> QED
  BY Invariance, <1>1, PTL

\* A value whose StoreTwin or StoreEvent returned nil is found by a query until it is
\* deleted or its time is over, whatever was lost, was late or was written by others:
\* with its digits, or those that FormatFloat writes for a float beyond Exact.
THEOREM AckedFound == Spec => []AckedIsFound
<1>1. IInv => AckedIsFound
  <2> SUFFICES ASSUME IInv, client, NEW key \in acked \ gone
               PROVE  LET c == [device |-> key.device, service |-> key.service,
                                name |-> IF key.of = "report_twin" THEN key.name ELSE Blank]
                      IN  /\ key \in IF key.of = "report_twin" THEN QueryTwin(c) ELSE QueryEvent(c)
                          /\ \E v \in sent[key] : KeepsDigits(v, db[key])
    BY DEF AckedIsFound, KeepsDigits
  <2> DEFINE c == [device |-> key.device, service |-> key.service,
                   name |-> IF key.of = "report_twin" THEN key.name ELSE Blank]
  <2>1. key \in DOMAIN db /\ key \in DOMAIN sent /\ key.of \in {"report_twin", "report_event"}
    BY DEF IInv, Accounted, Stamps
  <2>2. PICK v \in sent[key] : IsNumber(v) /\ db[key] = Text(v)
    BY <2>1 DEF IInv, AllVouched, Vouched
  <2>3. KeepsDigits(v, db[key])
    BY <2>2, TextReadsBack
  <2>4. c.device = key.device /\ c.service = key.service
        /\ c.name = IF key.of = "report_twin" THEN key.name ELSE Blank
    OBVIOUS
  <2> HIDE DEF c
  <2>5. key \in IF key.of = "report_twin" THEN QueryTwin(c) ELSE QueryEvent(c)
    BY <2>1, <2>4 DEF QueryTwin, QueryEvent, TwinMatches, EventMatches, Asked
  <2> QED
    BY <2>3, <2>5 DEF c
<1> QED
  BY Invariance, <1>1, PTL

\* ToInt of a text in the database is what it is of a value that was reported, but for
\* fractions, for what does not fit and for floats beyond Exact, whose text is rounded
\* (ToString and ToInt of utils).
THEOREM ReadsBackAlways == Spec => []ReadsBack
<1>1. IInv => ReadsBack
  <2> SUFFICES ASSUME IInv, NEW key \in DOMAIN db
               PROVE  \E v \in sent[key] : GivesBack(v, db[key])
    BY DEF ReadsBack, GivesBack
  <2>1. PICK v \in sent[key] : IsNumber(v) /\ db[key] = Text(v)
    BY DEF IInv, AllVouched, Vouched
  <2> QED
    BY <2>1, TextReadsBack
<1> QED
  BY Invariance, <1>1, PTL

\* What DeleteTwin deleted, in time or late, comes back only from calls that held it
\* then, or from a write that had timed out.
THEOREM StaysDeleted == Spec => []DeletedStaysDeleted
<1>1. IInv => DeletedStaysDeleted
  BY DEF IInv
<1> QED
  BY Invariance, <1>1, PTL
==============================================================================

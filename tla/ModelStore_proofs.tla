--------------------------- MODULE ModelStore_proofs ---------------------------
(***************************************************************************)
(* What the results of AddAllDeviceModel and DeleteDeviceModel mean and     *)
(* which names are unique, for any number of calls, models, requests,       *)
(* writes of others and faults.                                             *)
(***************************************************************************)
EXTENDS ModelStore, SequenceTheorems, TLAPS

\* Who stored a part: a call with its service and what was left to do, or others.
Tags == (Adders \X Nat \X Nat) \cup ({Others} \X Nat)
PartRow == [service : Nat, name : Labels, by : Tags]
ServiceRow == [id : Nat, model : Nat, name : Labels, by : Adders \cup {Others}]

Storing == {"part", "addpart", "commit"}
Filling == {"service", "addservice", "getservice"} \cup Storing

Places == Finished \cup {"check", "create", "get"} \cup Filling

Adding == [pc : Places,
           made : Nat, id : Nat, i : Nat, sid : Nat, todo : Seq(Labels), buf : SUBSET PartRow]

Deleting == [pc : Finished \cup {"idle", "parts", "model", "commit"},
             id : Nat, scan : SUBSET Nat, doomed : SUBSET PartRow, services : SUBSET Nat,
             busy : SUBSET (Adders \cup {Others, Device})]

Types ==
  /\ models \in [Ids -> Names \cup {Gone}] /\ lastModel \in 0 .. MaxModels /\ lastService \in Nat
  /\ users \in [Ids -> Nat]
  /\ services \subseteq ServiceRow /\ parts \subseteq PartRow /\ read \subseteq PartRow
  /\ adder \in [Adders -> Adding] /\ deleter \in Deleting
  /\ others \in Nat /\ faults \subseteq Adders \cup {Deleter}
  /\ disturbed \subseteq Ids /\ cut \subseteq Ids

\* What the unique index, the generated ids and the foreign key below services give.
Keys ==
  /\ \A i, j \in Ids : models[i] = models[j] /\ models[i] # Gone => i = j
  /\ \A i \in Ids : i > lastModel => models[i] = Gone
  /\ \A s \in services : s.id \in 1 .. lastService /\ s.model \in 1 .. lastModel
  /\ \A s, t \in services : s.id = t.id => s = t
  /\ \A p \in parts : \E s \in services : s.id = p.service

\* A service, if it is there, belongs to the model.
Below(sid, id) == sid \in 1 .. lastService /\ \A s \in services : s.id = sid => s.model = id

\* Where a call is in its request: what is left to do is the end of the parts of a service.
AtEnd(todo, all) ==
  Len(todo) <= Len(all) /\ \A k \in 1 .. Len(todo) : todo[k] = all[Len(all) - Len(todo) + k]

Local(a) ==
  LET A == adder[a] IN
  /\ A.made \in 0 .. lastModel /\ A.id \in 0 .. lastModel
  /\ A.pc \in {"check", "create"} => A.made = 0
  /\ A.pc \in {"check", "create", "get"} => A.id = 0 /\ A.i = 1
  /\ A.pc = "get" => A.made # 0
  /\ A.pc \in Filling => A.i \in 1 .. Len(Wanted[a])
  /\ A.pc \in Filling \cup {"done"} => A.id # 0
  /\ A.pc = "done" => A.i = Len(Wanted[a]) + 1
  /\ A.id # 0 => A.made # 0
  /\ A.buf # {} => A.pc \in Storing
  /\ A.pc \in Storing => /\ Below(A.sid, A.id) /\ AtEnd(A.todo, Service(a).parts)
                         /\ A.todo = <<>> <=> A.pc = "commit"

Locals == \A a \in Adders : Local(a)

\* A part that a call stored is the one its tag names.
Tagged(p, a) ==
  /\ p.by \in Adders \X Nat \X Nat /\ p.by[1] = a
  /\ p.by[2] \in 1 .. Len(Wanted[a])
  /\ LET all == Wanted[a][p.by[2]].parts IN
       p.by[3] \in 1 .. Len(all) /\ p.name = all[Len(all) - p.by[3] + 1]

\* What a transaction has stored is below a service that cannot be deleted.
Buffer(a) ==
  \A p \in adder[a].buf :
    /\ p.service = adder[a].sid /\ adder[a].sid \notin deleter.services
    /\ \E s \in services : s.id = adder[a].sid
    /\ Tagged(p, a) /\ p.by[2] = adder[a].i /\ p.by[3] > Len(adder[a].todo)

Buffers == \A a \in Adders : Buffer(a)

\* The rows of a call are below the model it fills.
OwnRow(a) ==
  /\ \A s \in services : s.by = a => s.model = adder[a].id
  /\ \A p \in parts : p.by[1] = a =>
       /\ Tagged(p, a) /\ p.by[2] < adder[a].i
       /\ Below(p.service, adder[a].id) /\ adder[a].id # 0

OwnRows == \A a \in Adders : OwnRow(a)

Active == deleter.pc \in {"parts", "model", "commit"}

\* A delete marks rows of its model only, and leaves no part below a service it marked.
Marks ==
  /\ ~ Active => deleter.scan = {} /\ deleter.doomed = {} /\ deleter.services = {}
  /\ deleter.pc = "parts" => deleter.services = {}
  /\ deleter.id \in 0 .. lastModel
  /\ deleter.pc \in {"model", "commit"} => deleter.id # 0
  /\ deleter.id # 0 =>
       /\ \A sid \in deleter.scan \cup deleter.services : Below(sid, deleter.id)
       /\ \A p \in deleter.doomed : Below(p.service, deleter.id)
  /\ \A p \in parts : p.service \in deleter.services => p \in deleter.doomed
  /\ Active => \A a \in Adders : adder[a].pc \notin Finished => a \in deleter.busy

Structure == Types /\ Keys /\ Locals /\ Buffers /\ OwnRows /\ Marks

\* A device used the model, or somebody stored below it while it was being deleted.
Blamed ==
  \/ deleter.id = 0 \/ deleter.busy \cap {Others, Device} # {}
  \/ \E a \in deleter.busy \cap Adders : adder[a].id = deleter.id

\* What a delete has not marked of its model, and what it cannot delete, was there
\* when it began or was stored beside it.
Refusals ==
  /\ deleter.pc \in {"parts", "model"} => Blamed \/ users[deleter.id] = 0
  /\ deleter.pc = "parts" => Blamed \/ \A s \in ServicesOf(deleter.id) :
       s.id \in deleter.scan \/ PartsOf(s.id) \subseteq deleter.doomed
  /\ deleter.pc = "model" => Blamed \/ \A s \in ServicesOf(deleter.id) : s.id \in deleter.services
  /\ deleter.pc = "failed" => Blamed \/ Deleter \in faults

\* A model that nobody renamed or deleted is there, and is the one the call reads.
OwnModel(a) ==
  LET A == adder[a] IN
  /\ A.made \notin disturbed \cup {0} => models[A.made] = NameOf[a]
  /\ A.id \notin {0, A.made} => A.made \in disturbed
  /\ A.id \notin disturbed \cup {0} => models[A.id] # Gone

OwnModels == \A a \in Adders : OwnModel(a)

\* The part of FailsForAReason that a failing call establishes.
Fails ==
  \A a \in Adders : adder[a].pc = "failed" /\ a \notin faults =>
    \/ adder[a].made \in disturbed \cup {0} \/ adder[a].id \in disturbed \cup cut

\* A call of which no statement failed, in a model that is whole.
Whole(a) == a \notin faults /\ models[adder[a].id] # Gone /\ adder[a].id \notin cut

Fits(row, name) == name = Empty \/ row.name = name

\* The first n names of all are there below a service.
Has(rows, sid, all, n) ==
  \A k \in 1 .. n : \E p \in rows : p.service = sid /\ Fits(p, all[k])

\* Holds, of tables.
Filled(ss, ps, id, want) ==
  \E s \in ss : s.model = id /\ Fits(s, want.name) /\ Has(ps, s.id, want.parts, Len(want.parts))

\* StoredWhenDone for a call half-way: the services before the one in hand, and what
\* of this one is there or will be when the call commits.
Progressed(A, want, ss, ps) ==
  /\ \A j \in 1 .. (A.i - 1) : Filled(ss, ps, A.id, want[j])
  /\ A.pc = "getservice" => \E s \in ss : s.model = A.id /\ Fits(s, want[A.i].name)
  /\ A.pc \in Storing =>
       /\ \E s \in ss : s.model = A.id /\ s.id = A.sid /\ Fits(s, want[A.i].name)
       /\ Has(ps \cup A.buf, A.sid, want[A.i].parts, Len(want[A.i].parts) - Len(A.todo))

Progress ==
  \A a \in Adders :
    adder[a].pc \in Filling \cup {"done"} /\ Whole(a) => Progressed(adder[a], Wanted[a], services, parts)

\* What a check of a call did not find it has not stored; so its rows have different
\* names, but for parts that a request repeats within a service.
CheckedBy(a) ==
  LET A == adder[a] IN
  /\ A.pc = "addservice" => \A s \in services : s.by = a => s.name # Service(a).name
  /\ A.pc = "addpart" => \A q \in parts : q.by[1] = a /\ q.service = A.sid => q.name # Head(A.todo)
  /\ \A s, t \in services : s.by = a /\ t.by = a /\ s.name = t.name => s = t
  /\ \A p \in parts \cup A.buf, q \in parts :
       p.by[1] = a /\ q.by[1] = a /\ p.service = q.service /\ p.name = q.name => p.by[2] = q.by[2]

Checked == faults = {} => \A a \in Adders : CheckedBy(a)

-----------------------------------------------------------------------------
(* What the actions of a call do to its local state. *)

\* A step of one call leaves the others where they are.
Frame(a) == adder' \in [Adders -> Adding] /\ \A b \in Adders \ {a} : adder'[b] = adder[b]

KeepsModel(a) == adder'[a].made = adder[a].made /\ adder'[a].id = adder[a].id
KeepsService(a) ==
  adder'[a].i = adder[a].i /\ adder'[a].sid = adder[a].sid /\ adder'[a].todo = adder[a].todo
KeepsBuffer(a) == adder'[a].buf = adder[a].buf

\* To the next service of the request, or to the end.
NextPlace(a, i) == IF i <= Len(Wanted[a]) THEN "service" ELSE "done"
Advances(a, i) ==
  /\ adder'[a].pc = NextPlace(a, i) /\ adder'[a].i = i
  /\ adder'[a].buf = {} /\ adder'[a].todo = <<>>

LEMMA GoToDoes ==
  ASSUME adder \in [Adders -> Adding], NEW a \in Adders, NEW pc \in Places, GoTo(a, pc)
  PROVE  Frame(a) /\ adder'[a].pc = pc /\ KeepsModel(a) /\ KeepsService(a) /\ KeepsBuffer(a)
<1>1. adder'[a] = [adder[a] EXCEPT !.pc = pc] /\ \A b \in Adders \ {a} : adder'[b] = adder[b]
  BY DEF GoTo
<1>2. adder'[a] \in Adding /\ adder'[a].pc = pc /\ KeepsModel(a) /\ KeepsService(a) /\ KeepsBuffer(a)
  BY <1>1 DEF Adding, KeepsModel, KeepsService, KeepsBuffer
<1>3. adder' \in [Adders -> Adding]
  BY <1>1, <1>2 DEF GoTo
<1> QED
  BY <1>1, <1>2, <1>3 DEF Frame

\* A call gives up and its transaction is rolled back.
LEMMA FailedIs ==
  ASSUME NEW A \in Adding, NEW B, B = [A EXCEPT !.pc = "failed", !.buf = {}]
  PROVE  /\ B \in Adding /\ B.pc = "failed" /\ B.buf = {}
         /\ B.made = A.made /\ B.id = A.id /\ B.i = A.i /\ B.sid = A.sid /\ B.todo = A.todo
<1>1. "failed" \in Places /\ {} \in SUBSET PartRow
  BY DEF Places, Finished
<1> QED
  BY <1>1 DEF Adding

LEMMA GivesUp ==
  ASSUME adder \in [Adders -> Adding], NEW a \in Adders,
         adder' = [adder EXCEPT ![a].pc = "failed", ![a].buf = {}]
  PROVE  Frame(a) /\ adder'[a].pc = "failed" /\ KeepsModel(a) /\ KeepsService(a) /\ adder'[a].buf = {}
<1>1. adder'[a] = [adder[a] EXCEPT !.pc = "failed", !.buf = {}]
      /\ \A b \in Adders \ {a} : adder'[b] = adder[b]
  OBVIOUS
<1>2. adder'[a] \in Adding /\ adder'[a].pc = "failed" /\ KeepsModel(a) /\ KeepsService(a)
      /\ adder'[a].buf = {}
  <2>1. adder[a] \in Adding
    OBVIOUS
  <2> QED
    BY <1>1, <2>1, FailedIs DEF KeepsModel, KeepsService
<1>3. adder' \in [Adders -> Adding]
  BY <1>1, <1>2
<1> QED
  BY <1>1, <1>2, <1>3 DEF Frame

LEMMA NextServiceDoes ==
  ASSUME adder \in [Adders -> Adding], NEW a \in Adders, NEW i \in Nat,
         adder' = [adder EXCEPT ![a] = NextService(a, i)]
  PROVE  Frame(a) /\ Advances(a, i) /\ KeepsModel(a)
<1> DEFINE pc == NextPlace(a, i)
           A == adder'[a]
<1>1. A = [adder[a] EXCEPT !.pc = pc, !.i = i, !.buf = {}, !.todo = <<>>]
      /\ \A b \in Adders \ {a} : adder'[b] = adder[b]
  BY DEF NextService, NextPlace
<1>2. adder[a] \in Adding /\ pc \in Places /\ <<>> \in Seq(Labels)
  BY DEF NextPlace, Places, Finished, Filling
<1>3. /\ A \in Adding /\ A.pc = pc /\ A.i = i /\ A.buf = {} /\ A.todo = <<>>
      /\ A.made = adder[a].made /\ A.id = adder[a].id
  <2> HIDE DEF pc
  <2>1. A \in Adding
    BY <1>1, <1>2 DEF Adding
  <2>2. A.pc = pc /\ A.i = i /\ A.buf = {} /\ A.todo = <<>>
    BY <1>1, <1>2 DEF Adding
  <2>3. A.made = adder[a].made /\ A.id = adder[a].id
    BY <1>1, <1>2 DEF Adding
  <2> QED
    BY <2>1, <2>2, <2>3
<1> QED
  BY <1>1, <1>3 DEF Frame, Advances, KeepsModel

LEMMA AfterPartDoes ==
  ASSUME adder \in [Adders -> Adding], NEW a \in Adders, NEW B \in SUBSET PartRow,
         adder[a].todo # <<>>, adder' = [adder EXCEPT ![a] = AfterPart(a, B)]
  PROVE  /\ Frame(a) /\ KeepsModel(a) /\ adder'[a].i = adder[a].i /\ adder'[a].sid = adder[a].sid
         /\ adder'[a].pc = (IF Len(adder[a].todo) = 1 THEN "commit" ELSE "part")
         /\ adder'[a].todo = Tail(adder[a].todo) /\ adder'[a].buf = B
<1> DEFINE pc == IF Len(adder[a].todo) = 1 THEN "commit" ELSE "part"
           A == adder'[a]
<1>1. A = [adder[a] EXCEPT !.buf = B, !.todo = Tail(adder[a].todo), !.pc = pc]
      /\ \A b \in Adders \ {a} : adder'[b] = adder[b]
  BY DEF AfterPart
<1>2. adder[a] \in Adding /\ Tail(adder[a].todo) \in Seq(Labels) /\ pc \in Places
  <2>1. adder[a] \in Adding /\ adder[a].todo \in Seq(Labels)
    BY DEF Adding
  <2> QED
    BY <2>1 DEF Places, Filling, Storing
<1>3. /\ A \in Adding /\ A.pc = pc /\ A.buf = B /\ A.todo = Tail(adder[a].todo)
      /\ A.made = adder[a].made /\ A.id = adder[a].id /\ A.i = adder[a].i /\ A.sid = adder[a].sid
  <2> HIDE DEF pc
  <2>1. A \in Adding
    BY <1>1, <1>2 DEF Adding
  <2>2. A.pc = pc /\ A.buf = B /\ A.todo = Tail(adder[a].todo)
    BY <1>1, <1>2 DEF Adding
  <2>3. A.made = adder[a].made /\ A.id = adder[a].id /\ A.i = adder[a].i /\ A.sid = adder[a].sid
    BY <1>1, <1>2 DEF Adding
  <2> QED
    BY <2>1, <2>2, <2>3
<1> QED
  BY <1>1, <1>3 DEF Frame, KeepsModel
-----------------------------------------------------------------------------
(* Small facts. *)

LEMMA CallersApart ==
  /\ Deleter \notin Adders /\ Others \notin Adders /\ Deleter # Others /\ Gone \notin Names
  /\ Device \notin Adders
  /\ \A a \in Adders : NameOf[a] \in Names /\ Wanted[a] \in Seq([name : Labels, parts : Seq(Labels)])
  /\ MaxModels \in Nat
BY RequestAssumption

LEMMA ElementOf ==
  ASSUME NEW S, NEW s \in Seq(S), NEW i \in 1 .. Len(s)
  PROVE  s[i] \in S
OBVIOUS

\* A call in the loop has a service in hand.
LEMMA InHand ==
  ASSUME NEW a \in Adders, Types, Locals, adder[a].pc \in Filling
  PROVE  /\ adder[a] \in Adding /\ adder[a].i \in 1 .. Len(Wanted[a])
         /\ Service(a) \in [name : Labels, parts : Seq(Labels)]
         /\ Service(a) = Wanted[a][adder[a].i]
         /\ adder[a].id \in 1 .. lastModel /\ adder[a].id \in Ids
<1>1. adder[a] \in Adding /\ lastModel \in 0 .. MaxModels /\ MaxModels \in Nat
  BY CallersApart DEF Types
<1>2. adder[a].i \in 1 .. Len(Wanted[a]) /\ adder[a].id # 0 /\ adder[a].id \in 0 .. lastModel
  BY DEF Locals, Local
<1>3. Wanted[a] \in Seq([name : Labels, parts : Seq(Labels)])
  BY CallersApart
<1>4. Wanted[a][adder[a].i] \in [name : Labels, parts : Seq(Labels)]
  BY <1>2, <1>3, ElementOf
<1> QED
  BY <1>1, <1>2, <1>4 DEF Service, Ids

\* What is left of a list of parts, and the next one of it.
LEMMA LeftToDo ==
  ASSUME NEW a \in Adders, Types, Locals, adder[a].pc \in {"part", "addpart"}
  PROVE  /\ adder[a].todo \in Seq(Labels) /\ Len(adder[a].todo) \in Nat \ {0}
         /\ adder[a].todo # <<>> /\ Head(adder[a].todo) \in Labels
         /\ Head(adder[a].todo) = adder[a].todo[1]
         /\ AtEnd(adder[a].todo, Service(a).parts)
         /\ Tail(adder[a].todo) \in Seq(Labels)
         /\ Len(Tail(adder[a].todo)) = Len(adder[a].todo) - 1
         /\ \A k \in 1 .. (Len(adder[a].todo) - 1) : Tail(adder[a].todo)[k] = adder[a].todo[k + 1]
<1>1. adder[a].todo \in Seq(Labels)
  BY DEF Types, Adding
<1>2. adder[a].todo # <<>> /\ AtEnd(adder[a].todo, Service(a).parts)
  BY DEF Locals, Local, Storing
<1> QED
  BY <1>1, <1>2

LEMMA ModelOfIs ==
  ASSUME Keys, NEW s \in services
  PROVE  ModelOf(s.id) = s.model
<1>1. (CHOOSE t \in services : t.id = s.id) = s
  BY DEF Keys
<1> QED
  BY <1>1 DEF ModelOf

\* The model above a stored part.
LEMMA PartsModel ==
  ASSUME Types, Keys, NEW p \in parts
  PROVE  ModelOf(p.service) \in Ids
<1>1. PICK s \in services : s.id = p.service
  BY DEF Keys
<1> QED
  BY <1>1, ModelOfIs, CallersApart DEF Keys, Types, Ids

LEMMA StoredByCall ==
  ASSUME NEW a \in Adders, NEW sid \in Nat, NEW name \in Labels, NEW i \in Nat, NEW n \in Nat
  PROVE  [service |-> sid, name |-> name, by |-> <<a, i, n>>] \in PartRow
BY DEF PartRow, Tags

LEMMA StoredByOthers ==
  ASSUME NEW sid \in Nat, NEW name \in Labels, others \in Nat
  PROVE  [service |-> sid, name |-> name, by |-> <<Others, others>>] \in PartRow
BY DEF PartRow, Tags

\* Who stored a part.
LEMMA TagOf ==
  ASSUME NEW p \in PartRow
  PROVE  \/ p.by \in Adders \X Nat \X Nat /\ p.by[1] \in Adders
         \/ p.by[1] = Others
BY DEF PartRow, Tags

LEMMA LabelNames == RowNames \subseteq Labels
BY DEF Labels
-----------------------------------------------------------------------------
(* What the actions do, in the terms of the invariant. *)

\* A call's own steps leave the other actors alone, and everything but what they name.
Aside == UNCHANGED <<deleter, rest, deletes, disturbed>>

LEMMA CheckNameDoes ==
  ASSUME Types, NEW a \in Adders, CheckName(a)
  PROVE  /\ adder[a].pc = "check" /\ adder'[a].pc = "create"
         /\ Frame(a) /\ KeepsModel(a) /\ KeepsService(a) /\ KeepsBuffer(a)
         /\ UNCHANGED tables /\ Aside
         /\ faults' = faults \/ faults' = faults \cup {a}
<1>1. "create" \in Places
  BY DEF Places
<1>2. GoTo(a, "create") /\ adder[a].pc = "check" /\ UNCHANGED tables /\ Aside
      /\ (faults' = faults \/ faults' = faults \cup {a})
  BY DEF CheckName, Here, Aside
<1> QED
  BY <1>1, <1>2, GoToDoes DEF Types

LEMMA CreateModelDoes ==
  ASSUME Types, NEW a \in Adders, CreateModel(a)
  PROVE  /\ adder[a].pc = "create" /\ Frame(a) /\ KeepsService(a) /\ KeepsBuffer(a)
         /\ adder'[a].id = adder[a].id /\ Aside
         /\ UNCHANGED <<services, parts, lastService, faults>>
         /\ \/ /\ adder'[a].pc = "failed" /\ adder'[a].made = adder[a].made
               /\ UNCHANGED <<models, lastModel>> /\ Taken(NameOf[a])
            \/ /\ adder'[a].pc = "get" /\ adder'[a].made = lastModel + 1
               /\ lastModel < MaxModels /\ lastModel' = lastModel + 1 /\ ~ Taken(NameOf[a])
               /\ models' = [models EXCEPT ![lastModel + 1] = NameOf[a]]
<1>1. adder[a].pc = "create" /\ UNCHANGED <<services, parts, lastService, faults>> /\ Aside
  BY DEF CreateModel, Here, Aside
<1>2. CASE Taken(NameOf[a])
  <2>1. GoTo(a, "failed") /\ UNCHANGED <<models, lastModel>>
    BY <1>2 DEF CreateModel
  <2>2. "failed" \in Places
    BY DEF Places, Finished
  <2> QED
    BY <1>1, <1>2, <2>1, <2>2, GoToDoes DEF Types, KeepsModel
<1>3. CASE ~ Taken(NameOf[a])
  <2>1. /\ adder' = [adder EXCEPT ![a].pc = "get", ![a].made = lastModel + 1]
        /\ lastModel < MaxModels /\ lastModel' = lastModel + 1
        /\ models' = [models EXCEPT ![lastModel + 1] = NameOf[a]]
    BY <1>3 DEF CreateModel
  <2>2. "get" \in Places /\ lastModel + 1 \in Nat /\ adder \in [Adders -> Adding]
    BY CallersApart DEF Places, Types
  <2>3. adder'[a] = [adder[a] EXCEPT !.pc = "get", !.made = lastModel + 1]
        /\ \A b \in Adders \ {a} : adder'[b] = adder[b]
    BY <2>1, <2>2
  <2>4. adder'[a] \in Adding
    BY <2>2, <2>3 DEF Adding
  <2>5. /\ adder'[a].pc = "get" /\ adder'[a].made = lastModel + 1
        /\ KeepsService(a) /\ KeepsBuffer(a) /\ adder'[a].id = adder[a].id
    BY <2>2, <2>3 DEF Adding, KeepsService, KeepsBuffer
  <2>6. Frame(a)
    BY <2>1, <2>2, <2>3, <2>4 DEF Frame
  <2> QED
    BY <1>1, <1>3, <2>1, <2>5, <2>6
<1> QED
  BY <1>2, <1>3

LEMMA ReadModelDoes ==
  ASSUME Types, NEW a \in Adders, ReadModel(a)
  PROVE  /\ adder[a].pc = "get" /\ Frame(a) /\ adder'[a].made = adder[a].made
         /\ UNCHANGED tables /\ Aside /\ UNCHANGED faults
         /\ \/ adder'[a].pc = "failed" /\ KeepsModel(a) /\ KeepsService(a) /\ KeepsBuffer(a) /\ ~ Taken(NameOf[a])
            \/ /\ Advances(a, 1) /\ adder'[a].id \in Ids /\ models[adder'[a].id] = NameOf[a]
<1>1. adder[a].pc = "get" /\ UNCHANGED tables /\ Aside /\ UNCHANGED faults
  BY DEF ReadModel, Here, Aside
<1>2. CASE ~ Taken(NameOf[a])
  <2>1. GoTo(a, "failed")
    BY <1>2 DEF ReadModel
  <2>2. "failed" \in Places
    BY DEF Places, Finished
  <2> QED
    BY <1>1, <1>2, <2>1, <2>2, GoToDoes DEF Types, KeepsModel
<1>3. CASE Taken(NameOf[a])
  <2> DEFINE id == CHOOSE i \in Ids : models[i] = NameOf[a]
             pc == NextPlace(a, 1)
             A == adder'[a]
  <2>1. id \in Ids /\ models[id] = NameOf[a]
    BY <1>3 DEF Taken
  <2>2. adder' = [adder EXCEPT ![a] = [NextService(a, 1) EXCEPT !.id = id]]
    BY <1>3 DEF ReadModel
  <2>3. adder[a] \in Adding /\ pc \in Places /\ <<>> \in Seq(Labels) /\ id \in Nat
        /\ adder \in [Adders -> Adding]
    BY <2>1, CallersApart DEF NextPlace, Places, Finished, Filling, Types, Ids
  <2> HIDE DEF id
  <2>4. /\ A = [[adder[a] EXCEPT !.pc = pc, !.i = 1, !.buf = {}, !.todo = <<>>] EXCEPT !.id = id]
        /\ \A b \in Adders \ {a} : adder'[b] = adder[b]
    BY <2>2, <2>3 DEF NextService, NextPlace
  <2> HIDE DEF pc
  <2>5. A \in Adding
    <3> DEFINE M == [adder[a] EXCEPT !.pc = pc, !.i = 1, !.buf = {}, !.todo = <<>>]
    <3>1. M \in Adding
      BY <2>3 DEF Adding
    <3>2. A = [M EXCEPT !.id = id]
      BY <2>4
    <3> HIDE DEF M
    <3> QED
      BY <3>1, <3>2, <2>3 DEF Adding
  <2>6. A.pc = pc /\ A.i = 1 /\ A.buf = {} /\ A.todo = <<>>
    BY <2>3, <2>4 DEF Adding
  <2>7. A.made = adder[a].made /\ A.id = id
    BY <2>3, <2>4 DEF Adding
  <2>8. Frame(a)
    BY <2>2, <2>3, <2>4, <2>5 DEF Frame
  <2> QED
    BY <1>1, <2>1, <2>6, <2>7, <2>8 DEF Advances, pc
<1> QED
  BY <1>2, <1>3

LEMMA CheckServiceDoes ==
  ASSUME Types, NEW a \in Adders, CheckService(a)
  PROVE  /\ adder[a].pc = "service" /\ Frame(a) /\ KeepsModel(a) /\ KeepsService(a) /\ KeepsBuffer(a)
         /\ UNCHANGED tables /\ Aside
         /\ \/ /\ adder'[a].pc = "getservice" /\ faults' = faults
               /\ Named(ServicesOf(adder[a].id), Service(a).name) # {}
            \/ /\ adder'[a].pc = "addservice" /\ faults' = faults
               /\ Named(ServicesOf(adder[a].id), Service(a).name) = {}
            \/ adder'[a].pc = "addservice" /\ faults' = faults \cup {a}
<1>1. adder[a].pc = "service" /\ UNCHANGED tables /\ Aside /\ adder \in [Adders -> Adding]
  BY DEF CheckService, Here, Aside, Types
<1>2. "addservice" \in Places /\ "getservice" \in Places
  BY DEF Places, Filling
<1> DEFINE none == Named(ServicesOf(adder[a].id), Service(a).name) = {}
<1>3. \/ GoTo(a, "getservice") /\ faults' = faults /\ ~ none
      \/ GoTo(a, "addservice") /\ faults' = faults /\ none
      \/ GoTo(a, "addservice") /\ faults' = faults \cup {a}
  BY DEF CheckService
<1> HIDE DEF none
<1>4. CASE GoTo(a, "getservice") /\ faults' = faults /\ ~ none
  BY <1>1, <1>2, <1>4, GoToDoes DEF none
<1>5. CASE GoTo(a, "addservice") /\ faults' = faults /\ none
  BY <1>1, <1>2, <1>5, GoToDoes DEF none
<1>6. CASE GoTo(a, "addservice") /\ faults' = faults \cup {a}
  BY <1>1, <1>2, <1>6, GoToDoes
<1> QED
  BY <1>3, <1>4, <1>5, <1>6

LEMMA CreateServiceDoes ==
  ASSUME Types, NEW a \in Adders, CreateService(a)
  PROVE  /\ adder[a].pc = "addservice" /\ ~ ModelLocked(adder[a].id)
         /\ Frame(a) /\ KeepsModel(a) /\ KeepsService(a) /\ KeepsBuffer(a)
         /\ UNCHANGED <<models, parts, lastModel, faults>> /\ Aside
         /\ \/ /\ adder'[a].pc = "failed" /\ models[adder[a].id] = Gone
               /\ UNCHANGED <<services, lastService>>
            \/ /\ adder'[a].pc = "getservice" /\ models[adder[a].id] # Gone
               /\ lastService' = lastService + 1
               /\ services' = services \cup {[id |-> lastService + 1, model |-> adder[a].id,
                                              name |-> Service(a).name, by |-> a]}
<1>1. /\ adder[a].pc = "addservice" /\ ~ ModelLocked(adder[a].id) /\ adder \in [Adders -> Adding]
      /\ UNCHANGED <<models, parts, lastModel, faults>> /\ Aside
  BY DEF CreateService, Here, Aside, Types
<1>2. "failed" \in Places /\ "getservice" \in Places
  BY DEF Places, Filling, Finished
<1>3. CASE models[adder[a].id] = Gone
  <2>1. GoTo(a, "failed") /\ UNCHANGED <<services, lastService>>
    BY <1>3 DEF CreateService
  <2> QED
    BY <1>1, <1>2, <1>3, <2>1, GoToDoes
<1>4. CASE models[adder[a].id] # Gone
  <2>1. GoTo(a, "getservice") /\ lastService' = lastService + 1
        /\ services' = services \cup {[id |-> lastService + 1, model |-> adder[a].id,
                                       name |-> Service(a).name, by |-> a]}
    BY <1>4 DEF CreateService
  <2> QED
    BY <1>1, <1>2, <1>4, <2>1, GoToDoes
<1> QED
  BY <1>3, <1>4

LEMMA ReadServiceDoes ==
  ASSUME Types, Locals, NEW a \in Adders, ReadService(a)
  PROVE  /\ adder[a].pc = "getservice" /\ Frame(a) /\ KeepsModel(a) /\ KeepsBuffer(a)
         /\ adder'[a].i = adder[a].i /\ UNCHANGED tables /\ Aside /\ faults' = faults
         /\ \/ /\ adder'[a].pc = "failed" /\ KeepsService(a)
               /\ Named(ServicesOf(adder[a].id), Service(a).name) = {}
            \/ /\ adder'[a].todo = Service(a).parts
               /\ adder'[a].pc = (IF Service(a).parts = <<>> THEN "commit" ELSE "part")
               /\ \E s \in Named(ServicesOf(adder[a].id), Service(a).name) :
                    /\ adder'[a].sid = s.id
                    /\ \A t \in Named(ServicesOf(adder[a].id), Service(a).name) : s.id <= t.id
<1> DEFINE found == Named(ServicesOf(adder[a].id), Service(a).name)
           pc == IF Service(a).parts = <<>> THEN "commit" ELSE "part"
           A == adder'[a]
<1>1. /\ adder[a].pc = "getservice" /\ adder \in [Adders -> Adding] /\ adder[a] \in Adding
      /\ UNCHANGED tables /\ Aside /\ faults' = faults
  BY DEF ReadService, Here, Aside, Types
<1>2. Service(a) \in [name : Labels, parts : Seq(Labels)]
  BY <1>1, InHand DEF Filling
<1>3. CASE found = {}
  <2>1. GoTo(a, "failed") /\ "failed" \in Places
    BY <1>3 DEF ReadService, Places, Finished
  <2> QED
    BY <1>1, <1>3, <2>1, GoToDoes DEF KeepsService
<1>4. CASE found # {}
  <2>1. PICK s \in found :
          /\ \A t \in found : s.id <= t.id
          /\ adder' = [adder EXCEPT ![a].sid = s.id, ![a].todo = Service(a).parts, ![a].pc = pc]
    BY <1>4 DEF ReadService
  <2>2. s \in services
    BY <2>1 DEF Named, ServicesOf
  <2>3. s.id \in Nat
    BY <2>2 DEF Types, ServiceRow
  <2>4. pc \in Places /\ Service(a).parts \in Seq(Labels)
    BY <1>2 DEF Places, Filling, Storing
  <2> HIDE DEF pc, found
  <2>5. /\ A = [adder[a] EXCEPT !.sid = s.id, !.todo = Service(a).parts, !.pc = pc]
        /\ \A b \in Adders \ {a} : adder'[b] = adder[b]
    BY <1>1, <2>1
  <2>6. A \in Adding
    BY <1>1, <2>3, <2>4, <2>5 DEF Adding
  <2>7. A.sid = s.id /\ A.todo = Service(a).parts /\ A.pc = pc
    BY <1>1, <2>3, <2>4, <2>5 DEF Adding
  <2>8. A.i = adder[a].i /\ KeepsModel(a) /\ KeepsBuffer(a)
    BY <1>1, <2>3, <2>4, <2>5 DEF Adding, KeepsModel, KeepsBuffer
  <2>9. Frame(a)
    BY <1>1, <2>1, <2>5, <2>6 DEF Frame
  <2> QED
    BY <1>1, <2>1, <2>7, <2>8, <2>9 DEF pc, found
<1> QED
  BY <1>3, <1>4

LEMMA CheckPartDoes ==
  ASSUME Types, Locals, NEW a \in Adders, CheckPart(a)
  PROVE  /\ adder[a].pc = "part" /\ Frame(a) /\ KeepsModel(a) /\ KeepsBuffer(a)
         /\ adder'[a].i = adder[a].i /\ adder'[a].sid = adder[a].sid
         /\ UNCHANGED tables /\ Aside
         /\ \/ /\ adder'[a].pc = "addpart" /\ KeepsService(a) /\ faults' = faults
               /\ Named(PartsOf(adder[a].sid), Head(adder[a].todo)) = {}
            \/ adder'[a].pc = "addpart" /\ KeepsService(a) /\ faults' = faults \cup {a}
            \/ /\ adder'[a].pc = (IF Len(adder[a].todo) = 1 THEN "commit" ELSE "part")
               /\ adder'[a].todo = Tail(adder[a].todo) /\ faults' = faults
               /\ Named(PartsOf(adder[a].sid), Head(adder[a].todo)) # {}
<1> DEFINE none == Named(PartsOf(adder[a].sid), Head(adder[a].todo)) = {}
<1>1. /\ adder[a].pc = "part" /\ adder \in [Adders -> Adding] /\ adder[a] \in Adding
      /\ UNCHANGED tables /\ Aside
  BY DEF CheckPart, Here, Aside, Types
<1>2. "addpart" \in Places
  BY DEF Places, Filling, Storing
<1>3. \/ GoTo(a, "addpart") /\ faults' = faults /\ none
      \/ adder' = [adder EXCEPT ![a] = AfterPart(a, adder[a].buf)] /\ faults' = faults /\ ~ none
      \/ GoTo(a, "addpart") /\ faults' = faults \cup {a}
  BY DEF CheckPart
<1> HIDE DEF none
<1>4. CASE GoTo(a, "addpart") /\ faults' = faults /\ none
  BY <1>1, <1>2, <1>4, GoToDoes DEF none, KeepsService
<1>5. CASE adder' = [adder EXCEPT ![a] = AfterPart(a, adder[a].buf)] /\ faults' = faults /\ ~ none
  <2>1. adder[a].todo # <<>> /\ adder[a].buf \in SUBSET PartRow
    BY <1>1, LeftToDo DEF Adding
  <2> QED
    BY <1>1, <1>5, <2>1, AfterPartDoes DEF none, KeepsBuffer
<1>6. CASE GoTo(a, "addpart") /\ faults' = faults \cup {a}
  BY <1>1, <1>2, <1>6, GoToDoes DEF KeepsService
<1> QED
  BY <1>3, <1>4, <1>5, <1>6

\* The part that a call is storing.
NewPart(a) == [service |-> adder[a].sid, name |-> Head(adder[a].todo),
               by |-> <<a, adder[a].i, Len(adder[a].todo)>>]

LEMMA CreatePartDoes ==
  ASSUME Types, Locals, NEW a \in Adders, CreatePart(a)
  PROVE  /\ adder[a].pc = "addpart" /\ ~ ServiceLocked(adder[a].sid) /\ Frame(a) /\ KeepsModel(a)
         /\ adder'[a].i = adder[a].i /\ adder'[a].sid = adder[a].sid
         /\ UNCHANGED tables /\ Aside /\ faults' = faults
         /\ \/ /\ adder'[a].pc = "failed" /\ KeepsService(a) /\ adder'[a].buf = {}
               /\ \A s \in services : s.id # adder[a].sid
            \/ /\ adder'[a].pc = (IF Len(adder[a].todo) = 1 THEN "commit" ELSE "part")
               /\ adder'[a].todo = Tail(adder[a].todo)
               /\ adder'[a].buf = adder[a].buf \cup {NewPart(a)} /\ NewPart(a) \in PartRow
               /\ \E s \in services : s.id = adder[a].sid
<1>1. /\ adder[a].pc = "addpart" /\ adder \in [Adders -> Adding] /\ adder[a] \in Adding
      /\ ~ ServiceLocked(adder[a].sid) /\ UNCHANGED tables /\ Aside /\ faults' = faults
  BY DEF CreatePart, Here, Aside, Types
<1>2. CASE \A s \in services : s.id # adder[a].sid
  <2>1. adder' = [adder EXCEPT ![a].pc = "failed", ![a].buf = {}]
    BY <1>2 DEF CreatePart
  <2> QED
    BY <1>1, <1>2, <2>1, GivesUp DEF KeepsService
<1>3. CASE \E s \in services : s.id = adder[a].sid
  <2>1. adder' = [adder EXCEPT ![a] = AfterPart(a, adder[a].buf \cup {NewPart(a)})]
    BY <1>3 DEF CreatePart, NewPart
  <2>2. adder[a].todo # <<>> /\ Len(adder[a].todo) \in Nat /\ Head(adder[a].todo) \in Labels
    BY <1>1, LeftToDo
  <2>3. adder[a].buf \in SUBSET PartRow /\ adder[a].sid \in Nat /\ adder[a].i \in Nat
    BY <1>1 DEF Adding
  <2>4. NewPart(a) \in PartRow
    BY <2>2, <2>3, StoredByCall DEF NewPart
  <2>5. adder[a].buf \cup {NewPart(a)} \in SUBSET PartRow
    BY <2>3, <2>4
  <2> QED
    BY <1>1, <1>3, <2>1, <2>2, <2>4, <2>5, AfterPartDoes
<1> QED
  BY <1>2, <1>3

LEMMA CommitServiceDoes ==
  ASSUME Types, Locals, NEW a \in Adders, CommitService(a)
  PROVE  /\ adder[a].pc = "commit" /\ Frame(a) /\ KeepsModel(a) /\ Advances(a, adder[a].i + 1)
         /\ parts' = parts \cup adder[a].buf
         /\ UNCHANGED <<models, services, lastModel, lastService, faults>> /\ Aside
<1>1. /\ adder[a].pc = "commit" /\ adder \in [Adders -> Adding] /\ adder[a].i + 1 \in Nat
      /\ parts' = parts \cup adder[a].buf
      /\ UNCHANGED <<models, services, lastModel, lastService, faults>> /\ Aside
      /\ adder' = [adder EXCEPT ![a] = NextService(a, adder[a].i + 1)]
  BY DEF CommitService, Here, Aside, Types, Adding
<1> QED
  BY <1>1, NextServiceDoes

LEMMA AddFailsDoes ==
  ASSUME Types, NEW a \in Adders, AddFails(a)
  PROVE  /\ Frame(a) /\ KeepsModel(a) /\ adder[a].pc \notin Finished /\ adder'[a].buf = {}
         /\ UNCHANGED tables /\ Aside /\ faults' = faults \cup {a}
         /\ \/ adder[a].pc = "commit" /\ Advances(a, adder[a].i + 1)
            \/ adder[a].pc # "commit" /\ adder'[a].pc = "failed" /\ KeepsService(a)
<1>1. /\ adder[a].pc \notin Finished /\ adder \in [Adders -> Adding] /\ adder[a].i + 1 \in Nat
      /\ UNCHANGED tables /\ Aside /\ faults' = faults \cup {a}
  BY DEF AddFails, Aside, Types, Adding
<1>2. CASE adder[a].pc = "commit"
  <2>1. adder' = [adder EXCEPT ![a] = NextService(a, adder[a].i + 1)]
    BY <1>2 DEF AddFails, Here
  <2> QED
    BY <1>1, <1>2, <2>1, NextServiceDoes DEF Advances
<1>3. CASE adder[a].pc # "commit"
  <2>1. adder' = [adder EXCEPT ![a].pc = "failed", ![a].buf = {}]
    BY <1>3 DEF AddFails, Here
  <2> QED
    BY <1>1, <1>3, <2>1, GivesUp
<1> QED
  BY <1>2, <1>3

Marked(pc, scan, doomed, marked) ==
  /\ deleter' \in Deleting /\ deleter'.pc = pc /\ deleter'.id = deleter.id /\ deleter'.busy = deleter.busy
  /\ deleter'.scan = scan /\ deleter'.doomed = doomed /\ deleter'.services = marked
Ends(pc) == Marked(pc, {}, {}, {})

LEMMA EndsWith ==
  ASSUME Types, NEW pc \in Finished, EndDelete(pc)
  PROVE  Ends(pc)
<1>1. deleter \in Deleting
  BY DEF Types
<1>2. deleter' \in Deleting
  BY <1>1 DEF EndDelete, Deleting
<1> QED
  BY <1>1, <1>2 DEF EndDelete, Deleting, Ends, Marked

LEMMA ListedIds == ASSUME Types, NEW id PROVE Listed(id) \in SUBSET Nat
BY DEF Types, ServiceRow, Listed, ServicesOf

LEMMA ListServicesDoes ==
  ASSUME Types, NEW id \in 0 .. lastModel, ListServices(id)
  PROVE  /\ ~ Active /\ deleter' \in Deleting /\ deleter'.pc = "parts" /\ deleter'.id = id
         /\ deleter'.scan = Listed(id) /\ deleter'.doomed = {} /\ deleter'.services = {}
         /\ {a \in Adders : adder[a].pc \notin Finished} \subseteq deleter'.busy
         /\ id # 0 /\ users[id] # 0 => Device \in deleter'.busy
         /\ UNCHANGED <<tables, adder, rest, faults, disturbed>>
<1>0. lastModel \in 0 .. MaxModels /\ MaxModels \in Nat /\ users \in [Ids -> Nat]
  BY CallersApart DEF Types
<1>1. Listed(id) \in SUBSET Nat /\ id \in Nat /\ (id # 0 => users[id] \in Nat)
  <2>1. id # 0 => id \in Ids
    BY <1>0 DEF Ids
  <2> QED
    BY <1>0, <2>1, ListedIds
<1>2. ~ Active /\ UNCHANGED <<tables, adder, rest, faults, disturbed>>
  BY DEF ListServices, Active, Finished
<1> DEFINE calls == {a \in Adders : adder[a].pc \notin Finished}
           busy == calls \cup {d \in {Device} : Used(id)}
<1>3. /\ busy \in SUBSET (Adders \cup {Others, Device}) /\ calls \subseteq busy
      /\ id # 0 /\ users[id] # 0 => Device \in busy
  BY <1>1 DEF Used
<1>4. deleter' = [pc |-> "parts", id |-> id, scan |-> Listed(id), doomed |-> {},
                  services |-> {}, busy |-> busy]
  BY DEF ListServices
<1> HIDE DEF busy
<1>5. deleter' \in Deleting
  BY <1>1, <1>3, <1>4 DEF Deleting
<1> QED
  BY <1>2, <1>3, <1>4, <1>5

LEMMA DeletePartsDoes ==
  ASSUME Types, DeleteParts
  PROVE  /\ deleter.pc = "parts" /\ UNCHANGED <<tables, adder, rest, faults, disturbed>>
         /\ \E sid \in deleter.scan :
              Marked("parts", deleter.scan \ {sid}, deleter.doomed \cup PartsOf(sid), deleter.services)
<1>1. PICK sid \in deleter.scan :
         deleter' = [deleter EXCEPT !.scan = deleter.scan \ {sid},
                                    !.doomed = deleter.doomed \cup PartsOf(sid)]
  BY DEF DeleteParts
<1>2. deleter \in Deleting /\ PartsOf(sid) \subseteq PartRow
  BY DEF Types, PartsOf
<1>3. deleter.pc = "parts" /\ UNCHANGED <<tables, adder, rest, faults, disturbed>>
  BY DEF DeleteParts
<1>4. deleter' \in Deleting
  BY <1>1, <1>2 DEF Deleting
<1>5. Marked("parts", deleter.scan \ {sid}, deleter.doomed \cup PartsOf(sid), deleter.services)
  BY <1>1, <1>2, <1>3, <1>4 DEF Marked, Deleting
<1> QED
  BY <1>1, <1>3, <1>5

LEMMA DeleteServicesDoes ==
  ASSUME Types, DeleteServices
  PROVE  /\ deleter.pc = "parts" /\ deleter.scan = {}
         /\ UNCHANGED <<tables, adder, rest, faults, disturbed>>
         /\ \A s \in ServicesOf(deleter.id) : ~ ServiceHeld(s.id)
         /\ \/ /\ deleter.id # 0
               /\ \A s \in ServicesOf(deleter.id) : PartsOf(s.id) \subseteq deleter.doomed
               /\ Marked("model", deleter.scan, deleter.doomed, Listed(deleter.id))
            \/ /\ \/ deleter.id = 0
                  \/ \E s \in ServicesOf(deleter.id) : ~ (PartsOf(s.id) \subseteq deleter.doomed)
               /\ Ends("failed")
<1> DEFINE free == /\ deleter.id # 0
                   /\ \A s \in ServicesOf(deleter.id) : PartsOf(s.id) \subseteq deleter.doomed
<1>1. /\ deleter.pc = "parts" /\ deleter.scan = {} /\ deleter \in Deleting
      /\ UNCHANGED <<tables, adder, rest, faults, disturbed>>
      /\ \A s \in ServicesOf(deleter.id) : ~ ServiceHeld(s.id)
  BY DEF DeleteServices, Types
<1>2. CASE free
  <2>1. deleter' = [deleter EXCEPT !.pc = "model", !.services = Listed(deleter.id)]
    BY <1>2 DEF DeleteServices
  <2>2. Listed(deleter.id) \in SUBSET Nat
    BY ListedIds
  <2>3. deleter' \in Deleting
    BY <1>1, <2>1, <2>2 DEF Deleting
  <2>4. Marked("model", deleter.scan, deleter.doomed, Listed(deleter.id))
    BY <1>1, <2>1, <2>3 DEF Marked, Deleting
  <2> QED
    BY <1>1, <1>2, <2>4
<1>3. CASE ~ free
  <2>1. EndDelete("failed")
    BY <1>3 DEF DeleteServices
  <2> QED
    BY <1>1, <1>3, <2>1, EndsWith DEF Finished
<1> QED
  BY <1>2, <1>3

LEMMA DeleteModelDoes ==
  ASSUME Types, DeleteModel
  PROVE  /\ deleter.pc = "model" /\ UNCHANGED <<tables, adder, rest, faults, disturbed>>
         /\ \/ /\ Listed(deleter.id) \subseteq deleter.services
               /\ Marked("commit", deleter.scan, deleter.doomed, deleter.services)
            \/ /\ ~ (Listed(deleter.id) \subseteq deleter.services) \/ Used(deleter.id)
               /\ Ends("failed")
<1>1. /\ deleter.pc = "model" /\ deleter \in Deleting
      /\ UNCHANGED <<tables, adder, rest, faults, disturbed>>
  BY DEF DeleteModel, Types
<1>2. CASE Listed(deleter.id) \subseteq deleter.services /\ ~ Used(deleter.id)
  <2>1. deleter' = [deleter EXCEPT !.pc = "commit"]
    BY <1>2 DEF DeleteModel, Send
  <2>2. deleter' \in Deleting
    BY <1>1, <2>1 DEF Deleting
  <2>3. Marked("commit", deleter.scan, deleter.doomed, deleter.services)
    BY <1>1, <2>1, <2>2 DEF Marked, Deleting
  <2> QED
    BY <1>1, <1>2, <2>3
<1>3. CASE ~ (Listed(deleter.id) \subseteq deleter.services) \/ Used(deleter.id)
  <2>1. EndDelete("failed")
    BY <1>3 DEF DeleteModel
  <2> QED
    BY <1>1, <1>3, <2>1, EndsWith DEF Finished
<1> QED
  BY <1>2, <1>3

LEMMA CommitDeleteDoes ==
  ASSUME Types, CommitDelete
  PROVE  /\ deleter.pc = "commit" /\ Ends("done")
         /\ models' = [models EXCEPT ![deleter.id] = Gone]
         /\ services' = {s \in services : s.id \notin deleter.services}
         /\ parts' = parts \ deleter.doomed /\ disturbed' = disturbed \cup {deleter.id}
         /\ UNCHANGED <<lastModel, lastService, adder, rest, faults>>
<1>1. EndDelete("done") /\ "done" \in Finished
  BY DEF CommitDelete, Finished
<1>2. Ends("done")
  BY <1>1, EndsWith
<1> QED
  BY <1>2 DEF CommitDelete

LEMMA DeleteFailsDoes ==
  ASSUME Types, DeleteFails
  PROVE  /\ Active /\ UNCHANGED <<tables, adder, rest, disturbed>>
         /\ faults' = faults \cup {Deleter}
         /\ \E pc \in {"done", "failed"} : Ends(pc)
<1>1. /\ Active /\ UNCHANGED <<tables, adder, rest, disturbed>> /\ faults' = faults \cup {Deleter}
  BY DEF DeleteFails, Active, Types, Deleting
<1>2. EndDelete(IF deleter.pc = "commit" THEN "done" ELSE "failed")
  BY DEF DeleteFails
<1>3. (IF deleter.pc = "commit" THEN "done" ELSE "failed") \in {"done", "failed"}
  OBVIOUS
<1> QED
  BY <1>1, <1>2, <1>3, EndsWith DEF Finished

\* Others store below a model.
DeleterStays ==
  /\ deleter' \in Deleting /\ deleter'.pc = deleter.pc /\ deleter'.id = deleter.id
  /\ deleter'.scan = deleter.scan /\ deleter'.doomed = deleter.doomed
  /\ deleter'.services = deleter.services /\ deleter.busy \subseteq deleter'.busy
  /\ deleter'.busy \subseteq deleter.busy \cup {Others}

LEMMA MeetsDoes ==
  ASSUME Types, NEW id, Meets(id)
  PROVE  DeleterStays /\ (deleter.id = id /\ Active => Others \in deleter'.busy)
<1>1. deleter \in Deleting
  BY DEF Types
<1>2. CASE deleter.id = id /\ deleter.pc \notin {"idle"} \cup Finished
  <2>1. deleter' = [deleter EXCEPT !.busy = deleter.busy \cup {Others}]
    BY <1>2 DEF Meets
  <2>2. deleter' \in Deleting
    BY <1>1, <2>1 DEF Deleting
  <2> QED
    BY <1>1, <2>1, <2>2 DEF Deleting, DeleterStays
<1>3. CASE ~ (deleter.id = id /\ deleter.pc \notin {"idle"} \cup Finished)
  BY <1>1, <1>3 DEF Meets, DeleterStays, Active, Finished
<1> QED
  BY <1>2, <1>3

LEMMA CrashDoes ==
  ASSUME Types, Crash
  PROVE  /\ adder' \in [Adders -> Adding] /\ UNCHANGED <<tables, rest, disturbed>>
         /\ \A a \in Adders :
              \/ adder[a].pc \in Finished /\ adder'[a] = adder[a]
              \/ /\ adder[a].pc \notin Finished /\ adder'[a].pc = "crashed" /\ adder'[a].buf = {}
                 /\ KeepsModel(a) /\ KeepsService(a)
         /\ faults' = faults \cup {Deleter} /\ ((UNCHANGED deleter /\ ~ Active) \/ Ends("crashed"))
<1>1. /\ UNCHANGED <<tables, rest, disturbed>> /\ faults' = faults \cup {Deleter}
      /\ adder \in [Adders -> Adding]
  BY DEF Crash, Types
<1>2. (UNCHANGED deleter /\ ~ Active) \/ Ends("crashed")
  BY EndsWith DEF Crash, Finished, Active
<1>3. ASSUME NEW a \in Adders
      PROVE  /\ adder'[a] \in Adding
             /\ \/ adder[a].pc \in Finished /\ adder'[a] = adder[a]
                \/ /\ adder[a].pc \notin Finished /\ adder'[a].pc = "crashed" /\ adder'[a].buf = {}
                   /\ KeepsModel(a) /\ KeepsService(a)
  <2>1. CASE adder[a].pc \in Finished
    BY <1>1, <2>1 DEF Crash
  <2>2. CASE adder[a].pc \notin Finished
    <3>1. adder'[a] = [adder[a] EXCEPT !.pc = "crashed", !.buf = {}] /\ "crashed" \in Places
      BY <2>2 DEF Crash, Places, Finished
    <3>2. adder'[a] \in Adding
      BY <1>1, <3>1 DEF Adding
    <3> QED
      BY <1>1, <2>2, <3>1, <3>2 DEF Adding, KeepsModel, KeepsService
  <2> QED
    BY <2>1, <2>2
<1>4. adder' \in [Adders -> Adding]
  BY <1>3 DEF Crash
<1> QED
  BY <1>1, <1>2, <1>3, <1>4
-----------------------------------------------------------------------------
(* The types. *)

\* A call's step changes these of the variables that Types speaks of.
LEMMA AddTypes ==
  ASSUME Types, Keys, Locals, NEW a \in Adders, AddStep(a) \/ AddFails(a)
  PROVE  Types'
<1> SUFFICES /\ adder' \in [Adders -> Adding] /\ UNCHANGED <<deleter, users, others, read, disturbed, cut>>
             /\ models' \in [Ids -> Names \cup {Gone}] /\ lastModel' \in 0 .. MaxModels
             /\ lastService' \in Nat /\ services' \subseteq ServiceRow /\ parts' \subseteq PartRow
             /\ faults' \subseteq Adders \cup {Deleter}
  BY DEF Types
<1>0. /\ models \in [Ids -> Names \cup {Gone}] /\ lastModel \in 0 .. MaxModels
      /\ lastService \in Nat /\ services \subseteq ServiceRow /\ parts \subseteq PartRow
      /\ faults \subseteq Adders \cup {Deleter}
  BY DEF Types
<1> USE DEF Frame, Aside, rest, tables
<1>1. CASE CheckName(a)
  BY <1>0, <1>1, CheckNameDoes
<1>2. CASE CreateModel(a)
  <2>1. NameOf[a] \in Names /\ MaxModels \in Nat
    BY CallersApart
  <2> QED
    BY <1>0, <1>2, <2>1, CreateModelDoes
<1>3. CASE ReadModel(a)
  BY <1>0, <1>3, ReadModelDoes
<1>4. CASE CheckService(a)
  BY <1>0, <1>4, CheckServiceDoes
<1>5. CASE CreateService(a)
  <2>1. /\ Service(a) \in [name : Labels, parts : Seq(Labels)] /\ adder[a].id \in Nat
    BY <1>5, CreateServiceDoes, InHand DEF Filling, Adding
  <2>2. lastService + 1 \in Nat /\ Service(a).name \in Labels
    BY <1>0, <2>1
  <2>3. [id |-> lastService + 1, model |-> adder[a].id, name |-> Service(a).name, by |-> a] \in ServiceRow
    BY <2>1, <2>2 DEF ServiceRow
  <2> QED
    BY <1>0, <1>5, <2>3, CreateServiceDoes
<1>6. CASE ReadService(a)
  BY <1>0, <1>6, ReadServiceDoes
<1>7. CASE CheckPart(a)
  BY <1>0, <1>7, CheckPartDoes
<1>8. CASE CreatePart(a)
  BY <1>0, <1>8, CreatePartDoes
<1>9. CASE CommitService(a)
  <2>1. adder[a].buf \subseteq PartRow
    BY DEF Types, Adding
  <2> QED
    BY <1>0, <1>9, <2>1, CommitServiceDoes
<1>10. CASE AddFails(a)
  BY <1>0, <1>10, AddFailsDoes
<1> QED
  BY <1>1, <1>2, <1>3, <1>4, <1>5, <1>6, <1>7, <1>8, <1>9, <1>10 DEF AddStep

LEMMA DeleteTypes ==
  ASSUME Types, Marks, (\E id \in 0 .. lastModel : ListServices(id)) \/ DeleteStep \/ DeleteFails
  PROVE  Types'
<1>0. deleter \in Deleting /\ models \in [Ids -> Names \cup {Gone}] /\ lastModel \in 0 .. MaxModels
      /\ disturbed \subseteq Ids /\ MaxModels \in Nat
  BY CallersApart DEF Types
<1> USE DEF Marked, Ends, rest, tables
<1>1. ASSUME NEW id \in 0 .. lastModel, ListServices(id) PROVE Types'
  BY <1>1, ListServicesDoes DEF Types
<1>2. CASE DeleteParts
  BY <1>2, DeletePartsDoes DEF Types
<1>3. CASE DeleteServices
  BY <1>3, DeleteServicesDoes DEF Types
<1>4. CASE DeleteModel
  BY <1>4, DeleteModelDoes DEF Types
<1>5. CASE CommitDelete
  <2>1. deleter.id \in Ids
    BY <1>0, <1>5, CommitDeleteDoes DEF Marks, Ids
  <2>2. models' \in [Ids -> Names \cup {Gone}] /\ disturbed' \subseteq Ids
    <3>1. models' = [models EXCEPT ![deleter.id] = Gone] /\ disturbed' = disturbed \cup {deleter.id}
      BY <1>5, CommitDeleteDoes
    <3> QED
      BY <1>0, <2>1, <3>1
  <2>3. services' \subseteq services /\ parts' \subseteq parts /\ deleter' \in Deleting
    BY <1>5, CommitDeleteDoes
  <2> QED
    BY <1>5, <2>2, <2>3, CommitDeleteDoes DEF Types
<1>6. CASE DeleteFails
  BY <1>6, DeleteFailsDoes DEF Types
<1> QED
  BY <1>1, <1>2, <1>3, <1>4, <1>5, <1>6 DEF DeleteStep

\* The statements of others.
OtherStep ==
  \/ \E i \in Ids, name \in Names : Rename(i, name)
  \/ \E name \in Names : AddDeviceModel(name)
  \/ \E i \in Ids, name \in RowNames : AddServiceModel(i, name)
  \/ \E s \in services : DeleteServiceModel(s)
  \/ \E sid \in 1 .. lastService, name \in RowNames : AddCommandModel(sid, name)
  \/ \E p \in parts : DeleteCommandModel(p)
  \/ \E p \in parts \cup read, name \in RowNames : SaveCommandModel(p, name)
  \/ \E i \in Ids : AddDeviceInstance(i) \/ DeleteDeviceInstance(i)

\* A part of others, below a stored service.
OtherPart(sid, name) == [service |-> sid, name |-> name, by |-> <<Others, others>>]
Saved(p, name) == [p EXCEPT !.name = name, !.by = <<Others, others>>]

LEMMA SavedIs ==
  ASSUME Types, NEW p \in PartRow, NEW name \in RowNames
  PROVE  /\ Saved(p, name) \in PartRow /\ Saved(p, name).service = p.service
         /\ Saved(p, name).name = name /\ Saved(p, name).by = <<Others, others>>
<1>1. <<Others, others>> \in Tags /\ name \in Labels
  BY LabelNames DEF Types, Tags
<1> QED
  BY <1>1 DEF PartRow, Saved

LEMMA OtherPartIs ==
  ASSUME Types, NEW sid \in Nat, NEW name \in RowNames
  PROVE  /\ OtherPart(sid, name) \in PartRow /\ OtherPart(sid, name).service = sid
         /\ OtherPart(sid, name).name = name /\ OtherPart(sid, name).by = <<Others, others>>
BY StoredByOthers, LabelNames DEF Types, OtherPart

LEMMA OtherTypes ==
  ASSUME Types, Keys, OtherStep
  PROVE  Types'
<1>0. models \in [Ids -> Names \cup {Gone}] /\ lastModel \in 0 .. MaxModels /\ MaxModels \in Nat
      /\ lastService \in Nat /\ others \in Nat /\ parts \subseteq PartRow /\ read \subseteq PartRow
  BY CallersApart DEF Types
<1>1. ASSUME NEW i \in Ids, NEW name \in Names, Rename(i, name) PROVE Types'
  BY <1>0, <1>1 DEF Rename, Types, Other
<1>2. ASSUME NEW name \in Names, AddDeviceModel(name) PROVE Types'
  <2>1. models' \in [Ids -> Names \cup {Gone}] /\ lastModel' \in 0 .. MaxModels
    <3>1. models' = [models EXCEPT ![lastModel + 1] = name] /\ lastModel' = lastModel + 1
          /\ lastModel < MaxModels
      BY <1>2 DEF AddDeviceModel
    <3>2. models' \in [Ids -> Names \cup {Gone}]
      BY <1>0, <3>1
    <3> QED
      BY <1>0, <3>1, <3>2
  <2> QED
    BY <1>2, <2>1 DEF AddDeviceModel, Types, Other
<1>3. ASSUME NEW i \in Ids, NEW name \in RowNames, AddServiceModel(i, name) PROVE Types'
  <2>1. DeleterStays
    BY <1>3, MeetsDoes DEF AddServiceModel
  <2>2. lastService + 1 \in Nat /\ i \in Nat /\ name \in Labels
    BY <1>0, LabelNames DEF Ids
  <2>3. [id |-> lastService + 1, model |-> i, name |-> name, by |-> Others] \in ServiceRow
    BY <2>2 DEF ServiceRow
  <2> QED
    BY <1>3, <2>1, <2>2, <2>3 DEF AddServiceModel, Types, Other, DeleterStays
<1>4. ASSUME NEW s \in services, DeleteServiceModel(s) PROVE Types'
  <2>1. s.model \in Ids
    BY <1>0 DEF Keys, Ids
  <2> QED
    BY <1>4, <2>1 DEF DeleteServiceModel, Types, Erase
<1>5. ASSUME NEW sid \in 1 .. lastService, NEW name \in RowNames, AddCommandModel(sid, name) PROVE Types'
  <2>1. DeleterStays
    BY <1>5, MeetsDoes DEF AddCommandModel, StorePart
  <2>2. OtherPart(sid, name) \in PartRow
    BY <1>0, OtherPartIs
  <2>3. parts' = parts \cup {OtherPart(sid, name)} /\ UNCHANGED cut
    BY <1>5 DEF AddCommandModel, StorePart, OtherPart
  <2> QED
    BY <1>5, <2>1, <2>2, <2>3 DEF AddCommandModel, Types, Other, DeleterStays
<1>6. ASSUME NEW p \in parts, DeleteCommandModel(p) PROVE Types'
  <2>1. ModelOf(p.service) \in Ids
    BY PartsModel
  <2> QED
    BY <1>6, <2>1 DEF DeleteCommandModel, Types, Erase
<1>7. ASSUME NEW p \in parts \cup read, NEW name \in RowNames, SaveCommandModel(p, name) PROVE Types'
  <2>0. p \in PartRow /\ p.service \in Nat
    BY <1>0 DEF PartRow
  <2>1. CASE p \in parts /\ parts' = (parts \ {p}) \cup {Saved(p, name)}
             /\ cut' = cut \cup {ModelOf(p.service)} /\ UNCHANGED deleter
    <3>1. ModelOf(p.service) \in Ids
      BY <2>1, PartsModel
    <3>2. Saved(p, name) \in PartRow
      BY <2>0, SavedIs
    <3> QED
      BY <1>7, <2>1, <3>1, <3>2 DEF SaveCommandModel, Types, Other
  <2>2. CASE StorePart(p.service, name)
    <3>1. DeleterStays
      BY <2>2, MeetsDoes DEF StorePart
    <3>2. OtherPart(p.service, name) \in PartRow
      BY <2>0, OtherPartIs
    <3>3. parts' = parts \cup {OtherPart(p.service, name)} /\ UNCHANGED cut
      BY <2>2 DEF StorePart, OtherPart
    <3> QED
      BY <1>7, <3>1, <3>2, <3>3 DEF SaveCommandModel, Types, Other, DeleterStays
  <2> QED
    BY <1>7, <2>1, <2>2 DEF SaveCommandModel, Saved
<1>8. ASSUME NEW i \in Ids, AddDeviceInstance(i) PROVE Types'
  <2>1. DeleterStays
    BY <1>8, MeetsDoes DEF AddDeviceInstance
  <2>2. users' \in [Ids -> Nat] /\ UNCHANGED tables
    BY <1>8 DEF AddDeviceInstance, Types
  <2> QED
    BY <1>8, <2>1, <2>2 DEF AddDeviceInstance, Types, Other, DeleterStays, tables
<1>9. ASSUME NEW i \in Ids, DeleteDeviceInstance(i) PROVE Types'
  <2>1. users' \in [Ids -> Nat] /\ UNCHANGED tables
    BY <1>9 DEF DeleteDeviceInstance, Types
  <2> QED
    BY <1>9, <2>1 DEF DeleteDeviceInstance, Types, Erase, tables
<1> QED
  BY <1>1, <1>2, <1>3, <1>4, <1>5, <1>6, <1>7, <1>8, <1>9 DEF OtherStep

LEMMA NextCases ==
  Next <=> \/ \E a \in Adders : AddStep(a) \/ AddFails(a)
           \/ (\E id \in 0 .. lastModel : ListServices(id)) \/ DeleteStep \/ DeleteFails
           \/ OtherStep \/ Crash
BY DEF Next, OtherStep

LEMMA TypesStep ==
  ASSUME Types, Keys, Locals, Marks, [Next]_vars
  PROVE  Types'
<1>1. CASE Crash
  <2>1. deleter' \in Deleting
    BY <1>1, CrashDoes DEF Types, Ends, Marked
  <2> QED
    BY <1>1, <2>1, CrashDoes DEF Types, rest, tables
<1>2. CASE UNCHANGED vars
  BY <1>2 DEF vars, Types
<1> QED
  BY <1>1, <1>2, NextCases, AddTypes, DeleteTypes, OtherTypes
-----------------------------------------------------------------------------
(* What others do to the tables. *)

OthersServices ==
  /\ lastService' \in Nat /\ lastService <= lastService'
  /\ \A s \in services' \ services :
       /\ s \in ServiceRow /\ s.id = lastService + 1 /\ lastService' = s.id /\ s.by = Others
       /\ s.model \in Ids /\ models[s.model] # Gone /\ ~ ModelLocked(s.model)
       /\ s.model = deleter.id /\ Active => Others \in deleter'.busy
       /\ \A t \in services' : t = s \/ t \in services
  /\ \A s \in services \ services' :
       PartsOf(s.id) = {} /\ ~ ServiceLocked(s.id) /\ ~ ServiceHeld(s.id) /\ s.model \in cut'

OthersParts ==
  /\ \A p \in parts' \ parts :
       /\ p \in PartRow /\ p.by = <<Others, others>> /\ p.service \notin deleter.services
       /\ \E s \in services : s.id = p.service /\ s \in services'
       /\ \/ \E q \in parts \ deleter.doomed : q.service = p.service
          \/ Active /\ ModelOf(p.service) = deleter.id => Others \in deleter'.busy
  /\ \A p \in parts \ parts' : p \notin deleter.doomed /\ ModelOf(p.service) \in cut'

OthersModels ==
  /\ \A i \in Ids : models[i] # Gone => models'[i] # Gone
  /\ \A i \in Ids \ disturbed' : models[i] # Gone => models'[i] = models[i]
  /\ lastModel' \in Nat /\ lastModel <= lastModel'
  /\ \A i \in Ids : models[i] = Gone => models'[i] = Gone \/ i = lastModel + 1
  /\ \A i \in Ids : i > lastModel' => models'[i] = Gone
  /\ \A i, j \in Ids : models'[i] = models'[j] /\ models'[i] # Gone => i = j
  /\ lastModel' # lastModel => lastModel' = lastModel + 1 /\ services' = services

\* A device that others add to the model while it is being deleted is noticed.
OthersDevices ==
  Active /\ deleter.id # 0 /\ users[deleter.id] = 0 =>
    users'[deleter.id] = 0 \/ Others \in deleter'.busy

OtherRows ==
  /\ DeleterStays /\ UNCHANGED <<adder, faults>>
  /\ disturbed \subseteq disturbed' /\ cut \subseteq cut'
  /\ OthersServices /\ OthersParts /\ OthersModels /\ OthersDevices

LEMMA NoNewModel ==
  ASSUME Types, Keys, UNCHANGED <<models, lastModel>> PROVE OthersModels
BY CallersApart DEF Types, Keys, OthersModels

LEMMA SameServices ==
  ASSUME Types, UNCHANGED <<services, lastService>> PROVE OthersServices
BY DEF Types, OthersServices

LEMMA RenameDoes ==
  ASSUME Types, Keys, NEW i \in Ids, NEW name \in Names, Rename(i, name)
  PROVE  OtherRows
<1>0. /\ models \in [Ids -> Names \cup {Gone}] /\ lastModel \in Nat /\ MaxModels \in Nat /\ Gone \notin Names
      /\ deleter \in Deleting
  BY CallersApart DEF Types
<1>1. /\ models[i] # Gone /\ ~ Taken(name) /\ models' = [models EXCEPT ![i] = name]
      /\ disturbed' = disturbed \cup {i}
      /\ UNCHANGED <<services, parts, users, lastModel, lastService, adder, deleter, faults, cut>>
  BY DEF Rename
<1>2. OthersModels
  <2>1. models'[i] = name /\ \A j \in Ids \ {i} : models'[j] = models[j]
    BY <1>0, <1>1
  <2>2. \A j \in Ids : models[j] # name
    BY <1>1 DEF Taken
  <2> QED
    BY <1>0, <1>1, <2>1, <2>2 DEF OthersModels, Keys
<1>3. OthersServices /\ OthersParts /\ OthersDevices /\ DeleterStays
  BY <1>0, <1>1, SameServices DEF OthersParts, OthersDevices, DeleterStays
<1> QED
  BY <1>1, <1>2, <1>3 DEF OtherRows

LEMMA AddDeviceModelDoes ==
  ASSUME Types, Keys, NEW name \in Names, AddDeviceModel(name)
  PROVE  OtherRows
<1>0. /\ models \in [Ids -> Names \cup {Gone}] /\ lastModel \in Nat /\ MaxModels \in Nat /\ Gone \notin Names
      /\ deleter \in Deleting
  BY CallersApart DEF Types
<1>1. /\ ~ Taken(name) /\ models' = [models EXCEPT ![lastModel + 1] = name]
      /\ lastModel < MaxModels /\ lastModel' = lastModel + 1
      /\ UNCHANGED <<services, parts, users, lastService, adder, deleter, faults, disturbed, cut>>
  BY DEF AddDeviceModel
<1>2. OthersModels
  <2>1. lastModel + 1 \in Ids
    BY <1>0, <1>1 DEF Ids
  <2>2. models'[lastModel + 1] = name /\ \A j \in Ids \ {lastModel + 1} : models'[j] = models[j]
    BY <1>0, <1>1, <2>1
  <2>3. \A j \in Ids : models[j] # name
    BY <1>1 DEF Taken
  <2>4. models[lastModel + 1] = Gone /\ \A j \in Ids : j \in Nat
    BY <1>0, <2>1 DEF Keys, Ids
  <2> QED
    BY <1>0, <1>1, <2>1, <2>2, <2>3, <2>4 DEF OthersModels, Keys
<1>3. OthersServices /\ OthersParts /\ OthersDevices /\ DeleterStays
  BY <1>0, <1>1, SameServices DEF OthersParts, OthersDevices, DeleterStays
<1> QED
  BY <1>1, <1>2, <1>3 DEF OtherRows

LEMMA AddServiceModelDoes ==
  ASSUME Types, Keys, NEW i \in Ids, NEW name \in RowNames, AddServiceModel(i, name)
  PROVE  OtherRows
<1> DEFINE new == [id |-> lastService + 1, model |-> i, name |-> name, by |-> Others]
<1>1. /\ models[i] # Gone /\ ~ ModelLocked(i) /\ lastService' = lastService + 1
      /\ services' = services \cup {new} /\ Meets(i)
      /\ UNCHANGED <<models, parts, users, lastModel, adder, faults, disturbed, cut>>
  BY DEF AddServiceModel
<1>2. lastService \in Nat /\ MaxModels \in Nat /\ name \in Labels
  BY CallersApart, LabelNames DEF Types
<1>3. DeleterStays /\ (deleter.id = i /\ Active => Others \in deleter'.busy)
  BY <1>1, MeetsDoes
<1>4. new \in ServiceRow /\ new.id = lastService + 1 /\ new.model = i /\ new.by = Others
  BY <1>2 DEF ServiceRow, Ids
<1> HIDE DEF new
<1>5. OthersServices
  BY <1>1, <1>2, <1>3, <1>4 DEF OthersServices
<1>6. OthersModels /\ OthersParts /\ OthersDevices
  BY <1>1, NoNewModel DEF OthersParts, OthersDevices
<1> QED
  BY <1>1, <1>3, <1>5, <1>6 DEF OtherRows

LEMMA DeleteServiceModelDoes ==
  ASSUME Types, Keys, NEW s \in services, DeleteServiceModel(s)
  PROVE  OtherRows
<1>1. /\ PartsOf(s.id) = {} /\ ~ ServiceLocked(s.id) /\ ~ ServiceHeld(s.id)
      /\ services' = services \ {s} /\ cut' = cut \cup {s.model}
      /\ UNCHANGED <<models, parts, users, lastModel, lastService, adder, deleter, faults, disturbed>>
  BY DEF DeleteServiceModel
<1>2. OthersServices
  BY <1>1 DEF OthersServices, Types
<1>3. OthersModels /\ OthersParts /\ OthersDevices /\ DeleterStays
  BY <1>1, NoNewModel DEF OthersParts, OthersDevices, Types, DeleterStays
<1> QED
  BY <1>1, <1>2, <1>3 DEF OtherRows

\* A part of others is stored below a service that is there.
LEMMA StorePartDoes ==
  ASSUME Types, Keys, NEW sid \in Nat, NEW name \in RowNames, StorePart(sid, name),
         UNCHANGED <<models, services, users, lastModel, lastService, adder, faults, disturbed>>
  PROVE  OtherRows
<1> DEFINE new == OtherPart(sid, name)
<1>1. /\ \E s \in services : s.id = sid
      /\ ~ ServiceLocked(sid) /\ parts' = parts \cup {new}
      /\ Meets(ModelOf(sid)) /\ UNCHANGED cut
  BY DEF StorePart, OtherPart
<1>2. DeleterStays /\ (deleter.id = ModelOf(sid) /\ Active => Others \in deleter'.busy)
  BY <1>1, MeetsDoes
<1>3. new \in PartRow /\ new.by = <<Others, others>> /\ new.service = sid
  BY OtherPartIs
<1> HIDE DEF new
<1>4. OthersParts /\ OthersDevices
  BY <1>1, <1>2, <1>3 DEF OthersParts, OthersDevices, ServiceLocked
<1> QED
  BY <1>1, <1>2, <1>4, NoNewModel, SameServices DEF OtherRows

LEMMA DeleteCommandModelDoes ==
  ASSUME Types, Keys, NEW p \in parts, DeleteCommandModel(p)
  PROVE  OtherRows
<1>1. /\ p \notin deleter.doomed /\ parts' = parts \ {p} /\ cut' = cut \cup {ModelOf(p.service)}
      /\ UNCHANGED <<models, services, users, lastModel, lastService, adder, deleter, faults, disturbed>>
  BY DEF DeleteCommandModel
<1>2. OthersParts /\ OthersDevices /\ DeleterStays
  BY <1>1 DEF OthersParts, OthersDevices, Types, DeleterStays
<1> QED
  BY <1>1, <1>2, NoNewModel, SameServices DEF OtherRows

LEMMA SaveCommandModelDoes ==
  ASSUME Types, Keys, Marks, NEW p \in parts \cup read, NEW name \in RowNames, SaveCommandModel(p, name)
  PROVE  OtherRows
<1>0. p \in PartRow /\ p.service \in Nat
  BY DEF PartRow, Types
<1>1. UNCHANGED <<models, services, users, lastModel, lastService, adder, faults, disturbed>>
  BY DEF SaveCommandModel
<1>2. CASE StorePart(p.service, name)
  BY <1>0, <1>1, <1>2, StorePartDoes
<1>3. CASE p \in parts \ deleter.doomed /\ parts' = (parts \ {p}) \cup {Saved(p, name)}
           /\ cut' = cut \cup {ModelOf(p.service)} /\ UNCHANGED deleter
  <2> DEFINE new == Saved(p, name)
  <2>1. new \in PartRow /\ new.by = <<Others, others>> /\ new.service = p.service
    BY <1>0, SavedIs
  <2>2. p.service \notin deleter.services /\ \E s \in services : s.id = p.service
    BY <1>3 DEF Marks, Keys
  <2> HIDE DEF new
  <2>3. OthersParts /\ OthersDevices /\ DeleterStays
    BY <1>1, <1>3, <2>1, <2>2 DEF OthersParts, OthersDevices, Types, DeleterStays, new
  <2> QED
    BY <1>1, <1>3, <2>3, NoNewModel, SameServices DEF OtherRows
<1> QED
  BY <1>2, <1>3 DEF SaveCommandModel, Saved

LEMMA AddDeviceInstanceDoes ==
  ASSUME Types, Keys, NEW i \in Ids, AddDeviceInstance(i)
  PROVE  OtherRows
<1>1. /\ users' = [users EXCEPT ![i] = @ + 1] /\ Meets(i)
      /\ UNCHANGED <<tables, adder, faults, disturbed, cut>>
  BY DEF AddDeviceInstance
<1>2. DeleterStays /\ (deleter.id = i /\ Active => Others \in deleter'.busy)
  BY <1>1, MeetsDoes
<1>3. OthersDevices
  BY <1>1, <1>2 DEF OthersDevices, Types
<1>4. OthersParts
  BY <1>1 DEF OthersParts, tables
<1> QED
  BY <1>1, <1>2, <1>3, <1>4, NoNewModel, SameServices DEF OtherRows, tables

LEMMA DeleteDeviceInstanceDoes ==
  ASSUME Types, Keys, NEW i \in Ids, DeleteDeviceInstance(i)
  PROVE  OtherRows
<1>1. /\ users' = [users EXCEPT ![i] = @ - 1] /\ users[i] > 0
      /\ UNCHANGED <<tables, adder, deleter, faults, disturbed, cut>>
  BY DEF DeleteDeviceInstance
<1>2. OthersDevices /\ DeleterStays
  BY <1>1 DEF OthersDevices, DeleterStays, Types
<1>3. OthersParts
  BY <1>1 DEF OthersParts, tables
<1> QED
  BY <1>1, <1>2, <1>3, NoNewModel, SameServices DEF OtherRows, tables

LEMMA OtherStepDoes ==
  ASSUME Types, Keys, Marks, OtherStep
  PROVE  OtherRows
<1>1. ASSUME NEW sid \in 1 .. lastService, NEW name \in RowNames, AddCommandModel(sid, name) PROVE OtherRows
  BY <1>1, StorePartDoes DEF AddCommandModel, Types
<1> QED
  BY <1>1, RenameDoes, AddDeviceModelDoes, AddServiceModelDoes, DeleteServiceModelDoes,
     DeleteCommandModelDoes, SaveCommandModelDoes, AddDeviceInstanceDoes,
     DeleteDeviceInstanceDoes DEF OtherStep
-----------------------------------------------------------------------------
(* The keys. *)

LEMMA KeysKept == ASSUME Types, Keys, UNCHANGED tables PROVE Keys'
BY DEF tables, Keys

LEMMA AddKeys ==
  ASSUME Types, Keys, Locals, Buffers, NEW a \in Adders, AddStep(a) \/ AddFails(a)
  PROVE  Keys'
<1>0. /\ lastModel \in Nat /\ lastService \in Nat /\ models \in [Ids -> Names \cup {Gone}]
      /\ services \subseteq ServiceRow /\ adder[a] \in Adding
  BY CallersApart DEF Types
<1>1. CASE CreateModel(a)
  <2>1. /\ UNCHANGED <<services, parts, lastService>>
        /\ \/ UNCHANGED <<models, lastModel>>
           \/ /\ lastModel' = lastModel + 1 /\ ~ Taken(NameOf[a]) /\ lastModel < MaxModels
              /\ models' = [models EXCEPT ![lastModel + 1] = NameOf[a]]
    BY <1>1, CreateModelDoes
  <2>2. CASE UNCHANGED <<models, lastModel>>
    BY <2>1, <2>2, KeysKept DEF tables
  <2>3. CASE /\ lastModel' = lastModel + 1 /\ ~ Taken(NameOf[a]) /\ lastModel < MaxModels
             /\ models' = [models EXCEPT ![lastModel + 1] = NameOf[a]]
    <3>1. lastModel + 1 \in Ids /\ NameOf[a] # Gone
      BY <1>0, <2>3, CallersApart DEF Ids
    <3>2. models'[lastModel + 1] = NameOf[a] /\ \A j \in Ids \ {lastModel + 1} : models'[j] = models[j]
      BY <1>0, <2>3, <3>1
    <3>3. \A j \in Ids : models[j] # NameOf[a] /\ j \in Nat
      BY <2>3 DEF Taken, Ids
    <3> QED
      BY <1>0, <2>1, <2>3, <3>1, <3>2, <3>3 DEF Keys
  <2> QED
    BY <2>1, <2>2, <2>3
<1>2. CASE CreateService(a)
  <2> DEFINE new == [id |-> lastService + 1, model |-> adder[a].id, name |-> Service(a).name, by |-> a]
  <2>1. /\ UNCHANGED <<models, parts, lastModel>>
        /\ \/ UNCHANGED <<services, lastService>>
           \/ lastService' = lastService + 1 /\ services' = services \cup {new}
    BY <1>2, CreateServiceDoes
  <2>2. adder[a].id \in 1 .. lastModel
    BY <1>2, CreateServiceDoes, InHand DEF Filling
  <2>3. new.id = lastService + 1 /\ new.model = adder[a].id
    OBVIOUS
  <2> HIDE DEF new
  <2> QED
    BY <1>0, <2>1, <2>2, <2>3 DEF Keys
<1>3. CASE CommitService(a)
  <2>1. UNCHANGED <<models, services, lastModel, lastService>> /\ parts' = parts \cup adder[a].buf
    BY <1>3, CommitServiceDoes
  <2>2. \A p \in adder[a].buf : \E s \in services : s.id = p.service
    BY DEF Buffers, Buffer
  <2> QED
    BY <2>1, <2>2 DEF Keys
<1>4. CASE UNCHANGED tables
  BY <1>4, KeysKept
<1> QED
  BY <1>1, <1>2, <1>3, <1>4, CheckNameDoes, ReadModelDoes, CheckServiceDoes, ReadServiceDoes,
     CheckPartDoes, CreatePartDoes, AddFailsDoes DEF AddStep

LEMMA DeleteKeys ==
  ASSUME Types, Keys, Marks, (\E id \in 0 .. lastModel : ListServices(id)) \/ DeleteStep \/ DeleteFails
  PROVE  Keys'
<1>1. CASE CommitDelete
  <2>1. /\ models' = [models EXCEPT ![deleter.id] = Gone]
        /\ services' = {s \in services : s.id \notin deleter.services}
        /\ parts' = parts \ deleter.doomed /\ UNCHANGED <<lastModel, lastService>>
    BY <1>1, CommitDeleteDoes
  <2>2. \A p \in parts' : p.service \notin deleter.services
    BY <2>1 DEF Marks
  <2>3. models \in [Ids -> Names \cup {Gone}]
    BY DEF Types
  <2>4. \A i \in Ids : models'[i] = models[i] \/ models'[i] = Gone
    BY <2>1, <2>3
  <2> QED
    BY <2>1, <2>2, <2>4 DEF Keys
<1>2. CASE UNCHANGED tables
  BY <1>2, KeysKept
<1> QED
  BY <1>1, <1>2, ListServicesDoes, DeletePartsDoes, DeleteServicesDoes, DeleteModelDoes,
     DeleteFailsDoes DEF DeleteStep

LEMMA OtherKeys ==
  ASSUME Types, Keys, Marks, OtherStep
  PROVE  Keys'
<1>1. OtherRows
  BY OtherStepDoes
<1>0. /\ lastModel \in Nat /\ lastService \in Nat /\ models \in [Ids -> Names \cup {Gone}]
      /\ services \subseteq ServiceRow
  BY CallersApart DEF Types
<1>2. \A i, j \in Ids : models'[i] = models'[j] /\ models'[i] # Gone => i = j
  BY <1>1 DEF OtherRows, OthersModels
<1>3. \A i \in Ids : i > lastModel' => models'[i] = Gone
  BY <1>1 DEF OtherRows, OthersModels
<1>4. \A s \in services' : s.id \in 1 .. lastService' /\ s.model \in 1 .. lastModel'
  <2> SUFFICES ASSUME NEW s \in services' PROVE s.id \in 1 .. lastService' /\ s.model \in 1 .. lastModel'
    OBVIOUS
  <2>1. lastService' \in Nat /\ lastService <= lastService' /\ lastModel' \in Nat /\ lastModel <= lastModel'
    BY <1>1 DEF OtherRows, OthersServices, OthersModels
  <2>2. CASE s \in services
    BY <1>0, <2>1, <2>2 DEF Keys
  <2>3. CASE s \notin services
    <3>1. s.id = lastService + 1 /\ s.id = lastService' /\ s.model \in Ids /\ models[s.model] # Gone
      BY <1>1, <2>3 DEF OtherRows, OthersServices
    <3>2. s.model \in 1 .. lastModel
      BY <1>0, <3>1 DEF Keys, Ids
    <3> QED
      BY <1>0, <2>1, <3>1, <3>2
  <2> QED
    BY <2>2, <2>3
<1>5. \A s, t \in services' : s.id = t.id => s = t
  <2> SUFFICES ASSUME NEW s \in services', NEW t \in services', s.id = t.id PROVE s = t
    OBVIOUS
  <2>0. \A r \in services : r.id \in 1 .. lastService
    BY DEF Keys
  <2>1. CASE s \in services /\ t \in services
    BY <2>1 DEF Keys
  <2>2. CASE s \notin services
    <3>1. s.id = lastService + 1 /\ \A r \in services' : r = s \/ r \in services
      BY <1>1, <2>2 DEF OtherRows, OthersServices
    <3>2. t = s \/ t.id \in 1 .. lastService
      BY <2>0, <3>1
    <3> QED
      BY <1>0, <3>1, <3>2
  <2>3. CASE t \notin services
    <3>1. t.id = lastService + 1 /\ \A r \in services' : r = t \/ r \in services
      BY <1>1, <2>3 DEF OtherRows, OthersServices
    <3> QED
      BY <1>0, <2>0, <3>1
  <2> QED
    BY <2>1, <2>2, <2>3
<1>6. \A p \in parts' : \E s \in services' : s.id = p.service
  <2> SUFFICES ASSUME NEW p \in parts' PROVE \E s \in services' : s.id = p.service
    OBVIOUS
  <2>1. CASE p \notin parts
    BY <1>1, <2>1 DEF OtherRows, OthersParts
  <2>2. CASE p \in parts
    <3>1. PICK s \in services : s.id = p.service
      BY <2>2 DEF Keys
    <3>2. p \in PartsOf(s.id)
      BY <2>2, <3>1 DEF PartsOf
    <3>3. s \in services'
      BY <1>1, <3>2 DEF OtherRows, OthersServices
    <3> QED
      BY <3>1, <3>3
  <2> QED
    BY <2>1, <2>2
<1> QED
  BY <1>2, <1>3, <1>4, <1>5, <1>6 DEF Keys

LEMMA KeysStep ==
  ASSUME Types, Keys, Locals, Buffers, Marks, [Next]_vars
  PROVE  Keys'
<1>1. CASE Crash
  BY <1>1, CrashDoes, KeysKept
<1>2. CASE UNCHANGED vars
  BY <1>2, KeysKept DEF vars, tables
<1> QED
  BY <1>1, <1>2, NextCases, AddKeys, DeleteKeys, OtherKeys
-----------------------------------------------------------------------------
(* Where the calls are. *)

Grows ==
  /\ lastModel \in Nat /\ lastModel' \in Nat /\ lastModel <= lastModel'
  /\ lastService \in Nat /\ lastService' \in Nat /\ lastService <= lastService'
  /\ \A s \in services' : s \in services \/ s.id = lastService + 1

LEMMA Growth ==
  ASSUME Types, Keys, Locals, Marks, [Next]_vars
  PROVE  Grows
<1>0. lastModel \in Nat /\ lastService \in Nat
  BY CallersApart DEF Types
<1>1. ASSUME NEW a \in Adders, AddStep(a) \/ AddFails(a) PROVE Grows
  <2>1. CASE CreateModel(a)
    BY <1>0, <2>1, CreateModelDoes DEF Grows
  <2>2. CASE CreateService(a)
    <3>1. \/ UNCHANGED <<lastModel, services, lastService>>
          \/ lastModel' = lastModel /\ lastService' = lastService + 1
             /\ \A s \in services' : s \in services \/ s.id = lastService + 1
      BY <2>2, CreateServiceDoes
    <3> QED
      BY <1>0, <3>1 DEF Grows
  <2>3. CASE UNCHANGED <<lastModel, services, lastService>>
    BY <1>0, <2>3 DEF Grows
  <2> QED
    BY <1>1, <2>1, <2>2, <2>3, CheckNameDoes, ReadModelDoes, CheckServiceDoes, ReadServiceDoes,
       CheckPartDoes, CreatePartDoes, CommitServiceDoes, AddFailsDoes DEF AddStep, tables
<1>2. CASE CommitDelete
  BY <1>0, <1>2, CommitDeleteDoes DEF Grows
<1>3. CASE OtherStep
  <2>1. OtherRows
    BY <1>3, OtherStepDoes
  <2> QED
    BY <1>0, <2>1 DEF OtherRows, OthersServices, OthersModels, Grows
<1>4. CASE UNCHANGED tables
  BY <1>0, <1>4 DEF Grows, tables
<1>5. CASE UNCHANGED vars
  BY <1>4, <1>5 DEF vars, tables
<1> QED
  BY <1>1, <1>2, <1>3, <1>4, <1>5, NextCases, CrashDoes, ListServicesDoes, DeletePartsDoes,
     DeleteServicesDoes, DeleteModelDoes, DeleteFailsDoes DEF DeleteStep

BelowNext(sid, id) == sid \in 1 .. lastService' /\ \A s \in services' : s.id = sid => s.model = id

LEMMA BelowKept ==
  ASSUME Grows, NEW sid, NEW id, Below(sid, id)
  PROVE  BelowNext(sid, id)
<1>1. sid # lastService + 1 /\ sid \in 1 .. lastService'
  BY DEF Below, Grows
<1> QED
  BY <1>1 DEF Below, Grows, BelowNext

LEMMA ServiceBelow ==
  ASSUME Keys, NEW s \in services
  PROVE  Below(s.id, s.model)
BY DEF Keys, Below

\* One part less to do.
LEMMA AtEndTail ==
  ASSUME NEW s \in Seq(Labels), NEW all \in Seq(Labels), s # <<>>, AtEnd(s, all)
  PROVE  /\ AtEnd(Tail(s), all) /\ (Tail(s) = <<>> <=> Len(s) = 1)
         /\ Len(all) - Len(s) + 1 \in 1 .. Len(all) /\ Head(s) = all[Len(all) - Len(s) + 1]
         /\ Len(all) - Len(Tail(s)) = Len(all) - Len(s) + 1
<1> DEFINE n == Len(s)
           m == Len(all)
<1>1. n \in Nat /\ m \in Nat /\ n >= 1 /\ n <= m
  BY DEF AtEnd
<1>2. Tail(s) \in Seq(Labels) /\ Len(Tail(s)) = n - 1 /\ Head(s) = s[1]
      /\ \A k \in 1 .. (n - 1) : Tail(s)[k] = s[k + 1]
  OBVIOUS
<1>3. \A k \in 1 .. n : s[k] = all[m - n + k]
  BY DEF AtEnd
<1>4. Tail(s) = <<>> <=> n = 1
  <2>1. Tail(s) = <<>> <=> Len(Tail(s)) = 0
    BY <1>2, EmptySeq
  <2> HIDE DEF n
  <2> QED
    BY <1>1, <1>2, <2>1
<1>5. \A k \in 1 .. (n - 1) : Tail(s)[k] = all[m - (n - 1) + k]
  <2> SUFFICES ASSUME NEW k \in 1 .. (n - 1) PROVE Tail(s)[k] = all[m - (n - 1) + k]
    OBVIOUS
  <2> HIDE DEF n, m
  <2>1. k + 1 \in 1 .. n /\ m - n + (k + 1) = m - (n - 1) + k
    BY <1>1
  <2> QED
    BY <1>2, <1>3, <2>1
<1>6. AtEnd(Tail(s), all)
  BY <1>1, <1>2, <1>5 DEF AtEnd
<1>7. m - n + 1 \in 1 .. m /\ m - (n - 1) = m - n + 1 /\ 1 \in 1 .. n
  <2> HIDE DEF n, m
  <2> QED
    BY <1>1
<1>8. Head(s) = all[m - n + 1]
  BY <1>2, <1>3, <1>7
<1> QED
  BY <1>2, <1>4, <1>6, <1>7, <1>8

LEMMA LocalKept ==
  ASSUME Grows, NEW b \in Adders, Local(b), adder'[b] = adder[b]
  PROVE  Local(b)'
<1>1. lastModel \in Nat /\ lastModel' \in Nat /\ lastModel <= lastModel'
  BY DEF Grows
<1>2. adder[b].pc \in Storing => BelowNext(adder[b].sid, adder[b].id)
  BY BelowKept DEF Local
<1>3. Service(b)' = Service(b)
  BY DEF Service
<1>4. adder[b].pc \in Storing => AtEnd(adder[b].todo, Service(b).parts)'
  BY <1>3 DEF Local, AtEnd
<1>5. adder[b].pc \in Storing => Below(adder[b].sid, adder[b].id)'
  BY <1>2 DEF BelowNext, Below
<1> QED
  BY <1>1, <1>4, <1>5 DEF Local

\* A call that has gone on to the next service, or to the end.
LEMMA LocalAdvances ==
  ASSUME Grows, Types, NEW a \in Adders, NEW i \in Nat, Advances(a, i), Types',
         i \in 1 .. (Len(Wanted[a]) + 1),
         adder'[a].made = adder[a].made, adder[a].made \in (1 .. lastModel), adder'[a].id \in 1 .. lastModel
  PROVE  Local(a)'
<1>1. lastModel \in Nat /\ lastModel' \in Nat /\ lastModel <= lastModel'
  BY DEF Grows
<1>2. Len(Wanted[a]) \in Nat
  BY CallersApart
<1>3. /\ adder'[a].pc \in {"service", "done"} /\ adder'[a].i = i /\ adder'[a].buf = {}
      /\ (adder'[a].pc = "service" <=> i <= Len(Wanted[a]))
  BY DEF Advances, NextPlace
<1>4. adder'[a].pc \notin Storing
  BY <1>3 DEF Storing
<1>5. adder'[a].made \in 0 .. lastModel' /\ adder'[a].id \in 0 .. lastModel' /\ adder'[a].id # 0
      /\ adder'[a].made # 0
  BY <1>1
<1>6. adder'[a].pc \in Filling => i \in 1 .. Len(Wanted[a])
  BY <1>2, <1>3 DEF Filling, Storing
<1>7. adder'[a].pc = "done" => i = Len(Wanted[a]) + 1
  BY <1>2, <1>3
<1> QED
  BY <1>3, <1>4, <1>5, <1>6, <1>7 DEF Local

LEMMA LocalStep ==
  ASSUME Types, Keys, Locals, Marks, Grows, Types', NEW a \in Adders, AddStep(a) \/ AddFails(a)
  PROVE  Local(a)'
<1>0. /\ lastModel \in Nat /\ lastModel' \in Nat /\ lastModel <= lastModel' /\ adder[a] \in Adding
      /\ Local(a) /\ Len(Wanted[a]) \in Nat
  BY CallersApart DEF Grows, Types, Locals
<1>1. CASE CheckName(a)
  BY <1>0, <1>1, CheckNameDoes DEF Local, KeepsModel, KeepsService, KeepsBuffer, Filling, Storing
<1>2. CASE CreateModel(a)
  <2>1. /\ adder[a].pc = "create" /\ adder'[a].id = adder[a].id /\ adder'[a].buf = adder[a].buf
        /\ adder'[a].i = adder[a].i
        /\ \/ adder'[a].pc = "failed" /\ adder'[a].made = adder[a].made
           \/ adder'[a].pc = "get" /\ adder'[a].made = lastModel + 1 /\ lastModel' = lastModel + 1
    BY <1>2, CreateModelDoes DEF KeepsService, KeepsBuffer
  <2>2. adder[a].made = 0 /\ adder[a].id = 0 /\ adder[a].i = 1 /\ adder[a].buf = {}
    BY <1>0, <2>1 DEF Local, Storing
  <2> QED
    BY <1>0, <2>1, <2>2 DEF Local, Filling, Storing
<1>3. CASE ReadModel(a)
  <2>1. CASE adder'[a].pc = "failed" /\ KeepsModel(a) /\ KeepsService(a) /\ KeepsBuffer(a)
    <3>1. adder[a].pc = "get"
      BY <1>3, ReadModelDoes
    <3> QED
      BY <1>0, <2>1, <3>1 DEF Local, KeepsModel, KeepsService, KeepsBuffer, Filling, Storing
  <2>2. CASE Advances(a, 1) /\ adder'[a].id \in Ids /\ models[adder'[a].id] = NameOf[a]
    <3>1. adder[a].pc = "get" /\ adder'[a].made = adder[a].made
      BY <1>3, ReadModelDoes
    <3>2. adder[a].made \in 1 .. lastModel
      BY <1>0, <3>1 DEF Local
    <3>3. NameOf[a] # Gone /\ adder'[a].id \in Nat /\ adder'[a].id >= 1
      BY <2>2, CallersApart DEF Ids
    <3>4. adder'[a].id \in 1 .. lastModel
      BY <1>0, <2>2, <3>3 DEF Keys
    <3> QED
      BY <1>0, <2>2, <3>1, <3>2, <3>4, LocalAdvances
  <2> QED
    BY <1>3, <2>1, <2>2, ReadModelDoes
<1>4. CASE CheckService(a) \/ CreateService(a)
  <2>1. /\ adder[a].pc \in {"service", "addservice"} /\ KeepsModel(a) /\ KeepsService(a) /\ KeepsBuffer(a)
        /\ adder'[a].pc \in {"addservice", "getservice", "failed"}
    BY <1>4, CheckServiceDoes, CreateServiceDoes
  <2>2. adder[a].buf = {} /\ adder[a].i \in 1 .. Len(Wanted[a]) /\ adder[a].id # 0
    BY <1>0, <2>1 DEF Local, Filling, Storing
  <2> QED
    BY <1>0, <2>1, <2>2 DEF Local, KeepsModel, KeepsService, KeepsBuffer, Filling, Storing
<1>5. CASE ReadService(a)
  <2>1. /\ adder[a].pc = "getservice" /\ KeepsModel(a) /\ KeepsBuffer(a) /\ adder'[a].i = adder[a].i
    BY <1>5, ReadServiceDoes
  <2>2. adder[a].buf = {} /\ adder[a].i \in 1 .. Len(Wanted[a]) /\ adder[a].id # 0
    BY <1>0, <2>1 DEF Local, Filling, Storing
  <2>3. CASE adder'[a].pc = "failed"
    BY <1>0, <2>1, <2>2, <2>3 DEF Local, KeepsModel, KeepsBuffer, Filling, Storing
  <2>4. CASE /\ adder'[a].todo = Service(a).parts
             /\ adder'[a].pc = (IF Service(a).parts = <<>> THEN "commit" ELSE "part")
             /\ \E s \in Named(ServicesOf(adder[a].id), Service(a).name) : adder'[a].sid = s.id
    <3>1. PICK s \in services : s.model = adder[a].id /\ adder'[a].sid = s.id
      BY <2>4 DEF Named, ServicesOf
    <3>2. BelowNext(s.id, adder[a].id)
      BY <3>1, ServiceBelow, BelowKept
    <3>3. Below(adder[a].sid, adder[a].id)'
      BY <2>1, <3>1, <3>2 DEF BelowNext, Below, KeepsModel
    <3>4. Service(a)' = Service(a) /\ Service(a).parts \in Seq(Labels)
      BY <2>1, InHand DEF Service, Filling
    <3>5. AtEnd(adder[a].todo, Service(a).parts)'
      <4>1. Service(a)'.parts = adder'[a].todo /\ Len(adder'[a].todo) \in Nat
        BY <2>4, <3>4
      <4> QED
        BY <4>1 DEF AtEnd
    <3>6. (adder'[a].todo = <<>> <=> adder'[a].pc = "commit") /\ adder'[a].pc \in {"commit", "part"}
      BY <2>4
    <3>7. adder'[a].i \in 1 .. Len(Wanted[a]) /\ adder'[a].id # 0
          /\ adder'[a].made \in 0 .. lastModel' /\ adder'[a].id \in 0 .. lastModel' /\ adder'[a].made # 0
      BY <1>0, <2>1, <2>2 DEF Local, KeepsModel
    <3> QED
      BY <3>3, <3>5, <3>6, <3>7 DEF Local, Filling, Storing
  <2> QED
    BY <1>5, <2>3, <2>4, ReadServiceDoes
<1>6. CASE CheckPart(a) \/ CreatePart(a)
  <2>1. /\ adder[a].pc \in {"part", "addpart"} /\ KeepsModel(a)
        /\ adder'[a].i = adder[a].i /\ adder'[a].sid = adder[a].sid
        /\ \/ adder'[a].pc = "failed" /\ adder'[a].buf = {}
           \/ adder'[a].pc = "addpart" /\ KeepsService(a)
           \/ /\ adder'[a].pc = (IF Len(adder[a].todo) = 1 THEN "commit" ELSE "part")
              /\ adder'[a].todo = Tail(adder[a].todo)
    BY <1>6, CheckPartDoes, CreatePartDoes
  <2>2. /\ adder[a].i \in 1 .. Len(Wanted[a]) /\ adder[a].id # 0 /\ adder[a].made # 0
        /\ adder[a].id \in 0 .. lastModel /\ adder[a].made \in 0 .. lastModel
        /\ Below(adder[a].sid, adder[a].id) /\ adder[a].todo # <<>>
    BY <1>0, <2>1 DEF Local, Filling, Storing
  <2>3. Below(adder[a].sid, adder[a].id)'
    <3>1. BelowNext(adder[a].sid, adder[a].id)
      BY <2>2, BelowKept
    <3> QED
      BY <2>1, <3>1 DEF BelowNext, Below, KeepsModel
  <2>4. Service(a)' = Service(a) /\ Service(a).parts \in Seq(Labels)
    BY <2>1, InHand DEF Service, Filling, Storing
  <2>5. CASE adder'[a].pc = "failed" /\ adder'[a].buf = {}
    BY <1>0, <2>1, <2>2, <2>5 DEF Local, KeepsModel, Filling, Storing
  <2>6. CASE adder'[a].pc = "addpart" /\ KeepsService(a)
    <3>1. AtEnd(adder[a].todo, Service(a).parts)'
      BY <1>0, <2>1, <2>4, <2>6 DEF Local, KeepsService, AtEnd, Storing
    <3> QED
      BY <1>0, <2>1, <2>2, <2>3, <2>6, <3>1 DEF Local, KeepsModel, KeepsService, Filling, Storing
  <2>7. CASE /\ adder'[a].pc = (IF Len(adder[a].todo) = 1 THEN "commit" ELSE "part")
             /\ adder'[a].todo = Tail(adder[a].todo)
    <3>1. AtEnd(Tail(adder[a].todo), Service(a).parts) /\ (Tail(adder[a].todo) = <<>> <=> Len(adder[a].todo) = 1)
      BY <2>1, <2>4, LeftToDo, AtEndTail
    <3>2. AtEnd(adder[a].todo, Service(a).parts)'
      BY <2>4, <2>7, <3>1 DEF AtEnd
    <3>3. (adder'[a].todo = <<>> <=> adder'[a].pc = "commit") /\ adder'[a].pc \in {"commit", "part"}
      BY <2>7, <3>1
    <3>7. adder'[a].i \in 1 .. Len(Wanted[a]) /\ adder'[a].id # 0
          /\ adder'[a].made \in 0 .. lastModel' /\ adder'[a].id \in 0 .. lastModel' /\ adder'[a].made # 0
      BY <1>0, <2>1, <2>2 DEF KeepsModel
    <3> QED
      BY <2>3, <3>2, <3>3, <3>7 DEF Local, Filling, Storing
  <2> QED
    BY <2>1, <2>5, <2>6, <2>7
<1>7. ASSUME adder[a].pc = "commit", Advances(a, adder[a].i + 1), KeepsModel(a) PROVE Local(a)'
  <2>1. adder[a].i \in 1 .. Len(Wanted[a]) /\ adder[a].id \in 1 .. lastModel /\ adder[a].made \in 1 .. lastModel
    BY <1>0, <1>7 DEF Local, Filling, Storing
  <2>2. adder[a].i + 1 \in Nat /\ adder[a].i + 1 \in 1 .. (Len(Wanted[a]) + 1)
    BY <1>0, <2>1
  <2> QED
    BY <1>7, <2>1, <2>2, LocalAdvances DEF KeepsModel
<1>8. CASE AddFails(a)
  <2>1. CASE adder'[a].pc = "failed"
    <3>1. KeepsModel(a) /\ adder'[a].buf = {}
      BY <1>8, AddFailsDoes
    <3> QED
      BY <1>0, <2>1, <3>1 DEF Local, KeepsModel, Filling, Storing
  <2> QED
    BY <1>7, <1>8, <2>1, AddFailsDoes
<1>9. CASE CommitService(a)
  BY <1>7, <1>9, CommitServiceDoes
<1> QED
  BY <1>1, <1>2, <1>3, <1>4, <1>5, <1>6, <1>8, <1>9 DEF AddStep

LEMMA LocalsStep ==
  ASSUME Types, Keys, Locals, Marks, Grows, Types', [Next]_vars
  PROVE  Locals'
<1>0. \A b \in Adders : Local(b)
  BY DEF Locals
<1>1. ASSUME NEW a \in Adders, AddStep(a) \/ AddFails(a) PROVE Locals'
  <2>1. \A b \in Adders \ {a} : adder'[b] = adder[b]
    BY <1>1, CheckNameDoes, CreateModelDoes, ReadModelDoes, CheckServiceDoes, CreateServiceDoes,
       ReadServiceDoes, CheckPartDoes, CreatePartDoes, CommitServiceDoes, AddFailsDoes DEF AddStep, Frame
  <2> QED
    BY <1>0, <1>1, <2>1, LocalStep, LocalKept DEF Locals
<1>2. CASE Crash
  <2>1. ASSUME NEW b \in Adders, adder'[b] # adder[b] PROVE Local(b)'
    <3>1. adder'[b].pc = "crashed" /\ adder'[b].buf = {} /\ KeepsModel(b)
      BY <1>2, <2>1, CrashDoes
    <3>2. lastModel \in Nat /\ lastModel' \in Nat /\ lastModel <= lastModel' /\ Local(b)
      BY <1>0 DEF Grows
    <3> QED
      BY <3>1, <3>2 DEF Local, KeepsModel, Filling, Storing
  <2> QED
    BY <1>0, <2>1, LocalKept DEF Locals
<1>3. CASE UNCHANGED adder
  BY <1>0, <1>3, LocalKept DEF Locals
<1>4. UNCHANGED vars => UNCHANGED adder
  BY DEF vars
<1> QED
  BY <1>1, <1>2, <1>3, <1>4, NextCases, ListServicesDoes, DeletePartsDoes, DeleteServicesDoes,
     DeleteModelDoes, CommitDeleteDoes, DeleteFailsDoes, OtherStepDoes DEF DeleteStep, OtherRows
-----------------------------------------------------------------------------
(* What calls have stored. *)

\* A step of a call, seen from outside.
AddsRows(a) ==
  /\ Frame(a) /\ adder[a].pc \notin Finished /\ Aside
  /\ faults \subseteq faults' /\ faults' \subseteq faults \cup {a}
  /\ services \subseteq services' /\ parts \subseteq parts'
  /\ \A s \in services' \ services :
       /\ s.id = lastService + 1 /\ s.by = a /\ s.model = adder[a].id /\ adder'[a].id = adder[a].id
       /\ models[s.model] # Gone /\ ~ ModelLocked(s.model) /\ s.name = Service(a).name
  /\ parts' \subseteq parts \cup adder[a].buf
  /\ adder[a].i <= adder'[a].i /\ (adder[a].pc # "get" => adder'[a].id = adder[a].id)
  /\ adder[a].pc # "create" => adder'[a].made = adder[a].made

LEMMA AddStepDoes ==
  ASSUME Types, Locals, NEW a \in Adders, AddStep(a) \/ AddFails(a)
  PROVE  AddsRows(a)
<1>0. adder[a].i \in Nat /\ adder \in [Adders -> Adding]
  BY DEF Types, Adding
<1> USE <1>0 DEF KeepsModel, KeepsService, tables, AddsRows
<1>1. CASE CheckName(a)
  BY <1>1, CheckNameDoes DEF Finished
<1>2. CASE CreateModel(a)
  BY <1>2, CreateModelDoes DEF Finished
<1>3. CASE ReadModel(a)
  <2>1. adder[a].pc = "get" => adder[a].i = 1
    BY DEF Locals, Local
  <2> QED
    BY <1>3, <2>1, ReadModelDoes DEF Finished, Advances
<1>4. CASE CheckService(a)
  BY <1>4, CheckServiceDoes DEF Finished
<1>5. CASE CreateService(a)
  <2>1. /\ adder[a].pc = "addservice" /\ ~ ModelLocked(adder[a].id) /\ Frame(a) /\ KeepsModel(a)
        /\ KeepsService(a) /\ UNCHANGED <<models, parts, lastModel, faults>> /\ Aside
    BY <1>5, CreateServiceDoes
  <2>2. \/ services' = services
        \/ /\ models[adder[a].id] # Gone
           /\ services' = services \cup {[id |-> lastService + 1, model |-> adder[a].id,
                                          name |-> Service(a).name, by |-> a]}
    BY <1>5, CreateServiceDoes
  <2> QED
    BY <2>1, <2>2 DEF Finished
<1>6. CASE ReadService(a)
  BY <1>6, ReadServiceDoes DEF Finished
<1>7. CASE CheckPart(a)
  BY <1>7, CheckPartDoes DEF Finished
<1>8. CASE CreatePart(a)
  BY <1>8, CreatePartDoes DEF Finished
<1>9. CASE CommitService(a)
  BY <1>9, CommitServiceDoes DEF Finished, Advances
<1>10. CASE AddFails(a)
  BY <1>10, AddFailsDoes DEF Advances
<1> QED
  BY <1>1, <1>2, <1>3, <1>4, <1>5, <1>6, <1>7, <1>8, <1>9, <1>10 DEF AddStep

\* The services a transaction has stored below stay, and stay unmarked.
Safe(b) ==
  adder[b].buf # {} =>
    /\ adder[b].sid \notin deleter'.services
    /\ \A s \in services : s.id = adder[b].sid => s \in services'

LEMMA BufferKept ==
  ASSUME Types, NEW b \in Adders, Buffer(b), Safe(b), adder'[b] = adder[b]
  PROVE  Buffer(b)'
BY DEF Buffer, Safe, Tagged

\* The part being stored is the one its tag names.
LEMMA NewPartTagged ==
  ASSUME Types, Locals, NEW a \in Adders, adder[a].pc = "addpart"
  PROVE  /\ Tagged(NewPart(a), a) /\ NewPart(a).by[2] = adder[a].i
         /\ NewPart(a).by[3] = Len(adder[a].todo) /\ NewPart(a).service = adder[a].sid
         /\ NewPart(a).name = Head(adder[a].todo) /\ NewPart(a).by[1] = a
<1> DEFINE all == Service(a).parts
           n == Len(adder[a].todo)
           i == adder[a].i
<1>1. adder[a].todo \in Seq(Labels) /\ adder[a].todo # <<>> /\ AtEnd(adder[a].todo, all)
      /\ n \in Nat \ {0}
  BY LeftToDo
<1>2. all \in Seq(Labels) /\ i \in 1 .. Len(Wanted[a]) /\ Service(a) = Wanted[a][i]
  BY InHand DEF Filling, Storing
<1>3. Head(adder[a].todo) = all[Len(all) - n + 1] /\ n <= Len(all)
  BY <1>1, <1>2, AtEndTail DEF AtEnd
<1>4. /\ NewPart(a).by = <<a, i, n>> /\ NewPart(a).service = adder[a].sid
      /\ NewPart(a).name = Head(adder[a].todo)
  BY DEF NewPart
<1>5. n \in 1 .. Len(all) /\ Len(all) \in Nat /\ i \in Nat
  BY <1>1, <1>2, <1>3
<1> HIDE DEF n, i
<1>6. /\ NewPart(a).by \in Adders \X Nat \X Nat /\ NewPart(a).by[1] = a
      /\ NewPart(a).by[2] = i /\ NewPart(a).by[3] = n
  BY <1>1, <1>4, <1>5
<1> QED
  BY <1>2, <1>3, <1>4, <1>5, <1>6 DEF Tagged, n, i

LEMMA BufferStep ==
  ASSUME Types, Locals, Buffers, NEW a \in Adders, AddStep(a) \/ AddFails(a), Local(a)'
  PROVE  Buffer(a)'
<1>0. Buffer(a) /\ adder[a].buf \subseteq PartRow
  BY DEF Buffers, Types, Adding
<1>1. CASE CheckPart(a)
  <2>1. /\ adder[a].pc = "part" /\ adder'[a].sid = adder[a].sid /\ adder'[a].i = adder[a].i
        /\ adder'[a].buf = adder[a].buf /\ UNCHANGED <<services, deleter>>
        /\ (adder'[a].todo = adder[a].todo \/ adder'[a].todo = Tail(adder[a].todo))
    BY <1>1, CheckPartDoes DEF KeepsService, KeepsBuffer, Aside, tables
  <2>2. Len(adder[a].todo) \in Nat \ {0} /\ Len(Tail(adder[a].todo)) = Len(adder[a].todo) - 1
    BY <2>1, LeftToDo
  <2>3. \A p \in adder[a].buf : Tagged(p, a) /\ p.by[3] > Len(adder[a].todo) /\ p.by[3] \in Nat
    BY <1>0 DEF Buffer, Tagged
  <2>4. \A p \in adder[a].buf : p.by[3] > Len(adder'[a].todo)
    <3>1. Len(adder'[a].todo) \in Nat /\ Len(adder'[a].todo) <= Len(adder[a].todo)
      <4>1. Len(adder'[a].todo) \in {Len(adder[a].todo), Len(adder[a].todo) - 1}
        BY <2>1, <2>2
      <4> QED
        BY <2>2, <4>1
    <3> QED
      BY <2>2, <2>3, <3>1
  <2> QED
    BY <1>0, <2>1, <2>3, <2>4 DEF Buffer
<1>2. CASE CreatePart(a)
  <2>1. CASE adder'[a].buf = {}
    BY <2>1 DEF Buffer
  <2>2. CASE adder'[a].buf # {}
    <3>1. /\ adder[a].pc = "addpart" /\ adder'[a].sid = adder[a].sid /\ adder'[a].i = adder[a].i
          /\ adder'[a].buf = adder[a].buf \cup {NewPart(a)} /\ UNCHANGED <<services, deleter>>
          /\ adder'[a].todo = Tail(adder[a].todo) /\ ~ ServiceLocked(adder[a].sid)
          /\ \E s \in services : s.id = adder[a].sid
      BY <1>2, <2>2, CreatePartDoes DEF Aside, tables
    <3>2. Len(adder[a].todo) \in Nat /\ Len(Tail(adder[a].todo)) = Len(adder[a].todo) - 1
      BY <3>1, LeftToDo
    <3>3. \A p \in adder[a].buf : Tagged(p, a) /\ p.by[3] > Len(adder[a].todo) /\ p.by[3] \in Nat
      BY <1>0 DEF Buffer, Tagged
    <3>4. \A p \in adder[a].buf : p.by[3] > Len(adder'[a].todo)
      BY <3>1, <3>2, <3>3
    <3>5. /\ Tagged(NewPart(a), a) /\ NewPart(a).by[2] = adder[a].i
          /\ NewPart(a).by[3] > Len(adder'[a].todo) /\ NewPart(a).service = adder[a].sid
      BY <3>1, <3>2, NewPartTagged
    <3>6. ASSUME NEW p \in adder'[a].buf
          PROVE  /\ p.service = adder'[a].sid /\ adder'[a].sid \notin deleter'.services
                 /\ \E s \in services' : s.id = adder'[a].sid
                 /\ Tagged(p, a) /\ p.by[2] = adder'[a].i /\ p.by[3] > Len(adder'[a].todo)
      <4>1. CASE p \in adder[a].buf
        BY <1>0, <3>1, <3>4, <4>1 DEF Buffer
      <4>2. CASE p = NewPart(a)
        BY <3>1, <3>5, <4>2 DEF ServiceLocked
      <4> QED
        BY <3>1, <4>1, <4>2
    <3> QED
      BY <3>6 DEF Buffer, Tagged
  <2> QED
    BY <2>1, <2>2
<1>3. CASE adder'[a].buf = {}
  BY <1>3 DEF Buffer
<1>4. CASE adder'[a].pc \notin Storing
  <2>1. adder'[a].buf = {}
    BY <1>4 DEF Local
  <2> QED
    BY <1>3, <2>1
<1>5. CASE ReadService(a)
  <2>1. adder[a].pc = "getservice" /\ adder'[a].buf = adder[a].buf
    BY <1>5, ReadServiceDoes DEF KeepsBuffer
  <2>2. adder[a].buf = {}
    BY <2>1 DEF Locals, Local, Storing
  <2> QED
    BY <1>3, <2>1, <2>2
<1> QED
  BY <1>1, <1>2, <1>3, <1>4, <1>5, CheckNameDoes, CreateModelDoes, ReadModelDoes, CheckServiceDoes,
     CreateServiceDoes, CommitServiceDoes, AddFailsDoes DEF AddStep, Storing, Advances

LEMMA BuffersStep ==
  ASSUME Types, Keys, Locals, Buffers, Marks, Locals', [Next]_vars
  PROVE  Buffers'
<1>0. \A b \in Adders : Buffer(b)
  BY DEF Buffers
<1>1. ASSUME NEW a \in Adders, AddStep(a) \/ AddFails(a) PROVE Buffers'
  <2>1. AddsRows(a)
    BY <1>1, AddStepDoes
  <2>2. ASSUME NEW b \in Adders \ {a} PROVE Buffer(b)'
    <3>1. adder'[b] = adder[b] /\ deleter' = deleter /\ services \subseteq services'
      BY <2>1 DEF AddsRows, Frame, Aside
    <3>2. Safe(b)
      BY <1>0, <3>1 DEF Safe, Buffer
    <3> QED
      BY <1>0, <3>1, <3>2, BufferKept
  <2>3. Local(a)'
    BY DEF Locals
  <2>4. Buffer(a)'
    BY <1>1, <2>3, BufferStep
  <2> QED
    BY <2>2, <2>4 DEF Buffers
<1>2. CASE Crash
  <2>1. ASSUME NEW b \in Adders PROVE Buffer(b)'
    <3>1. CASE adder'[b].buf = {}
      BY <3>1 DEF Buffer
    <3>2. CASE adder[b].pc \in Finished
      <4>1. adder[b].buf = {} /\ adder'[b] = adder[b]
        BY <1>2, <3>2, CrashDoes DEF Locals, Local, Storing, Finished
      <4> QED
        BY <3>1, <4>1
    <3> QED
      BY <1>2, <3>1, <3>2, CrashDoes
  <2> QED
    BY <2>1 DEF Buffers
<1>3. ASSUME UNCHANGED adder, \A b \in Adders : Safe(b) PROVE Buffers'
  BY <1>0, <1>3, BufferKept DEF Buffers
<1>4. CASE DeleteServices
  <2>1. \A b \in Adders : Safe(b)
    <3> SUFFICES ASSUME NEW b \in Adders, adder[b].buf # {} PROVE Safe(b)
      BY DEF Safe
    <3>1. /\ UNCHANGED <<services, adder>>
          /\ \A s \in ServicesOf(deleter.id) : ~ ServiceHeld(s.id)
          /\ \/ deleter.id # 0 /\ deleter'.services = Listed(deleter.id)
             \/ deleter'.services = {}
      BY <1>4, DeleteServicesDoes DEF Marked, Ends, tables
    <3>2. PICK p \in adder[b].buf : p.service = adder[b].sid
      BY <1>0 DEF Buffer
    <3>3. ServiceHeld(adder[b].sid)
      BY <3>2 DEF ServiceHeld
    <3>4. deleter.id # 0 => adder[b].sid \notin Listed(deleter.id)
      BY <3>1, <3>3 DEF Listed
    <3>5. adder[b].sid \notin deleter'.services
      BY <3>1, <3>4
    <3> QED
      BY <3>1, <3>5 DEF Safe
  <2> QED
    BY <1>3, <1>4, <2>1, DeleteServicesDoes
<1>5. CASE CommitDelete
  BY <1>0, <1>3, <1>5, CommitDeleteDoes DEF Safe, Buffer, Ends, Marked
<1>6. CASE OtherStep
  <2>1. OtherRows
    BY <1>6, OtherStepDoes
  <2>2. \A b \in Adders : Safe(b)
    <3> SUFFICES ASSUME NEW b \in Adders, adder[b].buf # {} PROVE Safe(b)
      BY DEF Safe
    <3>2. PICK p \in adder[b].buf : p.service = adder[b].sid /\ adder[b].sid \notin deleter.services
      BY <1>0 DEF Buffer
    <3>3. ServiceHeld(adder[b].sid)
      BY <3>2 DEF ServiceHeld
    <3> QED
      BY <2>1, <3>2, <3>3 DEF Safe, OtherRows, OthersServices, DeleterStays
  <2> QED
    BY <1>3, <2>1, <2>2 DEF OtherRows
<1>7. CASE (\E id \in 0 .. lastModel : ListServices(id)) \/ DeleteParts \/ DeleteModel \/ DeleteFails
  <2>1. UNCHANGED <<services, adder>> /\ deleter'.services \subseteq deleter.services
    BY <1>7, ListServicesDoes, DeletePartsDoes, DeleteModelDoes, DeleteFailsDoes DEF Ends, Marked, tables
  <2> QED
    BY <1>0, <1>3, <2>1 DEF Safe, Buffer
<1>8. CASE UNCHANGED vars
  <2>1. UNCHANGED <<services, adder, deleter>>
    BY <1>8 DEF vars
  <2> QED
    BY <1>0, <1>3, <2>1 DEF Safe, Buffer
<1> QED
  BY <1>1, <1>2, <1>4, <1>5, <1>6, <1>7, <1>8, NextCases DEF DeleteStep

LEMMA OwnRowKept ==
  ASSUME Grows, Types, Types', NEW b \in Adders, OwnRow(b),
         adder'[b].id = adder[b].id, adder[b].i <= adder'[b].i,
         \A s \in services' : s.by = b => s \in services \/ s.model = adder[b].id,
         \A p \in parts' : p.by[1] = b =>
           \/ p \in parts
           \/ /\ Tagged(p, b) /\ p.by[2] < adder'[b].i
              /\ Below(p.service, adder[b].id) /\ adder[b].id # 0
  PROVE  OwnRow(b)'
<1>0. adder[b].i \in Nat /\ adder'[b].i \in Nat
  BY DEF Types, Adding
<1>1. \A s \in services' : s.by = b => s.model = adder'[b].id
  BY DEF OwnRow
<1>2. ASSUME NEW p \in parts', p.by[1] = b
      PROVE  /\ Tagged(p, b) /\ p.by[2] < adder'[b].i
             /\ BelowNext(p.service, adder'[b].id) /\ adder'[b].id # 0
  <2>1. /\ Tagged(p, b) /\ (p.by[2] < adder[b].i \/ p.by[2] < adder'[b].i)
        /\ Below(p.service, adder[b].id) /\ adder[b].id # 0
    BY <1>2 DEF OwnRow
  <2>2. p.by[2] \in Nat
    BY <2>1 DEF Tagged
  <2>3. BelowNext(p.service, adder[b].id)
    BY <2>1, BelowKept
  <2> QED
    BY <1>0, <2>1, <2>2, <2>3
<1> QED
  BY <1>1, <1>2 DEF OwnRow, BelowNext, Below, Tagged

LEMMA OwnRowStep ==
  ASSUME Types, Keys, Locals, Buffers, OwnRows, Grows, Types',
         NEW a \in Adders, AddStep(a) \/ AddFails(a)
  PROVE  OwnRow(a)'
<1>0. OwnRow(a) /\ Local(a) /\ Buffer(a) /\ adder[a] \in Adding
  BY DEF OwnRows, Locals, Buffers, Types
<1>1. AddsRows(a)
  BY AddStepDoes
<1>2. CASE adder'[a].id = adder[a].id
  <2>1. ASSUME NEW p \in parts', p \notin parts
        PROVE  /\ Tagged(p, a) /\ p.by[2] < adder'[a].i
               /\ Below(p.service, adder[a].id) /\ adder[a].id # 0
    <3>1. CASE CommitService(a)
      <4>1. adder[a].pc = "commit" /\ adder'[a].i = adder[a].i + 1 /\ p \in adder[a].buf
        BY <2>1, <3>1, CommitServiceDoes DEF Advances
      <4>2. Below(adder[a].sid, adder[a].id) /\ adder[a].id # 0
        BY <1>0, <4>1 DEF Local, Filling, Storing
      <4>3. Tagged(p, a) /\ p.by[2] = adder[a].i /\ p.service = adder[a].sid
        BY <1>0, <4>1 DEF Buffer
      <4>4. adder[a].i < adder[a].i + 1
        BY <1>0 DEF Adding
      <4> QED
        BY <4>1, <4>2, <4>3, <4>4
    <3>2. ~ CommitService(a) => parts' = parts
      BY CheckNameDoes, CreateModelDoes, ReadModelDoes, CheckServiceDoes, CreateServiceDoes,
         ReadServiceDoes, CheckPartDoes, CreatePartDoes, AddFailsDoes DEF AddStep, tables
    <3> QED
      BY <2>1, <3>1, <3>2
  <2>2. adder[a].i <= adder'[a].i /\ \A s \in services' : s \in services \/ s.model = adder[a].id
    BY <1>1 DEF AddsRows
  <2> QED
    BY <1>0, <1>2, <2>1, <2>2, OwnRowKept
<1>3. CASE adder'[a].id # adder[a].id
  <2>1. adder[a].pc = "get"
    BY <1>1, <1>3 DEF AddsRows
  <2>2. adder[a].id = 0
    BY <1>0, <2>1 DEF Local
  <2>3. UNCHANGED tables
    BY <2>1, CheckNameDoes, CreateModelDoes, ReadModelDoes, CheckServiceDoes, CreateServiceDoes,
       ReadServiceDoes, CheckPartDoes, CreatePartDoes, CommitServiceDoes, AddFailsDoes DEF AddStep
  <2>4. \A s \in services : s.by # a
    <3>1. \A s \in services : s.model # 0
      BY DEF Keys
    <3> QED
      BY <1>0, <2>2, <3>1 DEF OwnRow
  <2>5. \A p \in parts : p.by[1] # a
    BY <1>0, <2>2 DEF OwnRow
  <2> QED
    BY <2>3, <2>4, <2>5 DEF OwnRow, tables
<1> QED
  BY <1>2, <1>3

LEMMA OwnRowsStep ==
  ASSUME Types, Keys, Locals, Buffers, OwnRows, Marks, Grows, Types', [Next]_vars
  PROVE  OwnRows'
<1>0. /\ \A b \in Adders : OwnRow(b) /\ adder[b].i \in Nat /\ b # Others
      /\ \A b \in Adders : Buffer(b)
  BY CallersApart DEF OwnRows, Buffers, Types, Adding
<1>1. ASSUME NEW a \in Adders, AddStep(a) \/ AddFails(a) PROVE OwnRows'
  <2>1. AddsRows(a)
    BY <1>1, AddStepDoes
  <2>2. ASSUME NEW b \in Adders \ {a} PROVE OwnRow(b)'
    <3>1. adder'[b] = adder[b] /\ adder[b].i <= adder'[b].i
      BY <1>0, <2>1 DEF AddsRows, Frame
    <3>2. \A s \in services' : s.by = b => s \in services
      BY <2>1 DEF AddsRows
    <3>3. \A p \in parts' : p.by[1] = b => p \in parts
      BY <1>0, <2>1 DEF AddsRows, Buffer, Tagged
    <3> QED
      BY <1>0, <3>1, <3>2, <3>3, OwnRowKept
  <2> QED
    BY <1>1, <2>2, OwnRowStep DEF OwnRows
<1>2. ASSUME NEW b \in Adders, adder'[b].id = adder[b].id, adder[b].i <= adder'[b].i,
             services' \subseteq services, parts' \subseteq parts
      PROVE  OwnRow(b)'
  BY <1>0, <1>2, OwnRowKept
<1>3. CASE Crash
  <2>1. ASSUME NEW b \in Adders PROVE adder'[b].id = adder[b].id /\ adder[b].i <= adder'[b].i
    BY <1>0, <1>3, CrashDoes DEF KeepsModel, KeepsService
  <2> QED
    BY <1>2, <1>3, <2>1, CrashDoes DEF OwnRows, tables
<1>4. ASSUME UNCHANGED adder, services' \subseteq services, parts' \subseteq parts PROVE OwnRows'
  BY <1>0, <1>2, <1>4 DEF OwnRows
<1>5. CASE OtherStep
  <2>1. OtherRows
    BY <1>5, OtherStepDoes
  <2>2. ASSUME NEW b \in Adders PROVE OwnRow(b)'
    <3>1. adder'[b] = adder[b] /\ adder[b].i <= adder'[b].i
      BY <1>0, <2>1 DEF OtherRows
    <3>2. \A s \in services' : s.by = b => s \in services
      BY <1>0, <2>1 DEF OtherRows, OthersServices
    <3>3. \A p \in parts' : p.by[1] = b => p \in parts
      BY <1>0, <2>1 DEF OtherRows, OthersParts
    <3> QED
      BY <1>0, <3>1, <3>2, <3>3, OwnRowKept
  <2> QED
    BY <2>2 DEF OwnRows
<1>6. CASE UNCHANGED vars
  BY <1>4, <1>6 DEF vars
<1>7. CASE CommitDelete
  <2>1. UNCHANGED adder /\ services' \subseteq services /\ parts' \subseteq parts
    BY <1>7, CommitDeleteDoes
  <2> QED
    BY <1>4, <2>1
<1>8. CASE (\E id \in 0 .. lastModel : ListServices(id)) \/ DeleteParts \/ DeleteServices
           \/ DeleteModel \/ DeleteFails
  <2>1. UNCHANGED <<adder, tables>>
    BY <1>8, ListServicesDoes, DeletePartsDoes, DeleteServicesDoes, DeleteModelDoes, DeleteFailsDoes
  <2> QED
    BY <1>4, <2>1 DEF tables
<1> QED
  BY <1>1, <1>3, <1>5, <1>6, <1>7, <1>8, NextCases DEF DeleteStep

-----------------------------------------------------------------------------
(* What a delete has marked. *)

\* The marks when the delete has not ended.
MarksBelow ==
  deleter'.id # 0 =>
    /\ \A sid \in deleter'.scan \cup deleter'.services : BelowNext(sid, deleter'.id)
    /\ \A p \in deleter'.doomed : BelowNext(p.service, deleter'.id)

LEMMA MarksKept ==
  ASSUME Types, Grows, Marks, deleter'.id = deleter.id,
         deleter'.scan \subseteq deleter.scan,
         deleter'.services \subseteq deleter.services \cup deleter.scan,
         deleter'.doomed \subseteq deleter.doomed
  PROVE  MarksBelow /\ deleter'.id \in 0 .. lastModel'
<1>1. deleter.id \in 0 .. lastModel'
  BY DEF Marks, Grows
<1>2. CASE deleter.id # 0
  <2>1. \A sid \in deleter.scan \cup deleter.services : Below(sid, deleter.id)
    BY <1>2 DEF Marks
  <2>2. \A p \in deleter.doomed : Below(p.service, deleter.id)
    BY <1>2 DEF Marks
  <2>3. \A sid \in deleter'.scan \cup deleter'.services : BelowNext(sid, deleter.id)
    BY <2>1, BelowKept
  <2>4. \A p \in deleter'.doomed : BelowNext(p.service, deleter.id)
    BY <2>2, BelowKept
  <2> QED
    BY <1>1, <2>3, <2>4 DEF MarksBelow
<1> QED
  BY <1>1, <1>2 DEF MarksBelow

LEMMA ListedBelow ==
  ASSUME Types, Keys, Grows, NEW id \in Nat \ {0}
  PROVE  \A sid \in Listed(id) : BelowNext(sid, id)
<1> SUFFICES ASSUME NEW sid \in Listed(id) PROVE BelowNext(sid, id)
  OBVIOUS
<1>1. PICK s \in services : s.model = id /\ s.id = sid
  BY DEF Listed, ServicesOf
<1> QED
  BY <1>1, ServiceBelow, BelowKept

\* The delete goes on beside a step of somebody else.
LEMMA MarksBeside ==
  ASSUME Types, Keys, Grows, Marks, DeleterStays,
         \A p \in parts' \ parts : p.service \notin deleter.services,
         \A a \in Adders : adder[a].pc \in Finished => adder'[a].pc \in Finished
  PROVE  Marks'
<1>1. MarksBelow /\ deleter'.id \in 0 .. lastModel'
  BY MarksKept DEF DeleterStays
<1> QED
  BY <1>1 DEF Marks, MarksBelow, BelowNext, Below, DeleterStays, Active

\* The delete has ended.
LEMMA MarksEnded ==
  ASSUME Types, Grows, Marks, NEW pc \in Finished, Ends(pc)
  PROVE  Marks'
<1>1. MarksBelow /\ deleter'.id \in 0 .. lastModel'
  BY MarksKept DEF Ends, Marked
<1>2. deleter'.pc = pc /\ deleter'.scan = {} /\ deleter'.doomed = {} /\ deleter'.services = {}
  BY DEF Ends, Marked
<1>3. pc \notin {"parts", "model", "commit"}
  BY DEF Finished
<1> QED
  BY <1>1, <1>2, <1>3 DEF Marks, MarksBelow, BelowNext, Below, Active

LEMMA MarksStep ==
  ASSUME Types, Keys, Locals, Buffers, Marks, Grows, Types', [Next]_vars
  PROVE  Marks'
<1>1. ASSUME NEW a \in Adders, AddStep(a) \/ AddFails(a) PROVE Marks'
  <2>1. AddsRows(a)
    BY <1>1, AddStepDoes
  <2>2. DeleterStays
    BY <2>1 DEF AddsRows, Aside, DeleterStays, Types
  <2>3. \A p \in parts' \ parts : p.service \notin deleter.services
    BY <2>1 DEF AddsRows, Buffers, Buffer
  <2>4. \A b \in Adders : adder[b].pc \in Finished => adder'[b].pc \in Finished
    BY <2>1 DEF AddsRows, Frame
  <2> QED
    BY <2>2, <2>3, <2>4, MarksBeside
<1>2. CASE OtherStep
  <2>1. OtherRows
    BY <1>2, OtherStepDoes
  <2>2. \A p \in parts' \ parts : p.service \notin deleter.services
    BY <2>1 DEF OtherRows, OthersParts
  <2> QED
    BY <2>1, <2>2, MarksBeside DEF OtherRows
<1>3. CASE Crash
  <2>1. \A b \in Adders : adder[b].pc \in Finished => adder'[b].pc \in Finished
    BY <1>3, CrashDoes
  <2>2. CASE Ends("crashed")
    BY <2>2, MarksEnded DEF Finished
  <2>3. CASE UNCHANGED deleter
    BY <1>3, <2>1, <2>3, CrashDoes, MarksBeside DEF DeleterStays, Types, tables
  <2> QED
    BY <1>3, <2>2, <2>3, CrashDoes
<1>4. CASE UNCHANGED vars
  BY <1>4, MarksBeside DEF DeleterStays, Types, vars
<1>5. CASE DeleteFails
  BY <1>5, DeleteFailsDoes, MarksEnded DEF Finished
<1>6. CASE CommitDelete
  BY <1>6, CommitDeleteDoes, MarksEnded DEF Finished
<1>7. CASE DeleteModel
  <2>1. CASE Ends("failed")
    BY <2>1, MarksEnded DEF Finished
  <2>2. CASE Marked("commit", deleter.scan, deleter.doomed, deleter.services)
    <3>1. deleter.pc = "model" /\ UNCHANGED <<tables, adder>>
      BY <1>7, DeleteModelDoes
    <3>2. MarksBelow /\ deleter'.id \in 0 .. lastModel'
      BY <2>2, MarksKept DEF Marked
    <3> QED
      BY <2>2, <3>1, <3>2 DEF Marks, MarksBelow, BelowNext, Below, Marked, Active, tables
  <2> QED
    BY <1>7, <2>1, <2>2, DeleteModelDoes
<1>8. CASE DeleteServices
  <2>1. CASE Ends("failed")
    BY <2>1, MarksEnded DEF Finished
  <2>2. CASE /\ deleter.id # 0
             /\ \A s \in ServicesOf(deleter.id) : PartsOf(s.id) \subseteq deleter.doomed
             /\ Marked("model", deleter.scan, deleter.doomed, Listed(deleter.id))
    <3>1. deleter.pc = "parts" /\ deleter.scan = {} /\ UNCHANGED <<tables, adder>>
      BY <1>8, DeleteServicesDoes
    <3>2. deleter.id \in Nat \ {0} /\ deleter.id \in 0 .. lastModel'
      BY <2>2, <3>1 DEF Types, Deleting, Marks, tables
    <3>3. \A sid \in Listed(deleter.id) : BelowNext(sid, deleter.id)
      BY <3>2, ListedBelow
    <3>4. \A p \in deleter.doomed : BelowNext(p.service, deleter.id)
      BY <2>2, BelowKept DEF Marks
    <3>5. \A p \in parts : p.service \in Listed(deleter.id) => p \in deleter.doomed
      BY <2>2 DEF Listed, PartsOf
    <3>6. MarksBelow
      BY <2>2, <3>1, <3>3, <3>4 DEF MarksBelow, Marked
    <3> QED
      BY <2>2, <3>1, <3>2, <3>5, <3>6 DEF Marks, MarksBelow, BelowNext, Below, Marked, Active, tables
  <2> QED
    BY <1>8, <2>1, <2>2, DeleteServicesDoes
<1>9. CASE DeleteParts
  <2>1. PICK sid \in deleter.scan :
          Marked("parts", deleter.scan \ {sid}, deleter.doomed \cup PartsOf(sid), deleter.services)
    BY <1>9, DeletePartsDoes
  <2>2. deleter.pc = "parts" /\ UNCHANGED <<tables, adder>> /\ deleter.services = {}
    BY <1>9, DeletePartsDoes DEF Marks
  <2>3. deleter.id # 0 => BelowNext(sid, deleter.id)
    BY <2>1, BelowKept DEF Marks
  <2>4. deleter.id # 0 => \A x \in deleter.scan : BelowNext(x, deleter.id)
    BY BelowKept DEF Marks
  <2>5. deleter.id # 0 => \A p \in deleter.doomed : BelowNext(p.service, deleter.id)
    BY BelowKept DEF Marks
  <2>6. MarksBelow
    BY <2>1, <2>2, <2>3, <2>4, <2>5 DEF MarksBelow, Marked, PartsOf
  <2>7. deleter.id \in 0 .. lastModel'
    BY <2>2 DEF Marks, tables
  <2> QED
    BY <2>1, <2>2, <2>6, <2>7 DEF Marks, MarksBelow, BelowNext, Below, Marked, Active, tables
<1>10. ASSUME NEW id \in 0 .. lastModel, ListServices(id) PROVE Marks'
  <2>1. /\ deleter'.pc = "parts" /\ deleter'.id = id
        /\ deleter'.scan = Listed(id) /\ deleter'.doomed = {} /\ deleter'.services = {}
        /\ {a \in Adders : adder[a].pc \notin Finished} \subseteq deleter'.busy
        /\ UNCHANGED <<tables, adder>>
    BY <1>10, ListServicesDoes
  <2>2. id # 0 => \A sid \in Listed(id) : BelowNext(sid, id)
    BY ListedBelow, CallersApart DEF Types
  <2>3. MarksBelow /\ deleter'.id \in 0 .. lastModel'
    BY <2>1, <2>2 DEF MarksBelow, tables
  <2> QED
    BY <2>1, <2>3 DEF Marks, MarksBelow, BelowNext, Below, Active
<1> QED
  BY <1>1, <1>2, <1>3, <1>4, <1>5, <1>6, <1>7, <1>8, <1>9, <1>10, NextCases DEF DeleteStep

LEMMA InitStructure == Init => Structure
<1> SUFFICES ASSUME Init PROVE Structure
  OBVIOUS
<1> DEFINE start == [pc |-> "check", made |-> 0, id |-> 0, i |-> 1, sid |-> 0, todo |-> <<>>, buf |-> {}]
<1>1. start \in Adding
  <2>1. "check" \in Places /\ <<>> \in Seq(Labels) /\ {} \in SUBSET PartRow
    BY DEF Places
  <2> QED
    BY <2>1 DEF Adding
<1>2. adder \in [Adders -> Adding] /\ \A a \in Adders : adder[a] = start
  BY <1>1 DEF Init
<1>3. deleter \in Deleting
  <2> DEFINE first == [pc |-> "idle", id |-> 0, scan |-> {}, doomed |-> {}, services |-> {}, busy |-> {}]
  <2>1. first \in Deleting
    BY DEF Deleting
  <2> QED
    BY <2>1 DEF Init
<1>4. Types
  BY <1>2, <1>3, CallersApart DEF Init, Types
<1>5. Keys
  BY DEF Init, Keys
<1>6. /\ \A a \in Adders : adder[a].pc = "check" /\ adder[a].made = 0 /\ adder[a].id = 0
      /\ \A a \in Adders : adder[a].i = 1 /\ adder[a].buf = {}
  BY <1>2
<1>7. Locals
  BY <1>6 DEF Init, Locals, Local, Filling, Storing
<1>8. Buffers /\ OwnRows
  BY <1>6 DEF Init, Buffers, Buffer, OwnRows, OwnRow
<1>9. Marks
  BY DEF Init, Marks, Active
<1> QED
  BY <1>4, <1>5, <1>7, <1>8, <1>9 DEF Structure

LEMMA StructureStep == Structure /\ [Next]_vars => Structure' /\ Grows
<1> SUFFICES ASSUME Structure, [Next]_vars PROVE Structure' /\ Grows
  OBVIOUS
<1>1. Types /\ Keys /\ Locals /\ Buffers /\ OwnRows /\ Marks
  BY DEF Structure
<1>2. Types' /\ Keys' /\ Grows
  BY <1>1, TypesStep, KeysStep, Growth
<1>3. Locals'
  BY <1>1, <1>2, LocalsStep
<1>4. Buffers' /\ OwnRows' /\ Marks'
  BY <1>1, <1>2, <1>3, BuffersStep, OwnRowsStep, MarksStep
<1> QED
  BY <1>2, <1>3, <1>4 DEF Structure

\* The rows and the local states of the calls are of their types, and every row has
\* the one it hangs below.
THEOREM TypeCorrect == Spec => []TypeOK
<1>1. Structure => TypeOK
  <2> SUFFICES ASSUME Structure PROVE TypeOK
    OBVIOUS
  <2>1. Types /\ Keys /\ Locals
    BY DEF Structure
  <2>2. \A s \in services : s.model \in Ids /\ s.id \in 1 .. lastService
    BY <2>1, CallersApart DEF Types, Keys, Ids
  <2>3. \A p \in parts : p.by[1] \in Adders \cup {Others}
    BY <2>1, TagOf DEF Types
  <2>4. ASSUME NEW a \in Adders
        PROVE /\ adder[a].pc \in Finished \cup {"check", "create", "get", "service", "addservice",
                          "getservice", "part", "addpart", "commit"}
              /\ adder[a].id \in 0..lastModel /\ adder[a].made \in 0..lastModel
              /\ adder[a].buf # {} => adder[a].pc \in {"part", "addpart", "commit"}
    BY <2>1 DEF Types, Adding, Places, Filling, Locals, Local, Storing
  <2>5. deleter.pc \in Finished \cup {"idle", "parts", "model", "commit"}
    BY <2>1 DEF Types, Deleting
  <2> QED
    BY <2>1, <2>2, <2>3, <2>4, <2>5 DEF Types, Keys, TypeOK
<1> QED
  BY <1>1, InitStructure, StructureStep, PTL DEF Spec
-----------------------------------------------------------------------------
(* Why a delete is refused. *)

IdsStay == \A a \in Adders : adder[a].id # 0 => adder'[a].id = adder[a].id

LEMMA IdsKept ==
  ASSUME Types, Keys, Locals, Marks, [Next]_vars
  PROVE  IdsStay
<1>1. ASSUME NEW a \in Adders, AddStep(a) \/ AddFails(a) PROVE IdsStay
  <2>1. AddsRows(a) /\ (adder[a].pc = "get" => adder[a].id = 0)
    BY <1>1, AddStepDoes DEF Locals, Local
  <2> QED
    BY <2>1 DEF IdsStay, AddsRows, Frame
<1>2. CASE Crash
  BY <1>2, CrashDoes DEF IdsStay, KeepsModel
<1>3. CASE UNCHANGED adder
  BY <1>3 DEF IdsStay
<1>4. UNCHANGED vars => UNCHANGED adder
  BY DEF vars
<1> QED
  BY <1>1, <1>2, <1>3, <1>4, NextCases, ListServicesDoes, DeletePartsDoes, DeleteServicesDoes,
     DeleteModelDoes, CommitDeleteDoes, DeleteFailsDoes, OtherStepDoes DEF DeleteStep, OtherRows

LEMMA BlamedStays ==
  ASSUME Types, IdsStay, Blamed, deleter'.id = deleter.id, deleter.busy \subseteq deleter'.busy
  PROVE  Blamed'
<1>1. deleter.id = 0 => deleter'.id = 0
  OBVIOUS
<1>2. deleter.busy \cap {Others, Device} # {} => deleter'.busy \cap {Others, Device} # {}
  OBVIOUS
<1>3. ASSUME NEW a \in deleter.busy \cap Adders, adder[a].id = deleter.id, deleter.id # 0
      PROVE  a \in deleter'.busy \cap Adders /\ adder'[a].id = deleter'.id
  BY <1>3 DEF IdsStay
<1> QED
  BY <1>1, <1>2, <1>3 DEF Blamed

\* Refusals, whatever others have done, when the delete has not moved.
LEMMA RefusalsBeside ==
  ASSUME Types, Refusals, DeleterStays, IdsStay, faults \subseteq faults',
         \A s \in services' \ services : s.model = deleter.id /\ Active => Blamed',
         \A s \in services', p \in parts' \ parts : s \in services /\ p.service = s.id /\ s.model = deleter.id /\ Active =>
           \/ Blamed'
           \/ \E q \in parts \ deleter.doomed : q.service = s.id,
         Active /\ users[deleter.id] = 0 => Blamed' \/ users'[deleter.id] = 0
  PROVE  Refusals'
<1>1. Blamed => Blamed'
  BY BlamedStays DEF DeleterStays
<1>2. deleter'.pc = deleter.pc /\ deleter'.id = deleter.id /\ deleter'.scan = deleter.scan
      /\ deleter'.doomed = deleter.doomed /\ deleter'.services = deleter.services
  BY DEF DeleterStays
<1>3. ASSUME deleter.pc = "parts", ~ Blamed',
             NEW s \in services', s.model = deleter.id, s.id \notin deleter.scan,
             NEW p \in parts', p.service = s.id
      PROVE  p \in deleter.doomed
  <2>1. Active
    BY <1>3 DEF Active
  <2>2. s \in services
    BY <1>3, <2>1
  <2>3. PartsOf(s.id) \subseteq deleter.doomed
    BY <1>1, <1>3, <2>2 DEF Refusals, ServicesOf
  <2>4. \A q \in parts : q.service = s.id => q \in deleter.doomed
    BY <2>3 DEF PartsOf
  <2> QED
    BY <1>3, <2>1, <2>2, <2>4
<1>4. ASSUME deleter.pc = "model", ~ Blamed', NEW s \in services', s.model = deleter.id
      PROVE  s.id \in deleter.services
  <2>1. Active
    BY <1>4 DEF Active
  <2>2. s \in services
    BY <1>4, <2>1
  <2> QED
    BY <1>1, <1>4, <2>2 DEF Refusals, ServicesOf
<1>5. deleter.pc = "failed" => Blamed' \/ Deleter \in faults'
  BY <1>1 DEF Refusals
<1>6. deleter.pc \in {"parts", "model"} => Blamed' \/ users'[deleter.id] = 0
  BY <1>1 DEF Refusals, Active
<1> QED
  BY <1>2, <1>3, <1>4, <1>5, <1>6 DEF Refusals, ServicesOf, PartsOf

LEMMA RefusalsStep ==
  ASSUME Structure, Refusals, [Next]_vars
  PROVE  Refusals'
<1>1. Types /\ Keys /\ Locals /\ Buffers /\ OwnRows /\ Marks
  BY DEF Structure
<1>2. IdsStay /\ Types'
  BY <1>1, IdsKept, StructureStep DEF Structure
<1>3. ASSUME NEW a \in Adders, AddStep(a) \/ AddFails(a) PROVE Refusals'
  <2>1. AddsRows(a)
    BY <1>1, <1>3, AddStepDoes
  <2>2. DeleterStays /\ faults \subseteq faults'
    BY <1>1, <2>1 DEF AddsRows, Aside, DeleterStays, Types
  <2>3. ASSUME Active, adder[a].id = deleter.id, deleter.id # 0 PROVE Blamed'
    <3>1. a \in deleter.busy \cap Adders
      BY <1>1, <2>1, <2>3, CallersApart DEF Marks, AddsRows
    <3>2. Blamed
      BY <2>3, <3>1 DEF Blamed
    <3> QED
      BY <1>1, <1>2, <2>2, <3>2, BlamedStays DEF DeleterStays
  <2>4. deleter.id = 0 => Blamed'
    BY <2>2 DEF Blamed, DeleterStays
  <2>5. \A s \in services' \ services : s.model = deleter.id /\ Active => Blamed'
    BY <2>1, <2>3, <2>4 DEF AddsRows
  <2>6. ASSUME NEW s \in services, NEW p \in parts' \ parts, p.service = s.id, s.model = deleter.id, Active
        PROVE  Blamed'
    <3>1. p \in adder[a].buf
      BY <2>1, <2>6 DEF AddsRows
    <3>2. p.service = adder[a].sid /\ Below(adder[a].sid, adder[a].id)
      BY <1>1, <3>1 DEF Buffers, Buffer, Locals, Local
    <3>3. s.model = adder[a].id
      BY <2>6, <3>2 DEF Below
    <3> QED
      BY <2>3, <2>4, <2>6, <3>3
  <2>7. users' = users
    BY <2>1 DEF AddsRows, Aside, rest
  <2> QED
    BY <1>1, <1>2, <2>2, <2>5, <2>6, <2>7, RefusalsBeside
<1>4. CASE OtherStep
  <2>1. OtherRows
    BY <1>1, <1>4, OtherStepDoes
  <2>2. DeleterStays /\ faults \subseteq faults'
    BY <2>1 DEF OtherRows
  <2>3. Others \in deleter'.busy => Blamed'
    BY DEF Blamed
  <2>4. Active /\ users[deleter.id] = 0 => Blamed' \/ users'[deleter.id] = 0
    BY <2>1, <2>3 DEF OtherRows, OthersDevices, DeleterStays, Blamed
  <2>5. \A s \in services' \ services : s.model = deleter.id /\ Active => Blamed'
    BY <2>1, <2>3 DEF OtherRows, OthersServices
  <2>6. ASSUME NEW s \in services, NEW p \in parts' \ parts, p.service = s.id, s.model = deleter.id, Active
        PROVE  Blamed' \/ \E q \in parts \ deleter.doomed : q.service = s.id
    <3>1. ModelOf(p.service) = deleter.id
      BY <1>1, <2>6, ModelOfIs
    <3> QED
      BY <2>1, <2>3, <2>6, <3>1 DEF OtherRows, OthersParts
  <2> QED
    BY <1>1, <1>2, <2>2, <2>4, <2>5, <2>6, RefusalsBeside
<1>5. CASE UNCHANGED vars
  BY <1>1, <1>2, <1>5, RefusalsBeside DEF vars, DeleterStays, Types
<1>6. CASE Crash
  <2>1. CASE Ends("crashed")
    BY <2>1 DEF Ends, Marked, Refusals
  <2>2. CASE UNCHANGED deleter
    BY <1>1, <1>2, <1>6, <2>2, CrashDoes, RefusalsBeside DEF DeleterStays, Types, tables, rest
  <2> QED
    BY <1>1, <1>6, <2>1, <2>2, CrashDoes
<1>7. CASE DeleteFails
  <2>1. Deleter \in faults' /\ deleter'.pc \in {"done", "failed"}
    BY <1>1, <1>7, DeleteFailsDoes DEF Ends, Marked
  <2> QED
    BY <2>1 DEF Refusals
<1>8. CASE CommitDelete
  <2>1. deleter'.pc = "done"
    BY <1>1, <1>8, CommitDeleteDoes DEF Ends, Marked
  <2> QED
    BY <2>1 DEF Refusals
<1>9. CASE DeleteModel
  <2>1. CASE Marked("commit", deleter.scan, deleter.doomed, deleter.services)
    BY <2>1 DEF Refusals, Marked
  <2>2. CASE (~ (Listed(deleter.id) \subseteq deleter.services) \/ Used(deleter.id)) /\ Ends("failed")
    <3>1. deleter.id # 0 => \/ \E s \in ServicesOf(deleter.id) : s.id \notin deleter.services
                            \/ users[deleter.id] # 0
      BY <2>2 DEF Listed, Used
    <3>2. deleter.pc = "model"
      BY <1>1, <1>9, DeleteModelDoes
    <3>3. Blamed
      BY <3>1, <3>2 DEF Refusals, Blamed
    <3>4. Blamed'
      BY <1>1, <1>2, <2>2, <3>3, BlamedStays DEF Ends, Marked
    <3> QED
      BY <2>2, <3>4 DEF Refusals, Ends, Marked
  <2> QED
    BY <1>1, <1>9, <2>1, <2>2, DeleteModelDoes
<1>10. CASE DeleteServices
  <2>1. CASE Marked("model", deleter.scan, deleter.doomed, Listed(deleter.id)) /\ deleter.id # 0
    <3>1. UNCHANGED <<services, users>> /\ deleter.pc = "parts"
      BY <1>1, <1>10, DeleteServicesDoes DEF tables, rest
    <3>2. Blamed => Blamed'
      BY <1>1, <1>2, <2>1, BlamedStays DEF Marked
    <3> QED
      BY <2>1, <3>1, <3>2 DEF Refusals, Marked, Listed, ServicesOf
  <2>2. CASE /\ \/ deleter.id = 0
                \/ \E s \in ServicesOf(deleter.id) : ~ (PartsOf(s.id) \subseteq deleter.doomed)
             /\ Ends("failed")
    <3>1. deleter.pc = "parts" /\ deleter.scan = {}
      BY <1>1, <1>10, DeleteServicesDoes
    <3>2. Blamed
      BY <2>2, <3>1 DEF Refusals, Blamed
    <3>3. Blamed'
      BY <1>1, <1>2, <2>2, <3>2, BlamedStays DEF Ends, Marked
    <3> QED
      BY <2>2, <3>3 DEF Refusals, Ends, Marked
  <2> QED
    BY <1>1, <1>10, <2>1, <2>2, DeleteServicesDoes
<1>11. CASE DeleteParts
  <2>1. PICK sid \in deleter.scan :
          Marked("parts", deleter.scan \ {sid}, deleter.doomed \cup PartsOf(sid), deleter.services)
    BY <1>1, <1>11, DeletePartsDoes
  <2>2. deleter.pc = "parts" /\ services' = services /\ parts' = parts /\ users' = users
    BY <1>1, <1>11, DeletePartsDoes DEF tables, rest
  <2>3. Blamed => Blamed'
    BY <1>1, <1>2, <2>1, BlamedStays DEF Marked
  <2> QED
    BY <2>1, <2>2, <2>3 DEF Refusals, Marked, ServicesOf, PartsOf
<1>12. ASSUME NEW id \in 0 .. lastModel, ListServices(id) PROVE Refusals'
  <2>1. deleter'.pc = "parts" /\ deleter'.id = id /\ deleter'.scan = Listed(id) /\ services' = services
        /\ users' = users /\ (id # 0 /\ users[id] # 0 => Device \in deleter'.busy)
    BY <1>1, <1>12, ListServicesDoes DEF tables, rest
  <2>2. id # 0 => \A s \in services : s.model = id => s.id \in Listed(id)
    BY DEF Listed, ServicesOf
  <2> QED
    BY <2>1, <2>2 DEF Refusals, Blamed, ServicesOf
<1> QED
  BY <1>3, <1>4, <1>5, <1>6, <1>7, <1>8, <1>9, <1>10, <1>11, <1>12, NextCases DEF DeleteStep

LEMMA RefusedInvariant == Spec => [](Structure /\ Refusals)
<1>1. Init => Structure /\ Refusals
  <2>1. Init => Refusals
    BY DEF Init, Refusals
  <2> QED
    BY <2>1, InitStructure
<1>2. Structure /\ Refusals /\ [Next]_vars => Structure' /\ Refusals'
  BY StructureStep, RefusalsStep
<1> QED
  BY <1>1, <1>2, PTL DEF Spec

\* DeleteDeviceModel is refused only when a device used the model at its begin, when a
\* call or somebody else stored below the model while it ran, when the id was 0, or when
\* a statement of it failed.
THEOREM RefusedForAReason == Spec => []DeleteRefusedForCause
<1>1. Structure /\ Refusals => DeleteRefusedForCause
  BY DEF Refusals, Blamed, DeleteRefusedForCause
<1> QED
  BY <1>1, RefusedInvariant, PTL
-----------------------------------------------------------------------------
(* The models of the calls. *)

\* A name is taken from a model only by a rename or a delete, which disturbs it.
ModelsStay ==
  /\ disturbed \subseteq disturbed' /\ cut \subseteq cut' /\ faults \subseteq faults'
  /\ \A i \in Ids \ disturbed' : models[i] # Gone => models'[i] = models[i]

LEMMA ModelsKept ==
  ASSUME Types, Keys, Locals, Marks, [Next]_vars
  PROVE  ModelsStay
<1>0. models \in [Ids -> Names \cup {Gone}] /\ lastModel \in Nat
  BY CallersApart DEF Types
<1>1. ASSUME NEW a \in Adders, AddStep(a) \/ AddFails(a) PROVE ModelsStay
  <2>1. AddsRows(a)
    BY <1>1, AddStepDoes
  <2>2. \A i \in Ids : models[i] # Gone => models'[i] = models[i]
    <3>1. CASE CreateModel(a)
      <4>1. \/ models' = models
            \/ lastModel < MaxModels /\ models' = [models EXCEPT ![lastModel + 1] = NameOf[a]]
        BY <3>1, CreateModelDoes
      <4>2. lastModel < MaxModels => lastModel + 1 \in Ids /\ models[lastModel + 1] = Gone
        BY <1>0, CallersApart DEF Keys, Ids
      <4> QED
        BY <1>0, <4>1, <4>2
    <3>2. ~ CreateModel(a) => models' = models
      BY <1>1, CheckNameDoes, ReadModelDoes, CheckServiceDoes, CreateServiceDoes, ReadServiceDoes,
         CheckPartDoes, CreatePartDoes, CommitServiceDoes, AddFailsDoes DEF AddStep, tables
    <3> QED
      BY <3>1, <3>2
  <2> QED
    BY <2>1, <2>2 DEF ModelsStay, AddsRows, Aside, rest
<1>2. CASE OtherStep
  BY <1>2, OtherStepDoes DEF OtherRows, OthersModels, ModelsStay
<1>3. CASE CommitDelete
  <2>1. models' = [models EXCEPT ![deleter.id] = Gone] /\ disturbed' = disturbed \cup {deleter.id}
        /\ UNCHANGED <<cut, faults>>
    BY <1>3, CommitDeleteDoes DEF rest
  <2> QED
    BY <1>0, <2>1 DEF ModelsStay
<1>4. ASSUME UNCHANGED <<models, disturbed, cut>>, faults \subseteq faults' PROVE ModelsStay
  BY <1>4 DEF ModelsStay
<1>5. CASE Crash \/ DeleteFails
  <2>1. UNCHANGED <<models, disturbed, cut>> /\ faults \subseteq faults'
    BY <1>5, CrashDoes, DeleteFailsDoes DEF rest, tables
  <2> QED
    BY <1>4, <2>1
<1>6. CASE (\E id \in 0 .. lastModel : ListServices(id)) \/ DeleteParts \/ DeleteServices \/ DeleteModel
  <2>1. UNCHANGED <<models, disturbed, cut, faults>>
    BY <1>6, ListServicesDoes, DeletePartsDoes, DeleteServicesDoes, DeleteModelDoes DEF rest, tables
  <2> QED
    BY <1>4, <2>1
<1>7. CASE UNCHANGED vars
  BY <1>4, <1>7 DEF vars
<1> QED
  BY <1>1, <1>2, <1>3, <1>5, <1>6, <1>7, NextCases DEF DeleteStep

LEMMA OwnModelKept ==
  ASSUME Types, Locals, ModelsStay, NEW a \in Adders, OwnModel(a), KeepsModel(a)
  PROVE  OwnModel(a)'
<1>1. adder[a].made \in 0 .. lastModel /\ adder[a].id \in 0 .. lastModel /\ lastModel \in 0 .. MaxModels
  BY DEF Types, Locals, Local
<1>2. (adder[a].made # 0 => adder[a].made \in Ids) /\ (adder[a].id # 0 => adder[a].id \in Ids)
  BY <1>1, CallersApart DEF Ids
<1>3. NameOf[a] # Gone
  BY CallersApart
<1>4. adder[a].made \notin disturbed' \cup {0} => models'[adder[a].made] = NameOf[a]
  BY <1>2, <1>3 DEF ModelsStay, OwnModel
<1>5. adder[a].id \notin disturbed' \cup {0} => models'[adder[a].id] # Gone
  BY <1>2 DEF ModelsStay, OwnModel
<1>6. adder[a].id \notin {0, adder[a].made} => adder[a].made \in disturbed'
  BY DEF ModelsStay, OwnModel
<1> QED
  BY <1>4, <1>5, <1>6 DEF KeepsModel, OwnModel

LEMMA OwnModelsStep ==
  ASSUME Types, Keys, Locals, Marks, OwnModels, ModelsStay, [Next]_vars
  PROVE  OwnModels'
<1>0. /\ \A b \in Adders : OwnModel(b) /\ Local(b) /\ adder[b] \in Adding
      /\ models \in [Ids -> Names \cup {Gone}] /\ lastModel \in Nat
  BY CallersApart DEF OwnModels, Locals, Types
<1>1. ASSUME NEW a \in Adders, AddStep(a) \/ AddFails(a) PROVE OwnModels'
  <2>1. AddsRows(a)
    BY <1>1, AddStepDoes
  <2>2. ASSUME NEW b \in Adders \ {a} PROVE OwnModel(b)'
    <3>1. KeepsModel(b)
      BY <2>1 DEF AddsRows, Frame, KeepsModel
    <3> QED
      BY <1>0, <3>1, OwnModelKept
  <2>3. ASSUME CreateModel(a), adder'[a].made # adder[a].made PROVE OwnModel(a)'
    <3>1. /\ adder[a].pc = "create" /\ adder'[a].id = adder[a].id /\ adder'[a].made = lastModel + 1
          /\ lastModel < MaxModels /\ models' = [models EXCEPT ![lastModel + 1] = NameOf[a]]
      BY <2>3, CreateModelDoes
    <3>2. adder'[a].id = 0
      BY <1>0, <3>1 DEF Local
    <3>3. models'[lastModel + 1] = NameOf[a]
      BY <1>0, <3>1, CallersApart DEF Ids
    <3> QED
      BY <3>1, <3>2, <3>3 DEF OwnModel
  <2>4. ASSUME ReadModel(a), adder'[a].id # adder[a].id PROVE OwnModel(a)'
    <3>1. /\ adder[a].pc = "get" /\ adder'[a].made = adder[a].made /\ UNCHANGED <<models, disturbed>>
          /\ adder'[a].id \in Ids /\ models[adder'[a].id] = NameOf[a]
      BY <2>4, ReadModelDoes DEF KeepsModel, tables, Aside
    <3>2. adder[a].made \in Ids
      BY <1>0, <3>1, CallersApart DEF Local, Types, Ids
    <3>3. NameOf[a] # Gone
      BY CallersApart
    <3>4. adder[a].made \notin disturbed => adder'[a].id = adder[a].made
      <4>1. adder[a].made # 0
        BY <3>2 DEF Ids
      <4> QED
        BY <1>0, <3>1, <3>2, <3>3, <4>1 DEF Keys, OwnModel
    <3> QED
      BY <1>0, <3>1, <3>3, <3>4 DEF OwnModel
  <2>5. ASSUME KeepsModel(a) PROVE OwnModel(a)'
    BY <1>0, <2>5, OwnModelKept
  <2>6. \/ KeepsModel(a)
        \/ CreateModel(a) /\ adder'[a].made # adder[a].made
        \/ ReadModel(a) /\ adder'[a].id # adder[a].id
    <3>1. CASE CreateModel(a)
      BY <3>1, CreateModelDoes DEF KeepsModel
    <3>2. CASE ReadModel(a)
      BY <3>2, ReadModelDoes DEF KeepsModel
    <3>3. ~ CreateModel(a) /\ ~ ReadModel(a) => KeepsModel(a)
      BY <1>0, <1>1, CheckNameDoes, CheckServiceDoes, CreateServiceDoes, ReadServiceDoes, CheckPartDoes,
         CreatePartDoes, CommitServiceDoes, AddFailsDoes DEF AddStep
    <3> QED
      BY <3>1, <3>2, <3>3
  <2> QED
    BY <2>2, <2>3, <2>4, <2>5, <2>6 DEF OwnModels
<1>2. CASE \A b \in Adders : KeepsModel(b)
  BY <1>0, <1>2, OwnModelKept DEF OwnModels
<1>3. Crash => \A b \in Adders : KeepsModel(b)
  BY CrashDoes DEF KeepsModel
<1>4. UNCHANGED adder => \A b \in Adders : KeepsModel(b)
  BY DEF KeepsModel
<1>5. UNCHANGED vars => UNCHANGED adder
  BY DEF vars
<1> QED
  BY <1>1, <1>2, <1>3, <1>4, <1>5, NextCases, ListServicesDoes, DeletePartsDoes, DeleteServicesDoes,
     DeleteModelDoes, CommitDeleteDoes, DeleteFailsDoes, OtherStepDoes DEF DeleteStep, OtherRows

-----------------------------------------------------------------------------
(* What a call has stored so far. *)

\* A model that is there after the step, and that nobody took anything out of, is the
\* model of before, and has what it had.
StaysWhole(id) ==
  models'[id] # Gone /\ id \notin cut' =>
    /\ models[id] # Gone /\ id \notin cut
    /\ \A s \in services : s.model = id => s \in services'
    /\ \A s \in services, p \in parts : s.model = id /\ p.service = s.id => p \in parts'

LEMMA WholeKept ==
  ASSUME Types, Keys, Locals, Marks, [Next]_vars, NEW id \in 1 .. lastModel
  PROVE  StaysWhole(id)
<1>0. models \in [Ids -> Names \cup {Gone}] /\ lastModel \in Nat /\ id \in Ids /\ id # lastModel + 1
  BY CallersApart DEF Types, Ids
<1>1. ASSUME NEW a \in Adders, AddStep(a) \/ AddFails(a) PROVE StaysWhole(id)
  <2>1. AddsRows(a)
    BY <1>1, AddStepDoes
  <2>2. models'[id] = models[id]
    <3>1. CASE CreateModel(a)
      <4>1. models' = models \/ models' = [models EXCEPT ![lastModel + 1] = NameOf[a]]
        BY <3>1, CreateModelDoes
      <4> QED
        BY <1>0, <4>1
    <3>2. ~ CreateModel(a) => models' = models
      BY <1>1, CheckNameDoes, ReadModelDoes, CheckServiceDoes, CreateServiceDoes, ReadServiceDoes,
         CheckPartDoes, CreatePartDoes, CommitServiceDoes, AddFailsDoes DEF AddStep, tables
    <3> QED
      BY <3>1, <3>2
  <2>3. services \subseteq services' /\ parts \subseteq parts' /\ cut' = cut
    BY <2>1 DEF AddsRows, Aside, rest
  <2> QED
    BY <2>2, <2>3 DEF StaysWhole
<1>2. CASE CommitDelete
  <2>1. /\ models' = [models EXCEPT ![deleter.id] = Gone] /\ cut' = cut /\ deleter.id # 0
        /\ services' = {s \in services : s.id \notin deleter.services} /\ parts' = parts \ deleter.doomed
    BY <1>2, CommitDeleteDoes DEF Marks, rest
  <2>2. CASE id = deleter.id
    BY <1>0, <2>1, <2>2 DEF StaysWhole
  <2>3. CASE id # deleter.id
    <3>1. models'[id] = models[id]
      BY <1>0, <2>1, <2>3
    <3>2. \A s \in services : s.id \in deleter.services => s.model = deleter.id
      BY <2>1 DEF Marks, Below
    <3>3. \A s \in services, p \in deleter.doomed : p.service = s.id => s.model = deleter.id
      BY <2>1 DEF Marks, Below
    <3> QED
      BY <2>1, <2>3, <3>1, <3>2, <3>3 DEF StaysWhole
  <2> QED
    BY <2>2, <2>3
<1>3. CASE OtherStep
  <2>1. OtherRows
    BY <1>3, OtherStepDoes
  <2>2. models'[id] # Gone => models[id] # Gone
    BY <1>0, <2>1 DEF OtherRows, OthersModels
  <2>3. \A s \in services : s.model = id /\ id \notin cut' => s \in services'
    BY <2>1 DEF OtherRows, OthersServices
  <2>4. ASSUME NEW s \in services, NEW p \in parts, s.model = id, p.service = s.id, id \notin cut'
        PROVE  p \in parts'
    <3>1. ModelOf(p.service) = id
      BY <2>4, ModelOfIs
    <3> QED
      BY <2>1, <2>4, <3>1 DEF OtherRows, OthersParts
  <2> QED
    BY <2>1, <2>2, <2>3, <2>4 DEF StaysWhole, OtherRows
<1>4. CASE UNCHANGED <<tables, cut>>
  BY <1>4 DEF StaysWhole, tables
<1>5. UNCHANGED vars => UNCHANGED <<tables, cut>>
  BY DEF vars, tables
<1>6. Crash => UNCHANGED <<tables, cut>>
  BY CrashDoes DEF rest
<1>7. (\E i \in 0 .. lastModel : ListServices(i)) \/ DeleteParts \/ DeleteServices \/ DeleteModel \/ DeleteFails
      => UNCHANGED <<tables, cut>>
  BY ListServicesDoes, DeletePartsDoes, DeleteServicesDoes, DeleteModelDoes, DeleteFailsDoes DEF rest
<1> QED
  BY <1>1, <1>2, <1>3, <1>4, <1>5, <1>6, <1>7, NextCases DEF DeleteStep

\* What a call has stored it still has, if its model is whole after the step.
Kept(a) ==
  /\ Whole(a)' => Whole(a)
  /\ Whole(a)' => \A s \in services : s.model = adder[a].id => s \in services'
  /\ Whole(a)' => \A s \in services, p \in parts : s.model = adder[a].id /\ p.service = s.id => p \in parts'

LEMMA KeptByWhole ==
  ASSUME NEW a \in Adders, StaysWhole(adder[a].id), adder'[a].id = adder[a].id, faults \subseteq faults'
  PROVE  Kept(a)
BY DEF Kept, Whole, StaysWhole

LEMMA FilledKept ==
  ASSUME NEW a \in Adders, Kept(a), Whole(a)', NEW want, Filled(services, parts, adder[a].id, want)
  PROVE  Filled(services', parts', adder[a].id, want)
BY DEF Filled, Has, Kept

\* The same place as before, in tables that have what they had.
LEMMA ProgressKept ==
  ASSUME NEW a \in Adders, Kept(a), Whole(a)', adder'[a] = adder[a],
         Progressed(adder[a], Wanted[a], services, parts)
  PROVE  Progressed(adder'[a], Wanted[a], services', parts')
<1> DEFINE A == adder[a]
           want == Wanted[a]
<1>1. \A j \in 1 .. (A.i - 1) : Filled(services', parts', A.id, want[j])
  BY FilledKept DEF Progressed
<1>2. A.pc = "getservice" => \E s \in services' : s.model = A.id /\ Fits(s, want[A.i].name)
  BY DEF Progressed, Kept
<1>3. ASSUME A.pc \in Storing
      PROVE  /\ \E s \in services' : s.model = A.id /\ s.id = A.sid /\ Fits(s, want[A.i].name)
             /\ Has(parts' \cup A.buf, A.sid, want[A.i].parts, Len(want[A.i].parts) - Len(A.todo))
  <2>1. PICK s \in services : s.model = A.id /\ s.id = A.sid /\ Fits(s, want[A.i].name)
    BY <1>3 DEF Progressed
  <2>2. s \in services'
    BY <2>1 DEF Kept
  <2>3. \A p \in parts : p.service = A.sid => p \in parts'
    BY <2>1 DEF Kept
  <2>4. Has(parts \cup A.buf, A.sid, want[A.i].parts, Len(want[A.i].parts) - Len(A.todo))
    BY <1>3 DEF Progressed
  <2>5. Has(parts' \cup A.buf, A.sid, want[A.i].parts, Len(want[A.i].parts) - Len(A.todo))
    BY <2>3, <2>4 DEF Has
  <2> QED
    BY <2>1, <2>2, <2>5
<1> QED
  BY <1>1, <1>2, <1>3 DEF Progressed

\* One more part.
LEMMA HasMore ==
  ASSUME NEW rows, NEW more, NEW sid, NEW all, NEW n \in Nat, Has(rows, sid, all, n), rows \subseteq more,
         NEW p \in more, p.service = sid, Fits(p, all[n + 1])
  PROVE  Has(more, sid, all, n + 1)
<1> SUFFICES ASSUME NEW k \in 1 .. (n + 1) PROVE \E q \in more : q.service = sid /\ Fits(q, all[k])
  BY DEF Has
<1>1. k \in 1 .. n \/ k = n + 1
  OBVIOUS
<1> QED
  BY <1>1 DEF Has

\* The places of a call that has gone on: what it had in hand is stored.
LEMMA ProgressAdvances ==
  ASSUME NEW a \in Adders, NEW i \in Nat, Advances(a, i),
         \A j \in 1 .. (i - 1) : Filled(services', parts', adder'[a].id, Wanted[a][j])
  PROVE  Progressed(adder'[a], Wanted[a], services', parts')
BY DEF Advances, NextPlace, Progressed, Storing

LEMMA NamedIs ==
  ASSUME NEW id, NEW name
  PROVE  Named(ServicesOf(id), name) # {} <=> \E s \in services : s.model = id /\ Fits(s, name)
BY DEF Named, ServicesOf, Fits

LEMMA NamedPartIs ==
  ASSUME NEW sid, NEW name
  PROVE  Named(PartsOf(sid), name) # {} <=> \E p \in parts : p.service = sid /\ Fits(p, name)
BY DEF Named, PartsOf, Fits

LEMMA ProgressStep ==
  ASSUME Structure, Structure', Progress, NEW a \in Adders, AddStep(a) \/ AddFails(a), [Next]_vars, ModelsStay,
         adder'[a].pc \in Filling \cup {"done"}, Whole(a)'
  PROVE  Progressed(adder'[a], Wanted[a], services', parts')
<1> DEFINE A == adder[a]
           want == Wanted[a][adder[a].i]
<1>0. Types /\ Keys /\ Locals /\ Marks /\ Buffers /\ adder[a] \in Adding
  BY DEF Structure, Types
<1>1. CASE ReadModel(a)
  BY <1>0, <1>1, ReadModelDoes, ProgressAdvances DEF Filling, Storing
<1>2. CASE A.pc \in Filling
  <2>1. AddsRows(a)
    BY <1>0, AddStepDoes
  <2>2. /\ A.id \in 1 .. lastModel /\ A.i \in 1 .. Len(Wanted[a]) /\ A.i \in Nat
        /\ want \in [name : Labels, parts : Seq(Labels)] /\ Service(a) = want
    BY <1>0, <1>2, InHand DEF Adding
  <2>3. adder'[a].id = A.id
    BY <1>2, <2>1 DEF AddsRows, Filling, Storing
  <2>4. StaysWhole(A.id)
    BY <1>0, <2>2, WholeKept
  <2>5. Kept(a)
    BY <2>3, <2>4, KeptByWhole DEF ModelsStay
  <2>6. Progressed(A, Wanted[a], services, parts)
    BY <1>2, <2>5 DEF Kept, Progress
  <2>7. \A j \in 1 .. (A.i - 1) : Filled(services', parts', A.id, Wanted[a][j])
    BY <2>5, <2>6, FilledKept DEF Progressed
  <2>8. CASE CheckService(a)
    <3>1. adder'[a].i = A.i /\ adder'[a].pc \in {"getservice", "addservice"} /\ services' = services
      BY <1>0, <2>8, CheckServiceDoes DEF KeepsService, tables
    <3>2. adder'[a].pc = "getservice" => \E s \in services : s.model = A.id /\ Fits(s, want.name)
      BY <1>0, <2>2, <2>8, CheckServiceDoes, NamedIs
    <3> QED
      BY <2>3, <2>7, <3>1, <3>2 DEF Progressed, Storing
  <2>9. CASE CreateService(a)
    <3>1. adder'[a].i = A.i /\ adder'[a].pc \in {"getservice", "failed"}
      BY <1>0, <2>9, CreateServiceDoes DEF KeepsService
    <3>2. adder'[a].pc = "getservice" => \E s \in services' : s.model = A.id /\ Fits(s, want.name)
      <4> SUFFICES ASSUME adder'[a].pc = "getservice" PROVE \E s \in services' : s.model = A.id /\ Fits(s, want.name)
        OBVIOUS
      <4> DEFINE new == [id |-> lastService + 1, model |-> A.id, name |-> want.name, by |-> a]
      <4>1. services' = services \cup {new}
        BY <1>0, <2>2, <2>9, CreateServiceDoes
      <4>2. new.model = A.id /\ Fits(new, want.name)
        BY DEF Fits
      <4> QED
        BY <4>1, <4>2
    <3> QED
      BY <2>3, <2>7, <3>1, <3>2 DEF Progressed, Storing
  <2>10. CASE ReadService(a)
    <3>1. adder'[a].i = A.i /\ adder'[a].todo = want.parts /\ services' = services
          /\ adder'[a].pc \in {"part", "commit"}
          /\ \E s \in Named(ServicesOf(A.id), want.name) : adder'[a].sid = s.id
      BY <1>0, <2>2, <2>10, ReadServiceDoes DEF tables, Filling, Storing
    <3>2. \E s \in services' : s.model = A.id /\ s.id = adder'[a].sid /\ Fits(s, want.name)
      BY <3>1 DEF Named, ServicesOf, Fits
    <3>3. Len(want.parts) - Len(adder'[a].todo) = 0
      BY <2>2, <3>1
    <3>4. Has(parts' \cup adder'[a].buf, adder'[a].sid, want.parts, 0)
      BY DEF Has
    <3> HIDE DEF want
    <3> QED
      BY <2>3, <2>7, <3>1, <3>2, <3>3, <3>4 DEF Progressed, Storing, want
  <2>11. CASE CheckPart(a) \/ CreatePart(a)
    <3>1. /\ A.pc \in {"part", "addpart"} /\ adder'[a].i = A.i /\ adder'[a].sid = A.sid
          /\ A.buf \subseteq adder'[a].buf /\ services' = services /\ parts' = parts
          /\ adder'[a].pc \in Storing
          /\ \/ adder'[a].todo = A.todo
             \/ /\ adder'[a].todo = Tail(A.todo)
                /\ \/ Named(PartsOf(A.sid), Head(A.todo)) # {}
                   \/ A.pc = "addpart" /\ NewPart(a) \in adder'[a].buf
      <4>1. CASE CheckPart(a)
        BY <1>0, <4>1, CheckPartDoes DEF KeepsService, KeepsBuffer, tables, Storing
      <4>2. CASE CreatePart(a)
        BY <1>0, <4>2, CreatePartDoes DEF tables, Storing, Filling, Finished
      <4> QED
        BY <2>11, <4>1, <4>2
    <3>2. /\ \E s \in services : s.model = A.id /\ s.id = A.sid /\ Fits(s, want.name)
          /\ Has(parts \cup A.buf, A.sid, want.parts, Len(want.parts) - Len(A.todo))
      BY <2>6, <3>1 DEF Progressed, Storing
    <3>3. /\ A.todo \in Seq(Labels) /\ A.todo # <<>> /\ AtEnd(A.todo, want.parts) /\ want.parts \in Seq(Labels)
      BY <1>0, <2>2, <3>1, LeftToDo
    <3> DEFINE n == Len(want.parts) - Len(A.todo)
    <3>4. n \in Nat /\ Head(A.todo) = want.parts[n + 1] /\ Len(want.parts) - Len(Tail(A.todo)) = n + 1
      <4> HIDE DEF want
      <4>1. Len(A.todo) \in Nat /\ Len(want.parts) \in Nat /\ Len(A.todo) <= Len(want.parts)
        BY <3>3 DEF AtEnd
      <4>2. /\ Head(A.todo) = want.parts[Len(want.parts) - Len(A.todo) + 1]
            /\ Len(want.parts) - Len(Tail(A.todo)) = Len(want.parts) - Len(A.todo) + 1
        BY <3>3, AtEndTail
      <4>3. n \in Nat
        BY <4>1
      <4> QED
        BY <4>2, <4>3
    <3> HIDE DEF want, n
    <3>5. parts \cup A.buf \subseteq parts' \cup adder'[a].buf
      BY <3>1
    <3>6. CASE adder'[a].todo = A.todo
      <4>1. Has(parts' \cup adder'[a].buf, A.sid, want.parts, Len(want.parts) - Len(adder'[a].todo))
        BY <3>2, <3>5, <3>6 DEF Has
      <4> QED
        BY <2>3, <2>7, <3>1, <3>2, <4>1 DEF Progressed, Storing, want
    <3>7. CASE /\ adder'[a].todo = Tail(A.todo)
               /\ \/ Named(PartsOf(A.sid), Head(A.todo)) # {}
                  \/ A.pc = "addpart" /\ NewPart(a) \in adder'[a].buf
      <4>1. \E p \in parts' \cup adder'[a].buf : p.service = A.sid /\ Fits(p, want.parts[n + 1])
        <5>1. CASE Named(PartsOf(A.sid), Head(A.todo)) # {}
          BY <3>1, <3>4, <5>1, NamedPartIs
        <5>2. CASE A.pc = "addpart" /\ NewPart(a) \in adder'[a].buf
          <6>1. NewPart(a).service = A.sid /\ NewPart(a).name = Head(A.todo)
            BY <1>0, <5>2, NewPartTagged
          <6> QED
            BY <3>4, <5>2, <6>1 DEF Fits
        <5> QED
          BY <3>7, <5>1, <5>2
      <4>2. Has(parts' \cup adder'[a].buf, A.sid, want.parts, n + 1)
        BY <3>2, <3>4, <3>5, <4>1, HasMore DEF n
      <4>3. Has(parts' \cup adder'[a].buf, A.sid, want.parts, Len(want.parts) - Len(adder'[a].todo))
        BY <3>4, <3>7, <4>2
      <4> QED
        BY <2>3, <2>7, <3>1, <3>2, <4>3 DEF Progressed, Storing, want
    <3> QED
      BY <3>1, <3>6, <3>7
  <2>12. CASE CommitService(a)
    <3>1. A.pc = "commit" /\ Advances(a, A.i + 1) /\ parts' = parts \cup A.buf /\ services' = services
      BY <1>0, <2>12, CommitServiceDoes
    <3>2. /\ \E s \in services : s.model = A.id /\ s.id = A.sid /\ Fits(s, want.name)
          /\ Has(parts \cup A.buf, A.sid, want.parts, Len(want.parts) - Len(A.todo))
      BY <2>6, <3>1 DEF Progressed, Storing
    <3>3. A.todo = <<>>
      BY <1>0, <3>1 DEF Locals, Local, Storing
    <3>4. Len(want.parts) - Len(A.todo) = Len(want.parts)
      BY <2>2, <3>3
    <3>5. Filled(services', parts', A.id, want)
      BY <3>1, <3>2, <3>4 DEF Filled
    <3>6. \A j \in 1 .. A.i : Filled(services', parts', adder'[a].id, Wanted[a][j])
      <4>1. \A j \in 1 .. A.i : j \in 1 .. (A.i - 1) \/ j = A.i
        BY <2>2
      <4> QED
        BY <2>3, <2>7, <3>5, <4>1
    <3>7. PICK m \in Nat : m = A.i + 1
      BY <2>2
    <3>8. Advances(a, m)
      BY <3>1, <3>7 DEF Advances
    <3>9. \A j \in 1 .. (m - 1) : Filled(services', parts', adder'[a].id, Wanted[a][j])
      <4>1. m - 1 = A.i
        BY <2>2, <3>7
      <4> QED
        BY <3>6, <4>1
    <3> QED
      BY <3>7, <3>8, <3>9, ProgressAdvances
  <2>13. CASE AddFails(a)
    <3>1. a \in faults'
      BY <1>0, <2>13, AddFailsDoes
    <3> QED
      BY <3>1 DEF Whole
  <2> QED
    BY <1>0, <1>2, <2>8, <2>9, <2>10, <2>11, <2>12, <2>13, CheckNameDoes, CreateModelDoes, ReadModelDoes
       DEF AddStep, Filling, Storing
<1>3. CASE A.pc \notin Filling /\ ~ ReadModel(a)
  <2>1. CASE AddFails(a)
    <3>1. a \in faults'
      BY <1>0, <2>1, AddFailsDoes
    <3> QED
      BY <3>1 DEF Whole
  <2>2. CASE CheckName(a) \/ CreateModel(a)
    <3>1. adder'[a].pc \in {"create", "failed", "get"}
      BY <1>0, <2>2, CheckNameDoes, CreateModelDoes
    <3> QED
      BY <3>1 DEF Filling, Storing
  <2> QED
    BY <1>0, <1>3, <2>1, <2>2, CheckServiceDoes, CreateServiceDoes, ReadServiceDoes, CheckPartDoes,
       CreatePartDoes, CommitServiceDoes DEF AddStep, Filling, Storing
<1> QED
  BY <1>1, <1>2, <1>3

LEMMA ProgressesStep ==
  ASSUME Structure, Structure', Progress, ModelsStay, [Next]_vars
  PROVE  Progress'
<1>0. Types /\ Keys /\ Locals /\ Marks
  BY DEF Structure
<1>1. ASSUME NEW b \in Adders, adder'[b] = adder[b], adder[b].pc \in Filling \cup {"done"}, Whole(b)'
      PROVE  Progressed(adder'[b], Wanted[b], services', parts')
  <2>1. adder[b].id \in 1 .. lastModel
    <3>1. adder[b].id \in 0 .. lastModel /\ adder[b].id # 0
      BY <1>0, <1>1 DEF Locals, Local
    <3> QED
      BY <1>0, <3>1, CallersApart DEF Types
  <2>2. Kept(b)
    BY <1>0, <1>1, <2>1, WholeKept, KeptByWhole DEF ModelsStay
  <2> QED
    BY <1>1, <2>2, ProgressKept DEF Progress, Kept
<1>2. ASSUME NEW a \in Adders, AddStep(a) \/ AddFails(a) PROVE Progress'
  <2>1. \A b \in Adders \ {a} : adder'[b] = adder[b]
    BY <1>0, <1>2, AddStepDoes DEF AddsRows, Frame
  <2> QED
    BY <1>1, <1>2, <2>1, ProgressStep DEF Progress
<1>3. CASE Crash
  <2>1. \A b \in Adders : adder'[b] = adder[b] \/ adder'[b].pc = "crashed"
    BY <1>0, <1>3, CrashDoes
  <2> QED
    BY <1>1, <2>1 DEF Progress, Filling, Storing
<1>4. CASE UNCHANGED adder
  BY <1>1, <1>4 DEF Progress
<1>5. UNCHANGED vars => UNCHANGED adder
  BY DEF vars
<1> QED
  BY <1>0, <1>2, <1>3, <1>4, <1>5, NextCases, ListServicesDoes, DeletePartsDoes, DeleteServicesDoes,
     DeleteModelDoes, CommitDeleteDoes, DeleteFailsDoes, OtherStepDoes DEF DeleteStep, OtherRows

-----------------------------------------------------------------------------
(* Why a call fails. *)

\* A call whose model is not whole, though no statement of it failed.
LEMMA NotWhole ==
  ASSUME NEW a \in Adders, OwnModel(a), adder[a].id # 0, a \notin faults, ~ Whole(a)
  PROVE  adder[a].id \in disturbed \cup cut
BY DEF OwnModel, Whole

LEMMA FailsStep ==
  ASSUME Structure, OwnModels, Progress, Fails, ModelsStay, [Next]_vars
  PROVE  Fails'
<1>0. Types /\ Keys /\ Locals /\ Marks
  BY DEF Structure
<1>1. ASSUME NEW b \in Adders, adder'[b] = adder[b], adder'[b].pc = "failed", b \notin faults'
      PROVE  adder'[b].made \in disturbed' \cup {0} \/ adder'[b].id \in disturbed' \cup cut'
  BY <1>1 DEF Fails, ModelsStay
<1>2. ASSUME NEW a \in Adders, AddStep(a) \/ AddFails(a) PROVE Fails'
  <2>1. AddsRows(a) /\ \A b \in Adders \ {a} : adder'[b] = adder[b]
    BY <1>0, <1>2, AddStepDoes DEF AddsRows, Frame
  <2>2. ASSUME adder'[a].pc = "failed", a \notin faults'
        PROVE  adder'[a].made \in disturbed' \cup {0} \/ adder'[a].id \in disturbed' \cup cut'
    <3>0. /\ OwnModel(a) /\ Local(a) /\ a \notin faults /\ disturbed' = disturbed /\ cut' = cut
          /\ (adder[a].pc \in Filling /\ Whole(a) => Progressed(adder[a], Wanted[a], services, parts))
      BY <1>0, <2>1, <2>2 DEF OwnModels, Locals, Progress, AddsRows, Aside, rest
    <3>1. ASSUME adder[a].pc \in Filling, ~ Whole(a)
          PROVE  adder'[a].id \in disturbed' \cup cut'
      <4>1. adder[a].id # 0 /\ adder'[a].id = adder[a].id
        BY <2>1, <3>0, <3>1 DEF Local, AddsRows, Filling, Storing
      <4> QED
        BY <3>0, <3>1, <4>1, NotWhole
    <3>2. CASE CreateModel(a)
      <4>1. adder[a].pc = "create" /\ adder'[a].made = adder[a].made
        BY <1>0, <2>2, <3>2, CreateModelDoes
      <4> QED
        BY <3>0, <4>1 DEF Local
    <3>3. CASE ReadModel(a)
      <4>1. adder[a].pc = "get" /\ ~ Taken(NameOf[a]) /\ adder'[a].made = adder[a].made
        BY <1>0, <2>2, <3>3, ReadModelDoes DEF Advances, NextPlace
      <4>2. adder[a].made \in Ids
        BY <1>0, <3>0, <4>1, CallersApart DEF Local, Types, Ids
      <4>3. adder[a].made \in disturbed
        <5>1. adder[a].made # 0 /\ models[adder[a].made] # NameOf[a]
          BY <3>0, <4>1, <4>2 DEF Local, Taken
        <5> QED
          BY <3>0, <5>1 DEF OwnModel
      <4> QED
        BY <3>0, <4>1, <4>3
    <3>4. CASE CreateService(a)
      <4>1. adder[a].pc \in Filling /\ models[adder[a].id] = Gone
        BY <1>0, <2>2, <3>4, CreateServiceDoes DEF Filling
      <4>2. ~ Whole(a)
        BY <4>1 DEF Whole
      <4> QED
        BY <3>1, <4>1, <4>2
    <3>5. CASE ReadService(a)
      <4>1. /\ adder[a].pc = "getservice" /\ Named(ServicesOf(adder[a].id), Service(a).name) = {}
        BY <1>0, <2>2, <3>5, ReadServiceDoes
      <4>2. adder[a].pc \in Filling
        BY <4>1 DEF Filling
      <4>3. Service(a) = Wanted[a][adder[a].i]
        BY DEF Service
      <4>4. ~ Progressed(adder[a], Wanted[a], services, parts)
        BY <4>1, <4>3, NamedIs DEF Progressed
      <4> QED
        BY <3>0, <3>1, <4>2, <4>4
    <3>6. CASE CreatePart(a)
      <4>1. adder[a].pc = "addpart" /\ \A s \in services : s.id # adder[a].sid
        BY <1>0, <2>2, <3>6, CreatePartDoes
      <4>2. adder[a].pc \in Filling /\ adder[a].pc \in Storing
        BY <4>1 DEF Filling, Storing
      <4>4. ~ Progressed(adder[a], Wanted[a], services, parts)
        BY <4>1, <4>2 DEF Progressed
      <4> QED
        BY <3>0, <3>1, <4>2, <4>4
    <3>7. CASE AddFails(a)
      BY <1>0, <2>2, <3>7, AddFailsDoes
    <3>8. CASE CheckName(a) \/ CheckService(a) \/ CheckPart(a) \/ CommitService(a)
      <4>1. adder'[a].pc # "failed"
        BY <1>0, <3>8, CheckNameDoes, CheckServiceDoes, CheckPartDoes, CommitServiceDoes DEF Advances, NextPlace
      <4> QED
        BY <2>2, <4>1
    <3> QED
      BY <1>2, <3>2, <3>3, <3>4, <3>5, <3>6, <3>7, <3>8 DEF AddStep
  <2> QED
    BY <1>1, <2>1, <2>2 DEF Fails
<1>3. CASE Crash
  <2>1. \A b \in Adders : adder'[b] = adder[b] \/ adder'[b].pc = "crashed"
    BY <1>0, <1>3, CrashDoes
  <2> QED
    BY <1>1, <2>1 DEF Fails
<1>4. CASE UNCHANGED adder
  BY <1>1, <1>4 DEF Fails
<1>5. UNCHANGED vars => UNCHANGED adder
  BY DEF vars
<1> QED
  BY <1>0, <1>2, <1>3, <1>4, <1>5, NextCases, ListServicesDoes, DeletePartsDoes, DeleteServicesDoes,
     DeleteModelDoes, CommitDeleteDoes, DeleteFailsDoes, OtherStepDoes DEF DeleteStep, OtherRows

\* What the results rest on.
Results == Structure /\ Refusals /\ OwnModels /\ Fails /\ Progress

LEMMA ResultsInvariant == Spec => []Results
<1>1. Init => Results
  <2> SUFFICES ASSUME Init PROVE Results
    OBVIOUS
  <2>1. \A a \in Adders : adder[a].pc = "check" /\ adder[a].made = 0 /\ adder[a].id = 0
    BY DEF Init
  <2>2. OwnModels /\ Fails /\ Progress
    BY <2>1 DEF OwnModels, OwnModel, Fails, Progress, Filling, Storing
  <2>3. Refusals
    BY DEF Init, Refusals
  <2> QED
    BY <2>2, <2>3, InitStructure DEF Results
<1>2. Results /\ [Next]_vars => Results'
  <2> SUFFICES ASSUME Results, [Next]_vars PROVE Results'
    OBVIOUS
  <2>1. Structure /\ Refusals /\ OwnModels /\ Fails /\ Progress
    BY DEF Results
  <2>2. Structure' /\ Refusals'
    BY <2>1, StructureStep, RefusalsStep
  <2>3. ModelsStay
    BY <2>1, ModelsKept DEF Structure
  <2>4. OwnModels'
    BY <2>1, <2>3, OwnModelsStep DEF Structure
  <2>5. Progress' /\ Fails'
    BY <2>1, <2>2, <2>3, ProgressesStep, FailsStep
  <2> QED
    BY <2>2, <2>4, <2>5 DEF Results
<1> QED
  BY <1>1, <1>2, PTL DEF Spec

LEMMA HoldsIs ==
  ASSUME NEW id, NEW want PROVE Holds(id, want) <=> Filled(services, parts, id, want)
<1>1. Holds(id, want) <=> \E s \in services :
        /\ s.model = id /\ Fits(s, want.name)
        /\ \A k \in 1 .. Len(want.parts) : Named(PartsOf(s.id), want.parts[k]) # {}
  BY DEF Holds, Named, ServicesOf, Fits
<1> QED
  BY <1>1, NamedPartIs DEF Filled, Has

\* What AddAllDeviceModel and DeleteDeviceModel return can be relied on: nil means that
\* every service and every part is stored, unless the model was deleted since or others
\* took something out of it, and an error has a reason that the caller can name.
THEOREM ResultsTellTruth == Spec => []ResultTellsTruth
<1>1. Results => ResultTellsTruth
  <2> SUFFICES ASSUME Results PROVE ResultTellsTruth
    OBVIOUS
  <2>1. Structure /\ Refusals /\ OwnModels /\ Fails /\ Progress
    BY DEF Results
  <2>2. StoredWhenDone
    <3> SUFFICES ASSUME NEW a \in Adders, adder[a].pc = "done", a \notin faults,
                        models[adder[a].id] # Gone, adder[a].id \notin cut,
                        NEW i \in 1 .. Len(Wanted[a])
                 PROVE  Holds(adder[a].id, Wanted[a][i])
      BY DEF StoredWhenDone
    <3>1. adder[a].i = Len(Wanted[a]) + 1 /\ Len(Wanted[a]) \in Nat
      BY <2>1, CallersApart DEF Structure, Locals, Local
    <3>2. Progressed(adder[a], Wanted[a], services, parts)
      BY <2>1 DEF Progress, Whole
    <3>3. i \in 1 .. (adder[a].i - 1)
      BY <3>1
    <3>4. Filled(services, parts, adder[a].id, Wanted[a][i])
      BY <3>2, <3>3 DEF Progressed
    <3> QED
      BY <3>4, HoldsIs
  <2>3. FailsForAReason
    <3> SUFFICES ASSUME NEW a \in Adders
                 PROVE  /\ adder[a].id \notin {0, adder[a].made} => adder[a].made \in disturbed
                        /\ adder[a].pc = "failed" /\ a \notin faults =>
                             \/ adder[a].made \in disturbed \/ adder[a].id \in disturbed \cup cut
                             \/ adder[a].made = 0 /\ \A p \in parts : p.by[1] # a
      BY DEF FailsForAReason
    <3>1. adder[a].id \notin {0, adder[a].made} => adder[a].made \in disturbed
      BY <2>1 DEF OwnModels, OwnModel
    <3>2. adder[a].made = 0 => \A p \in parts : p.by[1] # a
      BY <2>1 DEF Structure, Locals, Local, OwnRows, OwnRow
    <3> QED
      BY <2>1, <3>1, <3>2 DEF Fails
  <2>4. DeleteRefusedForCause
    BY <2>1 DEF Refusals, Blamed, DeleteRefusedForCause
  <2> QED
    BY <2>2, <2>3, <2>4 DEF ResultTellsTruth
<1> QED
  BY <1>1, ResultsInvariant, PTL
-----------------------------------------------------------------------------
(* Names below a model. *)

\* Nobody else stores a row of the call.
LEMMA CheckedKept ==
  ASSUME NEW b \in Adders, CheckedBy(b), adder'[b].buf \subseteq adder[b].buf,
         (adder'[b].pc = adder[b].pc /\ KeepsService(b)) \/ adder'[b].pc \notin {"addservice", "addpart"},
         \A s \in services' : s.by = b => s \in services,
         \A p \in parts' : p.by[1] = b => p \in parts
  PROVE  CheckedBy(b)'
<1>1. Service(b)' = Wanted[b][adder'[b].i] /\ Service(b) = Wanted[b][adder[b].i]
  BY DEF Service
<1>2. adder'[b].pc = "addservice" => \A s \in services' : s.by = b => s.name # Service(b)'.name
  BY <1>1 DEF CheckedBy, KeepsService
<1>3. adder'[b].pc = "addpart" =>
        \A q \in parts' : q.by[1] = b /\ q.service = adder'[b].sid => q.name # Head(adder'[b].todo)
  BY DEF CheckedBy, KeepsService
<1>4. \A s, t \in services' : s.by = b /\ t.by = b /\ s.name = t.name => s = t
  BY DEF CheckedBy
<1>5. \A p \in parts' \cup adder'[b].buf, q \in parts' :
        p.by[1] = b /\ q.by[1] = b /\ p.service = q.service /\ p.name = q.name => p.by[2] = q.by[2]
  BY DEF CheckedBy
<1> QED
  BY <1>2, <1>3, <1>4, <1>5 DEF CheckedBy

LEMMA CheckedStep ==
  ASSUME Structure, NEW a \in Adders, CheckedBy(a), AddStep(a), faults' = {}
  PROVE  CheckedBy(a)'
<1> DEFINE A == adder[a]
<1>0. /\ Types /\ Keys /\ Locals /\ Buffers /\ Buffer(a) /\ OwnRow(a)
      /\ a \notin faults'
  BY DEF Structure, Buffers, OwnRows
<1>1. CASE CheckService(a)
  <2>1. /\ KeepsModel(a) /\ KeepsService(a) /\ KeepsBuffer(a) /\ UNCHANGED tables
        /\ \/ adder'[a].pc = "getservice"
           \/ adder'[a].pc = "addservice" /\ Named(ServicesOf(A.id), Service(a).name) = {}
    BY <1>0, <1>1, CheckServiceDoes
  <2>2. CASE adder'[a].pc = "getservice"
    BY <2>1, <2>2, CheckedKept DEF KeepsBuffer, tables
  <2>3. CASE adder'[a].pc = "addservice" /\ Named(ServicesOf(A.id), Service(a).name) = {}
    <3>1. \A s \in services : s.model = A.id => ~ Fits(s, Service(a).name)
      BY <2>3, NamedIs
    <3>2. \A s \in services : s.by = a => s.name # Service(a).name
      BY <1>0, <3>1 DEF OwnRow, Fits
    <3>3. Service(a)' = Service(a)
      BY <2>1 DEF Service, KeepsService
    <3> QED
      BY <2>1, <2>3, <3>2, <3>3 DEF CheckedBy, KeepsBuffer, tables
  <2> QED
    BY <2>1, <2>2, <2>3
<1>2. CASE CreateService(a)
  <2>1. /\ A.pc = "addservice" /\ parts' = parts /\ adder'[a].buf = A.buf
        /\ adder'[a].pc \in {"getservice", "failed"}
        /\ \/ services' = services
           \/ services' = services \cup {[id |-> lastService + 1, model |-> A.id,
                                          name |-> Service(a).name, by |-> a]}
    BY <1>0, <1>2, CreateServiceDoes DEF KeepsBuffer
  <2>2. CASE services' = services
    BY <2>1, <2>2, CheckedKept
  <2>3. CASE services' = services \cup {[id |-> lastService + 1, model |-> A.id,
                                         name |-> Service(a).name, by |-> a]}
    <3> DEFINE new == [id |-> lastService + 1, model |-> A.id, name |-> Service(a).name, by |-> a]
    <3>1. new.name = Service(a).name /\ \A s \in services : s.by = a => s.name # Service(a).name
      BY <2>1 DEF CheckedBy
    <3>2. services' = services \cup {new}
      BY <2>3
    <3> HIDE DEF new
    <3>3. \A s, t \in services' : s.by = a /\ t.by = a /\ s.name = t.name => s = t
      BY <3>1, <3>2 DEF CheckedBy
    <3> QED
      BY <2>1, <3>3 DEF CheckedBy
  <2> QED
    BY <2>1, <2>2, <2>3
<1>3. CASE CheckPart(a)
  <2>1. /\ adder'[a].sid = A.sid /\ adder'[a].buf = A.buf /\ UNCHANGED tables
        /\ \/ adder'[a].pc \in {"commit", "part"}
           \/ /\ adder'[a].pc = "addpart" /\ KeepsService(a)
              /\ Named(PartsOf(A.sid), Head(A.todo)) = {}
    BY <1>0, <1>3, CheckPartDoes DEF KeepsBuffer
  <2>2. CASE adder'[a].pc \in {"commit", "part"}
    BY <2>1, <2>2, CheckedKept DEF tables
  <2>3. CASE /\ adder'[a].pc = "addpart" /\ KeepsService(a)
             /\ Named(PartsOf(A.sid), Head(A.todo)) = {}
    <3>1. \A q \in parts : q.service = A.sid => q.name # Head(A.todo)
      BY <2>3, NamedPartIs DEF Fits
    <3> QED
      BY <2>1, <2>3, <3>1 DEF CheckedBy, KeepsService, tables
  <2> QED
    BY <2>1, <2>2, <2>3
<1>4. CASE CreatePart(a)
  <2>1. /\ A.pc = "addpart" /\ UNCHANGED tables /\ adder'[a].pc \notin {"addservice", "addpart"}
        /\ (adder'[a].buf = {} \/ adder'[a].buf = A.buf \cup {NewPart(a)})
    BY <1>0, <1>4, CreatePartDoes
  <2>2. CASE adder'[a].buf = {}
    BY <2>1, <2>2, CheckedKept DEF tables
  <2>3. CASE adder'[a].buf = A.buf \cup {NewPart(a)}
    <3>1. NewPart(a).service = A.sid /\ NewPart(a).name = Head(A.todo)
      BY <1>0, <2>1, NewPartTagged
    <3>2. \A q \in parts : q.by[1] = a /\ q.service = NewPart(a).service => q.name # NewPart(a).name
      BY <2>1, <3>1 DEF CheckedBy
    <3>3. \A p \in parts \cup adder'[a].buf, q \in parts :
            p.by[1] = a /\ q.by[1] = a /\ p.service = q.service /\ p.name = q.name => p.by[2] = q.by[2]
      BY <2>3, <3>2 DEF CheckedBy
    <3> QED
      BY <2>1, <3>3 DEF CheckedBy, tables
  <2> QED
    BY <2>1, <2>2, <2>3
<1>5. CASE CommitService(a)
  <2>1. /\ adder'[a].pc \notin {"addservice", "addpart"} /\ parts' = parts \cup A.buf
        /\ services' = services /\ adder'[a].buf = {}
    BY <1>0, <1>5, CommitServiceDoes DEF Advances, NextPlace
  <2>2. \A p \in A.buf : p.by[2] = A.i
    BY <1>0 DEF Buffer
  <2>3. \A p, q \in parts \cup A.buf :
          p.by[1] = a /\ q.by[1] = a /\ p.service = q.service /\ p.name = q.name => p.by[2] = q.by[2]
    <3> SUFFICES ASSUME NEW p \in parts \cup A.buf, NEW q \in parts \cup A.buf,
                        p.by[1] = a, q.by[1] = a, p.service = q.service, p.name = q.name
                 PROVE  p.by[2] = q.by[2]
      OBVIOUS
    <3>1. CASE q \in parts
      BY <3>1 DEF CheckedBy
    <3>2. CASE p \in parts
      BY <3>2 DEF CheckedBy
    <3>3. CASE p \in A.buf /\ q \in A.buf
      BY <2>2, <3>3
    <3> QED
      BY <3>1, <3>2, <3>3
  <2> QED
    BY <2>1, <2>3 DEF CheckedBy
<1>6. CASE CheckName(a) \/ CreateModel(a) \/ ReadModel(a) \/ ReadService(a)
  <2>1. adder'[a].buf \subseteq A.buf /\ services' = services /\ parts' = parts
    BY <1>0, <1>6, CheckNameDoes, CreateModelDoes, ReadModelDoes, ReadServiceDoes
       DEF KeepsBuffer, tables, Advances
  <2>2. adder'[a].pc \notin {"addservice", "addpart"}
    BY <1>0, <1>6, CheckNameDoes, CreateModelDoes, ReadModelDoes, ReadServiceDoes DEF Advances, NextPlace
  <2> QED
    BY <2>1, <2>2, CheckedKept
<1> QED
  BY <1>1, <1>2, <1>3, <1>4, <1>5, <1>6 DEF AddStep

LEMMA ChecksStep ==
  ASSUME Structure, Checked, ModelsStay, [Next]_vars
  PROVE  Checked'
<1> SUFFICES ASSUME faults' = {}, NEW b \in Adders PROVE CheckedBy(b)'
  BY DEF Checked
<1>0. Types /\ Keys /\ Locals /\ Buffers /\ Marks /\ CheckedBy(b) /\ b # Others
  BY CallersApart DEF Structure, Checked, ModelsStay
<1>1. ASSUME NEW a \in Adders, AddStep(a) \/ AddFails(a) PROVE CheckedBy(b)'
  <2>1. ~ AddFails(a)
    BY <1>0, AddFailsDoes
  <2>2. CASE b = a
    BY <1>0, <1>1, <2>1, <2>2, CheckedStep
  <2>3. CASE b # a
    <3>1. AddsRows(a)
      BY <1>0, <1>1, AddStepDoes
    <3>2. adder'[b] = adder[b] /\ \A s \in services' : s.by = b => s \in services
      BY <2>3, <3>1 DEF AddsRows, Frame
    <3>3. \A p \in parts' : p.by[1] = b => p \in parts
      BY <1>0, <2>3, <3>1 DEF AddsRows, Buffers, Buffer, Tagged
    <3> QED
      BY <1>0, <3>2, <3>3, CheckedKept DEF KeepsService
  <2> QED
    BY <2>2, <2>3
<1>2. ~ Crash /\ ~ DeleteFails
  BY <1>0, CrashDoes, DeleteFailsDoes
<1>3. CASE OtherStep
  <2>1. OtherRows
    BY <1>0, <1>3, OtherStepDoes
  <2>2. adder' = adder /\ \A s \in services' : s.by = b => s \in services
    BY <1>0, <2>1 DEF OtherRows, OthersServices
  <2>3. \A p \in parts' : p.by[1] = b => p \in parts
    BY <1>0, <2>1 DEF OtherRows, OthersParts
  <2> QED
    BY <1>0, <2>2, <2>3, CheckedKept DEF KeepsService
<1>4. ASSUME UNCHANGED adder, services' \subseteq services, parts' \subseteq parts PROVE CheckedBy(b)'
  BY <1>0, <1>4, CheckedKept DEF KeepsService
<1>5. CASE CommitDelete
  <2>1. UNCHANGED adder /\ services' \subseteq services /\ parts' \subseteq parts
    BY <1>0, <1>5, CommitDeleteDoes
  <2> QED
    BY <1>4, <2>1
<1>6. CASE (\E id \in 0 .. lastModel : ListServices(id)) \/ DeleteParts \/ DeleteServices \/ DeleteModel
  <2>1. UNCHANGED <<adder, tables>>
    BY <1>0, <1>6, ListServicesDoes, DeletePartsDoes, DeleteServicesDoes, DeleteModelDoes
  <2> QED
    BY <1>4, <2>1 DEF tables
<1>7. CASE UNCHANGED vars
  BY <1>4, <1>7 DEF vars
<1> QED
  BY <1>1, <1>2, <1>3, <1>5, <1>6, <1>7, NextCases DEF DeleteStep

LEMMA FromTheEnd ==
  ASSUME NEW n \in Nat, NEW x \in 1 .. n, NEW y \in 1 .. n, x # y
  PROVE  n - x + 1 \in 1 .. n /\ n - y + 1 \in 1 .. n /\ n - x + 1 # n - y + 1
OBVIOUS

\* Two parts of one call and one service of its request, with one name: the request
\* repeats the name.
LEMMA RepeatedName ==
  ASSUME NEW a \in Adders, NEW p \in PartRow, NEW q \in PartRow, Tagged(p, a), Tagged(q, a),
         p.by[2] = q.by[2], Twins(p, q)
  PROVE  Repeats(a)
<1> DEFINE i == p.by[2]
           all == Wanted[a][i].parts
           j == Len(all) - p.by[3] + 1
           k == Len(all) - q.by[3] + 1
<1>1. /\ i \in 1 .. Len(Wanted[a]) /\ p.by[3] \in 1 .. Len(all) /\ q.by[3] \in 1 .. Len(all)
      /\ p.name = all[j] /\ q.name = all[k]
  BY DEF Tagged
<1>2. p.by[3] # q.by[3]
  <2> SUFFICES ASSUME p.by[3] = q.by[3] PROVE p = q
    BY DEF Twins
  <2>1. p.by = q.by
    BY DEF Tagged
  <2> QED
    BY <2>1 DEF Twins, PartRow
<1>3. Len(all) \in Nat
  <2>1. Wanted[a] \in Seq([name : Labels, parts : Seq(Labels)]) /\ i \in 1 .. Len(Wanted[a])
    BY <1>1, CallersApart
  <2>2. Wanted[a][i] \in [name : Labels, parts : Seq(Labels)]
    BY <2>1, ElementOf
  <2> QED
    BY <2>2
<1>4. j \in 1 .. Len(all) /\ k \in 1 .. Len(all) /\ j # k
  <2> HIDE DEF all
  <2> QED
    BY <1>1, <1>2, <1>3, FromTheEnd
<1>5. all[j] = all[k]
  BY <1>1 DEF Twins
<1> QED
  BY <1>1, <1>4, <1>5 DEF Repeats

\* Two rows of one name below one model need a race of two calls that fill it, a failed
\* check, a request that repeats a name within a service, or a row stored by itself.
THEOREM TwinsOnlyByRaces == Spec => []TwinsNeedARace
<1>1. Init => Structure /\ Checked
  <2>1. ASSUME Init PROVE Checked
    <3>1. \A a \in Adders : adder[a].pc = "check"
      BY <2>1 DEF Init
    <3> QED
      BY <2>1, <3>1 DEF Init, Checked, CheckedBy
  <2> QED
    BY <2>1, InitStructure
<1>2. Structure /\ Checked /\ [Next]_vars => Structure' /\ Checked'
  <2>1. Structure /\ [Next]_vars => ModelsStay
    BY ModelsKept DEF Structure
  <2> QED
    BY <2>1, StructureStep, ChecksStep
<1>3. ASSUME Structure, Checked PROVE TwinsNeedARace
  <2>0. /\ Types /\ Keys /\ \A a \in Adders : OwnRow(a)
        /\ faults = {} => \A a \in Adders : CheckedBy(a)
    BY <1>3 DEF Structure, OwnRows, Checked
  <2>1. ASSUME TwinServices, faults = {} PROVE Shared
    <3>1. PICK s \in services, t \in services :
            s.id # t.id /\ s.model = t.model /\ s.name = t.name /\ Others \notin {s.by, t.by}
      BY <2>1 DEF TwinServices
    <3>2. s.by \in Adders /\ t.by \in Adders
      BY <2>0, <3>1 DEF Types, ServiceRow
    <3>3. s.by # t.by
      BY <2>0, <2>1, <3>1, <3>2 DEF CheckedBy
    <3>4. adder[s.by].id = s.model /\ adder[t.by].id = s.model /\ s.model # 0
      BY <2>0, <3>1, <3>2 DEF OwnRow, Keys
    <3> QED
      BY <3>2, <3>3, <3>4 DEF Shared
  <2>2. ASSUME NEW p \in parts, NEW q \in parts, Twins(p, q), Others \notin {p.by[1], q.by[1]}, faults = {}
        PROVE  Shared \/ Repeats(p.by[1])
    <3> DEFINE a == p.by[1]
               b == q.by[1]
    <3>1. a \in Adders /\ b \in Adders /\ p \in PartRow /\ q \in PartRow
      BY <2>0, <2>2, TagOf DEF Types
    <3>2. /\ Tagged(p, a) /\ Below(p.service, adder[a].id) /\ adder[a].id # 0
          /\ Tagged(q, b) /\ Below(q.service, adder[b].id)
      BY <2>0, <3>1 DEF OwnRow
    <3>3. CASE a = b
      <4>1. p.by[2] = q.by[2]
        BY <2>0, <2>2, <3>1, <3>3 DEF CheckedBy, Twins
      <4> QED
        BY <2>2, <3>1, <3>2, <3>3, <4>1, RepeatedName
    <3>4. CASE a # b
      <4>1. PICK s \in services : s.id = p.service
        BY <2>0 DEF Keys
      <4>2. adder[a].id = s.model /\ adder[b].id = s.model
        BY <2>2, <3>2, <4>1 DEF Below, Twins
      <4> QED
        BY <3>1, <3>2, <3>4, <4>2 DEF Shared
    <3> QED
      BY <3>3, <3>4
  <2> QED
    BY <2>1, <2>2 DEF TwinsNeedARace
<1> QED
  BY <1>1, <1>2, <1>3, PTL DEF Spec
================================================================================

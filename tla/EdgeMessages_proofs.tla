------------------------- MODULE EdgeMessages_proofs -------------------------
(***************************************************************************)
(* Which replies fit which requests, for any names (of any number of        *)
(* levels), objects, values and length of the queues.                       *)
(***************************************************************************)
EXTENDS EdgeMessages, SequenceTheorems, TLAPS

\* The levels of topics; that these seven are strings the provers do not know.
Levels == STRING \cup {"adv", "ithings", "server", "edge", "mapper", "reply", ""}

\* A name of one level.
OneLevel == {<<s>> : s \in Levels}

ReplyOf(e, m) == [edge |-> e, mapper |-> m, op |-> Reply]

\* A mapper whose names have a slash has replied: its reply may look like a request.
Confused == \E e \in Edges, m \in Mappers :
  ~ Plain(ReplyOf(e, m)) /\ \E y \in up : y.topic = BuildTopic(EdgePrefix, ReplyOf(e, m))

\* What the core may reply to, and where: a request that a mapper made.
Due(e, m, i) ==
  IF i \in Asks THEN asked[i] # Nil /\ (Plain(asked[i]) => e = asked[i].edge /\ m = asked[i].mapper)
  ELSE i = OtherId /\ Confused

\* What the core may take for the response with parent id p, and from where.
Comes(e, m, p) ==
  IF p = Nil THEN \E i \in Asks : asked[i] # Nil /\ ~ Plain(asked[i])
  ELSE /\ p \in Objects /\ heap[p] # Nil
       /\ Plain(heap[p]) => e = heap[p].edge /\ m = heap[p].mapper

Requests == {q \in [edge : OneLevel, mapper : OneLevel, op : Levels, resource : OneLevel,
                    id : Asks \cup {OtherId}, content : Contents] : Due(q.edge, q.mapper, q.id)}

Responses == {a \in [edge : OneLevel, mapper : OneLevel, op : {Reply},
                     pid : Objects \cup {Nil}, content : Contents] : Comes(a.edge, a.mapper, a.pid)}

Replies == {a \in [edge : OneLevel, mapper : OneLevel, op : {Reply},
                   pid : Asks \cup {OtherId}, content : Contents] : Due(a.edge, a.mapper, a.pid)}

SentObjects == {o \in Objects : heap[o] # Nil /\ meant[o] # {}}

\* What waits to be published: objects that were sent, and replies that are due.
Waiting == {[req |-> o] : o \in SentObjects} \cup {[resp |-> a] : a \in Replies}

\* What is published for mappers: an object as it is, unless it was changed ...
IsSent(x) == \E o \in SentObjects, c \in Contents :
  /\ x = Message(BuildTopic(ServerPrefix, heap[o]), [id |-> o, content |-> c])
  /\ o \notin reused => c = Json[heap[o].content]

\* ... and replies.
IsReplied(x) == \E a \in Replies, c \in Contents :
  x = Message(BuildTopic(ServerPrefix, a), [id |-> OtherId, pid |-> a.pid, content |-> c])

\* What is published by mappers: requests ...
IsAsked(x) == \E i \in Asks :
  /\ asked[i] # Nil
  /\ \E payload \in {[id |-> i, content |-> Empty], Nil} :
       x = Message(BuildTopic(EdgePrefix, asked[i]), payload)

\* ... and replies to objects that were published for their names.
IsAnswer(x) == \E o \in Objects, e \in Edges, m \in Mappers :
  /\ heap[o] # Nil
  /\ x = Message(BuildTopic(EdgePrefix, ReplyOf(e, m)), [id |-> OtherId, pid |-> o, content |-> Empty])
  /\ Plain(heap[o]) => <<x.topic[4]>> = heap[o].edge /\ <<x.topic[6]>> = heap[o].mapper

\* The text of an object is that of the value that it was last given, if it has one.
Fits(v, text) == IF v = Nil THEN text = Empty ELSE v \in Broken \/ text = TextOf[v]

\* An object that was not changed after a send was sent with one value.
Held ==
  \A o \in Objects :
    IF heap[o] = Nil THEN given[o] = Nil /\ meant[o] = {}
    ELSE Fits(given[o], heap[o].content) /\ (o \notin reused => meant[o] \subseteq {given[o]})

Types ==
  /\ heap \in [Objects -> Request \cup {Nil}]
  /\ given \in [Objects -> Values \cup {Nil}]
  /\ meant \in [Objects -> SUBSET (Values \cup {Nil})]
  /\ reused \subseteq {o \in Objects : heap[o] # Nil}
  /\ asked \in [Asks -> Route \cup {Nil}]
  /\ silent \subseteq Asks \cup {OtherId}
  /\ Len(queue) <= MaxPending /\ Len(core) <= MaxArrived

Places ==
  /\ queue \in Seq(Waiting) /\ core \in Seq(Requests \cup Responses) /\ answers \subseteq Responses
  /\ \A x \in down : IsSent(x) \/ IsReplied(x)
  /\ \A x \in up : IsAsked(x) \/ IsAnswer(x)

IInv == Types /\ Held /\ Places

-----------------------------------------------------------------------------
(* Topics and sequences *)

LEMMA NamesAre ==
  /\ \A n \in Names : n \in Seq(Levels) /\ n # <<>> /\ Len(n) \in Nat \ {0}
  /\ \A op \in Operations : op \in Levels /\ op # Reply
<1>1. ASSUME NEW n \in Names PROVE n \in Seq(Levels)
  <2>1. n \in Seq(STRING)
    BY MessagesAssumption
  <2>2. /\ n \in [1 .. Len(n) -> STRING] /\ Len(n) \in Nat
    BY <2>1, LenProperties
  <2>3. n \in [1 .. Len(n) -> Levels]
    BY <2>2 DEF Levels
  <2> QED
    BY <2>2, <2>3, SeqDef
<1>2. \A n \in Names : n # <<>>
  BY MessagesAssumption
<1> QED
  BY <1>1, <1>2, EmptySeq, LenProperties, MessagesAssumption DEF Levels, Reply

LEMMA Prefixes ==
  /\ ServerPrefix \in Seq(Levels) /\ Len(ServerPrefix) = 3
  /\ EdgePrefix \in Seq(Levels) /\ Len(EdgePrefix) = 3
BY DEF ServerPrefix, EdgePrefix, Levels

LEMMA ConcatIs ==
  ASSUME NEW S, NEW s \in Seq(S), NEW t \in Seq(S)
  PROVE  /\ s \o t \in Seq(S) /\ Len(s \o t) = Len(s) + Len(t) /\ Len(s) \in Nat /\ Len(t) \in Nat
         /\ \A k \in 1 .. Len(s) : (s \o t)[k] = s[k]
         /\ \A k \in 1 .. Len(t) : (s \o t)[Len(s) + k] = t[k]
<1>1. s \o t \in Seq(S) /\ Len(s \o t) = Len(s) + Len(t) /\ Len(s) \in Nat /\ Len(t) \in Nat
  OBVIOUS
<1>2. \A k \in 1 .. Len(s) : (s \o t)[k] = s[k]
  OBVIOUS
<1>3. \A k \in 1 .. Len(t) : (s \o t)[Len(s) + k] = t[k]
  OBVIOUS
<1> QED
  BY <1>1, <1>2, <1>3

\* A sequence that is put together of two, and one with a level more.
Joined(u, s, t) ==
  /\ Len(u) = Len(s) + Len(t) /\ Len(s) \in Nat /\ Len(t) \in Nat
  /\ \A k \in 1 .. Len(s) : u[k] = s[k]
  /\ \A k \in 1 .. Len(t) : u[Len(s) + k] = t[k]

LEMMA ConcatJoins ==
  ASSUME NEW s \in Seq(Levels), NEW t \in Seq(Levels)
  PROVE  s \o t \in Seq(Levels) /\ Joined(s \o t, s, t)
BY ConcatIs DEF Joined

LEMMA OneMore ==
  ASSUME NEW s \in Seq(Levels), NEW x \in Levels
  PROVE  s \o <<x>> \in Seq(Levels) /\ Joined(s \o <<x>>, s, <<x>>) /\ Len(<<x>>) = 1 /\ <<x>>[1] = x
<1>1. <<x>> \in Seq(Levels) /\ Len(<<x>>) = 1 /\ <<x>>[1] = x
  OBVIOUS
<1> QED
  BY <1>1, ConcatJoins

LEMMA Lengths ==
  ASSUME NEW i \in Nat \ {0}, NEW j \in Nat \ {0}
  PROVE  /\ 4 + i \in Nat /\ (i = 1 => (4 + i) + 1 = 6)
         /\ 4 + i + j \in Nat /\ 4 + i + j >= 6
         /\ 4 \in 1 .. (4 + i) /\ 1 \in 1 .. j
OBVIOUS

\* The levels that every topic begins with, up to the name of the mapper.
Heading(prefix, e, m) == ((prefix \o e) \o <<"mapper">>) \o m

LEMMA HeadingIs ==
  ASSUME NEW prefix \in Seq(Levels), Len(prefix) = 3,
         NEW e \in Seq(Levels), Len(e) \in Nat \ {0}, NEW m \in Seq(Levels), Len(m) \in Nat \ {0}
  PROVE  /\ Heading(prefix, e, m) \in Seq(Levels)
         /\ Len(Heading(prefix, e, m)) = 4 + Len(e) + Len(m)
         /\ Heading(prefix, e, m)[4] = e[1]
         /\ Len(e) = 1 => Heading(prefix, e, m)[6] = m[1]
<1> DEFINE a == prefix \o e
           b == a \o <<"mapper">>
           c == b \o m
<1>1. a \in Seq(Levels) /\ Joined(a, prefix, e)
  BY ConcatJoins
<1>2. b \in Seq(Levels) /\ Joined(b, a, <<"mapper">>) /\ Len(<<"mapper">>) = 1
  <2>1. "mapper" \in Levels
    BY DEF Levels
  <2> HIDE DEF a
  <2> QED
    BY <1>1, <2>1, OneMore
<1>3. c \in Seq(Levels) /\ Joined(c, b, m)
  <2> HIDE DEF b
  <2> QED
    BY <1>2, ConcatJoins
<1> HIDE DEF a, b, c
<1>4. /\ Len(c) = 4 + Len(e) + Len(m) /\ c[4] = e[1] /\ (Len(e) = 1 => c[6] = m[1])
  <2>1. Len(a) = 3 + Len(e) /\ a[3 + 1] = e[1]
    BY <1>1 DEF Joined
  <2>2. Len(b) = 4 + Len(e) /\ b[4] = e[1]
    BY <1>2, <2>1 DEF Joined
  <2>3. 4 \in 1 .. Len(b) /\ 1 \in 1 .. Len(m) /\ (Len(e) = 1 => Len(b) + 1 = 6)
    <3>1. 4 \in 1 .. (4 + Len(e)) /\ 1 \in 1 .. Len(m) /\ (Len(e) = 1 => (4 + Len(e)) + 1 = 6)
      BY Lengths
    <3> QED
      BY <2>2, <3>1
  <2> QED
    BY <1>3, <2>2, <2>3 DEF Joined
<1>5. Heading(prefix, e, m) = c
  BY DEF Heading, a, b, c
<1> QED
  BY <1>3, <1>4, <1>5

\* A topic of a request has the operation and the resource below its heading, ...
LEMMA RequestTopic ==
  ASSUME NEW prefix \in Seq(Levels), Len(prefix) = 3, NEW r,
         r.edge \in Edges, r.mapper \in Mappers, r.resource \in Resources, r.op \in Operations
  PROVE  LET H == Heading(prefix, r.edge, r.mapper)
             T == BuildTopic(prefix, r)
         IN  /\ T \in Seq(Levels) /\ Len(T) = Len(H) + 1 + Len(r.resource)
             /\ H \in Seq(Levels) /\ Len(H) \in Nat /\ Len(H) >= 6 /\ Len(r.resource) \in Nat \ {0}
             /\ \A k \in 1 .. Len(H) : T[k] = H[k]
             /\ T[Len(H) + 1] = r.op
             /\ T[Len(H) + 2] = r.resource[1]
<1> DEFINE H == Heading(prefix, r.edge, r.mapper)
           d == H \o <<r.op>>
           T == d \o r.resource
<1>0. /\ r.edge \in Seq(Levels) /\ Len(r.edge) \in Nat \ {0}
      /\ r.mapper \in Seq(Levels) /\ Len(r.mapper) \in Nat \ {0}
      /\ r.resource \in Seq(Levels) /\ Len(r.resource) \in Nat \ {0}
      /\ r.op \in Levels /\ r.op # Reply
  BY NamesAre DEF Names
<1>1. H \in Seq(Levels) /\ Len(H) = 4 + Len(r.edge) + Len(r.mapper)
  BY <1>0, HeadingIs
<1>2. BuildTopic(prefix, r) = T
  BY <1>0 DEF BuildTopic, Heading
<1> HIDE DEF H
<1>3. d \in Seq(Levels) /\ Joined(d, H, <<r.op>>) /\ Len(<<r.op>>) = 1 /\ <<r.op>>[1] = r.op
  BY <1>0, <1>1, OneMore
<1>4. T \in Seq(Levels) /\ Joined(T, d, r.resource)
  <2> HIDE DEF d
  <2> QED
    BY <1>0, <1>3, ConcatJoins
<1> HIDE DEF d, T
<1>5. /\ Len(T) = Len(H) + 1 + Len(r.resource)
      /\ T[Len(H) + 2] = r.resource[1] /\ T[Len(H) + 1] = r.op /\ \A k \in 1 .. Len(H) : T[k] = H[k]
  <2>1. Len(d) = Len(H) + 1 /\ Len(H) \in Nat /\ d[Len(H) + 1] = r.op /\ \A k \in 1 .. Len(H) : d[k] = H[k]
    BY <1>3 DEF Joined
  <2>2. 1 \in 1 .. Len(r.resource) /\ Len(d) + 1 = Len(H) + 2 /\ Len(H) + 1 \in 1 .. Len(d)
        /\ \A k \in 1 .. Len(H) : k \in 1 .. Len(d)
    BY <1>0, <2>1
  <2> QED
    BY <1>4, <2>1, <2>2 DEF Joined
<1>6. Len(H) \in Nat /\ Len(H) >= 6
  BY <1>0, <1>1, Lengths
<1> QED
  BY <1>0, <1>1, <1>2, <1>4, <1>5, <1>6 DEF H

\* ... one of a reply has "reply" there.
LEMMA ReplyTopic ==
  ASSUME NEW prefix \in Seq(Levels), Len(prefix) = 3, NEW r,
         r.edge \in Seq(Levels), Len(r.edge) \in Nat \ {0},
         r.mapper \in Seq(Levels), Len(r.mapper) \in Nat \ {0}, r.op = Reply
  PROVE  LET H == Heading(prefix, r.edge, r.mapper)
             T == BuildTopic(prefix, r)
         IN  /\ T = H \o <<Reply>>
             /\ T \in Seq(Levels) /\ Len(T) = Len(H) + 1
             /\ H \in Seq(Levels) /\ Len(H) \in Nat /\ Len(H) >= 6
             /\ \A k \in 1 .. Len(H) : T[k] = H[k]
             /\ T[Len(H) + 1] = Reply
<1> DEFINE H == Heading(prefix, r.edge, r.mapper)
           d == H \o <<Reply>>
<1>1. H \in Seq(Levels) /\ Len(H) \in Nat /\ Len(H) >= 6
  <2>1. H \in Seq(Levels) /\ Len(H) = 4 + Len(r.edge) + Len(r.mapper)
    BY HeadingIs
  <2> HIDE DEF H
  <2> QED
    BY <2>1, Lengths
<1>2. BuildTopic(prefix, r) = d \o <<>>
  BY DEF BuildTopic, Heading
<1> HIDE DEF H
<1>3. /\ d \in Seq(Levels) /\ Len(d) = Len(H) + 1 /\ d[Len(H) + 1] = Reply
      /\ \A k \in 1 .. Len(H) : d[k] = H[k]
  <2>1. Reply \in Levels
    BY DEF Reply, Levels
  <2>2. d \in Seq(Levels) /\ Joined(d, H, <<Reply>>) /\ Len(<<Reply>>) = 1 /\ <<Reply>>[1] = Reply
    BY <1>1, <2>1, OneMore
  <2> HIDE DEF d
  <2> QED
    BY <2>2 DEF Joined
<1>4. d \o <<>> = d
  <2> HIDE DEF d
  <2> QED
    BY <1>3, ConcatEmptySeq
<1> QED
  BY <1>1, <1>2, <1>3, <1>4 DEF H

LEMMA Reach ==
  ASSUME NEW n \in Nat, n >= 6
  PROVE  /\ 4 \in 1 .. n /\ 6 \in 1 .. n /\ n + 1 \in Nat /\ n + 1 >= 7
         /\ \A i \in Nat \ {0} : n + 1 + i \in Nat /\ n + 1 + i > 7
OBVIOUS

LEMMA LevelsOf ==
  ASSUME NEW t \in Seq(Levels), Len(t) > 7
  PROVE  t[4] \in Levels /\ t[6] \in Levels /\ t[7] \in Levels /\ t[8] \in Levels
OBVIOUS

\* What the transport makes of the topic of a request: the names again, if plain.
LEMMA RequestLevels ==
  ASSUME NEW prefix \in Seq(Levels), Len(prefix) = 3, NEW r,
         r.edge \in Edges, r.mapper \in Mappers, r.resource \in Resources, r.op \in Operations
  PROVE  LET T == BuildTopic(prefix, r)
         IN  /\ T \in Seq(Levels) /\ Len(T) \in Nat /\ Len(T) > 7
             /\ T[4] \in Levels /\ T[6] \in Levels /\ T[7] \in Levels /\ T[8] \in Levels
             /\ Plain(r) => /\ <<T[4]>> = r.edge /\ <<T[6]>> = r.mapper
                            /\ T[7] = r.op /\ T[7] # Reply /\ T[8] = r.resource[1]
<1> DEFINE H == Heading(prefix, r.edge, r.mapper)
           T == BuildTopic(prefix, r)
<1>1. /\ T \in Seq(Levels) /\ Len(T) = Len(H) + 1 + Len(r.resource)
      /\ H \in Seq(Levels) /\ Len(H) \in Nat /\ Len(H) >= 6 /\ Len(r.resource) \in Nat \ {0}
      /\ \A k \in 1 .. Len(H) : T[k] = H[k]
      /\ T[Len(H) + 1] = r.op
      /\ T[Len(H) + 2] = r.resource[1]
  BY RequestTopic
<1>2. /\ r.edge \in Seq(Levels) /\ Len(r.edge) \in Nat \ {0}
      /\ r.mapper \in Seq(Levels) /\ Len(r.mapper) \in Nat \ {0}
      /\ r.op # Reply
  BY NamesAre DEF Names
<1>3. /\ Len(H) = 4 + Len(r.edge) + Len(r.mapper)
      /\ H[4] = r.edge[1] /\ (Len(r.edge) = 1 => H[6] = r.mapper[1])
  BY <1>2, HeadingIs
<1> HIDE DEF H, T
<1>4. Len(T) \in Nat /\ Len(T) > 7
  BY <1>1, Reach
<1>5. T[4] \in Levels /\ T[6] \in Levels /\ T[7] \in Levels /\ T[8] \in Levels
  BY <1>1, <1>4, LevelsOf
<1>6. T[4] = H[4] /\ T[6] = H[6]
  BY <1>1, Reach
<1>7. ASSUME Plain(r)
      PROVE  /\ <<T[4]>> = r.edge /\ <<T[6]>> = r.mapper
             /\ T[7] = r.op /\ T[7] # Reply /\ T[8] = r.resource[1]
  <2>1. Len(r.edge) = 1 /\ Len(r.mapper) = 1
    BY <1>7 DEF Plain
  <2>2. r.edge = <<r.edge[1]>> /\ r.mapper = <<r.mapper[1]>>
    BY <1>2, <2>1
  <2>3. Len(H) = 6
    BY <1>3, <2>1
  <2>4. T[4] = r.edge[1] /\ T[6] = r.mapper[1]
    BY <1>3, <1>6, <2>1
  <2>5. T[7] = r.op /\ T[8] = r.resource[1]
    BY <1>1, <2>3
  <2> QED
    BY <1>2, <2>2, <2>4, <2>5
<1> QED
  BY <1>1, <1>4, <1>5, <1>7 DEF T

\* ... and of that of a reply.
LEMMA ReplyLevels ==
  ASSUME NEW prefix \in Seq(Levels), Len(prefix) = 3, NEW r,
         r.edge \in Seq(Levels), Len(r.edge) \in Nat \ {0},
         r.mapper \in Seq(Levels), Len(r.mapper) \in Nat \ {0}, r.op = Reply
  PROVE  LET H == Heading(prefix, r.edge, r.mapper)
             T == BuildTopic(prefix, r)
         IN  /\ T \in Seq(Levels) /\ Len(T) \in Nat /\ Len(T) >= 7 /\ Len(T) = Len(H) + 1
             /\ T[4] \in Levels /\ T[6] \in Levels /\ T[7] \in Levels
             /\ Len(T) > 7 => T[8] \in Levels
             /\ T[4] = H[4] /\ T[6] = H[6] /\ Len(H) >= 6
             /\ Plain(r) => T[7] = Reply
<1> DEFINE H == Heading(prefix, r.edge, r.mapper)
           T == BuildTopic(prefix, r)
<1>1. /\ T \in Seq(Levels) /\ Len(T) = Len(H) + 1
      /\ H \in Seq(Levels) /\ Len(H) \in Nat /\ Len(H) >= 6
      /\ \A k \in 1 .. Len(H) : T[k] = H[k]
      /\ T[Len(H) + 1] = Reply
  BY ReplyTopic
<1>2. Len(H) = 4 + Len(r.edge) + Len(r.mapper)
  BY HeadingIs
<1> HIDE DEF H, T
<1>3. Len(T) \in Nat /\ Len(T) >= 7
  BY <1>1
<1>4. T[4] \in Levels /\ T[6] \in Levels /\ T[7] \in Levels /\ (Len(T) > 7 => T[8] \in Levels)
  BY <1>1, <1>3
<1>5. T[4] = H[4] /\ T[6] = H[6]
  BY <1>1, Reach
<1>6. Plain(r) => T[7] = Reply
  BY <1>1, <1>2 DEF Plain
<1> QED
  BY <1>1, <1>3, <1>4, <1>5, <1>6 DEF T, H

\* Sequences with the same levels from the fourth on.
Alike(s, t) == Len(s) = Len(t) /\ \A k \in 4 .. Len(s) : s[k] = t[k]

LEMMA ConcatAlike ==
  ASSUME NEW s \in Seq(Levels), NEW t \in Seq(Levels), NEW u \in Seq(Levels), Alike(s, t)
  PROVE  Alike(s \o u, t \o u)
<1> DEFINE a == s \o u
           b == t \o u
<1>1. Joined(a, s, u) /\ Joined(b, t, u)
  BY ConcatJoins
<1> HIDE DEF a, b
<1>2. Len(a) = Len(b) /\ Len(s) = Len(t) /\ Len(s) \in Nat /\ Len(u) \in Nat /\ Len(a) = Len(s) + Len(u)
  BY <1>1 DEF Alike, Joined
<1>3. ASSUME NEW k \in 4 .. Len(a) PROVE a[k] = b[k]
  <2>1. CASE k <= Len(s)
    BY <1>1, <1>2, <2>1 DEF Alike, Joined
  <2>2. CASE k > Len(s)
    <3> DEFINE j == k - Len(s)
    <3>1. j \in 1 .. Len(u) /\ k = Len(s) + j
      BY <1>2, <2>2
    <3> HIDE DEF j
    <3> QED
      BY <1>1, <1>2, <3>1 DEF Joined
  <2> QED
    BY <1>2, <2>1, <2>2
<1>4. Alike(a, b)
  BY <1>2, <1>3 DEF Alike
<1> QED
  BY <1>4 DEF a, b

\* Those below the names of a mapper are alike, whoever published them.
LEMMA HeadingsAlike ==
  ASSUME NEW e \in Seq(Levels), Len(e) \in Nat \ {0}, NEW m \in Seq(Levels), Len(m) \in Nat \ {0}
  PROVE  Alike(Heading(ServerPrefix, e, m), Heading(EdgePrefix, e, m))
<1> DEFINE s == ServerPrefix \o e
           t == EdgePrefix \o e
           u == <<"mapper">>
<1>1. Alike(ServerPrefix, EdgePrefix)
  BY Prefixes DEF Alike
<1>2. s \in Seq(Levels) /\ t \in Seq(Levels) /\ Alike(s, t)
  BY <1>1, Prefixes, ConcatAlike, ConcatIs
<1>3. u \in Seq(Levels)
  <2>1. "mapper" \in Levels
    BY DEF Levels
  <2> QED
    BY <2>1
<1> HIDE DEF s, t, u
<1>4. s \o u \in Seq(Levels) /\ t \o u \in Seq(Levels) /\ Alike(s \o u, t \o u)
  BY <1>2, <1>3, ConcatAlike, ConcatIs
<1>5. Alike((s \o u) \o m, (t \o u) \o m)
  <2> DEFINE a == s \o u
             b == t \o u
  <2>1. a \in Seq(Levels) /\ b \in Seq(Levels) /\ Alike(a, b)
    BY <1>4
  <2> HIDE DEF a, b
  <2>2. Alike(a \o m, b \o m)
    BY <2>1, ConcatAlike
  <2> QED
    BY <2>2 DEF a, b
<1> QED
  BY <1>5 DEF Heading, s, t, u

-----------------------------------------------------------------------------
(* What a step leaves true of what is under way *)

LEMMA SeqGrows ==
  ASSUME NEW S, NEW T, S \subseteq T, NEW s \in Seq(S)
  PROVE  s \in Seq(T)
OBVIOUS

LEMMA SameTopic ==
  ASSUME NEW prefix, NEW r, NEW q,
         q.edge = r.edge, q.mapper = r.mapper, q.op = r.op, q.op = Reply \/ q.resource = r.resource
  PROVE  BuildTopic(prefix, q) = BuildTopic(prefix, r)
BY DEF BuildTopic

\* Objects keep their names, those that were sent and not changed their content too;
\* requests of mappers and what they published stay.
Kept ==
  /\ \A o \in Objects : heap[o] # Nil =>
       /\ heap'[o] # Nil
       /\ heap'[o].edge = heap[o].edge /\ heap'[o].mapper = heap[o].mapper
       /\ heap'[o].resource = heap[o].resource /\ heap'[o].op = heap[o].op
  /\ \A o \in Objects : heap[o] # Nil /\ meant[o] # {} =>
       meant'[o] # {} /\ (o \notin reused' => o \notin reused /\ heap'[o].content = heap[o].content)
  /\ \A i \in Asks : asked[i] # Nil => asked'[i] = asked[i]
  /\ up \subseteq up'

LEMMA DueGrows ==
  ASSUME Kept
  PROVE  /\ \A e, m, i : Due(e, m, i) => Due(e, m, i)'
         /\ \A e, m, p : Comes(e, m, p) => Comes(e, m, p)'
<1>1. Confused => Confused'
  BY DEF Kept, Confused
<1>2. ASSUME NEW e, NEW m, NEW i, Due(e, m, i) PROVE Due(e, m, i)'
  <2> USE <1>2
  <2>1. CASE i \in Asks
    BY <2>1 DEF Due, Kept, Plain
  <2>2. CASE i \notin Asks
    BY <1>1, <2>2 DEF Due
  <2> QED
    BY <2>1, <2>2
<1>3. ASSUME NEW e, NEW m, NEW p, Comes(e, m, p) PROVE Comes(e, m, p)'
  <2> USE <1>3
  <2>1. CASE p = Nil
    BY <2>1 DEF Comes, Kept, Plain
  <2>2. CASE p # Nil
    BY <2>2 DEF Comes, Kept, Plain
  <2> QED
    BY <2>1, <2>2
<1> QED
  BY <1>2, <1>3

LEMMA PlacesGrow ==
  ASSUME Kept
  PROVE  /\ Requests \subseteq Requests' /\ Responses \subseteq Responses' /\ Replies \subseteq Replies'
         /\ SentObjects \subseteq SentObjects' /\ Waiting \subseteq Waiting'
<1>1. Requests \subseteq Requests'
  BY DueGrows DEF Requests
<1>2. Responses \subseteq Responses'
  BY DueGrows DEF Responses
<1>3. Replies \subseteq Replies'
  BY DueGrows DEF Replies
<1>4. SentObjects \subseteq SentObjects'
  BY DEF Kept, SentObjects
<1> QED
  BY <1>1, <1>2, <1>3, <1>4 DEF Waiting

LEMMA PublishedStays ==
  ASSUME Kept
  PROVE  \A x : IsSent(x) \/ IsReplied(x) => IsSent(x)' \/ IsReplied(x)'
<1>1. ASSUME NEW x, IsSent(x) PROVE IsSent(x)'
  <2>1. PICK o \in SentObjects, c \in Contents :
          /\ x = Message(BuildTopic(ServerPrefix, heap[o]), [id |-> o, content |-> c])
          /\ o \notin reused => c = Json[heap[o].content]
    BY <1>1 DEF IsSent
  <2>2. o \in Objects /\ heap[o] # Nil /\ meant[o] # {} /\ o \in SentObjects'
    BY PlacesGrow DEF SentObjects
  <2>3. BuildTopic(ServerPrefix, heap'[o]) = BuildTopic(ServerPrefix, heap[o])
    BY <2>2, SameTopic DEF Kept
  <2>4. o \notin reused' => c = Json[heap'[o].content]
    BY <2>1, <2>2 DEF Kept
  <2> QED
    BY <2>1, <2>2, <2>3, <2>4 DEF IsSent
<1>2. ASSUME NEW x, IsReplied(x) PROVE IsReplied(x)'
  BY <1>2, PlacesGrow DEF IsReplied
<1> QED
  BY <1>1, <1>2

LEMMA SaidStays ==
  ASSUME Kept
  PROVE  \A x : IsAsked(x) \/ IsAnswer(x) => IsAsked(x)' \/ IsAnswer(x)'
<1>1. ASSUME NEW x, IsAsked(x) PROVE IsAsked(x)'
  BY <1>1 DEF IsAsked, Kept
<1>2. ASSUME NEW x, IsAnswer(x) PROVE IsAnswer(x)'
  BY <1>2 DEF IsAnswer, Kept, Plain
<1> QED
  BY <1>1, <1>2

LEMMA PlacesKept ==
  ASSUME Places, Kept
  PROVE  /\ queue \in Seq(Waiting') /\ core \in Seq(Requests' \cup Responses') /\ answers \subseteq Responses'
         /\ \A x \in down : IsSent(x)' \/ IsReplied(x)'
         /\ \A x \in up : IsAsked(x)' \/ IsAnswer(x)'
<1>1. queue \in Seq(Waiting')
  BY PlacesGrow, SeqGrows DEF Places
<1>2. core \in Seq(Requests' \cup Responses')
  <2>1. Requests \cup Responses \subseteq Requests' \cup Responses'
    BY PlacesGrow
  <2> QED
    BY <2>1, SeqGrows DEF Places
<1> QED
  BY <1>1, <1>2, PlacesGrow, PublishedStays, SaidStays DEF Places

LEMMA FirstOut ==
  ASSUME NEW S, NEW s \in Seq(S), s # <<>>
  PROVE  Head(s) \in S /\ Tail(s) \in Seq(S) /\ Len(s) \in Nat /\ Len(Tail(s)) = Len(s) - 1
BY EmptySeq, LenProperties

LEMMA LastIn ==
  ASSUME NEW S, NEW s \in Seq(S), NEW x \in S
  PROVE  Append(s, x) \in Seq(S) /\ Len(Append(s, x)) = Len(s) + 1 /\ Len(s) \in Nat
OBVIOUS

-----------------------------------------------------------------------------
(* The steps *)

LEMMA InitHolds == Init => IInv
<1> SUFFICES ASSUME Init PROVE IInv
  OBVIOUS
<1>1. Types
  <2>1. Len(queue) = 0 /\ Len(core) = 0
    BY EmptySeq DEF Init
  <2> QED
    BY <2>1, MessagesAssumption DEF Init, Types
<1>2. Held
  BY DEF Init, Held
<1>3. Places
  BY DEF Init, Places
<1> QED
  BY <1>1, <1>2, <1>3 DEF IInv

LEMMA BuildRequestStep ==
  ASSUME IInv, NEW o \in Objects, NEW e \in Edges, NEW m \in Mappers, NEW r \in Resources,
         NEW op \in Operations, BuildRequest(o, e, m, r, op)
  PROVE  IInv' /\ Kept
<1> DEFINE new == [edge |-> e, mapper |-> m, resource |-> r, op |-> op, content |-> Empty]
<1>1. /\ heap[o] = Nil /\ heap' = [heap EXCEPT ![o] = new]
      /\ UNCHANGED <<given, meant, reused, up, asked, queue, core, down, answers, silent>>
  BY DEF BuildRequest, mappers
<1>2. new \in Request /\ new # Nil /\ new.content = Empty
  BY MessagesAssumption DEF Request
<1> HIDE DEF new
<1>3. heap \in [Objects -> Request \cup {Nil}]
  BY DEF IInv, Types
<1>4. heap' \in [Objects -> Request \cup {Nil}] /\ heap'[o] = new
      /\ \A p \in Objects \ {o} : heap'[p] = heap[p]
  BY <1>1, <1>2, <1>3
<1>5. Types'
  BY <1>1, <1>2, <1>4 DEF IInv, Types
<1>6. Held'
  <2> SUFFICES ASSUME NEW p \in Objects
               PROVE  IF heap'[p] = Nil THEN given[p] = Nil /\ meant[p] = {}
                      ELSE Fits(given[p], heap'[p].content) /\ (p \notin reused => meant[p] \subseteq {given[p]})
    BY <1>1 DEF Held, Fits
  <2>1. CASE p = o
    BY <1>1, <1>2, <1>4, <2>1 DEF IInv, Held, Fits
  <2>2. CASE p # o
    BY <1>4, <2>2 DEF IInv, Held
  <2> QED
    BY <2>1, <2>2
<1>7. Kept
  BY <1>1, <1>4 DEF Kept
<1>8. Places'
  BY <1>1, <1>7, PlacesKept DEF IInv, Places
<1> QED
  BY <1>5, <1>6, <1>7, <1>8 DEF IInv

LEMMA SetContentStep ==
  ASSUME IInv, NEW o \in Objects, NEW v \in Values, SetContent(o, v)
  PROVE  IInv' /\ Kept
<1>1. /\ heap[o] # Nil /\ given' = [given EXCEPT ![o] = v]
      /\ reused' = IF meant[o] = {} THEN reused ELSE reused \cup {o}
      /\ heap' = IF v \in Broken THEN heap ELSE [heap EXCEPT ![o].content = TextOf[v]]
      /\ UNCHANGED <<meant, up, asked, queue, core, down, answers, silent>>
  BY DEF SetContent, Given, mappers
<1>2. /\ heap \in [Objects -> Request \cup {Nil}] /\ heap[o] \in Request
      /\ given \in [Objects -> Values \cup {Nil}]
  BY <1>1 DEF IInv, Types
<1>3. /\ heap' \in [Objects -> Request \cup {Nil}] /\ heap'[o] \in Request /\ heap'[o] # Nil
      /\ heap'[o].edge = heap[o].edge /\ heap'[o].mapper = heap[o].mapper
      /\ heap'[o].resource = heap[o].resource /\ heap'[o].op = heap[o].op
      /\ v \in Broken \/ heap'[o].content = TextOf[v]
      /\ \A p \in Objects \ {o} : heap'[p] = heap[p]
  <2>1. CASE v \in Broken
    BY <1>1, <1>2, <2>1
  <2>2. CASE v \notin Broken
    <3> DEFINE new == [heap[o] EXCEPT !.content = TextOf[v]]
    <3>1. TextOf[v] \in Contents
      BY <2>2, MessagesAssumption
    <3>2. /\ new \in Request /\ new.content = TextOf[v]
          /\ new.edge = heap[o].edge /\ new.mapper = heap[o].mapper
          /\ new.resource = heap[o].resource /\ new.op = heap[o].op
      BY <1>2, <3>1 DEF Request
    <3>3. new # Nil
      BY <3>2, MessagesAssumption
    <3>4. heap' = [heap EXCEPT ![o] = new]
      BY <1>1, <2>2
    <3> HIDE DEF new
    <3> QED
      BY <1>2, <3>2, <3>3, <3>4
  <2> QED
    BY <2>1, <2>2
<1>4. Types'
  BY <1>1, <1>2, <1>3 DEF IInv, Types
<1>5. /\ given'[o] = v /\ v # Nil /\ \A p \in Objects \ {o} : given'[p] = given[p]
      /\ \A p \in Objects \ {o} : p \in reused' <=> p \in reused
      /\ o \notin reused' => o \notin reused /\ meant[o] = {}
  BY <1>1, <1>2, MessagesAssumption
<1>6. Held'
  <2> SUFFICES ASSUME NEW p \in Objects
               PROVE  IF heap'[p] = Nil THEN given'[p] = Nil /\ meant[p] = {}
                      ELSE Fits(given'[p], heap'[p].content) /\ (p \notin reused' => meant[p] \subseteq {given'[p]})
    BY <1>1 DEF Held, Fits
  <2>1. CASE p = o
    BY <1>3, <1>5, <2>1 DEF Fits
  <2>2. CASE p # o
    BY <1>3, <1>5, <2>2 DEF IInv, Held
  <2> QED
    BY <2>1, <2>2
<1>7. Kept
  <2> SUFFICES ASSUME NEW p \in Objects, heap[p] # Nil
               PROVE  /\ heap'[p] # Nil
                      /\ heap'[p].edge = heap[p].edge /\ heap'[p].mapper = heap[p].mapper
                      /\ heap'[p].resource = heap[p].resource /\ heap'[p].op = heap[p].op
                      /\ meant[p] # {} /\ p \notin reused' =>
                           p \notin reused /\ heap'[p].content = heap[p].content
    BY <1>1 DEF Kept
  <2>1. CASE p = o
    BY <1>3, <1>5, <2>1
  <2>2. CASE p # o
    BY <1>3, <1>5, <2>2
  <2> QED
    BY <2>1, <2>2
<1>8. Places'
  BY <1>1, <1>7, PlacesKept DEF IInv, Places
<1> QED
  BY <1>4, <1>6, <1>7, <1>8 DEF IInv

LEMMA SendRequestStep ==
  ASSUME IInv, NEW o \in Objects, SendRequest2Edge(o)
  PROVE  IInv' /\ Kept
<1>1. /\ heap[o] # Nil /\ Len(queue) < MaxPending /\ queue' = Append(queue, [req |-> o])
      /\ meant' = [meant EXCEPT ![o] = meant[o] \cup {given[o]}]
      /\ UNCHANGED <<heap, given, reused, up, asked, core, down, answers, silent>>
  BY DEF SendRequest2Edge, Send, mappers
<1>2. meant \in [Objects -> SUBSET (Values \cup {Nil})] /\ given[o] \in Values \cup {Nil}
  BY DEF IInv, Types
<1>3. /\ meant' \in [Objects -> SUBSET (Values \cup {Nil})] /\ meant'[o] = meant[o] \cup {given[o]}
      /\ \A p \in Objects \ {o} : meant'[p] = meant[p]
  BY <1>1, <1>2
<1>4. Kept
  BY <1>1, <1>3 DEF Kept
<1>5. [req |-> o] \in Waiting' /\ queue \in Seq(Waiting')
  BY <1>1, <1>3, <1>4, PlacesKept DEF IInv, Waiting, SentObjects
<1>6. queue' \in Seq(Waiting') /\ Len(queue') = Len(queue) + 1 /\ Len(queue) \in Nat
  BY <1>1, <1>5, LastIn
<1>7. Len(queue') <= MaxPending
  BY <1>1, <1>6, MessagesAssumption
<1>8. Types'
  BY <1>1, <1>3, <1>7 DEF IInv, Types
<1>9. Held'
  <2> SUFFICES ASSUME NEW p \in Objects
               PROVE  IF heap[p] = Nil THEN given[p] = Nil /\ meant'[p] = {}
                      ELSE Fits(given[p], heap[p].content) /\ (p \notin reused => meant'[p] \subseteq {given[p]})
    BY <1>1 DEF Held, Fits
  <2> QED
    BY <1>1, <1>3 DEF IInv, Held
<1>10. Places'
  BY <1>1, <1>4, <1>6, PlacesKept DEF IInv, Places
<1> QED
  BY <1>4, <1>8, <1>9, <1>10 DEF IInv

LEMMA HandleStep ==
  ASSUME IInv, Handle
  PROVE  IInv' /\ Kept
<1> DEFINE x == Head(core)
<1>1. /\ core # <<>> /\ core' = Tail(core)
      /\ IF "pid" \in DOMAIN x
           THEN answers' = answers \cup {x} /\ UNCHANGED <<queue, silent>>
           ELSE (\E v \in Values : SendResponse2Edge(x, v)) /\ UNCHANGED answers
      /\ UNCHANGED <<heap, given, meant, reused, up, asked, down>>
  BY DEF Handle, mappers, objects
<1>2. Kept
  BY <1>1 DEF Kept
<1>3. /\ x \in Requests \cup Responses /\ core' \in Seq(Requests \cup Responses)
      /\ Len(core) \in Nat /\ Len(core') = Len(core) - 1
  BY <1>1, FirstOut DEF IInv, Places
<1> HIDE DEF x
<1>4. Len(core') <= MaxArrived
  BY <1>3, MessagesAssumption DEF IInv, Types
<1>5. core' \in Seq(Requests' \cup Responses')
  <2>1. Requests \cup Responses \subseteq Requests' \cup Responses'
    BY <1>2, PlacesGrow
  <2> QED
    BY <1>3, <2>1, SeqGrows
<1>6. Held'
  BY <1>1 DEF IInv, Held, Fits
<1>7. /\ queue \in Seq(Waiting') /\ answers \subseteq Responses'
      /\ \A y \in down : IsSent(y)' \/ IsReplied(y)'
      /\ \A y \in up : IsAsked(y)' \/ IsAnswer(y)'
  BY <1>2, PlacesKept DEF IInv
<1>8. CASE x \in Responses
  <2>1. "pid" \in DOMAIN x /\ x \in Responses'
    BY <1>2, <1>8, PlacesGrow DEF Responses
  <2>2. answers' = answers \cup {x} /\ UNCHANGED <<queue, silent>>
    BY <1>1, <2>1
  <2>3. Types'
    BY <1>1, <1>4, <2>2 DEF IInv, Types
  <2>4. Places'
    BY <1>1, <1>5, <1>7, <2>1, <2>2 DEF Places
  <2> QED
    BY <1>2, <1>6, <2>3, <2>4 DEF IInv
<1>9. CASE x \in Requests
  <2>1. /\ x.edge \in OneLevel /\ x.mapper \in OneLevel /\ x.id \in Asks \cup {OtherId}
        /\ Due(x.edge, x.mapper, x.id) /\ "pid" \notin DOMAIN x
    BY <1>9 DEF Requests
  <2>2. answers' = answers
    BY <1>1, <2>1
  <2>3. PICK v \in Values : SendResponse2Edge(x, v)
    BY <1>1, <2>1
  <2>4. CASE v \in Broken
    <3>1. silent' = silent \cup {x.id} /\ queue' = queue
      BY <2>3, <2>4 DEF SendResponse2Edge
    <3>2. Types'
      BY <1>1, <1>4, <2>1, <3>1 DEF IInv, Types
    <3>3. Places'
      BY <1>1, <1>5, <1>7, <2>2, <3>1 DEF Places
    <3> QED
      BY <1>2, <1>6, <3>2, <3>3 DEF IInv
  <2>5. CASE v \notin Broken
    <3> DEFINE a == BuildResponse(x, TextOf[v])
    <3>1. silent' = silent /\ Len(queue) < MaxPending /\ queue' = Append(queue, [resp |-> a])
      BY <2>3, <2>5 DEF SendResponse2Edge, Send
    <3>2. a \in Replies
      <4>1. TextOf[v] \in Contents
        BY <2>5, MessagesAssumption
      <4> QED
        BY <2>1, <4>1 DEF Replies, BuildResponse
    <3> HIDE DEF a
    <3>3. [resp |-> a] \in Waiting'
      BY <1>2, <3>2, PlacesGrow DEF Waiting
    <3>4. queue' \in Seq(Waiting') /\ Len(queue') = Len(queue) + 1 /\ Len(queue) \in Nat
      BY <1>7, <3>1, <3>3, LastIn
    <3>5. Len(queue') <= MaxPending
      BY <3>1, <3>4, MessagesAssumption
    <3>6. Types'
      BY <1>1, <1>4, <3>1, <3>5 DEF IInv, Types
    <3>7. Places'
      BY <1>1, <1>5, <1>7, <2>2, <3>4 DEF Places
    <3> QED
      BY <1>2, <1>6, <3>6, <3>7 DEF IInv
  <2> QED
    BY <2>4, <2>5
<1> QED
  BY <1>3, <1>8, <1>9

LEMMA PublishStep ==
  ASSUME IInv, Publish
  PROVE  IInv' /\ Kept
<1> DEFINE x == Head(queue)
<1>1. /\ queue # <<>> /\ queue' = Tail(queue) /\ down' = down \cup {Published(x)}
      /\ UNCHANGED <<heap, given, meant, reused, up, asked, core, answers, silent>>
  BY DEF Publish, mappers, objects
<1>2. Kept
  BY <1>1 DEF Kept
<1>3. /\ x \in Waiting /\ queue' \in Seq(Waiting) /\ Len(queue) \in Nat /\ Len(queue') = Len(queue) - 1
  BY <1>1, FirstOut DEF IInv, Places
<1> HIDE DEF x
<1>4. Len(queue') <= MaxPending
  BY <1>3, MessagesAssumption DEF IInv, Types
<1>5. queue' \in Seq(Waiting')
  BY <1>2, <1>3, PlacesGrow, SeqGrows
<1>6. IsSent(Published(x)) \/ IsReplied(Published(x))
  <2>1. ASSUME NEW o \in SentObjects, x = [req |-> o] PROVE IsSent(Published(x))
    <3>1. heap[o] \in Request /\ Json[heap[o].content] \in Contents
      <4>1. heap[o] \in Request
        BY DEF SentObjects, IInv, Types
      <4> QED
        BY <4>1, MessagesAssumption DEF Request
    <3>2. Published(x) = Message(BuildTopic(ServerPrefix, heap[o]), [id |-> o, content |-> Json[heap[o].content]])
      BY <2>1 DEF Published
    <3> QED
      BY <3>1, <3>2 DEF IsSent
  <2>2. ASSUME NEW a \in Replies, x = [resp |-> a] PROVE IsReplied(Published(x))
    <3>1. Json[a.content] \in Contents
      BY MessagesAssumption DEF Replies
    <3>2. Published(x) = Message(BuildTopic(ServerPrefix, a), [id |-> OtherId, pid |-> a.pid, content |-> Json[a.content]])
      BY <2>2 DEF Published
    <3> QED
      BY <3>1, <3>2 DEF IsReplied
  <2> QED
    BY <1>3, <2>1, <2>2 DEF Waiting
<1>7. \A y \in down' : IsSent(y)' \/ IsReplied(y)'
  BY <1>1, <1>2, <1>6, PlacesKept, PublishedStays DEF IInv
<1>8. Types'
  BY <1>1, <1>4 DEF IInv, Types
<1>9. Held'
  BY <1>1 DEF IInv, Held, Fits
<1>10. Places'
  BY <1>1, <1>2, <1>5, <1>7, PlacesKept DEF IInv, Places
<1> QED
  BY <1>2, <1>8, <1>9, <1>10 DEF IInv

LEMMA AskStep ==
  ASSUME IInv, NEW i \in Asks, NEW e \in Edges, NEW m \in Mappers, NEW r \in Resources,
         NEW op \in Operations, NEW payload \in {[id |-> i, content |-> Empty], Nil},
         Ask(i, e, m, r, op, payload)
  PROVE  IInv' /\ Kept
<1> DEFINE new == [edge |-> e, mapper |-> m, resource |-> r, op |-> op]
           x == Message(BuildTopic(EdgePrefix, new), payload)
<1>1. /\ asked[i] = Nil /\ asked' = [asked EXCEPT ![i] = new]
      /\ up' = up \cup {Message(BuildTopic(EdgePrefix, asked'[i]), payload)}
      /\ UNCHANGED <<heap, given, meant, reused, queue, core, down, answers, silent>>
  BY DEF Ask, objects
<1>2. new \in Route /\ new # Nil
  BY MessagesAssumption DEF Route
<1> HIDE DEF new
<1>3. asked \in [Asks -> Route \cup {Nil}]
  BY DEF IInv, Types
<1>4. /\ asked' \in [Asks -> Route \cup {Nil}] /\ asked'[i] = new
      /\ \A j \in Asks \ {i} : asked'[j] = asked[j]
      /\ up' = up \cup {x}
  <2>1. asked' \in [Asks -> Route \cup {Nil}] /\ asked'[i] = new
        /\ \A j \in Asks \ {i} : asked'[j] = asked[j]
    BY <1>1, <1>2, <1>3
  <2> QED
    BY <1>1, <2>1
<1>5. Kept
  BY <1>1, <1>4 DEF Kept
<1>6. ASSUME NEW y, y = x PROVE IsAsked(y)'
  BY <1>2, <1>4, <1>6 DEF IsAsked
<1> HIDE DEF x
<1>7. \A y \in up' : IsAsked(y)' \/ IsAnswer(y)'
  BY <1>4, <1>5, <1>6, PlacesKept DEF IInv
<1>8. Types'
  BY <1>1, <1>4 DEF IInv, Types
<1>9. Held'
  BY <1>1 DEF IInv, Held, Fits
<1>10. Places'
  BY <1>1, <1>5, <1>7, PlacesKept DEF IInv, Places
<1> QED
  BY <1>5, <1>8, <1>9, <1>10 DEF IInv

LEMMA SamePrefix ==
  ASSUME NEW s \in Seq(Levels), NEW t \in Seq(Levels), NEW n \in Nat, n <= Len(s), n <= Len(t),
         SubSeq(s, 1, n) = SubSeq(t, 1, n), NEW k \in 1 .. n
  PROVE  s[k] = t[k]
<1>1. SubSeq(s, 1, n)[k] = s[k] /\ SubSeq(t, 1, n)[k] = t[k]
  OBVIOUS
<1> QED
  BY <1>1

LEMMA ReplyToStep ==
  ASSUME IInv, NEW x \in down, NEW e \in Edges, NEW m \in Mappers, ReplyTo(x, e, m)
  PROVE  IInv' /\ Kept
<1> DEFINE r == ReplyOf(e, m)
           top == BuildTopic(ServerPrefix, r)
           HS == Heading(ServerPrefix, e, m)
           HE == Heading(EdgePrefix, e, m)
           y == Message(BuildTopic(EdgePrefix, r), [id |-> OtherId, pid |-> x.payload.id, content |-> Empty])
<1>1. /\ "pid" \notin DOMAIN x.payload /\ Len(x.topic) >= Len(top)
      /\ SubSeq(x.topic, 1, Len(top) - 1) = SubSeq(top, 1, Len(top) - 1)
      /\ up' = up \cup {y}
      /\ UNCHANGED <<heap, given, meant, reused, asked, queue, core, down, answers, silent>>
  BY DEF ReplyTo, objects, ReplyOf
<1>2. /\ e \in Seq(Levels) /\ Len(e) \in Nat \ {0} /\ m \in Seq(Levels) /\ Len(m) \in Nat \ {0}
      /\ r.edge = e /\ r.mapper = m /\ r.op = Reply
  BY NamesAre DEF Names, ReplyOf
<1>3. PICK o \in SentObjects, c \in Contents :
        x = Message(BuildTopic(ServerPrefix, heap[o]), [id |-> o, content |-> c])
  <2>1. ~ IsReplied(x)
    BY <1>1 DEF IsReplied, Message
  <2> QED
    BY <2>1 DEF IInv, Places, IsSent
<1>4. /\ o \in Objects /\ heap[o] # Nil /\ heap[o] \in Request
      /\ heap[o].edge \in Edges /\ heap[o].mapper \in Mappers
      /\ heap[o].resource \in Resources /\ heap[o].op \in Operations
  BY DEF SentObjects, IInv, Types, Request
<1>5. /\ x.topic \in Seq(Levels)
      /\ Plain(heap[o]) => <<x.topic[4]>> = heap[o].edge /\ <<x.topic[6]>> = heap[o].mapper
  BY <1>3, <1>4, RequestLevels, Prefixes DEF Message
<1>6. /\ top \in Seq(Levels) /\ Len(top) = Len(HS) + 1 /\ Len(top) \in Nat /\ Len(HS) \in Nat
      /\ top[4] = HS[4] /\ top[6] = HS[6] /\ Len(HS) >= 6
  BY <1>2, ReplyLevels, ReplyTopic, Prefixes
<1>7. BuildTopic(EdgePrefix, r)[4] = HE[4] /\ BuildTopic(EdgePrefix, r)[6] = HE[6]
  BY <1>2, ReplyLevels, Prefixes
<1>8. HE[4] = HS[4] /\ HE[6] = HS[6]
  <2>1. Alike(HS, HE)
    BY <1>2, HeadingsAlike
  <2> HIDE DEF HS, HE
  <2>2. 4 \in 4 .. Len(HS) /\ 6 \in 4 .. Len(HS)
    BY <1>6
  <2> QED
    BY <2>1, <2>2 DEF Alike
<1>9. x.topic[4] = top[4] /\ x.topic[6] = top[6]
  <2> HIDE DEF top, HS
  <2>1. /\ Len(top) - 1 = Len(HS) /\ Len(HS) <= Len(top) /\ Len(HS) <= Len(x.topic)
        /\ 4 \in 1 .. Len(HS) /\ 6 \in 1 .. Len(HS)
    BY <1>1, <1>5, <1>6, LenProperties
  <2> QED
    BY <1>1, <1>5, <1>6, <2>1, SamePrefix
<1>10. ASSUME NEW z, z = y PROVE IsAnswer(z)
  <2>1. z = Message(BuildTopic(EdgePrefix, r), [id |-> OtherId, pid |-> o, content |-> Empty])
    BY <1>3, <1>10 DEF Message
  <2>2. z.topic[4] = x.topic[4] /\ z.topic[6] = x.topic[6]
    BY <1>6, <1>7, <1>8, <1>9, <2>1 DEF Message
  <2> HIDE DEF y, r
  <2>3. /\ z = Message(BuildTopic(EdgePrefix, ReplyOf(e, m)), [id |-> OtherId, pid |-> o, content |-> Empty])
        /\ Plain(heap[o]) => <<z.topic[4]>> = heap[o].edge /\ <<z.topic[6]>> = heap[o].mapper
    BY <1>5, <2>1, <2>2 DEF r
  <2> QED
    BY <1>4, <2>3 DEF IsAnswer
<1> HIDE DEF y, top
<1>11. Kept
  BY <1>1 DEF Kept
<1>12. \A z \in up' : IsAsked(z)' \/ IsAnswer(z)'
  BY <1>1, <1>10, <1>11, PlacesKept, SaidStays DEF IInv
<1>13. Types'
  BY <1>1 DEF IInv, Types
<1>14. Held'
  BY <1>1 DEF IInv, Held, Fits
<1>15. Places'
  BY <1>1, <1>11, <1>12, PlacesKept DEF IInv, Places
<1> QED
  BY <1>11, <1>13, <1>14, <1>15 DEF IInv

LEMMA ResponseIs ==
  ASSUME NEW e \in OneLevel, NEW m \in OneLevel, NEW p \in Objects \cup {Nil}, NEW c \in Contents,
         Comes(e, m, p)
  PROVE  [edge |-> e, mapper |-> m, op |-> Reply, pid |-> p, content |-> c] \in Responses
BY DEF Responses

LEMMA RequestIs ==
  ASSUME NEW e \in OneLevel, NEW m \in OneLevel, NEW op \in Levels, NEW r \in OneLevel,
         NEW i \in Asks \cup {OtherId}, NEW c \in Contents, Due(e, m, i)
  PROVE  [edge |-> e, mapper |-> m, op |-> op, resource |-> r, id |-> i, content |-> c] \in Requests
BY DEF Requests

\* What is parsed of a request of a mapper.
LEMMA AskedParses ==
  ASSUME IInv, NEW x \in up, IsAsked(x), Parses(x.topic, x.payload)
  PROVE  IF x.topic[7] = Reply THEN ParseResponse(x.topic, x.payload) \in Responses
         ELSE ParseRequest(x.topic, x.payload) \in Requests
<1>1. PICK i \in Asks :
        asked[i] # Nil /\ \E payload \in {[id |-> i, content |-> Empty], Nil} :
          x = Message(BuildTopic(EdgePrefix, asked[i]), payload)
  BY DEF IsAsked
<1>2. x = Message(BuildTopic(EdgePrefix, asked[i]), [id |-> i, content |-> Empty])
  BY <1>1 DEF Parses, Message
<1> DEFINE r == asked[i]
           T == BuildTopic(EdgePrefix, r)
           p == [id |-> i, content |-> Empty]
<1>3. r \in Route /\ r.edge \in Edges /\ r.mapper \in Mappers /\ r.resource \in Resources /\ r.op \in Operations
  BY <1>1 DEF IInv, Types, Route
<1>4. /\ Len(T) > 7
      /\ T[4] \in Levels /\ T[6] \in Levels /\ T[7] \in Levels /\ T[8] \in Levels
      /\ Plain(r) => <<T[4]>> = r.edge /\ <<T[6]>> = r.mapper /\ T[7] # Reply
  BY <1>3, RequestLevels, Prefixes
<1>5. x.topic = T /\ x.payload = p
  BY <1>2 DEF Message
<1> HIDE DEF T
<1>6. Empty \in Contents
  BY MessagesAssumption
<1>7. <<T[4]>> \in OneLevel /\ <<T[6]>> \in OneLevel /\ <<T[8]>> \in OneLevel
  BY <1>4 DEF OneLevel
<1>8. CASE T[7] = Reply
  <2>1. ParseResponse(T, p) = [edge |-> <<T[4]>>, mapper |-> <<T[6]>>, op |-> T[7], pid |-> Nil, content |-> Empty]
    BY DEF ParseResponse
  <2>2. Comes(<<T[4]>>, <<T[6]>>, Nil)
    BY <1>1, <1>4, <1>8 DEF Comes
  <2>3. ParseResponse(T, p) \in Responses
    BY <1>6, <1>7, <1>8, <2>1, <2>2, ResponseIs
  <2> QED
    BY <1>5, <1>8, <2>3
<1>9. CASE T[7] # Reply
  <2>1. ParseRequest(T, p) = [edge |-> <<T[4]>>, mapper |-> <<T[6]>>, op |-> T[7], resource |-> <<T[8]>>,
                              id |-> i, content |-> Empty]
    BY <1>4 DEF ParseRequest
  <2>2. Due(<<T[4]>>, <<T[6]>>, i)
    BY <1>1, <1>4 DEF Due
  <2>3. ParseRequest(T, p) \in Requests
    BY <1>4, <1>6, <1>7, <2>1, <2>2, RequestIs
  <2> QED
    BY <1>5, <1>9, <2>3
<1> QED
  BY <1>8, <1>9

\* What is parsed of a reply of a mapper.
LEMMA AnswerParses ==
  ASSUME IInv, NEW x \in up, IsAnswer(x), Parses(x.topic, x.payload)
  PROVE  IF x.topic[7] = Reply THEN ParseResponse(x.topic, x.payload) \in Responses
         ELSE ParseRequest(x.topic, x.payload) \in Requests
<1>1. PICK o \in Objects, e \in Edges, m \in Mappers :
        /\ heap[o] # Nil
        /\ x = Message(BuildTopic(EdgePrefix, ReplyOf(e, m)), [id |-> OtherId, pid |-> o, content |-> Empty])
        /\ Plain(heap[o]) => <<x.topic[4]>> = heap[o].edge /\ <<x.topic[6]>> = heap[o].mapper
  BY DEF IsAnswer
<1> DEFINE r == ReplyOf(e, m)
           T == BuildTopic(EdgePrefix, r)
           p == [id |-> OtherId, pid |-> o, content |-> Empty]
<1>2. /\ r.edge \in Seq(Levels) /\ Len(r.edge) \in Nat \ {0}
      /\ r.mapper \in Seq(Levels) /\ Len(r.mapper) \in Nat \ {0} /\ r.op = Reply
  BY NamesAre DEF Names, ReplyOf
<1>3. /\ T[4] \in Levels /\ T[6] \in Levels /\ T[7] \in Levels /\ (Len(T) > 7 => T[8] \in Levels)
      /\ Plain(r) => T[7] = Reply
  BY <1>2, ReplyLevels, Prefixes
<1>4. x.topic = T /\ x.payload = p
  BY <1>1 DEF Message
<1>5. o # Nil /\ OtherId \notin Asks /\ Empty \in Contents
  BY MessagesAssumption
<1> HIDE DEF T
<1>6. <<T[4]>> \in OneLevel /\ <<T[6]>> \in OneLevel /\ (Len(T) > 7 => <<T[8]>> \in OneLevel) /\ <<"">> \in OneLevel
  <2>1. "" \in Levels
    BY DEF Levels
  <2> QED
    BY <1>3, <2>1 DEF OneLevel
<1>7. CASE T[7] = Reply
  <2>1. ParseResponse(T, p) = [edge |-> <<T[4]>>, mapper |-> <<T[6]>>, op |-> T[7], pid |-> o, content |-> Empty]
    BY DEF ParseResponse
  <2>2. Comes(<<T[4]>>, <<T[6]>>, o)
    BY <1>1, <1>4, <1>5 DEF Comes
  <2>3. ParseResponse(T, p) \in Responses
    BY <1>1, <1>5, <1>6, <1>7, <2>1, <2>2, ResponseIs
  <2> QED
    BY <1>4, <1>7, <2>3
<1>8. CASE T[7] # Reply
  <2> DEFINE l == IF Len(T) > 7 THEN <<T[8]>> ELSE <<"">>
  <2>1. ParseRequest(T, p) = [edge |-> <<T[4]>>, mapper |-> <<T[6]>>, op |-> T[7], resource |-> l,
                              id |-> OtherId, content |-> Empty]
    BY DEF ParseRequest
  <2>2. l \in OneLevel
    BY <1>6
  <2>3. Confused
    <3>1. ~ Plain(ReplyOf(e, m)) /\ x.topic = BuildTopic(EdgePrefix, ReplyOf(e, m))
      BY <1>3, <1>4, <1>8 DEF T
    <3> QED
      BY <3>1 DEF Confused
  <2>4. Due(<<T[4]>>, <<T[6]>>, OtherId)
    BY <1>5, <2>3 DEF Due
  <2> HIDE DEF l
  <2>5. ParseRequest(T, p) \in Requests
    <3>1. [edge |-> <<T[4]>>, mapper |-> <<T[6]>>, op |-> T[7], resource |-> l, id |-> OtherId, content |-> Empty]
            \in Requests
      <4> DEFINE u == <<T[4]>>
                 w == <<T[6]>>
                 op == T[7]
      <4>1. u \in OneLevel /\ w \in OneLevel /\ op \in Levels /\ Due(u, w, OtherId)
        BY <1>3, <1>6, <2>4
      <4> HIDE DEF u, w, op
      <4>2. [edge |-> u, mapper |-> w, op |-> op, resource |-> l, id |-> OtherId, content |-> Empty] \in Requests
        BY <1>5, <2>2, <4>1, RequestIs
      <4> QED
        BY <4>2 DEF u, w, op
    <3> QED
      BY <2>1, <3>1
  <2> QED
    BY <1>4, <1>8, <2>5
<1> QED
  BY <1>7, <1>8

LEMMA ReceiveStep ==
  ASSUME IInv, NEW x \in up, Receive(x)
  PROVE  IInv' /\ Kept
<1>1. PICK new :
        /\ new = IF x.topic[7] = Reply THEN ParseResponse(x.topic, x.payload) ELSE ParseRequest(x.topic, x.payload)
        /\ Parses(x.topic, x.payload) /\ Len(core) < MaxArrived /\ core' = Append(core, new)
        /\ UNCHANGED <<heap, given, meant, reused, up, asked, queue, down, answers, silent>>
  BY DEF Receive, objects, mappers
<1>2. new \in Requests \cup Responses
  <2>1. IsAsked(x) \/ IsAnswer(x)
    BY DEF IInv, Places
  <2> QED
    BY <1>1, <2>1, AskedParses, AnswerParses
<1>3. Kept
  BY <1>1 DEF Kept
<1>4. new \in Requests' \cup Responses' /\ core \in Seq(Requests' \cup Responses')
  BY <1>2, <1>3, PlacesGrow, PlacesKept DEF IInv
<1>5. core' \in Seq(Requests' \cup Responses') /\ Len(core') = Len(core) + 1 /\ Len(core) \in Nat
  BY <1>1, <1>4, LastIn
<1>6. Len(core') <= MaxArrived
  BY <1>1, <1>5, MessagesAssumption
<1>7. Types'
  BY <1>1, <1>6 DEF IInv, Types
<1>8. Held'
  BY <1>1 DEF IInv, Held, Fits
<1>9. Places'
  BY <1>1, <1>3, <1>5, PlacesKept DEF IInv, Places
<1> QED
  BY <1>3, <1>7, <1>8, <1>9 DEF IInv

LEMMA StutterStep ==
  ASSUME IInv, UNCHANGED vars
  PROVE  IInv'
<1>1. UNCHANGED <<heap, given, meant, reused, up, asked, queue, core, down, answers, silent>>
  BY DEF vars, objects, mappers
<1>2. Kept
  BY <1>1 DEF Kept
<1>3. Types'
  BY <1>1 DEF IInv, Types
<1>4. Held'
  BY <1>1 DEF IInv, Held, Fits
<1>5. Places'
  BY <1>1, <1>2, PlacesKept DEF IInv, Places
<1> QED
  BY <1>3, <1>4, <1>5 DEF IInv

\* What waits, is under way or has arrived is what the objects and the requests of
\* mappers account for.
LEMMA Invariance == Spec => []IInv
<1>1. Init => IInv
  BY InitHolds
<1>2. IInv /\ [Next]_vars => IInv'
  <2> SUFFICES ASSUME IInv, [Next]_vars PROVE IInv'
    OBVIOUS
  <2>1. ASSUME NEW e \in Edges, NEW m \in Mappers, NEW r \in Resources, NEW op \in Operations,
               \E o \in Objects : BuildRequest(o, e, m, r, op)
        PROVE  IInv'
    BY <2>1, BuildRequestStep
  <2>2. ASSUME NEW e \in Edges, NEW m \in Mappers, NEW r \in Resources, NEW op \in Operations,
               \E i \in Asks : \E payload \in {[id |-> i, content |-> Empty], Nil} :
                 Ask(i, e, m, r, op, payload)
        PROVE  IInv'
    BY <2>2, AskStep
  <2>3. ASSUME NEW o \in Objects, SendRequest2Edge(o) PROVE IInv'
    BY <2>3, SendRequestStep
  <2>4. ASSUME NEW o \in Objects, NEW v \in Values, SetContent(o, v) PROVE IInv'
    BY <2>4, SetContentStep
  <2>5. CASE Handle
    BY <2>5, HandleStep
  <2>6. CASE Publish
    BY <2>6, PublishStep
  <2>7. ASSUME NEW x \in up, Receive(x) PROVE IInv'
    BY <2>7, ReceiveStep
  <2>8. ASSUME NEW x \in down, NEW e \in Edges, NEW m \in Mappers, ReplyTo(x, e, m) PROVE IInv'
    BY <2>8, ReplyToStep
  <2>9. CASE UNCHANGED vars
    BY <2>9, StutterStep
  <2> QED
    BY <2>1, <2>2, <2>3, <2>4, <2>5, <2>6, <2>7, <2>8, <2>9 DEF Next
<1> QED
  BY <1>1, <1>2, PTL DEF Spec

-----------------------------------------------------------------------------
(* The theorems *)

\* Every variable keeps its type; of what waits in the core, names are single levels.
THEOREM TypeCorrect == Spec => []TypeOK
<1>1. IInv => TypeOK
  <2> SUFFICES ASSUME IInv PROVE TypeOK
    OBVIOUS
  <2>1. /\ \A o \in Objects : heap[o] = Nil \/ heap[o] \in Request
        /\ given \in [Objects -> Values \cup {Nil}]
        /\ meant \in [Objects -> SUBSET (Values \cup {Nil})]
        /\ reused \subseteq {o \in Objects : heap[o] # Nil}
        /\ asked \in [Asks -> Route \cup {Nil}]
        /\ silent \subseteq Asks \cup {OtherId}
        /\ Len(queue) <= MaxPending /\ Len(core) <= MaxArrived
    BY DEF IInv, Types
  <2>2. ASSUME NEW k \in DOMAIN core PROVE Plain(core[k])
    <3>1. core[k] \in Requests \cup Responses
      BY DEF IInv, Places
    <3>2. core[k].edge \in OneLevel /\ core[k].mapper \in OneLevel
      BY <3>1 DEF Requests, Responses
    <3> QED
      BY <3>2 DEF Plain, OneLevel
  <2>3. ASSUME NEW x \in down PROVE x.payload.id \in Objects \cup Asks \cup {OtherId}
    <3>1. CASE IsSent(x)
      BY <3>1 DEF IsSent, SentObjects, Message
    <3>2. CASE IsReplied(x)
      BY <3>2 DEF IsReplied, Message
    <3> QED
      BY <3>1, <3>2 DEF IInv, Places
  <2>4. ASSUME NEW x \in up PROVE x.payload = Nil \/ x.payload.id \in Objects \cup Asks \cup {OtherId}
    <3>1. CASE IsAsked(x)
      BY <3>1 DEF IsAsked, Message
    <3>2. CASE IsAnswer(x)
      BY <3>2 DEF IsAnswer, Message
    <3> QED
      BY <3>1, <3>2 DEF IInv, Places
  <2> QED
    BY <2>1, <2>2, <2>3, <2>4 DEF TypeOK
<1> QED
  BY Invariance, <1>1, PTL

\* Whatever is lost, repeated or late: a reply that the core publishes is to a request
\* that a mapper made, and a response that it handles is from the mapper to which it
\* sent the request, unless a name has a slash (SendResponse2Edge, ParseResponse).
THEOREM RepliesFit == Spec => []RepliesFitRequests
<1>1. IInv => RepliesFitRequests
  <2> SUFFICES ASSUME IInv PROVE RepliesFitRequests
    OBVIOUS
  <2>1. ASSUME NEW x \in down, IsReply(x)
        PROVE  LET i == x.payload.pid IN
               /\ i \in Asks => /\ asked[i] # Nil
                                /\ Plain(asked[i]) =>
                                     x.topic = BuildTopic(ServerPrefix, [asked[i] EXCEPT !.op = Reply])
               /\ i \notin Asks => \E e \in Edges, m \in Mappers :
                                   ~ Plain(ReplyOf(e, m)) /\ \E y \in up : y.topic = BuildTopic(EdgePrefix, ReplyOf(e, m))
    <3>1. IsReplied(x)
      <4>1. ~ IsSent(x)
        BY <2>1 DEF IsSent, IsReply, Message
      <4> QED
        BY <4>1 DEF IInv, Places
    <3>2. PICK a \in Replies, c \in Contents :
            x = Message(BuildTopic(ServerPrefix, a), [id |-> OtherId, pid |-> a.pid, content |-> c])
      BY <3>1 DEF IsReplied
    <3>3. /\ a.op = Reply /\ Due(a.edge, a.mapper, a.pid)
          /\ x.topic = BuildTopic(ServerPrefix, a) /\ x.payload.pid = a.pid
      BY <3>2 DEF Replies, Message
    <3>4. CASE a.pid \in Asks
      <4> DEFINE r == asked[a.pid]
                 q == [r EXCEPT !.op = Reply]
      <4>1. r # Nil /\ (Plain(r) => a.edge = r.edge /\ a.mapper = r.mapper)
        BY <3>3, <3>4 DEF Due
      <4>2. r \in Route
        BY <3>4, <4>1 DEF IInv, Types
      <4>3. q.op = Reply /\ q.edge = r.edge /\ q.mapper = r.mapper
        BY <4>2 DEF Route
      <4> HIDE DEF q
      <4>4. Plain(r) => BuildTopic(ServerPrefix, q) = BuildTopic(ServerPrefix, a)
        BY <3>3, <4>1, <4>3, SameTopic
      <4> QED
        BY <3>3, <3>4, <4>1, <4>4 DEF q
    <3>5. CASE a.pid \notin Asks
      BY <3>3, <3>5 DEF Due, Confused
    <3> QED
      BY <3>4, <3>5
  <2>2. ASSUME NEW a \in answers
        PROVE  IF a.pid = Nil THEN \E i \in Asks : asked[i] # Nil /\ ~ Plain(asked[i])
               ELSE /\ heap[a.pid] # Nil
                    /\ Plain(heap[a.pid]) => a.edge = heap[a.pid].edge /\ a.mapper = heap[a.pid].mapper
    <3>1. Comes(a.edge, a.mapper, a.pid)
      BY DEF IInv, Places, Responses
    <3> QED
      BY <3>1 DEF Comes
  <2> QED
    BY <2>1, <2>2 DEF RepliesFitRequests, ReplyOf
<1> QED
  BY Invariance, <1>1, PTL

\* What is published of a request is the text of a value that its object was given
\* before a send, unless json refused the value or the object was changed after a send,
\* and its topic leads to its names again if they are plain (SetContent, BuildTopic,
\* ParseRequest).
THEOREM SentIsMeant == Spec => []SentAsMeant
<1>1. IInv => SentAsMeant
  <2> SUFFICES ASSUME IInv, NEW x \in down, ~ IsReply(x)
               PROVE  LET o == x.payload.id IN
                      /\ \/ o \in reused
                         \/ \E v \in meant[o] : x.payload.content =
                              IF v = Nil THEN Json[Empty] ELSE IF v \in Broken THEN x.payload.content ELSE Json[TextOf[v]]
                      /\ Plain(heap[o]) =>
                           LET q == ParseRequest(x.topic, x.payload) IN
                           /\ q.edge = heap[o].edge /\ q.mapper = heap[o].mapper /\ q.op = heap[o].op
                           /\ q.resource = <<heap[o].resource[1]>>
    BY DEF SentAsMeant
  <2>1. IsSent(x)
    <3>1. ~ IsReplied(x)
      BY DEF IsReplied, IsReply, Message
    <3> QED
      BY <3>1 DEF IInv, Places
  <2>2. PICK o \in SentObjects, c \in Contents :
          /\ x = Message(BuildTopic(ServerPrefix, heap[o]), [id |-> o, content |-> c])
          /\ o \notin reused => c = Json[heap[o].content]
    BY <2>1 DEF IsSent
  <2> DEFINE T == BuildTopic(ServerPrefix, heap[o])
  <2>3. x.topic = T /\ x.payload.id = o /\ x.payload.content = c
    BY <2>2 DEF Message
  <2>4. /\ o \in Objects /\ heap[o] # Nil /\ meant[o] # {}
        /\ heap[o].edge \in Edges /\ heap[o].mapper \in Mappers
        /\ heap[o].resource \in Resources /\ heap[o].op \in Operations
    <3>1. o \in Objects /\ heap[o] # Nil /\ meant[o] # {}
      BY <2>2 DEF SentObjects
    <3> QED
      BY <3>1 DEF IInv, Types, Request
  <2>5. ASSUME o \notin reused
        PROVE  \E v \in meant[o] :
                 c = IF v = Nil THEN Json[Empty] ELSE IF v \in Broken THEN c ELSE Json[TextOf[v]]
    <3>1. PICK v \in meant[o] : v = given[o]
      BY <2>4, <2>5 DEF IInv, Held
    <3>2. Fits(v, heap[o].content)
      BY <2>4, <3>1 DEF IInv, Held
    <3> QED
      BY <2>2, <2>5, <3>1, <3>2 DEF Fits
  <2>6. ASSUME Plain(heap[o])
        PROVE  LET q == ParseRequest(T, x.payload) IN
               /\ q.edge = heap[o].edge /\ q.mapper = heap[o].mapper /\ q.op = heap[o].op
               /\ q.resource = <<heap[o].resource[1]>>
    <3>1. /\ Len(T) > 7 /\ <<T[4]>> = heap[o].edge /\ <<T[6]>> = heap[o].mapper
          /\ T[7] = heap[o].op /\ T[8] = heap[o].resource[1]
      BY <2>4, <2>6, RequestLevels, Prefixes
    <3> HIDE DEF T
    <3> QED
      BY <3>1 DEF ParseRequest
  <2> HIDE DEF T
  <2> QED
    BY <2>3, <2>5, <2>6
<1> QED
  BY Invariance, <1>1, PTL
==============================================================================

---------------------------- MODULE EdgeMessages ----------------------------
(***************************************************************************)
(* Requests and replies between the core and the mappers of edges.         *)
(*                                                                         *)
(* The core builds request objects, sets their content and hands POINTERS  *)
(* to them to the transport: topic and payload are made when the transport *)
(* publishes, from what the object holds by then.  A mapper replies with   *)
(* the id of the request as parent id.  A mapper sends requests too; the   *)
(* transport parses them for the core, which replies from the parsed       *)
(* object.  A topic is parsed by the positions of its levels, and a name   *)
(* may have several levels: "a/b" is <<"a", "b">>, the empty name <<"">>.  *)
(*                                                                         *)
(* Broker, transport, core and mappers are outside this repository.  What  *)
(* is published stays in `down` or `up`: it may arrive never, late, out of *)
(* order and more than once.                                               *)
(***************************************************************************)
EXTENDS Naturals, Sequences

CONSTANTS
  Objects,                       \* request objects of the core and their ids
  Asks, OtherId,                 \* ids of the requests of mappers; that of a reply
  Edges, Mappers, Resources,     \* names
  Operations,                    \* of requests; "reply" is that of replies
  Values, Broken,                \* what content is made of; json refuses the Broken
  Contents, Empty,               \* texts; the empty one
  TextOf,                        \* the text of a value that is not Broken
  Json,                          \* a text after json, which replaces bytes that are not UTF-8
  Nil,                           \* nothing
  MaxPending, MaxArrived         \* bounds: messages in queue and in core

Names == Edges \cup Mappers \cup Resources

Route == [edge : Edges, mapper : Mappers, resource : Resources, op : Operations]

Request == [edge : Edges, mapper : Mappers, resource : Resources, op : Operations, content : Contents]

ASSUME MessagesAssumption ==
  /\ Objects \cap Asks = {} /\ OtherId \notin Objects \cup Asks
  /\ Nil \notin Objects \cup Values \cup Route \cup Request
  /\ \A n \in Names : n \in Seq(STRING) /\ n # <<>>
  /\ Operations \subseteq STRING /\ "reply" \notin Operations
  /\ Broken \subseteq Values
  /\ TextOf \in [Values \ Broken -> Contents]
  /\ Json \in [Contents -> Contents] /\ Empty \in Contents
  /\ MaxPending \in Nat \ {0} /\ MaxArrived \in Nat \ {0}

VARIABLES
  heap,      \* the request objects
  queue,     \* what the transport has still to publish
  core,      \* what the core has still to handle
  down, up,  \* published to mappers and by mappers
  answers,   \* responses that the core has handled
  asked,     \* history: requests of mappers
  given,     \* history: the value that SetContent was last given
  meant,     \* history: that value at each send of an object
  reused,    \* history: objects changed after a send
  silent     \* history: requests that the core let go without a reply

objects == <<heap, given, meant, reused>>
mappers == <<up, asked>>
vars == <<objects, mappers, queue, core, down, answers, silent>>

ServerPrefix == <<"adv", "ithings", "server">>
EdgePrefix == <<"adv", "ithings", "edge">>

Reply == "reply"

BuildTopic(prefix, r) ==
  prefix \o r.edge \o <<"mapper">> \o r.mapper \o <<r.op>> \o IF r.op = Reply THEN <<>> ELSE r.resource

\* A payload that is no json is Nil.
Parses(levels, payload) == Len(levels) >= 7 /\ payload # Nil

\* Deliberately wrong: the levels are counted from the end.
ParseRequestBackwards(levels, payload) ==
  [edge |-> <<levels[4]>>, mapper |-> SubSeq(levels, 6, Len(levels) - 2), op |-> levels[Len(levels) - 1],
   resource |-> <<levels[Len(levels)]>>, id |-> payload.id, content |-> payload.content]

ParseRequest(levels, payload) ==
  [edge |-> <<levels[4]>>, mapper |-> <<levels[6]>>, op |-> levels[7],
   resource |-> IF Len(levels) > 7 THEN <<levels[8]>> ELSE <<"">>,
   id |-> payload.id, content |-> payload.content]

\* A parent id that is missing is empty.
ParseResponse(levels, payload) ==
  [edge |-> <<levels[4]>>, mapper |-> <<levels[6]>>, op |-> levels[7],
   pid |-> IF "pid" \in DOMAIN payload THEN payload.pid ELSE Nil, content |-> payload.content]

\* Deliberately wrong: the response goes to the edge, not to the mapper.
BuildResponseToEdge(q, text) ==
  [edge |-> q.edge, mapper |-> q.edge, op |-> Reply, pid |-> q.id, content |-> text]

BuildResponse(q, text) ==
  [edge |-> q.edge, mapper |-> q.mapper, op |-> Reply, pid |-> q.id, content |-> text]

-----------------------------------------------------------------------------
(* The core *)

BuildRequest(o, e, m, r, op) ==
  /\ heap[o] = Nil
  /\ heap' = [heap EXCEPT ![o] = [edge |-> e, mapper |-> m, resource |-> r, op |-> op, content |-> Empty]]
  /\ UNCHANGED <<given, meant, reused, mappers, queue, core, down, answers, silent>>

Given(o, v) ==
  /\ heap[o] # Nil
  /\ given' = [given EXCEPT ![o] = v]
  /\ reused' = IF meant[o] = {} THEN reused ELSE reused \cup {o}
  /\ UNCHANGED <<meant, mappers, queue, core, down, answers, silent>>

\* Deliberately wrong: bytes that are not UTF-8 are refused too.
SetContentOfText(o, v) ==
  /\ Given(o, v)
  /\ heap' = IF v \in Broken \/ Json[TextOf[v]] # TextOf[v] THEN heap
             ELSE [heap EXCEPT ![o].content = TextOf[v]]

\* A value that json refuses leaves the content as it was; nobody is told.
SetContent(o, v) ==
  /\ Given(o, v)
  /\ heap' = IF v \in Broken THEN heap ELSE [heap EXCEPT ![o].content = TextOf[v]]

Send(msg) == Len(queue) < MaxPending /\ queue' = Append(queue, msg)

\* The object itself is sent, not a copy.
SendRequest2Edge(o) ==
  /\ heap[o] # Nil
  /\ Send([req |-> o])
  /\ meant' = [meant EXCEPT ![o] = @ \cup {given[o]}]
  /\ UNCHANGED <<heap, given, reused, mappers, core, down, answers, silent>>

\* Deliberately wrong: a reply that would have to wait is dropped.
SendResponseIfIdle(q, v) ==
  IF v \notin Broken /\ Len(queue) = 0
    THEN Send([resp |-> BuildResponse(q, TextOf[v])]) /\ UNCHANGED silent
    ELSE silent' = silent \cup (IF v \in Broken THEN {q.id} ELSE {}) /\ UNCHANGED queue

\* Nothing is sent when json refuses the value.
SendResponse2Edge(q, v) ==
  IF v \notin Broken
    THEN Send([resp |-> BuildResponse(q, TextOf[v])]) /\ UNCHANGED silent
    ELSE silent' = silent \cup {q.id} /\ UNCHANGED queue

\* The core takes the next message: it replies to a request with some value,
\* and compares the parent id of a response with its requests.
Handle ==
  /\ core # <<>>
  /\ core' = Tail(core)
  /\ LET x == Head(core) IN
       IF "pid" \in DOMAIN x
         THEN answers' = answers \cup {x} /\ UNCHANGED <<queue, silent>>
         ELSE (\E v \in Values : SendResponse2Edge(x, v)) /\ UNCHANGED answers
  /\ UNCHANGED <<objects, mappers, down>>

-----------------------------------------------------------------------------
(* The transport *)

Message(topic, payload) == [topic |-> topic, payload |-> payload]

Published(x) ==
  IF "req" \in DOMAIN x
    THEN LET r == heap[x.req] IN
         Message(BuildTopic(ServerPrefix, r), [id |-> x.req, content |-> Json[r.content]])
    ELSE Message(BuildTopic(ServerPrefix, x.resp), [id |-> OtherId, pid |-> x.resp.pid, content |-> Json[x.resp.content]])

Publish ==
  /\ queue # <<>>
  /\ queue' = Tail(queue)
  /\ down' = down \cup {Published(Head(queue))}
  /\ UNCHANGED <<objects, mappers, core, answers, silent>>

\* A message of a mapper arrives, perhaps again, and is parsed by its operation.
Receive(x) ==
  /\ x \in up
  /\ Parses(x.topic, x.payload)
  /\ Len(core) < MaxArrived
  /\ core' = Append(core, IF x.topic[7] = Reply THEN ParseResponse(x.topic, x.payload)
                          ELSE ParseRequest(x.topic, x.payload))
  /\ UNCHANGED <<objects, mappers, queue, down, answers, silent>>

-----------------------------------------------------------------------------
(* The mappers *)

Ask(i, e, m, r, op, payload) ==
  /\ asked[i] = Nil
  /\ asked' = [asked EXCEPT ![i] = [edge |-> e, mapper |-> m, resource |-> r, op |-> op]]
  /\ up' = up \cup {Message(BuildTopic(EdgePrefix, asked'[i]), payload)}
  /\ UNCHANGED <<objects, queue, core, down, answers, silent>>

\* A mapper gets what is published below its name and replies to requests.
ReplyTo(x, e, m) ==
  LET topic == BuildTopic(ServerPrefix, [edge |-> e, mapper |-> m, op |-> Reply]) IN
  /\ x \in down /\ "pid" \notin DOMAIN x.payload
  /\ Len(x.topic) >= Len(topic)
  /\ SubSeq(x.topic, 1, Len(topic) - 1) = SubSeq(topic, 1, Len(topic) - 1)
  /\ up' = up \cup {Message(BuildTopic(EdgePrefix, [edge |-> e, mapper |-> m, op |-> Reply]),
                            [id |-> OtherId, pid |-> x.payload.id, content |-> Empty])}
  /\ UNCHANGED <<objects, asked, queue, core, down, answers, silent>>

-----------------------------------------------------------------------------
Init ==
  /\ heap = [o \in Objects |-> Nil] /\ given = heap /\ meant = [o \in Objects |-> {}]
  /\ reused = {} /\ silent = {} /\ answers = {}
  /\ queue = <<>> /\ core = <<>>
  /\ down = {} /\ up = {} /\ asked = [i \in Asks |-> Nil]

Next ==
  \/ \E e \in Edges, m \in Mappers, r \in Resources, op \in Operations :
       \/ \E o \in Objects : BuildRequest(o, e, m, r, op)
       \/ \E i \in Asks : \E payload \in {[id |-> i, content |-> Empty], Nil} : Ask(i, e, m, r, op, payload)
  \/ \E o \in Objects : SendRequest2Edge(o) \/ \E v \in Values : SetContent(o, v)
  \/ Handle
  \/ Publish
  \/ \E x \in up : Receive(x)
  \/ \E x \in down, e \in Edges, m \in Mappers : ReplyTo(x, e, m)

\* The transport and the core go on with what is queued for them.
Spec == Init /\ [][Next]_vars /\ WF_vars(Publish) /\ WF_vars(Handle)

-----------------------------------------------------------------------------
(* Properties *)

Plain(r) == Len(r.edge) = 1 /\ Len(r.mapper) = 1

IsReply(x) == "pid" \in DOMAIN x.payload

\* Every variable keeps its type; what waits is a request object, a response or
\* something parsed, of which names are single levels.
TypeOK ==
  /\ \A o \in Objects : heap[o] = Nil \/ heap[o] \in Request
  /\ given \in [Objects -> Values \cup {Nil}]
  /\ meant \in [Objects -> SUBSET (Values \cup {Nil})]
  /\ reused \subseteq {o \in Objects : heap[o] # Nil}
  /\ asked \in [Asks -> Route \cup {Nil}]
  /\ silent \subseteq Asks \cup {OtherId}
  /\ Len(queue) <= MaxPending /\ Len(core) <= MaxArrived
  /\ \A k \in DOMAIN core : Plain(core[k])
  /\ \A x \in down \cup up : x.payload = Nil \/ x.payload.id \in Objects \cup Asks \cup {OtherId}

\* Whatever is lost, repeated or late: a reply that the core publishes bears the
\* id of a request that a mapper made, on the topic of that mapper unless a name
\* has a slash; only the reply of a mapper with a slash in its names is taken for
\* a request and replied to.  A response that the core handles comes from the edge
\* and the mapper to which it sent the request with that id, unless a name has a
\* slash; it has no such id only if it is the request of a mapper with a slash.
RepliesFitRequests ==
  /\ \A x \in {y \in down : IsReply(y)} :
       LET i == x.payload.pid IN
       /\ i \in Asks => /\ asked[i] # Nil
                        /\ Plain(asked[i]) => x.topic = BuildTopic(ServerPrefix, [asked[i] EXCEPT !.op = Reply])
       /\ i \notin Asks => \E e \in Edges, m \in Mappers :
                           LET r == [edge |-> e, mapper |-> m, op |-> Reply] IN
                           ~ Plain(r) /\ \E y \in up : y.topic = BuildTopic(EdgePrefix, r)
  /\ \A a \in answers :
       IF a.pid = Nil THEN \E i \in Asks : asked[i] # Nil /\ ~ Plain(asked[i])
       ELSE /\ heap[a.pid] # Nil
            /\ Plain(heap[a.pid]) => a.edge = heap[a.pid].edge /\ a.mapper = heap[a.pid].mapper

\* What is published of a request is the text of the value that its object was
\* last given before one of its sends, as json can carry it, unless json refused
\* the value or the object was changed after a send.  With plain names its topic
\* leads to the names of the object again, but for a slash in the resource.
SentAsMeant ==
  \A x \in {y \in down : ~ IsReply(y)} :
    LET o == x.payload.id IN
    /\ \/ o \in reused
       \/ \E v \in meant[o] : x.payload.content =
            IF v = Nil THEN Json[Empty] ELSE IF v \in Broken THEN x.payload.content ELSE Json[TextOf[v]]
    /\ Plain(heap[o]) =>
         LET q == ParseRequest(x.topic, x.payload) IN
         /\ q.edge = heap[o].edge /\ q.mapper = heap[o].mapper /\ q.op = heap[o].op
         /\ q.resource = <<heap[o].resource[1]>>

\* A request that has reached the core is replied to, unless json refuses the
\* value of the reply: then the mapper waits for ever.
Answered ==
  \A i \in Asks :
    (\E k \in DOMAIN core : "id" \in DOMAIN core[k] /\ core[k].id = i)
      ~> (i \in silent \/ \E x \in down : IsReply(x) /\ x.payload.pid = i)
=============================================================================

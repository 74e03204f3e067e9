--------------------------- MODULE MCDeviceAssembly ---------------------------
(* Models without services, with one, two and two of one name; requests that *)
(* say nothing, configure a part, repeat a service or name an unknown one.   *)
EXTENDS DeviceAssembly

CONSTANTS s1, s2, p1, p2, c1, c2

Of(ps, es, cs) == [kd \in {"property", "event", "command"} |->
                     CASE kd = "property" -> ps [] kd = "event" -> es [] OTHER -> cs]
A == [name |-> s1, parts |-> Of({p1, p2}, {p1}, {p2})]
B == [name |-> s2, parts |-> Of({p1}, {}, {})]
MCModels == {<<>>, <<A>>, <<A, B>>, <<A, [B EXCEPT !.name = s1]>>}

Entry(n, c) == [name |-> n, config |-> [p \in {p1} |-> c]]
MCRequests == {<<>>, <<Entry(s1, c1)>>, <<Entry(s2, c1), Entry(s1, c2)>>,
               <<Entry(s1, c1), Entry(s1, c2)>>}
MCDevices == {[os |-> "os", category |-> "category", auth |-> "auth", secret |-> "secret",
               tags |-> "tags"]}
=============================================================================

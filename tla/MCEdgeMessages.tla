--------------------------- MODULE MCEdgeMessages ---------------------------
(* Constants for TLC: an edge, a mapper and the resource have a slash. *)
EXTENDS EdgeMessages, TLC

CONSTANTS bytes, channel

MCEdges == {<<"a">>, <<"a", "b">>}
MCMappers == {<<"reply">>, <<"reply", "report">>}
MCResources == {<<"r", "s">>}

\* `bytes` are not UTF-8 and `channel` is nothing that json can write.
MCTextOf == bytes :> "bytes"
MCJson == "" :> "" @@ [c \in {"bytes", "replaced"} |-> "replaced"]
=============================================================================

------------------------------ MODULE MCRouter ------------------------------
(* Constants for the runs of Router: two processors that derive each       *)
(* other's input (the cycle that Seen exists to break), and one sink.      *)
EXTENDS Router, TLC

CONSTANTS p, q, s, note, tag

MCProcessors == {p, q}
MCSinks == {s}
MCTypes == {note, tag}
MCConsumes == (p :> {note}) @@ (q :> {tag}) @@ (s :> {tag})
MCEmits == (p :> {tag}) @@ (q :> {note})
=============================================================================

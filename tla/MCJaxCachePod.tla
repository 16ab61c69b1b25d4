---------------------------- MODULE MCJaxCachePod ----------------------------
(* Deployments of the JAX function for TLC. *)
EXTENDS JaxCachePod

CONSTANTS pop, red, base, t1, t2

ModeOf == [p \in Pods |-> CASE p = pop -> "populate" [] p = red -> "redis" [] OTHER -> "baseline"]
NoneRequired == [p \in Pods |-> FALSE]

TwoSegments == {<<1, 1>>}
ZeroAndOne == {<<1, 1>>, <<0, 1>>}
==============================================================================

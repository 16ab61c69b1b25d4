---------------------------- MODULE JuliaArtifacts ----------------------------
(* What the Julia pods do to the trace they share, seen from outside.          *)
(* published is a history variable: it records the traces that were SET, by a  *)
(* process that waits or by one that has given up, and no step depends on it.  *)
EXTENDS JuliaTracePod

VARIABLE published  \* every trace a SET has stored so far

PublishedInit == TraceInit /\ published = {}

PublishedNext == TraceNext /\ published' = published \union ({trace'} \ {Missing})

PublishedSpec == PublishedInit /\ [][PublishedNext]_<<traceVars, published>>

-----------------------------------------------------------------------------
\* The trace a pod works from: the one it pulled, once it has replayed it.
Imported(p) == IF pod[p].phase = "serving" THEN pod[p].file ELSE Missing

\* The pods implement the published-artifact promise: a pod replays a trace that
\* was published, before it serves, and no other as long as it lives.
Cache == INSTANCE ArtifactCache WITH
           NoArtifact <- Missing, loaded <- [p \in Pods |-> Imported(p)]
ImplementsArtifactCache == Cache!Spec

\* So no pod works from a trace that was never stored.
WorksFromPublished == Cache!WorksFromPublished
=============================================================================

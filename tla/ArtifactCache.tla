---------------------------- MODULE ArtifactCache ----------------------------
(***************************************************************************)
(* What every prototype of the repository promises, whatever the language: *)
(* an artifact exported by one execution is published under one key, and a *)
(* later pod works from an artifact only if that artifact was published.   *)
(* A pod holds at most one artifact, keeps the one it holds, and loses it  *)
(* only when it dies.                                                      *)
(***************************************************************************)
CONSTANTS Pods, Artifacts, NoArtifact

VARIABLES published,    \* every artifact a SET has stored so far
          loaded        \* loaded[p]: the artifact pod p works from

cacheVars == <<published, loaded>>

ArtifactCacheTypeOK ==
    /\ published \subseteq Artifacts
    /\ loaded \in [Pods -> Artifacts \cup {NoArtifact}]

Init ==
    /\ published = {}
    /\ loaded = [p \in Pods |-> NoArtifact]

Publish(a) ==
    /\ published' = published \cup {a}
    /\ UNCHANGED loaded

Load(p, a) ==
    /\ loaded[p] = NoArtifact
    /\ a \in published
    /\ loaded' = [loaded EXCEPT ![p] = a]
    /\ UNCHANGED published

Unload(p) ==
    /\ loaded' = [loaded EXCEPT ![p] = NoArtifact]
    /\ UNCHANGED published

Next ==
    \/ \E a \in Artifacts : Publish(a)
    \/ \E p \in Pods, a \in Artifacts : Load(p, a)
    \/ \E p \in Pods : Unload(p)

Spec == Init /\ [][Next]_cacheVars

\* The weaker promise of a pod that may be given another artifact while it
\* lives, without losing the first by dying.
Replace(p, a) ==
    /\ a \in published
    /\ loaded' = [loaded EXCEPT ![p] = a]
    /\ UNCHANGED published

ReplacingNext == Next \/ \E p \in Pods, a \in Artifacts : Replace(p, a)

ReplacingSpec == Init /\ [][ReplacingNext]_cacheVars

\* A pod works from nothing that was not published.
WorksFromPublished ==
    \A p \in Pods : loaded[p] # NoArtifact => loaded[p] \in published
==============================================================================

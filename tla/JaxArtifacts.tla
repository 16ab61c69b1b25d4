----------------------------- MODULE JaxArtifacts -----------------------------
(***************************************************************************)
(* What the JAX pods do to the cache they share, seen from outside.        *)
(* published is a history variable: it records the archives that were SET, *)
(* which Redis forgets when one replaces another or when it restarts, and  *)
(* no step of a pod depends on it.                                         *)
(***************************************************************************)
EXTENDS JaxCachePod

VARIABLE published  \* every archive a SET has stored so far

PublishedInit == Init /\ published = {}

PublishedNext == Next /\ published' = published \union ({store'} \ {Nil})

PublishedSpec == PublishedInit /\ [][PublishedNext]_<<vars, published>>

------------------------------------------------------------------------------
\* The archive a pod works from: the one its metadata says it imported, once
\* the handler runs.
Imported(p) ==
    IF phase[p] = "serving" /\ meta[p].status = "ok" THEN meta[p].files ELSE Nil

\* The pods implement the published-artifact promise, in every mode: a pod
\* imports whole archives that were published, the entrypoint is the only one
\* to import, and the import is kept until the container exits.
Cache == INSTANCE ArtifactCache WITH
    Artifacts <- SUBSET Variants, NoArtifact <- Nil,
    loaded <- [p \in Pods |-> Imported(p)]
ImplementsArtifactCache == Cache!Spec
==============================================================================

----------------------------- MODULE V8Artifacts -----------------------------
(***************************************************************************)
(* What the Node servers do to the cache they share, seen from outside.    *)
(* published is a history variable: it records the artifacts that were     *)
(* SET, by a client that waits or by one that is gone, and no step of a    *)
(* server depends on it.                                                   *)
(***************************************************************************)
EXTENDS V8CacheServer

VARIABLE published  \* every artifact a SET has stored so far

PublishedInit == Init /\ published = {}

PublishedNext == Next /\ published' = published \union ({store'} \ {Nil})

PublishedSpec == PublishedInit /\ [][PublishedNext]_<<vars, published>>

------------------------------------------------------------------------------
\* A server works from its global cachedArtifact.
Cache == INSTANCE ArtifactCache WITH
    Artifacts <- Sources, NoArtifact <- Nil, loaded <- cached

\* Replies overwrite the global in any order (loadArtifact, handlePopulate), so
\* a server may be given another artifact while it lives, always a published one.
ImplementsReplacingCache == Cache!ReplacingSpec

\* Where one source is compiled under the key, as a churn run does, the servers
\* implement the promise in full.
ImplementsArtifactCache == Cache!Spec

\* Whatever the sources, a server works from what a SET has stored.
WorksFromPublished == Cache!WorksFromPublished
==============================================================================

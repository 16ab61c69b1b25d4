--------------------------- MODULE MCV8CacheServer ---------------------------
(* Instances of V8CacheServer for TLC. *)
EXTENDS V8CacheServer, TLC

CONSTANTS p1, p2, r1, r2, s1, s2

MCMode == p1 :> "redis" @@ p2 :> "populate"
MCRedisOnly == p1 :> "redis"
MCRequire == [p \in Pods |-> TRUE]
MCOptional == [p \in Pods |-> FALSE]
Symmetry == Permutations(Slots) \union Permutations(Sources)
==============================================================================

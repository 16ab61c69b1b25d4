--------------------------- MODULE ProgressiveChain ---------------------------
(* measure_progressive_cold_starts.py: the churn loop with a new pod for each *)
(* invocation, and a GET /cache/push after it, composed with what the pods of *)
(* the JAX function do with the archive in Redis: import it when they start,  *)
(* add what they compile, push the whole directory.  An entry of the cache is *)
(* the invocation that compiled it.  JaxCachePod has the pod in detail.       *)
EXTENDS ChurnHarness

VARIABLES store,     \* the archive in Redis: a set of at most one set of entries
          dir,       \* the cache directory of each pod
          started,   \* the pods whose entrypoint has run
          pushing,   \* is the client between a request and its push?
          late,      \* pods whose push the client gave up, not executed yet
          confirmed, \* history: the entries of the pushes that were answered 200
          lapses     \* failed pulls and Redis restarts

chainVars == <<store, dir, started, pushing, late, confirmed, lapses>>

Entries == 1..Invocations

ChainTypeOK ==
  /\ store \in SUBSET SUBSET Entries /\ Cardinality(store) <= 1
  /\ dir \in [Pods -> SUBSET Entries] /\ started \subseteq Pods
  /\ pushing \in BOOLEAN
  /\ late \subseteq Pods
  /\ confirmed \subseteq Entries
  /\ lapses \subseteq {"pull", "redis"}

\* The first invocation starts with no artifact in Redis.
ChainInit ==
  /\ Init
  /\ store = {} /\ dir = [p \in Pods |-> {}]
  /\ started = {p \in Pods : phase[p] # "unborn"}
  /\ pushing = FALSE /\ late = {} /\ confirmed = {} /\ lapses = {}

-----------------------------------------------------------------------------
(* The pods.                                                                 *)

\* The pods a request or a push may reach: the service never named a pod that
\* was deleted before its entrypoint had run.
Reachable == Routable \cap started

\* Mutant of Import: an archive that is found is not extracted.
ImportNothing(p) == dir' = [dir EXCEPT ![p] = {}]

\* What the entrypoint's pull leaves in the directory, which outlives a crash.
Import(p) == dir' = IF store = {} THEN dir ELSE [dir EXCEPT ![p] = UNION store]

StartPod(p) ==
  /\ BecomeReady(p) /\ Import(p) /\ started' = started \union {p}
  /\ UNCHANGED <<store, pushing, late, confirmed, lapses>>

\* The pull fails and the artifact is not required: the pod starts cold.
StartCold(p) ==
  /\ BecomeReady(p)
  /\ lapses' = lapses \union {"pull"} /\ started' = started \union {p}
  /\ UNCHANGED <<store, dir, pushing, late, confirmed>>

RedisRestart ==
  /\ store # {} /\ store' = {}
  /\ lapses' = lapses \union {"redis"}
  /\ UNCHANGED <<vars, dir, started, pushing, late, confirmed>>

\* A pod executes a push its client no longer waits for.
LatePush(p) ==
  /\ p \in late /\ late' = late \ {p}
  /\ store' = IF p \in Reachable THEN {dir[p]} ELSE store
  /\ UNCHANGED <<vars, dir, started, pushing, confirmed, lapses>>

ChainEnvironment ==
  \/ \E p \in Pods : StartPod(p) \/ LatePush(p)
  \/ faults \union lapses = {} /\ (RedisRestart \/ \E p \in Pods : StartCold(p))
  \/ (CreatePod \/ \E p \in Pods : Exit(p) \/ Crash(p) \/ Evict(p)) /\ UNCHANGED chainVars

-----------------------------------------------------------------------------
(* The client.                                                               *)

\* The request: the pod compiles what its directory lacks.
Work(p) ==
  /\ p \in started /\ Serve(p)
  /\ pushing' = TRUE /\ dir' = [dir EXCEPT ![p] = @ \union {inv}]
  /\ UNCHANGED <<store, started, late, confirmed, lapses>>

NoWork == Unserved /\ pushing' = TRUE /\ UNCHANGED <<store, dir, started, late, confirmed, lapses>>

\* Mutant of Archive: a push archives what the pod compiled, not what it imported.
ArchiveOwn(p) == {dir[p] \ UNION store}

\* cachectl.archive_cache: the whole directory.
Archive(p) == {dir[p]}

\* The push goes through the gateway, to whichever pod the service names.
Push(p) ==
  /\ pushing /\ p \in Reachable
  /\ pushing' = FALSE
  /\ store' = Archive(p) /\ confirmed' = confirmed \union dir[p]
  /\ UNCHANGED <<vars, dir, started, late, lapses>>

\* The client gives up, or the answer is an error: only the row's error tells.
PushUnanswered(p) ==
  /\ pushing /\ pushing' = FALSE
  /\ late' \in {late, late \union ({p} \cap Reachable)}
  /\ UNCHANGED <<vars, store, dir, started, confirmed, lapses>>

\* The loop's other steps, none of which runs before the push has returned.
Between == ~pushing /\ (NoChurn \/ Restart \/ Raise \/ Export) /\ UNCHANGED chainVars

ChainClient ==
  \/ NoWork \/ Between
  \/ \E p \in Pods : Work(p) \/ Push(p) \/ PushUnanswered(p)

ChainNext == ChainEnvironment \/ ChainClient \/ (Finished /\ UNCHANGED chainVars)

ChainSpec == ChainInit /\ [][ChainNext]_<<vars, chainVars>>

-----------------------------------------------------------------------------
(* Properties.  The results say of this run that "each later fresh pod       *)
(* imports the artifact written by the previous invocation".                 *)

Chained == lapses = {} /\ "refuse" \notin faults

\* Every push that was answered is still part of the archive: neither the push
\* of a replacement pod nor one that is executed late drops what an earlier
\* invocation has exported.
ConfirmedKept == Chained => confirmed \subseteq UNION store

\* A pod that a request may reach, and that the restart for it created, has
\* imported what every earlier invocation is known to have exported.
ChainUnbroken ==
  Chained /\ pc = "request" => \A p \in Reachable : confirmed \subseteq dir[p]
=============================================================================

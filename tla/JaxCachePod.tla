----------------------------- MODULE JaxCachePod -----------------------------
(***************************************************************************)
(* The pods of prototypes/jax-openfaas-redis-xla and the one Redis key     *)
(* they share: the entrypoint that pulls and extracts the archive of the   *)
(* persistent compilation cache, the lazy configuration of JAX under       *)
(* CONFIG_LOCK, and the requests that compile variants and push the cache  *)
(* directory back.  An archive is the set of variants it has entries for.  *)
(***************************************************************************)
EXTENDS Naturals, Sequences

CONSTANTS Pods, Threads, Nil,
          Mode,             \* JAX_CACHE_MODE of each pod
          Require,          \* JAX_CACHE_REQUIRE_ARTIFACT of each pod
          Schedules,        \* variant schedules clients send, <<>> for none
          CompileVariants,  \* COMPILE_VARIANTS
          MaxIterations,    \* bound: iterations of a populate
          MaxInvocations,   \* bound: requests counted in one process
          MaxFaults         \* bound: kills, replacements, errors, Redis restarts

ASSUME DeploymentAssumption ==
    /\ Mode \in [Pods -> {"baseline", "populate", "redis"}]
    /\ Require \in [Pods -> BOOLEAN]
    /\ Schedules \subseteq Seq(Nat)
    /\ Nil \notin Threads
    /\ {CompileVariants, MaxIterations, MaxInvocations, MaxFaults} \subseteq Nat

VARIABLES store,        \* the archive in Redis, Nil if the key is missing
          phase,        \* "pull", "extract", "serving"
          fetched,      \* the archive the entrypoint extracts
          dir,          \* entries in the cache directory (emptyDir)
          meta,         \* the import metadata file (emptyDir)
          lock,         \* holder of CONFIG_LOCK
          configured,   \* CONFIGURED
          cacheOn,      \* CACHE_DIR_FOR_JAX is not None
          invocation,   \* INVOCATION
          req,          \* the request of each handler thread, its outcome after
          faults

files == <<dir, meta>>
process == <<lock, configured, cacheOn, invocation>>
vars == <<store, phase, fetched, files, process, req, faults>>

------------------------------------------------------------------------------
(* Which variants a request compiles. *)

SumTo(schedule, n) ==
    LET sum[k \in 0..Len(schedule)] == IF k = 0 THEN 0 ELSE sum[k - 1] + schedule[k]
    IN  sum[n]

\* Mutant of ScheduledVariants: the segment starts after its own count.
ScheduledVariantsShifted(schedule, r) ==
    IF r > Len(schedule) \/ schedule[r] = 0 THEN {0}
    ELSE LET start == SumTo(schedule, r)
         IN  start .. (start + schedule[r] - 1)

\* scheduled_variant_indices: request r of a pod takes the r-th segment.
ScheduledVariants(schedule, r) ==
    IF r > Len(schedule) \/ schedule[r] = 0 THEN {0}
    ELSE LET start == SumTo(schedule, r - 1)
         IN  start .. (start + schedule[r] - 1)

AllVariants == 0 .. (IF CompileVariants > 1 THEN CompileVariants - 1 ELSE 0)

\* A populate compiles the whole schedule at once.
PopulateVariants(schedule) ==
    LET n == SumTo(schedule, Len(schedule))
    IN  IF n > 0 THEN 0 .. (n - 1) ELSE AllVariants

WorkVariants(schedule, r) ==
    IF schedule = <<>> THEN AllVariants ELSE ScheduledVariants(schedule, r)

Variants ==
    AllVariants \union {0} \union UNION {PopulateVariants(s) : s \in Schedules}

------------------------------------------------------------------------------
ReqPcs == {"idle", "config", "locked", "plan", "compile", "archive", "set"}
NoMeta == [status |-> "none", files |-> {}]
IdleReq == [pc |-> "idle", op |-> "none", schedule |-> <<>>, left |-> 0,
            export |-> FALSE, todo |-> {}, compiled |-> {}, missed |-> {},
            snap |-> {}, status |-> 0]

Meta == [status : {"none", "skipped", "missing", "error", "ok"},
         files : SUBSET Variants]
Req == [pc : ReqPcs, op : {"none", "work", "populate", "push"},
        schedule : Schedules \union {<<>>}, left : Nat, export : BOOLEAN,
        todo : SUBSET Variants, compiled : SUBSET Variants,
        missed : SUBSET Variants, snap : SUBSET Variants,
        status : {0, 200, 500}]

TypeOK ==
    /\ store \in (SUBSET Variants) \union {Nil}
    /\ phase \in [Pods -> {"pull", "extract", "serving"}]
    /\ fetched \in [Pods -> SUBSET Variants]
    /\ dir \in [Pods -> SUBSET Variants]
    /\ meta \in [Pods -> Meta]
    /\ lock \in [Pods -> Threads \union {Nil}]
    /\ configured \in [Pods -> BOOLEAN]
    /\ cacheOn \in [Pods -> BOOLEAN]
    /\ invocation \in [Pods -> Nat]
    /\ req \in [Pods -> [Threads -> Req]]
    /\ faults \in Nat

Init ==
    /\ store = Nil
    /\ phase = [p \in Pods |-> "pull"]
    /\ fetched = [p \in Pods |-> {}]
    /\ dir = [p \in Pods |-> {}]
    /\ meta = [p \in Pods |-> NoMeta]
    /\ lock = [p \in Pods |-> Nil]
    /\ configured = [p \in Pods |-> FALSE]
    /\ cacheOn = [p \in Pods |-> FALSE]
    /\ invocation = [p \in Pods |-> 0]
    /\ req = [p \in Pods |-> [t \in Threads |-> IdleReq]]
    /\ faults = 0

Fault == faults < MaxFaults /\ faults' = faults + 1

\* The container's process memory is gone.
Exit(p) ==
    /\ phase' = [phase EXCEPT ![p] = "pull"]
    /\ fetched' = [fetched EXCEPT ![p] = {}]
    /\ lock' = [lock EXCEPT ![p] = Nil]
    /\ configured' = [configured EXCEPT ![p] = FALSE]
    /\ cacheOn' = [cacheOn EXCEPT ![p] = FALSE]
    /\ invocation' = [invocation EXCEPT ![p] = 0]
    /\ req' = [req EXCEPT ![p] = [t \in Threads |-> IdleReq]]

------------------------------------------------------------------------------
(* The entrypoint: cachectl.py pull, then the handler. *)
Stamp(p, status, entries) ==
    meta' = [meta EXCEPT ![p] = [status |-> status, files |-> entries]]

Advance(p, to) == phase' = [phase EXCEPT ![p] = to]

PullSkipped(p) ==
    /\ phase[p] = "pull" /\ Mode[p] # "redis"
    /\ Stamp(p, "skipped", {})
    /\ Advance(p, "serving")
    /\ UNCHANGED <<store, fetched, dir, process, req, faults>>

\* A required archive that is missing raises, command_pull overwrites the
\* metadata and the entrypoint exits; otherwise the handler starts cold, with
\* whatever an earlier container left in the directory.
PullMissing(p) ==
    /\ phase[p] = "pull" /\ Mode[p] = "redis" /\ store = Nil
    /\ IF Require[p] THEN Stamp(p, "error", {}) /\ UNCHANGED phase
                     ELSE Stamp(p, "missing", {}) /\ Advance(p, "serving")
    /\ UNCHANGED <<store, fetched, dir, process, req, faults>>

\* Mutant of PullFails: command_pull does not record the error.
PullFailsUnrecorded(p) ==
    /\ phase[p] = "pull" /\ Mode[p] = "redis" /\ Fault
    /\ IF Require[p] THEN UNCHANGED phase ELSE Advance(p, "serving")
    /\ UNCHANGED <<store, fetched, dir, meta, process, req>>

PullFails(p) ==
    /\ phase[p] = "pull" /\ Mode[p] = "redis" /\ Fault
    /\ Stamp(p, "error", {})
    /\ IF Require[p] THEN UNCHANGED phase ELSE Advance(p, "serving")
    /\ UNCHANGED <<store, fetched, dir, process, req>>

\* safe_extract_cache: the directory is removed first.
PullFound(p) ==
    /\ phase[p] = "pull" /\ Mode[p] = "redis" /\ store # Nil
    /\ fetched' = [fetched EXCEPT ![p] = store]
    /\ dir' = [dir EXCEPT ![p] = {}]
    /\ Advance(p, "extract")
    /\ UNCHANGED <<store, meta, process, req, faults>>

ExtractEntry(p) ==
    /\ phase[p] = "extract"
    /\ \E v \in fetched[p] \ dir[p] :
          /\ \A u \in fetched[p] \ dir[p] : v <= u
          /\ dir' = [dir EXCEPT ![p] = @ \union {v}]
    /\ UNCHANGED <<store, phase, fetched, meta, process, req, faults>>

StampImport(p) ==
    /\ phase[p] = "extract" /\ fetched[p] \subseteq dir[p]
    /\ Stamp(p, "ok", fetched[p])
    /\ Advance(p, "serving")
    /\ UNCHANGED <<store, fetched, dir, process, req, faults>>

\* The container is killed; its volume stays.
Kill(p) ==
    /\ Fault
    /\ Exit(p)
    /\ UNCHANGED <<store, files>>

\* The harness deletes the pod: the new one has a new volume.
Replace(p) ==
    /\ Fault
    /\ Exit(p)
    /\ dir' = [dir EXCEPT ![p] = {}]
    /\ meta' = [meta EXCEPT ![p] = NoMeta]
    /\ UNCHANGED store

RedisRestart ==
    /\ Fault
    /\ store # Nil /\ store' = Nil
    /\ UNCHANGED <<phase, fetched, files, process, req>>

------------------------------------------------------------------------------
(* Requests. *)
Keep(p, t, r) == req' = [req EXCEPT ![p][t] = r]

\* What is kept of a request that is over, for its client.
Answered(r, status) ==
    [pc |-> "idle", op |-> r.op, schedule |-> r.schedule, left |-> 0,
     export |-> FALSE, todo |-> {}, compiled |-> r.compiled,
     missed |-> r.missed, snap |-> r.snap, status |-> status]

Answer(p, t, status) == Keep(p, t, Answered(req[p][t], status))

StartWork(p, t, s, export) ==
    /\ phase[p] = "serving" /\ req[p][t].pc = "idle"
    /\ invocation[p] < MaxInvocations
    /\ invocation' = [invocation EXCEPT ![p] = @ + 1]
    /\ Keep(p, t, [IdleReq EXCEPT !.pc = "config", !.op = "work", !.schedule = s,
                       !.left = 1, !.export = export /\ Mode[p] = "populate"])
    /\ UNCHANGED <<store, phase, fetched, files, lock, configured, cacheOn, faults>>

StartPopulate(p, t, s, iterations) ==
    /\ phase[p] = "serving" /\ req[p][t].pc = "idle"
    /\ invocation[p] + iterations <= MaxInvocations
    /\ Keep(p, t, [IdleReq EXCEPT !.pc = "config", !.op = "populate",
                       !.schedule = s, !.left = iterations, !.export = TRUE])
    /\ UNCHANGED <<store, phase, fetched, files, process, faults>>

\* /cache/push archives the directory as it is, configured or not.
StartPush(p, t) ==
    /\ phase[p] = "serving" /\ req[p][t].pc = "idle"
    /\ Keep(p, t, [IdleReq EXCEPT !.pc = "archive", !.op = "push"])
    /\ UNCHANGED <<store, phase, fetched, files, process, faults>>

\* Mutant of EnterConfig: CONFIGURED is set before JAX is configured and read
\* without the lock.
EnterConfigEarly(p, t) ==
    /\ req[p][t].pc = "config" /\ (configured[p] \/ lock[p] = Nil)
    /\ configured' = [configured EXCEPT ![p] = TRUE]
    /\ IF configured[p]
       THEN Keep(p, t, [req[p][t] EXCEPT !.pc = "plan"]) /\ UNCHANGED lock
       ELSE /\ lock' = [lock EXCEPT ![p] = t]
            /\ Keep(p, t, [req[p][t] EXCEPT !.pc = "locked"])
    /\ UNCHANGED <<store, phase, fetched, files, cacheOn, invocation, faults>>

\* ensure_jax_configured: the lock is taken, and left at once if CONFIGURED.
EnterConfig(p, t) ==
    /\ req[p][t].pc = "config" /\ lock[p] = Nil
    /\ IF configured[p]
       THEN Keep(p, t, [req[p][t] EXCEPT !.pc = "plan"]) /\ UNCHANGED lock
       ELSE /\ lock' = [lock EXCEPT ![p] = t]
            /\ Keep(p, t, [req[p][t] EXCEPT !.pc = "locked"])
    /\ UNCHANGED <<store, phase, fetched, files, configured, cacheOn, invocation, faults>>

CacheEnabledForMode(m) == m \in {"populate", "redis"}

\* Mutant of SecondPull: the handler pulls whatever the entrypoint recorded.
SecondPullAlways(p) ==
    IF Mode[p] = "redis" /\ store # Nil
    THEN dir' = [dir EXCEPT ![p] = store] /\ Stamp(p, "ok", store)
    ELSE UNCHANGED files

\* pull_cache_from_redis in the handler, when the entrypoint left no metadata.
SecondPull(p) ==
    IF Mode[p] = "redis" /\ meta[p] = NoMeta /\ store # Nil
    THEN dir' = [dir EXCEPT ![p] = store] /\ Stamp(p, "ok", store)
    ELSE UNCHANGED files

Configure(p, t) ==
    /\ req[p][t].pc = "locked"
    /\ SecondPull(p)
    /\ cacheOn' = [cacheOn EXCEPT ![p] = CacheEnabledForMode(Mode[p])]
    /\ configured' = [configured EXCEPT ![p] = TRUE]
    /\ lock' = [lock EXCEPT ![p] = Nil]
    /\ Keep(p, t, [req[p][t] EXCEPT !.pc = "plan"])
    /\ UNCHANGED <<store, phase, fetched, invocation, faults>>

\* Mutant of ConfigureFails: the lock is not released on the error path.
ConfigureFailsLocked(p, t) ==
    /\ req[p][t].pc = "locked" /\ Fault
    /\ SecondPull(p)
    /\ cacheOn' = [cacheOn EXCEPT ![p] = CacheEnabledForMode(Mode[p])]
    /\ Answer(p, t, 500)
    /\ UNCHANGED <<store, phase, fetched, configured, lock, invocation>>

\* configure_jax raises: CACHE_DIR_FOR_JAX is set, CONFIGURED is not.
ConfigureFails(p, t) ==
    /\ req[p][t].pc = "locked" /\ Fault
    /\ SecondPull(p)
    /\ cacheOn' = [cacheOn EXCEPT ![p] = CacheEnabledForMode(Mode[p])]
    /\ lock' = [lock EXCEPT ![p] = Nil]
    /\ Answer(p, t, 500)
    /\ UNCHANGED <<store, phase, fetched, configured, invocation>>

\* Work reads INVOCATION a second time here, a populate counts only here.
Plan(p, t) ==
    LET r == req[p][t]
        seen == IF r.op = "populate" THEN invocation[p] + 1 ELSE invocation[p]
        todo == IF r.op = "populate" THEN PopulateVariants(r.schedule)
                                     ELSE WorkVariants(r.schedule, seen)
    IN  /\ r.pc = "plan"
        /\ invocation' = [invocation EXCEPT ![p] = seen]
        /\ Keep(p, t, [r EXCEPT !.pc = "compile", !.todo = todo, !.left = @ - 1])
        /\ UNCHANGED <<store, phase, fetched, files, lock, configured, cacheOn, faults>>

\* compile_signature: JAX loads the entry from the cache directory, or
\* compiles and writes it there.
Compile(p, t) ==
    LET r == req[p][t]
    IN  /\ r.pc = "compile"
        /\ \E v \in r.todo :
              /\ \A u \in r.todo : v <= u
              /\ Keep(p, t, [r EXCEPT !.todo = @ \ {v},
                                 !.compiled = @ \union {v},
                                 !.missed = IF cacheOn[p] /\ v \in dir[p] THEN @
                                            ELSE @ \union {v}])
              /\ dir' = IF cacheOn[p] THEN [dir EXCEPT ![p] = @ \union {v}] ELSE dir
        /\ UNCHANGED <<store, phase, fetched, meta, process, faults>>

Compiled(p, t) ==
    LET r == req[p][t]
    IN  /\ r.pc = "compile" /\ r.todo = {}
        /\ IF r.left > 0 THEN Keep(p, t, [r EXCEPT !.pc = "plan"])
           ELSE IF r.export THEN Keep(p, t, [r EXCEPT !.pc = "archive"])
           ELSE Answer(p, t, 200)
        /\ UNCHANGED <<store, phase, fetched, files, process, faults>>

\* push_cache_to_redis: archive_cache, SET, export metadata.
ArchiveCache(p, t) ==
    /\ req[p][t].pc = "archive"
    /\ Keep(p, t, [req[p][t] EXCEPT !.pc = "set", !.snap = dir[p]])
    /\ UNCHANGED <<store, phase, fetched, files, process, faults>>

PushSet(p, t) ==
    /\ req[p][t].pc = "set"
    /\ store' = req[p][t].snap
    /\ Answer(p, t, 200)
    /\ UNCHANGED <<phase, fetched, files, process, faults>>

\* The client sees an error; the SET may have happened.
PushFails(p, t) ==
    /\ req[p][t].pc = "set" /\ Fault
    /\ store' \in {store, req[p][t].snap}
    /\ Answer(p, t, 500)
    /\ UNCHANGED <<phase, fetched, files, process>>

------------------------------------------------------------------------------
Boot(p) ==
    \/ PullSkipped(p) \/ PullMissing(p)
    \/ PullFound(p) \/ ExtractEntry(p) \/ StampImport(p)

Step(p, t) ==
    \/ EnterConfig(p, t) \/ Configure(p, t) \/ Plan(p, t)
    \/ Compile(p, t) \/ Compiled(p, t) \/ ArchiveCache(p, t) \/ PushSet(p, t)

Client(p, t) ==
    \/ \E s \in Schedules, export \in BOOLEAN : StartWork(p, t, s, export)
    \/ \E s \in Schedules, n \in 1..MaxIterations : StartPopulate(p, t, s, n)
    \/ StartPush(p, t)

Environment ==
    \/ \E p \in Pods : Kill(p) \/ Replace(p) \/ PullFails(p)
    \/ \E p \in Pods, t \in Threads : ConfigureFails(p, t) \/ PushFails(p, t)
    \/ RedisRestart

Next ==
    \/ \E p \in Pods : Boot(p)
    \/ \E p \in Pods, t \in Threads : Step(p, t) \/ Client(p, t)
    \/ Environment

Spec == Init /\ [][Next]_vars

\* A runnable handler thread is eventually scheduled.
FairSpec == Spec /\ \A p \in Pods, t \in Threads : WF_vars(Step(p, t))

------------------------------------------------------------------------------
(* Properties. *)

\* What a populate answered with 200 has compiled is in the archive it stored
\* (handle_cache_populate), wherever a cache directory is configured.
PopulateExportsItsVariants ==
    \A p \in Pods, t \in Threads :
        LET r == req[p][t]
        IN  r.op = "populate" /\ r.status = 200 /\ Mode[p] # "baseline" =>
                r.compiled \subseteq r.snap

\* README: "POST /cache/populate: compiles the selected signature with a
\* persistent cache enabled, archives the cache directory, and stores it in
\* Redis", in every mode.
PopulateEnablesCache ==
    \A p \in Pods, t \in Threads :
        LET r == req[p][t]
        IN  r.op = "populate" /\ r.status = 200 => r.compiled \subseteq r.snap

\* A pod that serves with import metadata "ok" has every entry of the archive
\* on disk, although extraction can be cut off and restarted.
ImportedIsPresent ==
    \A p \in Pods :
        phase[p] = "serving" /\ meta[p].status = "ok" => meta[p].files \subseteq dir[p]

\* A redis pod that imported what a populate of the same schedule compiles
\* never compiles: work and populate walk the schedule differently
\* (scheduled_variant_indices, handle_cache_populate) but agree on it.
WarmTraceNeverCompiles ==
    \A p \in Pods, t \in Threads :
        LET r == req[p][t]
        IN  /\ meta[p].status = "ok"
            /\ r.op # "none" /\ PopulateVariants(r.schedule) \subseteq meta[p].files
            => r.missed = {}

\* README: "the Redis artifact is restored before JAX is imported or
\* configured": no entry disappears under a running handler, so the handler's
\* own pull never clears the directory.
CacheOnlyGrows ==
    [][\A p \in Pods : phase[p] = "serving" /\ phase'[p] = "serving"
           => dir[p] \subseteq dir'[p]]_vars

\* Every request is answered or dies with its container: nobody is left
\* waiting for CONFIG_LOCK.
RequestsAnswered ==
    \A p \in Pods, t \in Threads :
        req[p][t].pc # "idle" ~> req[p][t].pc = "idle"
==============================================================================

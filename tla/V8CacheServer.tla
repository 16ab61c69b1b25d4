---------------------------- MODULE V8CacheServer ----------------------------
(***************************************************************************)
(* The pods of prototypes/node-openfaas-v8-cache (server.js) and Redis.    *)
(* Node runs one callback at a time, so a step is what runs between two    *)
(* awaits; the globals may change at every await.  Every Redis command has *)
(* a connection of its own: commands are executed, and replies arrive, in  *)
(* any order.  An artifact is the source text it was compiled from.        *)
(***************************************************************************)
EXTENDS Naturals

CONSTANTS Pods, Slots, Sources, Nil,
          Mode,         \* V8_CACHE_MODE of each pod
          Require,      \* V8_CACHE_REQUIRE_ARTIFACT of each pod
          MaxRequests,  \* bound: work requests counted in one process
          MaxFaults     \* bound: kills and Redis restarts

ASSUME ServerAssumption ==
    /\ Nil \notin Sources
    /\ Mode \in [Pods -> {"baseline", "populate", "redis"}]
    /\ Require \in [Pods -> BOOLEAN]
    /\ MaxRequests \in Nat /\ MaxFaults \in Nat

VARIABLES store,    \* the artifact under V8_CACHE_KEY, Nil if missing
          late,     \* SETs whose client is gone, that may still be executed
          count,    \* requestInPod
          cached,   \* cachedArtifact
          meta,     \* cachedImportMeta: "none", "missing" or "found"
          req,      \* the requests of each pod, their answer after
          faults

vars == <<store, late, count, cached, meta, req, faults>>

Artifacts == Sources \union {Nil}

\* reply is the state of the request's Redis connection: no reply yet, a reply
\* on its way, or the Redis that had the command is gone.
Req == [pc : {"idle", "get", "set", "run", "closed"},
        op : {"none", "work", "populate"},
        reply : {"none", "sent", "cut"}, artifact : Artifacts,
        found : BOOLEAN, first : BOOLEAN,
        answer : {"none", "ok", "missing", "failed"},
        sure : BOOLEAN]  \* Redis has had an artifact since the request came

NoReq == [pc |-> "idle", op |-> "none", reply |-> "none",
          artifact |-> Nil, found |-> FALSE, first |-> FALSE, answer |-> "none",
          sure |-> FALSE]

TypeOK ==
    /\ store \in Artifacts
    /\ late \in SUBSET Sources
    /\ count \in [Pods -> Nat]
    /\ cached \in [Pods -> Artifacts]
    /\ meta \in [Pods -> {"none", "missing", "found"}]
    /\ req \in [Pods -> [Slots -> Req]]
    /\ faults \in Nat

Init ==
    /\ store = Nil
    /\ late = {}
    /\ count = [p \in Pods |-> 0]
    /\ cached = [p \in Pods |-> Nil]
    /\ meta = [p \in Pods |-> "none"]
    /\ req = [p \in Pods |-> [r \in Slots |-> NoReq]]
    /\ faults = 0

Keep(p, r, q) == req' = [req EXCEPT ![p][r] = q]

------------------------------------------------------------------------------
(* GET / and /work. *)

\* Mutant of Cached: a lookup that found nothing is remembered as well.
CachedAnyImport(p) == meta[p] # "none"

\* loadArtifact answers from the globals only when both are set.
Cached(p) == meta[p] # "none" /\ cached[p] # Nil

\* runScript and the response, with requestInPod as it is by then.
Work(q, artifact, found, number) ==
    [q EXCEPT !.pc = "idle", !.reply = "none", !.answer = "ok",
              !.artifact = artifact, !.found = found, !.first = number = 1]

\* Mutant of StartWork: a request served from the globals is not counted.
StartWorkUncountedHit(p, r) ==
    LET q == [NoReq EXCEPT !.op = "work", !.sure = store # Nil]
        hit == Mode[p] = "redis" /\ Cached(p)
    IN  /\ req[p][r].pc = "idle" /\ count[p] < MaxRequests
        /\ count' = IF hit THEN count ELSE [count EXCEPT ![p] = @ + 1]
        /\ IF Mode[p] # "redis" THEN Keep(p, r, Work(q, Nil, FALSE, count[p] + 1))
           ELSE IF hit
           THEN Keep(p, r, [q EXCEPT !.pc = "run", !.artifact = cached[p],
                                     !.found = meta[p] = "found"])
           ELSE Keep(p, r, [q EXCEPT !.pc = "get"])
        /\ UNCHANGED <<store, late, cached, meta, faults>>

\* Up to the first await; without one the request is answered at once.
StartWork(p, r) ==
    LET q == [NoReq EXCEPT !.op = "work", !.sure = store # Nil]
    IN  /\ req[p][r].pc = "idle" /\ count[p] < MaxRequests
        /\ count' = [count EXCEPT ![p] = @ + 1]
        /\ IF Mode[p] # "redis" THEN Keep(p, r, Work(q, Nil, FALSE, count[p] + 1))
           ELSE IF Cached(p)
           THEN Keep(p, r, [q EXCEPT !.pc = "run", !.artifact = cached[p],
                                     !.found = meta[p] = "found"])
           ELSE Keep(p, r, [q EXCEPT !.pc = "get"])
        /\ UNCHANGED <<store, late, cached, meta, faults>>

\* The reply of GET: loadArtifact overwrites both globals.
LoadReply(p, r) ==
    LET q == req[p][r]
    IN  /\ q.pc = "get" /\ q.reply = "sent"
        /\ cached' = [cached EXCEPT ![p] = q.artifact]
        /\ meta' = [meta EXCEPT ![p] = IF q.artifact = Nil THEN "missing" ELSE "found"]
        /\ Keep(p, r, [q EXCEPT !.pc = "run", !.found = q.artifact # Nil])
        /\ UNCHANGED <<store, late, count, faults>>

\* Mutant of Run: the script is compiled from the global.
RunGlobal(p, r) ==
    LET q == req[p][r]
    IN  /\ q.pc = "run"
        /\ IF q.artifact = Nil /\ Require[p]
           THEN Keep(p, r, [q EXCEPT !.pc = "idle", !.reply = "none", !.answer = "missing"])
           ELSE Keep(p, r, Work(q, cached[p], q.found, count[p]))
        /\ UNCHANGED <<store, late, count, cached, meta, faults>>

\* handleWork after its await; requestInPod is read again.
Run(p, r) ==
    LET q == req[p][r]
    IN  /\ q.pc = "run"
        /\ IF q.artifact = Nil /\ Require[p]
           THEN Keep(p, r, [q EXCEPT !.pc = "idle", !.reply = "none", !.answer = "missing"])
           ELSE Keep(p, r, Work(q, q.artifact, q.found, count[p]))
        /\ UNCHANGED <<store, late, count, cached, meta, faults>>

------------------------------------------------------------------------------
(* POST /cache/populate. *)

\* Compiled without cachedData; createCachedData, then SET.
StartPopulate(p, r, s) ==
    /\ req[p][r].pc = "idle"
    /\ Keep(p, r, [NoReq EXCEPT !.pc = "set", !.op = "populate", !.artifact = s])
    /\ UNCHANGED <<store, late, count, cached, meta, faults>>

PopulateReply(p, r) ==
    LET q == req[p][r]
    IN  /\ q.pc = "set" /\ q.reply = "sent"
        /\ cached' = [cached EXCEPT ![p] = q.artifact]
        /\ meta' = [meta EXCEPT ![p] = "found"]
        /\ Keep(p, r, [NoReq EXCEPT !.op = "populate", !.answer = "ok"])
        /\ UNCHANGED <<store, late, count, faults>>

------------------------------------------------------------------------------
(* redisCommands and Redis. *)

Waiting(p, r) == req[p][r].pc \in {"get", "set"}

RedisGet(p, r) ==
    /\ req[p][r].pc = "get" /\ req[p][r].reply = "none"
    /\ Keep(p, r, [req[p][r] EXCEPT !.reply = "sent", !.artifact = store])
    /\ UNCHANGED <<store, late, count, cached, meta, faults>>

RedisSet(p, r) ==
    /\ req[p][r].pc = "set" /\ req[p][r].reply = "none"
    /\ store' = req[p][r].artifact
    /\ Keep(p, r, [req[p][r] EXCEPT !.reply = "sent"])
    /\ UNCHANGED <<late, count, cached, meta, faults>>

\* A SET that its client gave up may still be executed.
LateSet ==
    \E a \in late :
        /\ store' = a /\ late' = late \ {a}
        /\ UNCHANGED <<count, cached, meta, req, faults>>

\* The SETs of pod p that Redis has not executed yet.
Unexecuted(p, slots) ==
    {req[p][r].artifact : r \in {t \in slots : req[p][t].pc = "set"
                                               /\ req[p][t].reply = "none"}}

\* Mutant of Fails: the socket has no timeout.
FailsOnErrorOnly(p, r) ==
    /\ Waiting(p, r) /\ req[p][r].reply = "cut"
    /\ late' \in {late, late \union Unexecuted(p, {r})}
    /\ Keep(p, r, [NoReq EXCEPT !.op = req[p][r].op, !.answer = "failed"])
    /\ UNCHANGED <<store, count, cached, meta, faults>>

\* The socket's timeout or error event, or an error reply: status 500.
Fails(p, r) ==
    /\ Waiting(p, r)
    /\ late' \in {late, late \union Unexecuted(p, {r})}
    /\ Keep(p, r, [NoReq EXCEPT !.op = req[p][r].op, !.answer = "failed"])
    /\ UNCHANGED <<store, count, cached, meta, faults>>

\* A Redis that shuts down closes the connection; nobody listens for that
\* event, and a closed socket has no timeout: the promise is never settled.
Closed(p, r) ==
    /\ Waiting(p, r) /\ req[p][r].reply = "cut"
    /\ Keep(p, r, [req[p][r] EXCEPT !.pc = "closed"])
    /\ UNCHANGED <<store, late, count, cached, meta, faults>>

\* redis-server runs without persistence.
RedisRestart ==
    /\ faults < MaxFaults /\ faults' = faults + 1
    /\ store # Nil /\ store' = Nil /\ late' = {}
    /\ req' = [p \in Pods |-> [r \in Slots |->
                  [req[p][r] EXCEPT !.sure = FALSE,
                      !.reply = IF Waiting(p, r) /\ @ = "none" THEN "cut" ELSE @]]]
    /\ UNCHANGED <<count, cached, meta>>

\* The pod is deleted or its process dies.
Kill(p) ==
    /\ faults < MaxFaults /\ faults' = faults + 1
    /\ count' = [count EXCEPT ![p] = 0]
    /\ cached' = [cached EXCEPT ![p] = Nil]
    /\ meta' = [meta EXCEPT ![p] = "none"]
    /\ late' \in {late, late \union Unexecuted(p, Slots)}
    /\ req' = [req EXCEPT ![p] = [r \in Slots |-> NoReq]]
    /\ UNCHANGED store

------------------------------------------------------------------------------
Callback(p, r) == LoadReply(p, r) \/ PopulateReply(p, r) \/ Run(p, r) \/ Fails(p, r)

Next ==
    \/ \E p \in Pods, r \in Slots :
          \/ StartWork(p, r)
          \/ \E s \in Sources : StartPopulate(p, r, s)
          \/ Callback(p, r)
          \/ RedisGet(p, r) \/ RedisSet(p, r) \/ Closed(p, r)
    \/ \E p \in Pods : Kill(p)
    \/ LateSet \/ RedisRestart

Spec == Init /\ [][Next]_vars

\* Node runs the callbacks that are due; Redis owes nothing.
FairSpec == Spec /\ \A p \in Pods, r \in Slots : WF_vars(Callback(p, r))

------------------------------------------------------------------------------
(* Properties. *)

\* A work request that comes while Redis has an artifact, and Redis does not
\* restart before it is answered, is never refused as missing: a lookup that
\* found nothing before the populate is not remembered (loadArtifact).
AvailableIsFound ==
    \A p \in Pods, r \in Slots :
        req[p][r].answer = "missing" => ~req[p][r].sure

\* What a response says of its import is what its script was compiled with,
\* and a pod that requires an artifact answers with one, although the globals
\* change while the request waits (handleWork).
ResponseMatchesImport ==
    \A p \in Pods, r \in Slots :
        LET q == req[p][r]
        IN  q.op = "work" /\ q.answer = "ok" =>
                /\ q.found = (q.artifact # Nil)
                /\ Mode[p] = "redis" /\ Require[p] => q.found

\* At most one response of a process calls itself the first work, although the
\* number is read when the response is built.
FirstWorkOnce ==
    \A p \in Pods, r, t \in Slots :
        r # t => ~(req[p][r].first /\ req[p][t].first)

\* Every request is answered, however Redis keeps silent, unless Redis closed
\* its connection (redisCommands has no handler for that).
AnsweredUnlessClosed ==
    \A p \in Pods, r \in Slots :
        req[p][r].pc # "idle" ~> req[p][r].pc \in {"idle", "closed"}
==============================================================================

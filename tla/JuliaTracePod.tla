----------------------------- MODULE JuliaTracePod -----------------------------
(* The pods of the Julia prototype.  A pod in mode "populate" has its compiler *)
(* append a precompile statement per method it compiles to a trace file; a     *)
(* request makes it run a process of cachectl.py, which reads the file,        *)
(* filters it and stores it in Redis.  A pod in mode "redis" pulls the         *)
(* artifact and replays it before it serves.  Julia has one thread: a workload *)
(* does not yield to other requests, but the pushing process runs beside it.   *)
EXTENDS Naturals, SequencesExt

CONSTANTS Pods,
          Mode,          \* the mode of each pod
          Pushes,        \* 1..n: the pushes clients may ask for
          Workloads, Methods,
          Needs,         \* the methods a workload runs, in their order
          Unportable,    \* methods whose statement the filter leaves out
          Unreplayable,  \* methods whose statement fails in another process
          NoMethod, Missing,
          TraceFaults    \* crashes, failed commands and Redis restarts

ASSUME TraceAssumption ==
  /\ Pods # {} /\ Mode \in [Pods -> {"populate", "redis"}]
  /\ Needs \in [Workloads -> Seq(Methods)]
  /\ Unportable \subseteq Methods /\ Unreplayable \subseteq Methods
  /\ NoMethod \notin Methods /\ Pushes \subseteq Nat \ {0} /\ TraceFaults \in Nat

VARIABLES pod,      \* of each pod: its phase, the methods it has compiled, the
                    \* trace, the statement in writing, the file it pulled, and
                    \* the methods left to compile for the request that runs
          push,     \* of each push: its phase, its pod and its artifact
          trace,    \* the artifact under the key
          failures  \* how many faults there were

traceVars == <<pod, push, trace, failures>>

\* A list some of whose lines were left out; the others keep their numbers.
Lists == UNION {[kept -> Methods] : kept \in SUBSET Nat}

Without(list, methods) == Restrict(list, {i \in DOMAIN list : list[i] \notin methods})

\* covers is what the pod had compiled when the push was asked for.
Artifacts == [lines : Lists, torn : BOOLEAN, covers : SUBSET Methods]

Phases == {"new", "loading", "serving", "gone"}
PushPhases == {"idle", "spawned", "read", "late", "done"}

TraceTypeOK ==
  /\ pod \in [Pods -> [phase : Phases, compiled : SUBSET Methods, lines : Seq(Methods),
                       writing : Methods \union {NoMethod},
                       file : Artifacts \union {Missing}, todo : Lists]]
  /\ push \in [Pushes -> [phase : PushPhases, pod : Pods,
                          artifact : Artifacts \union {Missing}]]
  /\ trace \in Artifacts \union {Missing}
  /\ failures \in 0..TraceFaults

NewPod(phase) ==
  [phase |-> phase, compiled |-> {}, lines |-> <<>>, writing |-> NoMethod,
   file |-> Missing, todo |-> <<>>]

TraceInit ==
  /\ pod = [p \in Pods |-> NewPod("new")]
  /\ push = [k \in Pushes |-> [phase |-> "idle", pod |-> CHOOSE p \in Pods : TRUE,
                               artifact |-> Missing]]
  /\ trace = Missing /\ failures = 0

Fails == failures < TraceFaults /\ failures' = failures + 1

-----------------------------------------------------------------------------
\* entrypoint.sh: without an artifact, or when the pull fails or times out, the
\* pod starts cold; cachectl.py pull exits 0 in every case.
Pull(p) ==
  /\ Mode[p] = "redis" /\ pod[p].phase = "new"
  /\ \/ /\ pod' = [pod EXCEPT ![p].phase = "loading", ![p].file = trace]
        /\ UNCHANGED failures
     \/ /\ pod' = [pod EXCEPT ![p].phase = "loading"]
        /\ Fails
  /\ UNCHANGED <<push, trace>>

SkipPull(p) ==
  /\ Mode[p] = "populate" /\ pod[p].phase = "new"
  /\ pod' = [pod EXCEPT ![p].phase = "loading"]
  /\ UNCHANGED <<push, trace, failures>>

\* include evaluates the statements in turn and gives up at the first that
\* fails; a torn one is the last and fails.
Replayed(file) ==
  IF file = Missing THEN {}
  ELSE {file.lines[i] : i \in {n \in DOMAIN file.lines :
          \A j \in DOMAIN file.lines : j <= n => file.lines[j] \notin Unreplayable}}

\* The mutant serves while the artifact is still loaded.
LoadBesides(p) ==
  /\ pod[p].phase = "loading"
  /\ \E some \in SUBSET Replayed(pod[p].file) :
       pod' = [pod EXCEPT ![p].phase = "serving", ![p].compiled = some]
  /\ UNCHANGED <<push, trace, failures>>

\* _load_precompile_cache, and only then HTTP.serve.
Load(p) ==
  /\ pod[p].phase = "loading"
  /\ pod' = [pod EXCEPT ![p].phase = "serving", ![p].compiled = Replayed(pod[p].file)]
  /\ UNCHANGED <<push, trace, failures>>

-----------------------------------------------------------------------------
\* The thread is free: a workload runs to its end before another task has it.
Free(p) == pod[p].phase = "serving" /\ DOMAIN pod[p].todo = {} /\ pod[p].writing = NoMethod

\* A request of a workload; one that has nothing to compile changes nothing.
Run(p, w) ==
  /\ Free(p)
  /\ pod' = [pod EXCEPT ![p].todo = Without(Needs[w], pod[p].compiled)]
  /\ UNCHANGED <<push, trace, failures>>

\* The compiler, at the first method that is left, which with --trace-compile
\* also starts to write a statement.
Compile(p) ==
  /\ pod[p].phase = "serving" /\ pod[p].writing = NoMethod
  /\ \E i \in DOMAIN pod[p].todo :
       LET m == pod[p].todo[i]
       IN /\ \A j \in DOMAIN pod[p].todo : i <= j
          /\ pod' = [pod EXCEPT ![p].compiled = @ \union {m}, ![p].todo = Without(@, {m}),
                                ![p].writing = IF Mode[p] = "populate" THEN m ELSE NoMethod]
  /\ UNCHANGED <<push, trace, failures>>

Flush(p) ==
  /\ pod[p].phase = "serving" /\ pod[p].writing # NoMethod
  /\ pod' = [pod EXCEPT ![p].lines = Append(@, pod[p].writing), ![p].writing = NoMethod]
  /\ UNCHANGED <<push, trace, failures>>

-----------------------------------------------------------------------------
\* _push_trace_to_redis: without a trace file, which only a pod that populates
\* has, it answers at once.
PushRequest(k, p) ==
  /\ Free(p) /\ Mode[p] = "populate"
  /\ push[k].phase = "idle" /\ \A j \in Pushes : j < k => push[j].phase # "idle"
  /\ push' = [push EXCEPT ![k].pod = p, ![k].phase = "spawned",
                          ![k].artifact =
                            [lines |-> <<>>, torn |-> FALSE, covers |-> pod[p].compiled]]
  /\ UNCHANGED <<pod, trace, failures>>

\* The mutant gives up at the first line it leaves out.
PortablePrefix(lines) ==
  LET kept == {n \in 0..Len(lines) : \A i \in 1..n : lines[i] \notin Unportable}
  IN SubSeq(lines, 1, CHOOSE n \in kept : \A m \in kept : m <= n)

Portable(lines) == Without(lines, Unportable)

\* The process of push k is over, or a SET of it is still on its way.
Over(k, phase) == push' = [push EXCEPT ![k].phase = phase, ![k].artifact = Missing]

\* push_trace reads the file as it is: of a statement in writing it sees
\* nothing, a part, all, or a part that is not UTF-8.  A part of a statement
\* need not show what the filter looks for.
PushRead(k) ==
  LET of == pod[push[k].pod]
      Read(lines, torn) ==
        push' = [push EXCEPT ![k].phase = "read",
                             ![k].artifact =
                               [lines |-> Portable(lines), torn |-> torn, covers |-> @.covers]]
  IN /\ push[k].phase = "spawned"
     /\ \/ Read(of.lines, FALSE)
        \/ of.writing # NoMethod /\ Read(of.lines, TRUE)
        \/ of.writing # NoMethod /\ Read(Append(of.lines, of.writing), FALSE)
        \/ of.writing # NoMethod /\ Over(k, "done")
     /\ UNCHANGED <<pod, trace, failures>>

\* The SET: one that is not answered OK may have taken effect, or take effect
\* later.
PushSet(k) ==
  /\ push[k].phase = "read"
  /\ \/ trace' = push[k].artifact /\ Over(k, "done") /\ UNCHANGED failures
     \/ UNCHANGED trace /\ Over(k, "done") /\ Fails
     \/ UNCHANGED trace /\ push' = [push EXCEPT ![k].phase = "late"] /\ Fails
  /\ UNCHANGED pod

LateSet(k) ==
  /\ push[k].phase = "late"
  /\ trace' = push[k].artifact /\ Over(k, "done")
  /\ UNCHANGED <<pod, failures>>

-----------------------------------------------------------------------------
\* A pod that goes takes its processes with it, but not a SET on its way.
Crash(p) ==
  /\ pod[p].phase # "gone" /\ Fails
  /\ pod' = [pod EXCEPT ![p] = NewPod("gone")]
  /\ push' = [k \in Pushes |->
                IF push[k].pod = p /\ push[k].phase \in {"spawned", "read"}
                THEN [push[k] EXCEPT !.phase = "done", !.artifact = Missing] ELSE push[k]]
  /\ UNCHANGED trace

\* Redis runs without persistence, and its connections end with it.
RedisRestart ==
  /\ Fails
  /\ trace' = Missing
  /\ push' = [k \in Pushes |->
                IF push[k].phase = "late"
                THEN [push[k] EXCEPT !.phase = "done", !.artifact = Missing] ELSE push[k]]
  /\ UNCHANGED pod

TraceNext ==
  \/ \E p \in Pods : Pull(p) \/ SkipPull(p) \/ Load(p) \/ Compile(p) \/ Flush(p)
                       \/ Crash(p)
  \/ \E p \in Pods, w \in Workloads : Run(p, w)
  \/ \E k \in Pushes, p \in Pods : PushRequest(k, p)
  \/ \E k \in Pushes : PushRead(k) \/ PushSet(k) \/ LateSet(k)
  \/ RedisRestart

TraceSpec == TraceInit /\ [][TraceNext]_traceVars

-----------------------------------------------------------------------------
\* The artifact under the key has every portable method that its pod had
\* compiled when the push was asked for, none that is not portable and none
\* twice, whatever is written to the trace while cachectl.py reads it, and
\* whichever of two pushes comes last (push_trace, _push_trace_to_redis).
StoredTraceIsComplete ==
  trace # Missing =>
    /\ trace.covers \ Unportable \subseteq ToSet(trace.lines)
    /\ ToSet(trace.lines) \intersect Unportable = {}
    /\ IsInjective(trace.lines)

\* In a pod that pulled an artifact no request compiles a method that was
\* compiled when the artifact's push was asked for, except one that the filter
\* leaves out or that comes after a statement that failed: a torn statement at
\* the end costs no more than itself (_load_precompile_cache before HTTP.serve).
ReplayedNeverCompiles ==
  \A p \in Pods :
    pod[p].phase = "serving" /\ pod[p].file # Missing =>
      /\ ToSet(pod[p].todo) \intersect Replayed(pod[p].file) = {}
      /\ ToSet(pod[p].file.lines) \intersect Unreplayable = {}
           => ToSet(pod[p].todo) \intersect pod[p].file.covers \subseteq Unportable
=============================================================================

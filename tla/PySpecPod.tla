------------------------------ MODULE PySpecPod ------------------------------
(***************************************************************************)
(* The pods of prototypes/python-profile-specialization and the one Redis  *)
(* key they share: the entrypoint that pulls the artifact, the threaded    *)
(* HTTP handler that runs work and populates, and the artifact file, the   *)
(* import metadata and the module global the request threads share.        *)
(*                                                                         *)
(* An artifact is abstracted to the benchmark it was generated for.  Two   *)
(* more texts can lie in the artifact file: Empty (truncated, not written  *)
(* yet) and Torn (a text written over a longer one).                       *)
(***************************************************************************)
EXTENDS Naturals

CONSTANTS Pods, Threads, Benchmarks,
          Empty, Torn,
          Nil,              \* no file, no Redis value, no module
          Raise,            \* what importing a file may end in
          DefaultBenchmark, \* the BENCHMARK of the deployment
          SavedPods,        \* pods with PY_SPEC_MODE=saved
          Require, Preload, \* PY_SPEC_REQUIRE_ARTIFACT, PY_SPEC_PRELOAD_ARTIFACT
          WorkOf,           \* WorkOf[p]: benchmarks clients ask pod p for
          PopulateOf,       \* PopulateOf[p]: benchmarks populated through p
          Overlap,          \* may a pod get a populate while one is running?
          MaxInvocations, MaxFaults     \* bounds

Text == Benchmarks \cup {Empty, Torn}

ASSUME SpecialsAssumption ==
    /\ Nil \notin Text \cup {Raise}
    /\ Raise \notin Text
    /\ {Empty, Torn} \cap Benchmarks = {}
    /\ Empty # Torn

ASSUME DeploymentAssumption ==
    /\ DefaultBenchmark \in Benchmarks
    /\ SavedPods \subseteq Pods
    /\ {Require, Preload, Overlap} \subseteq BOOLEAN
    /\ WorkOf \in [Pods -> SUBSET Benchmarks]
    /\ PopulateOf \in [Pods -> SUBSET Benchmarks]
    /\ MaxInvocations \in Nat
    /\ MaxFaults \in Nat

VARIABLES store,        \* the value of PY_SPEC_ARTIFACT_KEY in Redis
          published,    \* history: every value a SET has stored
          phase,        \* where the container of each pod is
          fetched,      \* what the entrypoint's GET returned
          file,         \* the artifact file (an emptyDir: outlives a container)
          meta,         \* the import metadata file
          module,       \* ARTIFACT_MODULE
          invocation,   \* INVOCATION
          req,          \* the request each handler thread works on
          resp,         \* the response each thread wrote last, until its next request
          faults        \* kills, Redis errors and Redis restarts so far

podVars == <<phase, fetched, file, meta>>
vars == <<store, published, podVars, module, invocation, req, resp, faults>>

------------------------------------------------------------------------------
Phases == {"down", "pull", "write", "meta", "preload", "serving"}
ReqPcs == {"idle", "ensure", "assign", "check", "run", "respond",
           "truncate", "write", "read", "set", "hash"}

NoMeta == [imported |-> FALSE, hash |-> Nil]
IdleReq == [pc |-> "idle", bench |-> DefaultBenchmark, val |-> Nil]
NoResp == [op |-> "none", status |-> 0, bench |-> DefaultBenchmark,
           served |-> Nil, used |-> FALSE, first |-> FALSE, hash |-> Nil]

Meta == [imported : BOOLEAN, hash : Text \cup {Nil}]
Req == [pc : ReqPcs, bench : Benchmarks, val : Text \cup {Nil}]
Resp == [op : {"none", "work", "populate"}, status : {0, 200, 400, 500},
         bench : Benchmarks, served : Text \cup {Nil}, used : BOOLEAN,
         first : BOOLEAN, hash : Text \cup {Nil}]

TypeOK ==
    /\ store \in Text \cup {Nil}
    /\ published \subseteq Text \cup {Nil}
    /\ phase \in [Pods -> Phases]
    /\ fetched \in [Pods -> Text \cup {Nil}]
    /\ file \in [Pods -> Text \cup {Nil}]
    /\ meta \in [Pods -> Meta]
    /\ module \in [Pods -> Text \cup {Nil}]
    /\ invocation \in [Pods -> Nat]
    /\ req \in [Pods -> [Threads -> Req]]
    /\ resp \in [Pods -> [Threads -> Resp]]
    /\ faults \in Nat

Init ==
    /\ store = Nil
    /\ published = {}
    /\ phase = [p \in Pods |-> "down"]
    /\ fetched = [p \in Pods |-> Nil]
    /\ file = [p \in Pods |-> Nil]
    /\ meta = [p \in Pods |-> NoMeta]
    /\ module = [p \in Pods |-> Nil]
    /\ invocation = [p \in Pods |-> 0]
    /\ req = [p \in Pods |-> [t \in Threads |-> IdleReq]]
    /\ resp = [p \in Pods |-> [t \in Threads |-> NoResp]]
    /\ faults = 0

------------------------------------------------------------------------------
\* handler.load_artifact: what executing the file at the artifact path can
\* yield.  An empty file is a module without BENCHMARK or run; the text left
\* by overlapping writes may fail to import or pass for any of them.
LoadOutcomes(text) ==
    CASE text = Nil -> {Raise}
      [] text = Torn -> Benchmarks \cup {Empty, Raise}
      [] OTHER -> {text}

\* The container is gone: its memory is lost, its files are not.
Exit(p) ==
    /\ phase' = [phase EXCEPT ![p] = "down"]
    /\ fetched' = [fetched EXCEPT ![p] = Nil]
    /\ module' = [module EXCEPT ![p] = Nil]
    /\ invocation' = [invocation EXCEPT ![p] = 0]
    /\ req' = [req EXCEPT ![p] = [t \in Threads |-> IdleReq]]
    /\ resp' = [resp EXCEPT ![p] = [t \in Threads |-> NoResp]]

Fault == faults < MaxFaults /\ faults' = faults + 1

------------------------------------------------------------------------------
(* The entrypoint. *)

\* A pod that is not in saved mode only writes the metadata of no import.
BootPlain(p) ==
    /\ phase[p] = "down" /\ p \notin SavedPods
    /\ meta' = [meta EXCEPT ![p] = NoMeta]
    /\ phase' = [phase EXCEPT ![p] = "serving"]
    /\ UNCHANGED <<store, published, fetched, file, module, invocation, req, resp, faults>>

BootSaved(p) ==
    /\ phase[p] = "down" /\ p \in SavedPods
    /\ phase' = [phase EXCEPT ![p] = "pull"]
    /\ UNCHANGED <<store, published, fetched, file, meta, module, invocation, req, resp, faults>>

\* GET found nothing: the metadata says so; an artifact file that an earlier
\* container of the pod left is not touched.  With --require the process exits.
PullMissing(p) ==
    /\ phase[p] = "pull" /\ store = Nil
    /\ meta' = [meta EXCEPT ![p] = NoMeta]
    /\ \/ Require /\ Exit(p)
       \/ /\ ~Require
          /\ phase' = [phase EXCEPT ![p] = "preload"]
          /\ UNCHANGED <<fetched, module, invocation, req, resp>>
    /\ UNCHANGED <<store, published, file, faults>>

PullFound(p) ==
    /\ phase[p] = "pull" /\ store # Nil
    /\ fetched' = [fetched EXCEPT ![p] = store]
    /\ phase' = [phase EXCEPT ![p] = "write"]
    /\ UNCHANGED <<store, published, file, meta, module, invocation, req, resp, faults>>

PullFails(p) ==
    /\ phase[p] = "pull" /\ Fault /\ Exit(p)
    /\ UNCHANGED <<store, published, file, meta>>

\* Mutant of PullWrite: a file that is already there is trusted.
PullWriteOnce(p) ==
    /\ phase[p] = "write"
    /\ file' = [file EXCEPT ![p] = IF @ = Nil THEN fetched[p] ELSE @]
    /\ phase' = [phase EXCEPT ![p] = "meta"]
    /\ UNCHANGED <<store, published, fetched, meta, module, invocation, req, resp, faults>>

PullWrite(p) ==
    /\ phase[p] = "write"
    /\ file' = [file EXCEPT ![p] = fetched[p]]
    /\ phase' = [phase EXCEPT ![p] = "meta"]
    /\ UNCHANGED <<store, published, fetched, meta, module, invocation, req, resp, faults>>

PullMeta(p) ==
    /\ phase[p] = "meta"
    /\ meta' = [meta EXCEPT ![p] = [imported |-> TRUE, hash |-> fetched[p]]]
    /\ phase' = [phase EXCEPT ![p] = "preload"]
    /\ UNCHANGED <<store, published, fetched, file, module, invocation, req, resp, faults>>

\* main(): load the artifact of the default benchmark, or die trying.
PreloadArtifact(p) ==
    /\ phase[p] = "preload" /\ Preload
    /\ \/ /\ DefaultBenchmark \in LoadOutcomes(file[p])
          /\ module' = [module EXCEPT ![p] = DefaultBenchmark]
          /\ phase' = [phase EXCEPT ![p] = "serving"]
          /\ UNCHANGED <<fetched, invocation, req, resp>>
       \/ /\ LoadOutcomes(file[p]) # {DefaultBenchmark}
          /\ Exit(p)
    /\ UNCHANGED <<store, published, file, meta, faults>>

SkipPreload(p) ==
    /\ phase[p] = "preload" /\ ~Preload
    /\ phase' = [phase EXCEPT ![p] = "serving"]
    /\ UNCHANGED <<store, published, fetched, file, meta, module, invocation, req, resp, faults>>

\* The container is killed (its files stay) or the pod is replaced (they go).
Kill(p) ==
    /\ phase[p] # "down" /\ Fault /\ Exit(p)
    /\ \/ UNCHANGED <<file, meta>>
       \/ /\ file' = [file EXCEPT ![p] = Nil]
          /\ meta' = [meta EXCEPT ![p] = NoMeta]
    /\ UNCHANGED <<store, published>>

\* Redis runs with --save "" and no volume: a restarted Redis is empty.
RedisRestart ==
    /\ store # Nil /\ Fault
    /\ store' = Nil
    /\ UNCHANGED <<published, podVars, module, invocation, req, resp>>

------------------------------------------------------------------------------
(* Request threads. *)

At(p, t, pc) == phase[p] = "serving" /\ req[p][t].pc = pc
Goto(p, t, pc) == req' = [req EXCEPT ![p][t].pc = pc]
Keep(p, t, val, pc) ==
    req' = [req EXCEPT ![p][t] = [pc |-> pc, bench |-> req[p][t].bench, val |-> val]]
Reply(p, t, r) ==
    /\ resp' = [resp EXCEPT ![p][t] = r]
    /\ req' = [req EXCEPT ![p][t] = IdleReq]

WorkReply(p, t, status) ==
    [op |-> "work", status |-> status, bench |-> req[p][t].bench,
     served |-> req[p][t].val, used |-> status = 200 /\ p \in SavedPods,
     first |-> status = 200 /\ invocation[p] = 1, hash |-> Nil]

PopulateReply(p, t, status, hash) ==
    [op |-> "populate", status |-> status, bench |-> req[p][t].bench,
     served |-> req[p][t].val, used |-> FALSE, first |-> FALSE, hash |-> hash]

\* Mutant of StartWork: the read and the write of the counter are apart, so
\* that an increment made while another thread works may be lost.
StartWorkLostUpdate(p, t, b) ==
    /\ At(p, t, "idle") /\ b \in WorkOf[p]
    /\ invocation[p] < MaxInvocations
    /\ \E n \in IF \E u \in Threads : req[p][u].pc # "idle" THEN {0, 1} ELSE {1} :
          invocation' = [invocation EXCEPT ![p] = @ + n]
    /\ req' = [req EXCEPT ![p][t] =
                 IF p \in SavedPods
                 THEN [pc |-> "ensure", bench |-> b, val |-> Nil]
                 ELSE [pc |-> "respond", bench |-> b, val |-> b]]
    /\ resp' = [resp EXCEPT ![p][t] = NoResp]
    /\ UNCHANGED <<store, published, podVars, module, faults>>

\* handle_work up to run_work.  Outside saved mode run_generic computes the
\* requested benchmark from thread-local state only.
StartWork(p, t, b) ==
    /\ At(p, t, "idle") /\ b \in WorkOf[p]
    /\ invocation[p] < MaxInvocations
    /\ invocation' = [invocation EXCEPT ![p] = @ + 1]
    /\ req' = [req EXCEPT ![p][t] =
                 IF p \in SavedPods
                 THEN [pc |-> "ensure", bench |-> b, val |-> Nil]
                 ELSE [pc |-> "respond", bench |-> b, val |-> b]]
    /\ resp' = [resp EXCEPT ![p][t] = NoResp]
    /\ UNCHANGED <<store, published, podVars, module, faults>>

\* ensure_artifact_loaded: a module that is there is returned as it is.
EnsureCached(p, t) ==
    /\ At(p, t, "ensure") /\ module[p] # Nil
    /\ Goto(p, t, "run")
    /\ UNCHANGED <<store, published, podVars, module, invocation, resp, faults>>

EnsureLoad(p, t) ==
    /\ At(p, t, "ensure") /\ module[p] = Nil
    /\ \E m \in LoadOutcomes(file[p]) :
         \/ /\ m = Raise
            /\ Reply(p, t, WorkReply(p, t, 500))
         \/ /\ m # Raise
            /\ Keep(p, t, m, "assign")
            /\ UNCHANGED resp
    /\ UNCHANGED <<store, published, podVars, module, invocation, faults>>

EnsureAssign(p, t) ==
    /\ At(p, t, "assign")
    /\ module' = [module EXCEPT ![p] = req[p][t].val]
    /\ Keep(p, t, Nil, "check")
    /\ UNCHANGED <<store, published, podVars, invocation, resp, faults>>

\* The global is read again: another thread may have assigned it since.
EnsureCheck(p, t) ==
    /\ At(p, t, "check")
    /\ \/ /\ module[p] = req[p][t].bench
          /\ Goto(p, t, "run")
          /\ UNCHANGED resp
       \/ /\ module[p] # req[p][t].bench
          /\ Reply(p, t, WorkReply(p, t, 400))
    /\ UNCHANGED <<store, published, podVars, module, invocation, faults>>

\* Mutant of RunArtifact: a module without run answers like any other.
RunArtifactAnyModule(p, t) ==
    /\ At(p, t, "run")
    /\ Keep(p, t, module[p], "respond")
    /\ UNCHANGED <<store, published, podVars, module, invocation, resp, faults>>

\* artifact.run: it computes the benchmark the artifact was generated for.
RunArtifact(p, t) ==
    /\ At(p, t, "run")
    /\ \/ /\ module[p] # Empty
          /\ Keep(p, t, module[p], "respond")
          /\ UNCHANGED resp
       \/ /\ module[p] = Empty
          /\ Reply(p, t, WorkReply(p, t, 500))
    /\ UNCHANGED <<store, published, podVars, module, invocation, faults>>

RespondWork(p, t) ==
    /\ At(p, t, "respond")
    /\ Reply(p, t, WorkReply(p, t, 200))
    /\ UNCHANGED <<store, published, podVars, module, invocation, faults>>

Populating(p) == \E t \in Threads :
    req[p][t].pc \in {"truncate", "write", "read", "set", "hash"}

\* handle_populate: the generic runs and the profiles are thread-local.
StartPopulate(p, t, b) ==
    /\ At(p, t, "idle") /\ b \in PopulateOf[p]
    /\ Overlap \/ ~Populating(p)
    /\ req' = [req EXCEPT ![p][t] = [pc |-> "truncate", bench |-> b, val |-> Nil]]
    /\ resp' = [resp EXCEPT ![p][t] = NoResp]
    /\ UNCHANGED <<store, published, podVars, module, invocation, faults>>

\* Mutant of Truncate: the text is not flushed before put reads the file.
TruncateUnflushed(p, t) ==
    /\ At(p, t, "truncate")
    /\ file' = [file EXCEPT ![p] = Empty]
    /\ Goto(p, t, "read")
    /\ UNCHANGED <<store, published, phase, fetched, meta, module, invocation, resp, faults>>

\* write_text opens the shared path, which truncates it ...
Truncate(p, t) ==
    /\ At(p, t, "truncate")
    /\ file' = [file EXCEPT ![p] = Empty]
    /\ Goto(p, t, "write")
    /\ UNCHANGED <<store, published, phase, fetched, meta, module, invocation, resp, faults>>

\* Mutant of WriteText: the default benchmark is specialised, not the one asked for.
WriteTextDefault(p, t) ==
    /\ At(p, t, "write")
    /\ file' = [file EXCEPT ![p] = DefaultBenchmark]
    /\ Goto(p, t, "read")
    /\ UNCHANGED <<store, published, phase, fetched, meta, module, invocation, resp, faults>>

\* ... and writes from offset 0, over whatever another thread wrote meanwhile:
\* the text of another benchmark, or of other seeds and requests.
WriteText(p, t) ==
    /\ At(p, t, "write")
    /\ \E text \in {req[p][t].bench} \cup (IF file[p] = Empty THEN {} ELSE {Torn}) :
          file' = [file EXCEPT ![p] = text]
    /\ Goto(p, t, "read")
    /\ UNCHANGED <<store, published, phase, fetched, meta, module, invocation, resp, faults>>

\* openfaas_artifact.put reads the file back ...
PutRead(p, t) ==
    /\ At(p, t, "read")
    /\ Keep(p, t, file[p], "set")
    /\ UNCHANGED <<store, published, podVars, module, invocation, resp, faults>>

\* ... and stores what it read.
PutSet(p, t) ==
    /\ At(p, t, "set")
    /\ store' = req[p][t].val
    /\ published' = published \cup {req[p][t].val}
    /\ Goto(p, t, "hash")
    /\ UNCHANGED <<podVars, module, invocation, resp, faults>>

\* A Redis error or timeout: the SET took effect or not, the client gets 500.
PutSetFails(p, t) ==
    /\ At(p, t, "set") /\ Fault
    /\ \/ /\ store' = req[p][t].val
          /\ published' = published \cup {req[p][t].val}
       \/ UNCHANGED <<store, published>>
    /\ Reply(p, t, PopulateReply(p, t, 500, Nil))
    /\ UNCHANGED <<podVars, module, invocation>>

\* Mutant of RespondPopulate: the handler switches to what it generated.
RespondPopulateReload(p, t) ==
    /\ At(p, t, "hash")
    /\ module' = [module EXCEPT ![p] = req[p][t].bench]
    /\ Reply(p, t, PopulateReply(p, t, 200, file[p]))
    /\ UNCHANGED <<store, published, podVars, invocation, faults>>

\* artifact_hash reads the file a third time for the response.
RespondPopulate(p, t) ==
    /\ At(p, t, "hash")
    /\ Reply(p, t, PopulateReply(p, t, 200, file[p]))
    /\ UNCHANGED <<store, published, podVars, module, invocation, faults>>

------------------------------------------------------------------------------
Entrypoint(p) ==
    \/ BootPlain(p) \/ BootSaved(p)
    \/ PullMissing(p) \/ PullFound(p) \/ PullWrite(p) \/ PullMeta(p)
    \/ PreloadArtifact(p) \/ SkipPreload(p)

Thread(p, t) ==
    \/ EnsureCached(p, t) \/ EnsureLoad(p, t) \/ EnsureAssign(p, t)
    \/ EnsureCheck(p, t) \/ RunArtifact(p, t) \/ RespondWork(p, t)
    \/ Truncate(p, t) \/ WriteText(p, t) \/ PutRead(p, t)
    \/ PutSet(p, t) \/ RespondPopulate(p, t)

Request(p, t) == \E b \in Benchmarks : StartWork(p, t, b) \/ StartPopulate(p, t, b)

Next ==
    \/ RedisRestart
    \/ \E p \in Pods :
         \/ Entrypoint(p) \/ PullFails(p) \/ Kill(p)
         \/ \E t \in Threads : Request(p, t) \/ Thread(p, t) \/ PutSetFails(p, t)

Spec == Init /\ [][Next]_vars

\* The kubelet restarts a container that exited and the entrypoint runs on;
\* the interpreter schedules every handler thread.  Clients, kills and Redis
\* errors owe nothing.
FairSpec ==
    /\ Spec
    /\ \A p \in Pods : WF_vars(Entrypoint(p))
    /\ \A p \in Pods, t \in Threads : WF_vars(Thread(p, t))

------------------------------------------------------------------------------
(* Properties. *)

\* Once populates of a pod do not overlap, every value that ever reached Redis
\* is a whole artifact, whatever is killed between opening the file, writing
\* it, reading it back and the SET (handle_populate, openfaas_artifact.put).
WholeArtifactsOnly == ~Overlap => published \subseteq Benchmarks

\* With the deployment's PY_SPEC_REQUIRE_ARTIFACT=1 and preload, a saved pod
\* that serves runs the default benchmark's artifact, loaded from the very
\* text its import metadata reports, and that text did come from Redis: no
\* restart on an old file, no stale metadata, no populate through the pod
\* itself makes metadata and module disagree.
SavedPodRunsItsImport ==
    Require /\ Preload =>
        \A p \in SavedPods : phase[p] = "serving" =>
            /\ module[p] = DefaultBenchmark
            /\ meta[p].imported
            /\ meta[p].hash \in published
            /\ module[p] \in LoadOutcomes(meta[p].hash)

\* A 200 of /work computed the benchmark that was asked for, when saved pods
\* are asked for the deployment's benchmark only and either preload (whatever
\* Redis holds) or share the key with populates of that benchmark alone, even
\* if those run inside the saved pod while a thread imports the file lazily.
OnlyDefault(f, P) == \A p \in P : f[p] \subseteq {DefaultBenchmark}
ServedAsRequested ==
    /\ OnlyDefault(WorkOf, SavedPods)
    /\ Preload \/ (~Overlap /\ OnlyDefault(PopulateOf, Pods))
    => \A p \in Pods, t \in Threads :
          resp[p][t].op = "work" /\ resp[p][t].status = 200 =>
              resp[p][t].served = resp[p][t].bench

\* The unsynchronised counter never reports the first work of a container
\* twice: first_work is read after the work, when others may have counted.
FirstWorkOnce ==
    \A p \in Pods : \A t, u \in Threads :
        resp[p][t].first /\ resp[p][u].first => t = u

\* A 200 of /profile/populate names one artifact three times, as the benchmark
\* asked for, as the hash of what was exported and as the hash of the file
\* read back afterwards, and that artifact has been in Redis.
PopulateResponseAgrees ==
    ~Overlap => \A p \in Pods, t \in Threads :
        resp[p][t].op = "populate" /\ resp[p][t].status = 200 =>
            /\ resp[p][t].hash = resp[p][t].bench
            /\ resp[p][t].served = resp[p][t].bench
            /\ resp[p][t].bench \in published

\* The error message of ensure_artifact_loaded, taken as the rule it states: a
\* request is never answered from an artifact of another benchmark.
MismatchRejected ==
    \A p \in Pods, t \in Threads :
        resp[p][t].used => resp[p][t].served = resp[p][t].bench

\* A saved pod that crash-loops because its artifact is missing, or that is
\* killed or loses Redis a few times, serves once the right artifact is there.
SavedPodComesUp ==
    \A p \in SavedPods :
        <>[](store = DefaultBenchmark) => <>[](phase[p] = "serving")

\* The pods implement the published-artifact promise: with serialised
\* populates, require and preload, the module a pod holds was published.
Cache == INSTANCE ArtifactCache WITH
    Artifacts <- Text, NoArtifact <- Nil, loaded <- module
ImplementsArtifactCache == Cache!Spec
==============================================================================

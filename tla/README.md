# Verification of the profile-cache prototypes

The repository prototypes one idea in many languages: what one execution of a
serverless function has learnt (a profile, a compilation cache, generated code)
is exported to Redis under one key, and a pod that starts later imports it and
skips its warm-up. `src/prototypes/*` hold one prototype per runtime, each with
its own pod, its own Redis client, its own controller script and its own
benchmark clients; `src/scripts/*` turn the clients' tables into summaries and
figures. This directory holds TLA+ models of the parts where things can go wrong
in ways the benchmarks and the one test file
(`python-profile-specialization/test_profile_codegen.py`) do not reach, TLC runs
that check them on small instances, and TLAPS proofs of what matters most.

All paths below are under `src/`.

## 1. Inventory

### Components, state, operations

| component | state | operations | hard behaviour | what makes it correct |
|---|---|---|---|---|
| Python specialization pod (`prototypes/python-profile-specialization/openfaas_handler.py`, `openfaas_artifact.py`, `openfaas_redis.py`, `entrypoint-openfaas.sh`) | the Redis key; per pod the artifact file and the import metadata on an emptyDir, the globals `ARTIFACT_MODULE` and `INVOCATION` | pull at start, preload, `/work`, `/profile/populate` | `ThreadingHTTPServer`: request threads share the file and the globals without a lock; containers restart on the files of the previous one; Redis forgets everything when it restarts; a SET may take effect although it failed | a saved pod runs what its metadata says it imported; Redis only gets whole artifacts; a response tells the truth about the artifact and about being first; a crash loop ends |
| Python profiles and code generation (`handler.py`, `profile_codegen.py`) | profiles, route counts, hot order, the generated module | profile, aggregate, generate, run | the generated if/elif chain tests ticket intervals in profile order; the interpreter masks its accumulator in other places than the generated code | generic and generated runs compute the same checksum; the final `AssertionError` is unreachable |
| JAX pod (`prototypes/jax-openfaas-redis-xla/handler.py`, `cachectl.py`, `jax_workload.py`, `entrypoint.sh`) | the Redis key; per pod the cache directory and the import metadata on an emptyDir, `CONFIGURED`, `CACHE_DIR_FOR_JAX`, `INVOCATION`, `CONFIG_LOCK` | pull and extract, lazy configuration, `/work`, `/cache/populate`, `/cache/push` | concurrent first requests race for the configuration, which may fail; extraction is cut off by kills; work and populate walk the variant schedule differently | metadata `ok` means every entry is on disk; a populate stores what it compiled; a warm pod never compiles; nobody waits for the lock forever |
| Node V8 pod (`prototypes/node-openfaas-v8-cache/server.js`) | the Redis key; per process `cachedArtifact`, `cachedImportMeta`, `requestInPod` | `/work`, `/cache/populate` | every `await` lets other requests run; each command has its own connection, so replies come in any order; a command that was given up may still be executed | an artifact in Redis is found; a response describes the import it used; every request is answered |
| Julia precompile-trace pod (`prototypes/julia-openfaas-redis-precompile/handler.jl`, `cachectl.py`, `entrypoint.sh`) | the trace file, the pulled file, the Redis key | pull, replay, work, push | the compiler appends to the trace while another process reads it; a statement may be read in part; a replay gives up at the first statement that fails | a stored trace has all that was compiled when its push was asked for; a pod that replayed it compiles nothing of it again |
| Go profile server and rebuild controller (`prototypes/go-openfaas-redis-pgo`) | `profileLock`, the runtime's CPU profiler, the Redis keys of a run, the script's files | capture, fetch; capture beside load, merge; start again | overlapping captures, a SET after its client has gone, a controller that is killed and started again under the same keys while its curl lives on | a merge uses profiles of its own attempt's traffic |
| RESP clients (one per prototype, `*redis*.py`, `server.js`, `main.go`, `handler.jl`, `cachectl.py`) | the connection: commands written, bytes received, replies parsed | AUTH, SELECT, then GET or SET | a stream that is cut anywhere, payloads that look like replies, refusals before the command, connections that end | a command returns the reply to it or fails; a SET takes effect where it was meant to |
| measurement clients with pod churn (`run_churn_bench.py` of Node, JAX, Go, JVM, .NET and Julia, the OpenWhisk churn plan, the cold-start, warm-up and progressive JAX clients) | the loop index, segment bookkeeping, the rows; the deployment's pods; for the progressive client the archive its pods exchange | restart the pod at churn points, invoke, record, export, push | the deployment replaces, crashes and evicts pods between any two steps; `kubectl delete` may fail unnoticed; old pods may still answer; a push may be executed late | a segment starts on a cold process; rows are attributed to the right pod; no answered push is lost; the client ends |
| Python large-scale runner (`prototypes/python-openfaas-redis-scale/large_scale_runner.py`) | manifests, the place in the matrix, the rows and the file's buffer; the pods of every function | populate, apply, restart the pods of a wave, invoke a position through a thread pool, write rows | what an earlier attempt left in Redis and in its pods; deletes that fail unnoticed; kills with unflushed rows | no row claims an earlier position than its request had; the saved rows are of this attempt's artifact; finished positions are complete |
| measurement reports (`scripts/*.py`, `summarize*.py`, `plot_*.py`, `evaluate_warmup_shape.py`) | – : functions of the tables | filter, pair, medians, percentiles, warm-up shape | failed requests, missing checksums, one of two runs failing, few rows | what a failed request took is in no filtered figure; saved samples have their baseline; copies of a script agree |
| JVM bootstrap (`templates/fn/bootstrap.sh`, k8s files) | a profile and a dump on an emptyDir, the Redis key | pull, run, push on TERM or exit | none as built, see section 6 | – |
| JVM DaCapo server (`prototypes/jvm-openfaas-dacapo/S.java`) | a request counter under one lock, one executor thread | run a benchmark in process | exits trapped by a security manager | – |
| .NET, LLVM, local Go/Node/JAX demonstrations | files of one directory | build, run, rebuild | none: sequential processes | – |
| setup scripts, other plots, vendored template, documents, web page | – | – | – | – |

### Interactions

The pods of a prototype never talk to one another; they meet in the Redis key (one
`SET`, one `GET`, a fresh connection each). The controller script deploys a
populate function, calls its populate route, deploys the importing function and
runs the client; the client meets the deployment only through `kubectl` and the
gateway, and leaves a table of rows that the reports read. Redis runs with
`--save ""` and without a volume (`k8s/redis.yaml` of the Python and JAX
prototypes), so its restart empties it. An emptyDir outlives the containers of a
pod but not the pod.

`PROJECT.json` lists every hazard at its line, with the properties that cover it,
or the reason why none does.

## 2. Modules

| module | models | state and actions |
|---|---|---|
| `ArtifactCache` | the promise the pods share, abstractly | `published`, `loaded`; `Publish`, `Load`, `Unload`. A pod works only from what was published, keeps it, and loses it only by dying. `ReplacingSpec` adds `Replace`: a pod may be given another published artifact while it lives |
| `PySpecPod` | the Python pod, implements `ArtifactCache` | `store` is the key; `file`, `meta` the emptyDir; `module`, `invocation` the globals; `req[p][t].pc` is the line a request thread has reached. `Boot*`, `Pull*`, `Preload*` are the entrypoint; `StartWork`, `Ensure*`, `RunArtifact`, `RespondWork` are `handle_work`, cut wherever another thread can get in between a read and a use; `StartPopulate`, `Truncate`, `WriteText`, `PutRead`, `PutSet`, `RespondPopulate` are `handle_populate`; `Kill`, `PullFails`, `PutSetFails`, `RedisRestart` are the faults |
| `RouteSpecialization` | profiles, `load_profiles`, `generate_artifact`, and the generic and the generated loop side by side | `counts`, `order`, `gstate`, `sstate`; one action per iteration of `choose_route` and per arm of the chain. What a route does to the state is the constant `Block` |
| `RouteBlocks` | the lusearch routes of both renderings, with words of `W` bits | `iacc` and `gacc`; one action per round. `^` and `\|` are recursive functions over the digits, shifts and masks quotients and remainders by powers of two |
| `JaxCachePod` | the JAX pod | an archive is the set of variants it has entries for; `Boot` is `cachectl.py pull`, `Step` a handler thread from `ensure_jax_configured` to the push |
| `JaxArtifacts` | what the JAX pods do to the shared cache, against `ArtifactCache` | `published` is history: the archives that were SET; `Imported(p)` is what the metadata of a serving pod names |
| `V8CacheServer` | the Node pod and each command's connection | a step is what runs between two awaits; `RedisGet`, `RedisSet`, `LateSet` are Redis's side of a connection |
| `V8Artifacts` | what the Node servers do to the shared cache, against `ArtifactCache` | `published` is history; what a server works from is its `cachedArtifact` |
| `JuliaTracePod` | the Julia pods and the process of `cachectl.py` | `lines` and `writing` are the trace file and the statement the compiler is in the middle of; `PushRequest`, `PushRead`, `PushSet`, `LateSet` are a push; `Pull`, `Load` the start of a pod; `covers` is history: what the pod had compiled when the push was asked for |
| `JuliaArtifacts` | what the Julia pods do to the shared trace, against `ArtifactCache` | `published` is history; `Imported(p)` is the trace that a serving pod has replayed |
| `GoProfileCapture` | the Go profile server and the controller that samples it | `holder` is `profileLock`, `stored` the keys, `file` the controller's raw profiles; `TryLock` to `SetProfile` is `handleProfileCapture`, `StartCapture` to `FetchFile` the script; `Kill`, `Rerun`, `ServerCrash`, `StoreRestart` the faults |
| `RespClient` | one command over one connection, byte by byte, over any alphabet `Bytes` | `sent`, `replies`, `delivered`, `taken`; `ParseResp` decodes what has arrived (`Decoded` of the bytes so far); `Execute` is Redis, `Arrive` the socket, with the pipelined Node client and the readers (Python, JAX, Julia, Go), which differ in `Sent` and in what the end of a stream does |
| `ChurnHarness` | the loop all churn clients share, and the deployment | `phase`, `served` are the deployment's pods; `pc`, `inv`, `segment`, `listed`, `target`, `rows` the client. Julia's `--export-at` and `--no-initial-churn` included. A row has what the client's table records: `Columns` says whether that is `request_in_pod`, `first_work` or nothing of the pod's counter; `runs`, how often the process had begun, is history that no table has |
| `ProgressiveChain` | the progressive JAX client over `ChurnHarness`, composed with the archive | `store`, `dir`: every pod imports at its start, adds what it compiles and pushes its directory; `late` are pushes the client gave up |
| `ChurnClients` | the ten measurement clients | each an `INSTANCE` of the loop with the options its `main` has, OpenWhisk's scaled churn points included |
| `LargeScaleRunner` | the large-scale runner and the functions of its matrix | `pods` are each function's pods, with the runs and the artifact of their processes; `Populate`, `Apply`, `DeletePods`, `AwaitReady`, `Invoke`, `EndPosition` the runner; `Init` is a fresh cluster or what an earlier attempt left; `unflushed` is the file's buffer |
| `ResultTables` | the tables, row by row, and the statistics functions | `baseline`, `saved`; `InvokeAlone`, `InvokeBoth`; sorting, medians, nearest-rank and interpolated percentiles |
| `MeasurementReports`, `SeriesReports` | the filters, the pairing and the figures of the reports; the warm-up shape and the steady states | one operator per script; `Kept` is what a comprehension keeps of a table |
| `ReportProperties` | what the reports promise about the tables | `Spec` lets clients write any table, and the properties compare reports of it |
| `*Proofs` | theorems | of each component a module of its own, but for `ChurnHarnessProofs`, which is also about `ProgressiveChain`, and `ProfileCapturesProofs`, which has the Julia and the Go captures and the RESP clients |
| `MC*` | model values, deployments and plans for TLC | `MCPySpecDeployments`, `MCJaxDeployments`, `MCV8Deployments`, `MCRouteCode` and `MCProfileCaptures` hold several deployments or parts in one instance; a variable that never changes says which one a behaviour is of |

What is abstracted: an artifact is the benchmark (Python), the set of variants
(JAX), the source (Node), the methods (Julia) or the capture (Go) it was made
from, because the properties tell artifacts apart by nothing else; two more texts,
`Empty` and `Torn`, stand for what overlapping writes leave in the Python artifact
file, and `torn` for a partly read statement at the end of a Julia trace. Timings,
logs, JSON layout and the kernels are left out; latencies exist only in the tables
of the reports, as a few numbers that can be told apart. Timeouts are steps that
may be taken whenever the wait they end is under way. The pod modules take from
`RespClient` what it shows: a command is answered, refused, or fails before or
after it took effect.

Definitions with the comment "Mutant of ..." or "The mutant ..." are plausible
bugs: every property of every passing run has one, and is violated when the mutant
takes its definition's place (`PROJECT.json`, `mutants`).

## 3. Runs

| run | instance | states | shows |
|---|---|---|---|
| `pyspec_serial` | a populate pod and a saved pod, 2 threads, 2 benchmarks, both pods may be populated, 2 invocations, 1 fault | 1.2 M | `WholeArtifactsOnly`, `FirstWorkOnce`, `PopulateResponseAgrees`, `SavedPodRunsItsImport`, and `PySpecPod` implements `ArtifactCache` |
| `pyspec_deployments` | the same pods; a strict deployment whose populates overlap, and a lazy one (no preload, no require) whose saved pod is populated while it loads; 2 faults, fairness for the strict one | 0.7 M | `StrictComesUp`: the crash loop over empty and torn texts ends once the right artifact stays in Redis; `ServedAsRequested` |
| `pyspec_sticky` | a saved pod asked for both benchmarks | violation | see Findings |
| `route_code` | the five real tables, 100 tickets, 2 profiles, 2 requests; beside them the lusearch routes with 6-bit words, every state and index up to 7, 4 salts, 2 rounds | 0.13 M | `SameChecksum`, `NeverUnreachable`; `BlocksAgree` |
| `jax_deployments` | tracing: a populate pod and a redis pod, 1 thread each, schedule `<<1, 1>>`, 3 faults; racing: one pod, 2 threads, schedules `<<1, 1>>` and `<<0, 1>>`, 1 fault, fairness | 0.9 M | `PopulateExportsItsVariants`, `WarmTraceNeverCompiles`, `ImportedIsPresent`, `CacheOnlyGrows`; `RacersAnswered` |
| `jax_baseline` | a populate pod and a baseline pod | violation | see Findings |
| `v8_deployments` | paired: a redis pod with 2 concurrent requests and a populate pod, 1 fault; alone: one pod, 2 sources, 2 concurrent of 3 requests, 2 faults, fairness | 0.4 M | `AvailableIsFound`, `ResponseMatchesImport`, `FirstWorkOnce`; `AloneAnswered` |
| `churn_clients` | each of the ten clients, 2 or 3 invocations, 4 pods, one kind of fault, as often as it likes | 0.5 M | `ColdSegments`, `RowNamesItsPod`, `FailedChurnShows`, `ExportIsPrefix`; of the progressive client `ConfirmedKept`, `ChainUnbroken`; `Ends` |
| `julia_export` | the Julia client's populate phase, 2 invocations, no fault | violation | see Findings |
| `large_scale` | 1 benchmark in both treatments, 2 shards, 2 waves, 2 positions, from a fresh cluster or over an earlier attempt's remains, 1 fault | 0.5 M | `PositionNeverFlattered`, `TreatmentHolds`, `PositionsComplete`, `Ends` |
| `measurement_reports` | every table of 6 rows, every pair of tables of 3 rows | 87 k | `FailuresLeaveNoTrace`, `SavedSamplesArePaired`, `ReportsAgree`, `StatisticsInOrder`, `ShapeIsFound` |
| `profile_captures` | Julia: a populating and a pulling pod, 2 pushes, 3 methods, 2 faults; Go: 3 attempts of 2 iterations, 3 faults; RESP: every setup, values of up to 2 bytes and one of 10, every cut | 0.5 M | `StoredTraceIsComplete`, `ReplayedNeverCompiles`; `MergesOwnTraffic`; `AnswersAreReplies`, `WritesWhereAsked` |

### Bounds and why they are enough

* Two threads of one pod are the least that race, and every shared variable of a
  pod is read and written by at most two threads at the points that matter; two
  pods are one that publishes and one that imports. Two benchmarks (sources,
  variants) make a right and a wrong artifact.
* Faults are bounded by `MaxFaults`. The tracing JAX deployment needs three (a kill
  after an import, a kill in the middle of the next extraction, a pull that fails),
  which are kept for the redis pod: its populate pod is not killed once it serves
  (`PopulateStays`), the racing one is. `MaxInvocations` and `MaxRequests` cap
  counters that the properties compare with one.
* A churn client has the previous deployment's pods, one ready and one left over,
  and a pod for each restart and each fault; three invocations in segments of two
  have a second segment and a second position. A behaviour has one kind of fault
  (crashes, evictions or refused deletes), because each property excuses one.
* The large-scale runner: two shards are the least whose requests of a position
  overlap; two waves and two positions have a restart and a position after the
  first. `PrefixLength` 2 and `NameLimit` 5 leave room for the three-part suffix,
  as the default prefix does under the 63 characters of a DNS label. One fault of
  any kind comes on top of what an earlier attempt left.
* Tables of six rows cut into segments of two or six have segments without an
  accepted row, with one, and with a tail longer than `TailWindow`, which is 2 here
  and 30 in the code; `WarmMargin` is the code's 10 ms, and the latencies lie on both
  sides of it. Three rows are the least where a failed row has usable ones on both
  sides in the other table. `SYMMETRY` permutes the checksums, which are only
  compared; the run checks safety.
* Trace: one method that replays, one the filter leaves out, one whose statement
  fails elsewhere, and one workload with each of the last two. Captures: three
  attempts let a late SET of the first meet the third. Payloads: `"\r"`, `"\n"` and
  `"$"` occur in replies, `"x"` does not; two bytes make a line end inside a value,
  and ten make a length of two digits, in a value that itself ends like a reply.
* Words of 6 bits (the code's have 64) keep the two shifts, the low mask and the
  product of `mix64` apart; the salts are chosen so that `(index + 1) * salt`
  exceeds a word. The theorem about them is for words of any width.

`CHECK_DEADLOCK FALSE` is given where the bounds stop the clients: there the model
ends because nobody calls any more, the tables are full, or an attempt is the last.
`churn_clients`, `julia_export` and `large_scale` check deadlock: a client stops only
in `Finished`.

### Fairness

* `FairDeploymentsSpec` (`StrictComesUp`): the kubelet restarts an exited container
  of the strict deployment and its entrypoint runs on. Clients, handler threads,
  kills and Redis errors owe nothing, and the property only assumes that the right
  artifact stays in Redis.
* `MCJaxDeployments!DeploymentsSpec` (`RacersAnswered`): a runnable handler thread is
  scheduled. The configuration may fail every time the bound allows.
* `MCV8Deployments!DeploymentsSpec` (`AloneAnswered`): the event loop runs a callback
  that is due, the socket's timeout included. Redis may stay silent for ever.
* `ClientsSpec` (`Ends`): a client takes a step or a timeout of it expires
  (`kubectl delete` 60 s, `kubectl wait`, `--ready-timeout`, the request's timeout).
  The cluster may never replace, start or finish a pod.
* `LargeScaleRunner!FairSpec` (`Ends`): the same of the runner, whose every wait has
  a deadline.

### Findings

* `pyspec_sticky` (`MismatchRejected`, code bug). `ensure_artifact_loaded` stores the module before
  comparing its benchmark (`openfaas_handler.py:105`) and returns a cached module
  without comparing. A saved pod asked for another benchmark than its artifact's
  answers 200, with `used_artifact` and the wrong checksum, from the preload on or
  from the second such request on.
* `jax_baseline` (`PopulateEnablesCache`, code and README disagree). A populate through a baseline pod
  stores an archive without what it compiled; the README says that
  `/cache/populate` compiles "with a persistent cache enabled".
* `julia_export` (`ExportFollows`, code and help disagree). `--export-at` is the "invocation index
  after which to push the trace to Redis"; the push runs before the request of that
  invocation, whose run is therefore not in the trace. `ExportIsPrefix` says what
  the trace does have: exactly the runs before it.

Smaller observations, which no run is about:

* `--no-initial-churn` is undone by the default segment length.
* A refused `kubectl delete` goes unnoticed in every client and in the large-scale
  runner. What betrays it differs: the tables of the Node, Go, JVM, .NET, Julia,
  JAX churn and OpenWhisk clients have `request_in_pod`, which goes on growing, and
  that of `measure_cold_starts.py` has `first_work`, which is then false; this is
  what `FailedChurnShows` says. The tables of `measure_warmup_sequence.py` and
  `measure_progressive_cold_starts.py` record nothing of the counter: there a reader
  would have to notice a repeated `pod_uid` or a long `process_uptime_ms`. Of the
  runner only `pod_uid` shows it, hence `failed` in `PositionNeverFlattered`.
* `steady_value` of the Go plot takes the iterations from index
  `int(0.8 n) - 1`; `docs/go-native-pgo-first-iterations-figure.md:30` speaks of the
  "last 20%". With few iterations the two differ.
* `python_linegraphs` keeps saved rows without a checksum while the other plots
  that pair the two tables drop them; the clients' own churn points count all rows,
  the plots' only usable ones. `ReportsAgree` carries these conditions.
* `function_name` cuts at 63 characters: a long `--function-prefix` would give two
  shards one function. `NamesApart` is the assumption that excludes it.
* An orphaned curl of a killed Go controller may start its capture in the next
  attempt, so that a merged file carries an earlier attempt's capture id; what it
  samples is the current attempt's traffic, which is what `MergesOwnTraffic` says.
* The Node client's pipelined SET takes effect in database 0 when its SELECT was
  refused, after the error has been reported: `WritesWhereAsked` is of the readers.
* `build_image` of the Julia script ends in `[[ -n "$KIND_CLUSTER" ]] && …` and
  therefore fails under `set -e` when no cluster is named.

## 4. Proofs

Each proof module starts from the assumptions its component names about the
constants, and from nothing else; TLC evaluates those assumptions in every run.

| module | theorem | argument |
|---|---|---|
| `PySpecPodProofs` | `TypeCorrect`; `ImportSound` (`SavedPodRunsItsImport`); `ExportWhole` (`WholeArtifactsOnly`), `PopulateTruthful` (`PopulateResponseAgrees`); `FirstWorkSound` (`FirstWorkOnce`); `ServedSound` (`ServedAsRequested`); `PodsImplementCache` (`ImplementsArtifactCache`, for deployments that require, preload and serialise populates); `ModulesWerePublished`, which the pods inherit from the abstract cache | `ImportInv` follows the text from Redis through file and metadata to the module, and adds that no thread of a preloaded pod is about to assign one. `WholeInv`: one thread at a time owns the file, and says what the file holds at each of its points. `FirstInv`: while the counter is 1 a single thread has started or answered a work. `DefaultInv` and `ServeInv`: which texts a lazily loading pod can meet, and that an empty module is never run. The refinement rests on `ImportInv`, `WholeInv` and `HolderInv`: only a serving saved pod holds a module |
| `RouteSpecializationProofs` | `TypeCorrect`, `SpecializationCorrect` (`SameChecksum`), `ChainExhaustive` (`NeverUnreachable`), of the tables | `LoopInv`: `choose_route` has passed every route below its position, and the chain has passed every arm before its own; with increasing thresholds the interval that contains the ticket is the one `choose_route` took, and the order is a permutation, so the chain meets it |
| | `BlockTypeCorrect`, `RenderingsAgree` (`BlocksAgree`), of the lusearch routes | for words of any width, with any shifts, factors and salts. The interpreter's accumulator is unbounded and masked now and then, the generated one is a word. `BlockInv` says that the second is the first masked, `Masked(iacc) = gacc`, and it is inductive because sums, products, exclusive ors and the low bits of a value only depend on its low bits (`Truncated`, `MasksEarly`, `MixesWords`), while right shifts are taken of masked values only. `Truncated` is an induction over the width: the digits of a combination are those of its arguments (`Combined`). That the recursive functions satisfy their equations (`Recursion`) is proved once, by induction from the least counterexample |
| `JaxCachePodProofs` | `TypeCorrect`, `ImportSound`, `ExportSound`, `WarmTraceSound`, `GrowOnly` | `JaxInv` relates a pod's directory, metadata, configuration flag and lock, and what each request has compiled to what the directory holds. "Configured implies the cache directory is set" is what makes a compile visible to the archive. How often a schedule runs each variant is a recursive function; that its sums are natural numbers follows by induction from the least counterexample (`Minimum`, `Induction`, `Sums`) |
| | `PodsImplementCache` (`ImplementsArtifactCache` of `JaxArtifacts`), `ImportsWerePublished` | in every mode. `PublishedInv` follows an archive from the SET through Redis, the pull (`fetched`) and the extraction to the metadata of a serving pod. Metadata is also written by the handler's own pull (`SecondPull`), which would replace what a pod works from; `JaxInv` shows that a handler never finds the import undone, so that only the entrypoint imports (`HandlerStep`) |
| `V8CacheServerProofs` | `TypeCorrect`, `FoundWhenAvailable`, `ResponseSound`, `OneFirstWork` | `ServerInv`: a request that came after a SET and has seen no restart cannot hold an empty reply; the first-work number is handed out once |
| | `ServersWorkFromPublished`, `ServersImplementReplacingCache`, `ServersImplementCache` (`ImplementsArtifactCache` of `V8Artifacts`) | `PublishedInv`: an artifact that is in Redis, in a global or in a reply on its way was SET. The globals are overwritten by every reply, and replies come in any order: with two sources under one key a server that populated one may load the other, and the servers implement only the replacing cache. Where one source is compiled under a key, the third theorem's hypothesis, they implement `ArtifactCache` in full; that is how the key is used, for it names the workload and the run (`run_openfaas_v8_cache.sh:88`) and a run sends one function count |
| `ChurnHarnessProofs` | `TypeCorrect`, `SegmentsStartCold` (`ColdSegments`), `SegmentsApart` (`SegmentsShareNoPod`: no pod answers in two segments) | `ColdInv`: while a restart runs, a pod that is neither gone nor still to be deleted has begun nothing; in a segment no pod has begun more runs than the client has sent. Both are needed: the property speaks of rows only |
| | `CountersTell` (`FailedChurnShows`), `ExportsArePrefixes` (`ExportIsPrefix`), `RowsNameTheirPod` (`RowNamesItsPod`) | `CountInv`: the runs of a row are at most what its pod has begun, and grow along a pod's rows; `RecordedRows`: a table's columns say of an answer what its runs are. `CountersTell` also says that no answer of a client with the column is without its number (`AnswersCounted`). `ExportInv` adds that the client has one row for each invocation it has sent, and splits the runs of the exporting pod at the export. `NameInv`: at most one pod is up, the restart owns the ones that leave, and a pod that is up in a segment is the one `kubectl wait` named |
| `ChurnHarnessProofs`, of `ProgressiveChain` | `ProgressiveIsChurn` (every behaviour of the composition is one of the loop), `ChainTypeCorrect`, `ArchiveKeepsConfirmed` (`ConfirmedKept`), `EachPodImports` (`ChainUnbroken`) | The refinement makes the loop's invariants invariants of the composition. The archive only comes from the directory of a pod that imported it, or from a late push; `ArchiveInv` says that whoever may still push has what every answered push exported: the pods that have started since the last restart (`RestartReplaces`, `InvocationReplaced`), and a given-up push as long as its pod exists (`LateKept`). It needs that an invocation has one pod, hence `NameInv`, and a segment of one invocation: `SegmentLength = 1` is a hypothesis of the last two theorems, because this client restarts the pod before every request (`measure_progressive_cold_starts.py:272`) |
| `LargeScaleRunnerProofs` | `TypeCorrect`, `PositionsHonest` (`PositionNeverFlattered`), `TreatmentsApart` (`TreatmentHolds`), `FileComplete` (`PositionsComplete`) | `HonestInv`: a pod of the selected functions has begun at most a run for each position its shard was sent, and none while the restart still waits, unless the restart waits for it to go; its artifact is one of its treatment, and of this attempt while Redis held nothing else. `FunctionsApart` (from `NamesApart`) keeps a step on one function away from the others. `FileInv`: rows belong to the present position or to one passed, and those passed are whole and in the file; `PlaceOrder` shows that the runner's nested loops count through one number, in lexicographic order |
| `ProfileCapturesProofs`, of `GoProfileCapture` | `CaptureTypeCorrect`, `OwnTrafficMerged` (`MergesOwnTraffic`) | `LockIsOurs`: once a capture of this attempt has had the lock, whoever holds it samples this attempt's traffic. `KeyIsOurs`: once the current iteration's capture was answered 200, its key holds a capture of this attempt's traffic or one whose SET was answered 502. `FilesAreOurs` says the same of the files the controller has fetched in this attempt |
| `ProfileCapturesProofs`, of `JuliaTracePod` | `TraceTypeCorrect`, `StoredTraceComplete` (`StoredTraceIsComplete`), `ReplayIsNotRepeated` (`ReplayedNeverCompiles`) | `TraceInv` says it of all who hand a trace on: the push that has been asked for and has not read yet (the file has at least what it had then, for a pod's file only grows), the push that has read, the key, the pod that pulled it and the pod that replayed it |
| | `TracesImplementCache` (`ImplementsArtifactCache` of `JuliaArtifacts`), `ReplayedWasPublished` | `PublishedInv`: the trace under the key, and the one a pod has pulled, were SET. A pod works from a trace when it serves; of all its steps only `Load` makes it serve, with the file it pulled, and only `Crash` ends that (`PodStep`). That the trace need not be whole, nor replayed to its end, is what `StoredTraceIsComplete` and `ReplayedNeverCompiles` are about |
| `ProfileCapturesProofs`, of `RespClient` | `RespTypeCorrect`, `AnswersCorrect` (`AnswersAreReplies`), `WritesCorrect` (`WritesWhereAsked`) | Of the decoder, for every alphabet and payloads of any length: the decimal numeral of a length is read back as that length, by induction over its digits (`Numeral`, `DecimalFacts`, `Announced`); a reply is decoded at its place in the stream if it has arrived whole, and not at all if it is cut, whatever its payload looks like (`Decode`); the client's rounds end after all replies (`Rounds`), and one more reply changes nothing that was taken (`Longer`). `RespInv` adds the order of the commands: Redis executes what was written, one reply each (`Pace`), a reader writes on only after the reply before was good (`ReadersWait`), so that the database is the one asked for when the SET is executed (`Selected`) |
| `ReportProofs` | `TablesTypeCorrect`; `SavedPaired` (`SavedSamplesArePaired`); `NoTraceOfFailures` (`FailuresLeaveNoTrace`); `StatisticsAreInOrder` (`StatisticsInOrder`); `ReportsDoAgree` (`ReportsAgree`); `ShapesAreFound` (`ShapeIsFound`) | for tables of any length. `Kept` is a recursive function over the places of a table; what it keeps is shown by induction over them (`KeptRows`), and so is that a filter commutes with any change to the rows it drops (`KeptSame`), that filtering twice is filtering by both (`KeptTwice`) and that two filters which agree on a table keep the same (`KeepsAgree`). The first two properties need nothing else but that a row's number is its place. Statistics: the k-th value in order exists, is the only one and grows with k, by counting those below and up to it (`KthExists`, `OneKth`, `SortedKth`); then the indexes of the two percentiles are in range and in order, and that of the nearest rank is at least the upper one of the interpolation (`Indexes`, `IndexesInOrder`, `RankIsLater`). Copies agree report by report (`SameOpenwhisk`, `SamePhases`, `SameChecked`, `SameComparison`, `SameAfterFirst`). The shape of a segment: `Placed`, by induction over the run, numbers the rows within it; the least place among those that reached the half, or the warm median, is found and nothing before it has (`LeastOf`, `FailuresBefore`, `ShapeOfSegment`); a median lies between values of the table, and is the common value of a level tail, whichever of the four scripts cuts the tail out (`MedianOfSame`, `Steady`, `SteadyOfMedians`, `SteadyOfRepeats`, `SteadyOfShape`) |

`ColdSegments` and the others are not inductive as they stand: they speak of what
was answered, while a step needs to know what the pods have done. Properties that
hold only until some kind of fault are proved of invariants with the same escape,
and no step takes a fault back (`FaultsStay`).

The type invariants are theorems, of every module with a state that changes; no run
repeats them. So are all invariants, the action property and the refinement of the
passing runs. Beyond the runs, the refinements of `JaxArtifacts`, `V8Artifacts` and
`JuliaArtifacts` are theorems only: their history variables would add nothing to a
run but states.

Only model-checked is what holds under fairness (`StrictComesUp`, `RacersAnswered`,
`AloneAnswered`, `Ends`): liveness and `ENABLED` are out of the prover's reach.

The library's induction theorems take an operator as a parameter, which the provers
cannot instantiate. Where a proof is an induction, it is written over a set: the
least natural number outside a set that contains 0 and the successor of each of its
members would contradict that (`Minimum`, `Induction`).

Two assumptions are used for more than the types of the constants, and evaluated by
TLC like the others. That a function's name tells block and shard apart
(`NamesApart`) is what the default prefix makes true. That a request takes some time
(`TableAssumption`) is what `ReportsDoAgree` needs, for `plot_paper_warmup_phases`
leaves out latencies of zero and `plot_profile_optimization_effect` does not.
`ShapeIsFound` has a premise of its own: its last part is only right for a tail within
the last fifth of the table (`TailWindow` is 30 in the code, and 2 of up to six rows
in the run), because the JAX plot takes its steady state from that fifth.

## 5. Plan

Done: the six pods and servers, their RESP clients, the abstract specification of the
cache and the refinements to it of the Python, JAX, Node and Julia prototypes, code
generation, the ten measurement clients, the composition of the progressive client
with the archive, the large-scale runner, the reports, and the proofs of section 4.

Open: liveness, should the prover come to support `ENABLED`; `Ends` of the clients
first, whose variant is the loop index with the place in the loop.

## 6. Not modelled

* The JVM bootstrap. Its pull and push never have anything to carry: `ServerMain`
  calls neither `GeorgeProfile.loadIfPresent` nor `dumpBestEffort`, and the image's
  `java` is a stock Temurin, so no dump is ever written and `push_profile` always
  skips. The signals, `set -e` and rolling restarts around it therefore change
  nothing a later pod can see.
* The JVM DaCapo server: one request at a time under one lock on a single thread.
* The Julia sysimage variant, whose artifact is the image itself; `/profile/put` of
  the Go server, whose key nobody else writes or reads; the Go controller's builds
  and deployments, sequential calls of other programs.
* The Python lifecycle's worker pipe and file-based runs: one process writes a line
  and the other reads it. What they generate and check is in `RouteSpecialization`.
* .NET ReadyToRun and PGO, the LLVM, Go, Node and JAX demonstrations on one machine:
  sequential processes whose artifact is a file or an image.
* Of the reports, drawing, labels, means, moving averages and percentages; of the
  other plots everything: they are functions from CSV files to figures, with the
  filters and statistics of the kinds that are modelled.
* Setup scripts, documents, generated copies and the web page, which keep no state.
* Two hazards have no property: V8's own rejection of `cachedData` of another source
  (`server.js:273`), which is V8's to decide, and a harness that loses all its rows to
  an exception of a late restart (`run_churn_bench.py:339`), against which no document
  promises anything; the model ends in `failed` there.

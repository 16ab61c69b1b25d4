--------------------------- MODULE LargeScaleRunner ---------------------------
(* large_scale_runner.py: the matrix of Python functions, a benchmark, a      *)
(* treatment and a shard each, that the runner deploys, whose pods it deletes *)
(* before every wave, and that a thread pool invokes position by position.    *)
(* PySpecPod has a pod in detail.  A request and its answer are one step: a   *)
(* function has one request at a time, and the others do not touch its pods.  *)
EXTENDS Naturals, Sequences, FiniteSets

CONSTANTS Benchmarks,   \* --benchmarks, a sequence
          Shards,       \* 1..--shards
          Waves,        \* --waves
          Positions,    \* --requests-per-pod
          PrefixLength, \* the length of --function-prefix
          NameLimit,    \* the length of a DNS label
          MaxFaults     \* how many faults a behaviour may have

ASSUME ScaleAssumption ==
  /\ Benchmarks \in Seq(STRING) /\ Benchmarks # <<>>
  /\ IsFiniteSet(Shards) /\ Shards \subseteq Nat \ {0} /\ Shards # {}
  /\ {Waves, Positions} \subseteq Nat \ {0}
  /\ {PrefixLength, NameLimit, MaxFaults} \subseteq Nat

VARIABLES pc,
          populating,  \* the benchmarks the populate loop has still to do
          ownStore,    \* did this attempt populate, or was it told to skip it?
          deployed,    \* are the deployments of the matrix applied?
          store,       \* the artifact of each benchmark in Redis, at most one
          late,        \* benchmarks an earlier attempt's populate is still at
          pods,        \* the pods of each function, oldest first
          block, wave, position,
          todo,        \* the shards of the position without a row
          rows, unflushed,
          failed,      \* history: has a delete failed unnoticed?
          faults       \* how many faults there were

loop == <<block, wave, position>>
file == <<rows, unflushed>>
setup == <<populating, ownStore, deployed>>
cluster == <<store, late, pods>>
vars == <<pc, setup, cluster, loop, todo, file, failed, faults>>

BenchmarkSet == {Benchmarks[i] : i \in 1..Len(Benchmarks)}
Treatments == <<"baseline", "saved">>
Ages == {"old", "new"} \* an artifact of an earlier attempt, or of this one

\* The blocks of the two outer loops.
Block(b) == [benchmark |-> Benchmarks[(b + 1) \div 2], treatment |-> Treatments[2 - (b % 2)]]
Blocks == 1..2 * Len(Benchmarks)

\* function_name: the prefix and a suffix, cut at the limit.
FunctionName(b, s) ==
  SubSeq([i \in 1..PrefixLength |-> "p"] \o <<Block(b).benchmark, Block(b).treatment, s>>,
         1, NameLimit)

ASSUME NamesApart == \* the prefix leaves room for the suffix
  \A b, c \in Blocks, s, t \in Shards :
    FunctionName(b, s) = FunctionName(c, t) => b = c /\ s = t

\* The functions a selector names.
Selected(b) == {FunctionName(b, s) : s \in Shards}
Names == UNION {Selected(b) : b \in Blocks}

States == {"starting", "ready", "draining", "dying"}
Pods == [state: States, awaited: BOOLEAN, runs: Nat, artifact: {{}} \union {{a} : a \in Ages}]
Rows == [block: Blocks, wave: Nat, shard: Shards, position: Nat,
         answered: BOOLEAN, run: Nat, artifact: {{}} \union {{a} : a \in Ages}]

TypeOK ==
  /\ pc \in {"populate", "deploy", "ready", "restart", "deleting", "wait", "send",
             "done", "failed", "killed"}
  /\ populating \subseteq BenchmarkSet /\ ownStore \in BOOLEAN /\ deployed \in BOOLEAN
  /\ store \in [BenchmarkSet -> {{}} \union {{a} : a \in Ages}]
  /\ late \subseteq BenchmarkSet
  /\ pods \in [Names -> Seq(Pods)]
  /\ block \in Blocks /\ wave \in 1..Waves /\ position \in 1..Positions
  /\ todo \subseteq Shards
  /\ rows \subseteq Rows /\ unflushed \subseteq rows
  /\ failed \in BOOLEAN /\ faults \in Nat

-----------------------------------------------------------------------------
(* The cluster.                                                              *)

\* The places of a function's pods.
PodsOf(n) == 1..Len(pods[n])

Alive(p) == p.state \in {"starting", "ready"}
NewPod == [state |-> "starting", awaited |-> FALSE, runs |-> 0, artifact |-> {}]

\* What an earlier attempt with this run id left: an artifact, perhaps with a
\* populate request still at work, and perhaps the deployments with used pods.
OldPod(b) == [state |-> "ready", awaited |-> FALSE, runs |-> 1,
              artifact |-> IF Block(b).treatment = "saved" THEN {"old"} ELSE {}]

Init ==
  /\ \E old, left, skipPopulate \in BOOLEAN :
       /\ (left \/ skipPopulate) => old
       /\ store = [b \in BenchmarkSet |-> IF old THEN {"old"} ELSE {}]
       /\ late \in IF old THEN {{}, {Benchmarks[1]}} ELSE {{}}
       /\ deployed = left
       /\ pods = [n \in Names |-> IF left THEN << OldPod(CHOOSE b \in Blocks : n \in Selected(b)) >>
                                          ELSE <<>>]
       /\ ownStore = ~skipPopulate
       /\ pc = IF skipPopulate THEN "deploy" ELSE "populate"
  /\ populating = BenchmarkSet
  /\ block = 1 /\ wave = 1 /\ position = 1
  /\ todo = {} /\ rows = {} /\ unflushed = {} /\ failed = FALSE /\ faults = 0

Replace(n, i, p) == pods' = [pods EXCEPT ![n][i] = p]

CreatePod(n) ==
  /\ deployed /\ \A i \in 1..Len(pods[n]) : ~Alive(pods[n][i])
  /\ pods' = [pods EXCEPT ![n] = Append(@, NewPod)]
  /\ UNCHANGED <<pc, setup, store, late, loop, todo, file, failed, faults>>

\* Mutant of Start: a saved pod without an artifact serves the slow path.
StartAnyway(b, n, i) ==
  /\ n \in Selected(b) /\ pods[n][i].state = "starting"
  /\ LET found == IF Block(b).treatment = "saved" THEN store[Block(b).benchmark] ELSE {}
     IN Replace(n, i, [pods[n][i] EXCEPT !.state = "ready", !.artifact = found])

\* A saved pod is ready once it has pulled an artifact, which it requires.
Start(b, n, i) ==
  /\ n \in Selected(b) /\ pods[n][i].state = "starting"
  /\ LET found == IF Block(b).treatment = "saved" THEN store[Block(b).benchmark] ELSE {}
     IN /\ Block(b).treatment = "saved" => found # {}
        /\ Replace(n, i, [pods[n][i] EXCEPT !.state = "ready", !.artifact = found])

BecomeReady(n, i) ==
  /\ \E b \in Blocks : Start(b, n, i)
  /\ UNCHANGED <<pc, setup, store, late, loop, todo, file, failed, faults>>

Exit(n, i) ==
  /\ ~Alive(pods[n][i])
  /\ pods' = [pods EXCEPT ![n] = SubSeq(@, 1, i - 1) \o SubSeq(@, i + 1, Len(@))]
  /\ UNCHANGED <<pc, setup, store, late, loop, todo, file, failed, faults>>

Fault == faults < MaxFaults /\ faults' = faults + 1

Terminated(p, awaited) ==
  [p EXCEPT !.state = CASE p.state = "ready" -> "draining"
                        [] p.state = "starting" -> "dying" [] OTHER -> p.state,
            !.awaited = @ \/ awaited]

\* The container restarts in its pod, or something else deletes the pod.
Crash(n, i) ==
  /\ Fault /\ pods[n][i].state = "ready"
  /\ Replace(n, i, [pods[n][i] EXCEPT !.state = "starting", !.runs = 0])
  /\ UNCHANGED <<pc, setup, store, late, loop, todo, file, failed>>

Evict(n, i) ==
  /\ Fault /\ Alive(pods[n][i])
  /\ Replace(n, i, Terminated(pods[n][i], FALSE))
  /\ UNCHANGED <<pc, setup, store, late, loop, todo, file, failed>>

RedisRestart ==
  /\ Fault /\ store' = [b \in BenchmarkSet |-> {}]
  /\ UNCHANGED <<pc, setup, late, pods, loop, todo, file, failed>>

\* The pod ends the populate request of an earlier attempt's client.
LatePopulate(b) ==
  /\ b \in late /\ late' = late \ {b}
  /\ store' = [store EXCEPT ![b] = {"old"}]
  /\ UNCHANGED <<pc, setup, pods, loop, todo, file, failed, faults>>

Environment ==
  \/ RedisRestart
  \/ \E b \in late : LatePopulate(b)
  \/ \E n \in Names : CreatePod(n)
  \/ \E n \in Names : \E i \in PodsOf(n) : BecomeReady(n, i) \/ Exit(n, i) \/ Crash(n, i) \/ Evict(n, i)

-----------------------------------------------------------------------------
(* The runner.                                                               *)

\* POST /profile/populate of the next benchmark, answered with 200.
Populate ==
  /\ pc = "populate"
  /\ \E i \in 1..Len(Benchmarks) :
       /\ populating = {Benchmarks[j] : j \in i..Len(Benchmarks)}
       /\ store' = [store EXCEPT ![Benchmarks[i]] = {"new"}]
       /\ populating' = {Benchmarks[j] : j \in i + 1..Len(Benchmarks)}
  /\ pc' = IF populating' = {} THEN "deploy" ELSE "populate"
  /\ UNCHANGED <<ownStore, deployed, late, pods, loop, todo, file, failed, faults>>

SkipDeploy ==
  /\ pc = "deploy" /\ pc' = "restart"
  /\ UNCHANGED <<setup, cluster, loop, todo, file, failed, faults>>

\* kubectl apply; a deployment that is there already keeps its pods.
Apply ==
  /\ pc = "deploy" /\ pc' = "ready" /\ deployed' = TRUE
  /\ UNCHANGED <<populating, ownStore, cluster, loop, todo, file, failed, faults>>

ReadyPod(n) == \E i \in PodsOf(n) : pods[n][i].state = "ready"

MatrixReady ==
  /\ pc = "ready" /\ \A n \in Names : ReadyPod(n)
  /\ pc' = "restart"
  /\ UNCHANGED <<setup, cluster, loop, todo, file, failed, faults>>

\* Mutant of DeletePods: the command returns when the API server has answered.
DeletePodsNoWait ==
  /\ pc = "restart" /\ pc' = "wait"
  /\ pods' = [n \in Names |-> IF n \in Selected(block)
                THEN [i \in PodsOf(n) |-> Terminated(pods[n][i], TRUE)] ELSE pods[n]]
  /\ UNCHANGED <<setup, store, late, loop, todo, file, failed, faults>>

\* restart_pods: kubectl delete pod -l, which waits for the pods it deleted.
DeletePods ==
  /\ pc = "restart" /\ pc' = "deleting"
  /\ pods' = [n \in Names |-> IF n \in Selected(block)
                THEN [i \in PodsOf(n) |-> Terminated(pods[n][i], TRUE)] ELSE pods[n]]
  /\ UNCHANGED <<setup, store, late, loop, todo, file, failed, faults>>

DeleteReturns ==
  /\ pc = "deleting" /\ \A n \in Names : \A i \in PodsOf(n) : ~pods[n][i].awaited
  /\ pc' = "wait"
  /\ UNCHANGED <<setup, cluster, loop, todo, file, failed, faults>>

\* The command failed after it deleted some of the pods, or it lost sight of
\* those that are going: check=False.
DeleteFails ==
  /\ Fault /\ pc = "restart" /\ pc' = "wait" /\ failed' = TRUE
  /\ \E some \in SUBSET Selected(block) :
       pods' = [n \in Names |-> IF n \in some
                 THEN [i \in PodsOf(n) |-> Terminated(pods[n][i], TRUE)] ELSE pods[n]]
  /\ UNCHANGED <<setup, store, late, loop, todo, file>>

DeleteLost ==
  /\ Fault /\ pc = "deleting" /\ pc' = "wait" /\ failed' = TRUE
  /\ UNCHANGED <<setup, cluster, loop, todo, file>>

\* wait_ready_functions; then the shards' requests of the first position.
AwaitReady ==
  /\ pc = "wait" /\ \A n \in Selected(block) : ReadyPod(n)
  /\ pc' = "send" /\ position' = 1 /\ todo' = Shards
  /\ UNCHANGED <<setup, cluster, block, wave, file, failed, faults>>

Row(s, answered, run, artifact) ==
  [block |-> block, wave |-> wave, shard |-> s, position |-> position,
   answered |-> answered, run |-> run, artifact |-> artifact]

\* The row of a shard's request, as the futures complete.
Record(s, row) ==
  /\ todo' = todo \ {s}
  /\ rows' = rows \union {row} /\ unflushed' = unflushed \union {row}
  /\ UNCHANGED <<pc, setup, store, late, loop, failed>>

\* A pod the service names runs the request.
Invoke(s) ==
  /\ pc = "send" /\ s \in todo
  /\ LET n == FunctionName(block, s)
     IN \E i \in PodsOf(n) :
          /\ pods[n][i].state \in {"ready", "draining"}
          /\ Replace(n, i, [pods[n][i] EXCEPT !.runs = @ + 1])
          /\ \/ Record(s, Row(s, TRUE, pods[n][i].runs + 1, pods[n][i].artifact)) /\ UNCHANGED faults
             \/ Fault /\ Record(s, Row(s, FALSE, 0, {}))

\* No pod does: an error of the gateway, or the timeout.
InvokeNothing(s) ==
  /\ pc = "send" /\ s \in todo
  /\ ~ReadyPod(FunctionName(block, s))
  /\ Record(s, Row(s, FALSE, 0, {})) /\ UNCHANGED <<pods, faults>>

\* What follows a position: the next one, the next wave or the next block.
Advance ==
  \/ /\ position < Positions
     /\ pc' = "send" /\ position' = position + 1 /\ todo' = Shards
     /\ UNCHANGED <<block, wave>>
  \/ /\ position = Positions /\ wave < Waves
     /\ pc' = "restart" /\ wave' = wave + 1 /\ position' = 1 /\ todo' = {}
     /\ UNCHANGED block
  \/ /\ position = Positions /\ wave = Waves /\ block + 1 \in Blocks
     /\ pc' = "restart" /\ block' = block + 1 /\ wave' = 1 /\ position' = 1 /\ todo' = {}
  \/ /\ position = Positions /\ wave = Waves /\ block + 1 \notin Blocks
     /\ pc' = "done" /\ todo' = {} /\ UNCHANGED loop

\* Mutant of EndPosition: the next position is submitted after the first answer.
EndPositionEarly ==
  /\ pc = "send" /\ todo # Shards
  /\ Advance /\ unflushed' = {}
  /\ UNCHANGED <<setup, cluster, rows, failed, faults>>

\* Mutant of EndPosition: the file is flushed at the end of a wave only.
EndPositionUnflushed ==
  /\ pc = "send" /\ todo = {}
  /\ Advance /\ unflushed' = IF position < Positions THEN unflushed ELSE {}
  /\ UNCHANGED <<setup, cluster, rows, failed, faults>>

\* All futures of the position are done; the file is flushed.
EndPosition ==
  /\ pc = "send" /\ todo = {}
  /\ Advance /\ unflushed' = {}
  /\ UNCHANGED <<setup, cluster, rows, failed, faults>>

\* Mutant of Raise: kubectl delete is run without a timeout.
RaiseUnlessDeleting ==
  /\ pc \in {"populate", "deploy", "ready", "wait"}
  /\ pc' = "failed" /\ unflushed' = {}
  /\ UNCHANGED <<setup, cluster, loop, todo, rows, failed, faults>>

\* An exception closes the file: a populate that was not answered with 200, an
\* apply that failed, pods that were not gone or ready in time.
Raise ==
  /\ pc \in {"populate", "deploy", "ready", "deleting", "wait"}
  /\ pc' = "failed" /\ unflushed' = {}
  /\ UNCHANGED <<setup, cluster, loop, todo, rows, failed, faults>>

\* So does an answer that a row cannot be made of.
Malformed ==
  /\ Fault /\ pc = "send" /\ todo # {}
  /\ pc' = "failed" /\ unflushed' = {}
  /\ UNCHANGED <<setup, cluster, loop, todo, rows, failed>>

\* The process is killed: rows still in the buffer may be missing.
Kill ==
  /\ Fault /\ pc \notin {"done", "failed", "killed"}
  /\ pc' = "killed"
  /\ \E lost \in SUBSET unflushed : rows' = rows \ lost
  /\ unflushed' = {}
  /\ UNCHANGED <<setup, cluster, loop, todo, failed>>

\* --cleanup-at-end, whose failure nobody notices.
Cleanup ==
  /\ pc = "done" /\ deployed /\ deployed' = FALSE
  /\ pods' = [n \in Names |-> [i \in PodsOf(n) |-> Terminated(pods[n][i], FALSE)]]
  /\ UNCHANGED <<pc, populating, ownStore, store, late, loop, todo, file, failed, faults>>

Runner ==
  \/ Populate \/ SkipDeploy \/ Apply \/ MatrixReady
  \/ DeletePods \/ DeleteReturns \/ DeleteFails \/ DeleteLost \/ AwaitReady
  \/ (\E s \in Shards : Invoke(s) \/ InvokeNothing(s))
  \/ EndPosition \/ Raise \/ Malformed

Finished == pc \in {"done", "failed", "killed"} /\ UNCHANGED vars

Next == Environment \/ Runner \/ Kill \/ Cleanup \/ Finished

Spec == Init /\ [][Next]_vars

\* The runner takes its next step or a timeout of it expires.
FairSpec == Spec /\ WF_vars(Runner)
-----------------------------------------------------------------------------
(* Properties.                                                               *)

Answered == {r \in rows : r.answered}

\* What the summary counts as "saved_rows_without_used_artifact" and as
\* "baseline_rows_with_used_artifact".
SavedWithoutArtifact == {r \in Answered : Block(r.block).treatment = "saved" /\ r.artifact = {}}
BaselineWithArtifact == {r \in Answered : Block(r.block).treatment = "baseline" /\ r.artifact # {}}

\* The requests the runner has gone past: one row each, and with the file
\* flushed, whatever happens to the process.
Place(b, w, p) == ((b - 1) * Waves + w - 1) * Positions + p
Passed(b, w, p) == Place(b, w, p) < Place(block, wave, position) \/ pc = "done"

\* A row never counts a request as earlier in its pod than it was: the rows of
\* position 1 are of processes that had run nothing, after crashes, evictions
\* and an earlier attempt as well, unless a delete failed, of which no row tells.
PositionNeverFlattered == failed \/ \A r \in Answered : r.run <= r.position

\* The two treatments differ by the artifact, and it is the one this attempt
\* populated: neither what an earlier attempt left in Redis or in its pods, nor
\* a slow pod that found none, is measured as the saved treatment.
TreatmentHolds ==
  /\ SavedWithoutArtifact = {} /\ BaselineWithArtifact = {}
  /\ (failed \/ ~ownStore \/ late # {} \/ store # [b \in BenchmarkSet |-> {"new"}])
       \/ \A r \in Answered : "old" \notin r.artifact

\* The rows of the positions passed are in the file, one for each shard, and no
\* row is of a later position: the medians of a position have Shards * Waves samples.
PositionsComplete ==
  /\ \A b \in Blocks, w \in 1..Waves, p \in 1..Positions, s \in Shards :
       Passed(b, w, p) =>
         Cardinality({r \in rows \ unflushed : <<r.block, r.wave, r.position, r.shard>> = <<b, w, p, s>>}) = 1
  /\ \A r \in rows : Place(r.block, r.wave, r.position) <= Place(block, wave, position)

\* The runner ends whatever the cluster does: every wait has a timeout.
Ends == <>(pc \in {"done", "failed", "killed"})
=============================================================================

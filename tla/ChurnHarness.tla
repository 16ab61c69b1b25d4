---------------------------- MODULE ChurnHarness ----------------------------
(* The churn benchmark loop that the Node, JAX, Go, JVM, .NET and Julia      *)
(* prototypes share (run_churn_bench.py, measure_pod_churn.py), against the  *)
(* Kubernetes deployment whose pods it deletes.  The harness is sequential;  *)
(* the deployment replaces pods, pods start, exit, crash and are evicted     *)
(* between any two of its steps.  Latencies, percentiles and the other       *)
(* payload fields of a row are left out.                                     *)
EXTENDS Naturals, Sequences, FiniteSets

CONSTANTS Pods,            \* 1..n: the uids the deployment may give out
          Invocations,     \* --invocations
          SegmentLength,   \* --segment-length, 0 for none
          ChurnAt,         \* --churn-at
          NoInitialChurn,  \* --no-initial-churn (Julia only)
          ExportAt,        \* --export-at (Julia only), 0 for never
          Columns,         \* what of a pod's counter the client's table has
          MaxFaults        \* how many kinds of faults a behaviour may mix

ASSUME ChurnAssumption ==
  /\ Pods \subseteq Nat \ {0} /\ IsFiniteSet(Pods)
  /\ {Invocations, SegmentLength, ExportAt, MaxFaults} \subseteq Nat
  /\ ChurnAt \subseteq Nat
  /\ NoInitialChurn \in BOOLEAN
  /\ Columns \subseteq {"request_in_pod", "first_work"}

VARIABLES phase,    \* the phase of each pod
          served,   \* how many runs the process of each pod has begun
          pc,       \* the harness's place in its loop
          inv,      \* the invocation it is at
          segment, segmentStart,
          pod,      \* the pod the last restart returned
          listed,   \* the pods restart_function_pod still has to delete
          target,   \* the pod it is deleting
          rows,     \* the rows so far
          exported, \* what push_trace pushed: a pod and how many runs it had had
          faults    \* the kinds of faults there were: crashes, evictions,
                    \* refused deletes

cluster == <<phase, served>>
loop == <<inv, segment, segmentStart, rows>>
vars == <<cluster, pc, loop, pod, listed, target, exported, faults>>

NoPod == 0
Phases == {"unborn", "starting", "ready", "terminating", "gone"}
Rows == [segment: Nat, position: Nat, churn: BOOLEAN, pod: Pods \union {NoPod},
         uid: Pods \union {NoPod}, answered: BOOLEAN, inPod: Nat,
         firstWork: BOOLEAN, runs: Nat]
FaultKinds == {"crash", "evict", "refuse"}
NoExport == [pod |-> NoPod, runs |-> 0]

TypeOK ==
  /\ phase \in [Pods -> Phases]
  /\ served \in [Pods -> Nat]
  /\ pc \in {"loop", "delete", "deleting", "export", "request", "done", "failed"}
  /\ inv \in Nat /\ segment \in Nat /\ segmentStart \in Nat
  /\ faults \subseteq FaultKinds
  /\ pod \in Pods \union {NoPod}
  /\ listed \subseteq Pods /\ target \in Pods \union {NoPod}
  /\ rows \in Seq(Rows)
  /\ exported \in [pod: Pods \union {NoPod}, runs: Nat]

-----------------------------------------------------------------------------
\* The invocations the harness restarts the pod before.
ChurnPoints ==
  LET initial == IF NoInitialChurn THEN {} ELSE {1}
      starts == IF SegmentLength > 0
                THEN {1 + k * SegmentLength : k \in 0..Invocations} ELSE {}
  IN (initial \union ChurnAt \union starts) \cap 1..Invocations

\* Mutant of ListedPods: pods that are being deleted already are skipped.
ListedPodsAlive == {p \in Pods : phase[p] \in {"starting", "ready"}}

\* What list_function_pods returns, terminating pods included.
ListedPods == {p \in Pods : phase[p] \notin {"unborn", "gone"}}

\* ready_condition: a pod that is being deleted is not ready.
Ready == {p \in Pods : phase[p] = "ready"}

\* The pods the gateway may still send a request to: a service forgets a pod
\* only some time after its deletion began.
Routable == {p \in Pods : phase[p] \in {"ready", "terminating"}}

-----------------------------------------------------------------------------
(* The deployment of one replica.                                            *)

\* The least uid not given out; the controller replaces a pod as soon as it
\* is being deleted.
CreatePod ==
  /\ \A p \in Pods : phase[p] \notin {"starting", "ready"}
  /\ \E p \in Pods : /\ phase[p] = "unborn"
                     /\ \A q \in Pods : q < p => phase[q] # "unborn"
                     /\ phase' = [phase EXCEPT ![p] = "starting"]
  /\ UNCHANGED <<served, pc, loop, pod, listed, target, exported, faults>>

BecomeReady(p) ==
  /\ phase[p] = "starting"
  /\ phase' = [phase EXCEPT ![p] = "ready"]
  /\ UNCHANGED <<served, pc, loop, pod, listed, target, exported, faults>>

Exit(p) ==
  /\ phase[p] = "terminating"
  /\ phase' = [phase EXCEPT ![p] = "gone"]
  /\ UNCHANGED <<served, pc, loop, pod, listed, target, exported, faults>>

\* One more fault of a kind, within the bound.
Fault(kind) ==
  /\ Cardinality(faults \union {kind}) <= MaxFaults
  /\ faults' = faults \union {kind}

\* The container of a pod is restarted: same pod, new process.
Crash(p) ==
  /\ Fault("crash")
  /\ phase[p] = "ready"
  /\ phase' = [phase EXCEPT ![p] = "starting"]
  /\ served' = [served EXCEPT ![p] = 0]
  /\ UNCHANGED <<pc, loop, pod, listed, target, exported>>

\* Something other than the harness deletes a pod.
Evict(p) ==
  /\ Fault("evict")
  /\ phase[p] \in {"starting", "ready"}
  /\ phase' = [phase EXCEPT ![p] = "terminating"]
  /\ UNCHANGED <<served, pc, loop, pod, listed, target, exported>>

Cluster == CreatePod \/ \E p \in Pods : BecomeReady(p) \/ Exit(p)
Environment == Cluster \/ \E p \in Pods : Crash(p) \/ Evict(p)

-----------------------------------------------------------------------------
(* The loop.                                                                 *)

\* Left over from the deployment step: a ready pod, and perhaps the pod of the
\* previous deployment on its way out.
Init ==
  /\ \E old \in {"gone", "terminating"} :
       phase = [p \in Pods |-> IF p = 1 THEN "ready"
                               ELSE IF p = 2 THEN old ELSE "unborn"]
  /\ served \in [Pods -> {0, 1}] /\ \A p \in Pods : p > 2 => served[p] = 0
  /\ pc = "loop" /\ inv = 1 /\ segment = 0 /\ segmentStart = 1 /\ rows = <<>>
  /\ pod = NoPod /\ listed = {} /\ target = NoPod
  /\ exported = NoExport /\ faults = {}

\* The top of the loop, at an invocation without churn or after the last one.
NoChurn ==
  /\ pc = "loop" /\ inv \notin ChurnPoints
  /\ pc' = IF inv <= Invocations THEN "export" ELSE "done"
  /\ UNCHANGED <<cluster, loop, pod, listed, target, exported, faults>>

\* At a churn point the restart lists the pods.
Churn ==
  /\ pc = "loop" /\ inv \in ChurnPoints
  /\ segment' = segment + 1 /\ segmentStart' = inv
  /\ listed' = ListedPods /\ pc' = "delete"
  /\ UNCHANGED <<cluster, inv, rows, pod, target, exported, faults>>

\* kubectl delete of one listed pod: it returns when the pod is gone.
Delete(p) ==
  /\ pc = "delete" /\ p \in listed
  /\ phase' = IF phase[p] = "gone" THEN phase
              ELSE [phase EXCEPT ![p] = "terminating"]
  /\ listed' = listed \ {p} /\ target' = p /\ pc' = "deleting"
  /\ UNCHANGED <<served, loop, pod, exported, faults>>

DeleteReturns ==
  /\ pc = "deleting" /\ phase[target] = "gone"
  /\ target' = NoPod /\ pc' = "delete"
  /\ UNCHANGED <<cluster, loop, pod, listed, exported, faults>>

\* kubectl delete failed, and nobody looks at the return code: the API server
\* refused it, or the command lost sight of a pod that is going.
DeleteRefused(p) ==
  /\ Fault("refuse") /\ pc = "delete" /\ p \in listed
  /\ listed' = listed \ {p}
  /\ UNCHANGED <<cluster, pc, loop, pod, target, exported>>

DeleteLost ==
  /\ Fault("refuse") /\ pc = "deleting"
  /\ target' = NoPod /\ pc' = "delete"
  /\ UNCHANGED <<cluster, loop, pod, listed, exported>>

\* Mutant of AwaitReady: the name of the first pod is kept.
AwaitReadyOnce ==
  /\ pc = "delete" /\ listed = {}
  /\ \E p \in Ready : pod' = IF pod = NoPod THEN p ELSE pod
  /\ pc' = "export"
  /\ UNCHANGED <<cluster, loop, listed, target, exported, faults>>

\* The kubectl waits are over, each because the pod was gone or its timeout
\* passed, and wait_ready_pod finds a ready pod.
AwaitReady ==
  /\ pc = "delete" /\ listed = {}
  /\ \E p \in Ready : pod' = p
  /\ pc' = "export"
  /\ UNCHANGED <<cluster, loop, listed, target, exported, faults>>

\* Mutant of Raise: kubectl delete is run without a timeout.
RaiseUnlessDeleting ==
  /\ pc = "delete"
  /\ pc' = "failed"
  /\ UNCHANGED <<cluster, loop, pod, listed, target, exported, faults>>

\* An exception ends the harness and its rows are not written: kubectl get
\* failed, kubectl delete took over a minute, no pod was ready in time.
Raise ==
  /\ pc \in {"delete", "deleting"}
  /\ pc' = "failed"
  /\ UNCHANGED <<cluster, loop, pod, listed, target, exported, faults>>

\* Mutant of Export: the trace is pushed before the invocation after ExportAt.
ExportLater ==
  /\ pc = "export" /\ pc' = "request"
  /\ IF inv = ExportAt + 1
     THEN \/ \E p \in Routable : exported' = [pod |-> p, runs |-> served[p]]
          \/ UNCHANGED exported
     ELSE UNCHANGED exported
  /\ UNCHANGED <<cluster, loop, pod, listed, target, faults>>

\* push_trace, whose errors are only printed.
Export ==
  /\ pc = "export" /\ pc' = "request"
  /\ IF inv = ExportAt
     THEN \/ \E p \in Routable : exported' = [pod |-> p, runs |-> served[p]]
          \/ UNCHANGED exported
     ELSE UNCHANGED exported
  /\ UNCHANGED <<cluster, loop, pod, listed, target, faults>>

\* Mutant of Row: the client counts the requests of the segment itself.
RowByPosition(uid, answered, runs) ==
  LET position == inv - segmentStart + 1
  IN [segment |-> segment, position |-> position,
      churn |-> inv \in ChurnPoints, pod |-> pod, uid |-> uid, answered |-> answered,
      inPod |-> IF answered /\ "request_in_pod" \in Columns THEN position ELSE 0,
      firstWork |-> answered /\ "first_work" \in Columns /\ position = 1,
      runs |-> runs]

\* The row of an invocation: an answer names the pod that gave it, otherwise
\* the row takes the pod the restart returned.  inPod and firstWork are the
\* columns of a table that has them, 0 and false in one that has not; runs, what
\* the process had begun, is history, and so are segment, position and churn of
\* a client whose table lacks them.
Row(uid, answered, runs) ==
  [segment |-> segment, position |-> inv - segmentStart + 1,
   churn |-> inv \in ChurnPoints, pod |-> pod, uid |-> uid, answered |-> answered,
   inPod |-> IF "request_in_pod" \in Columns THEN runs ELSE 0,
   firstWork |-> "first_work" \in Columns /\ runs = 1,
   runs |-> runs]

\* A pod begins the run; its answer may be lost or come after the timeout.
Serve(p) ==
  /\ pc = "request" /\ p \in Routable
  /\ served' = [served EXCEPT ![p] = @ + 1]
  /\ rows' = Append(rows, Row(p, TRUE, served'[p]))
     \/ rows' = Append(rows, Row(pod, FALSE, 0))
  /\ inv' = inv + 1 /\ pc' = "loop"
  /\ UNCHANGED <<phase, segment, segmentStart, pod, listed, target, exported, faults>>

\* No pod gets the request: the gateway's error or the client's timeout is the row.
Unserved ==
  /\ pc = "request"
  /\ rows' = Append(rows, Row(pod, FALSE, 0))
  /\ inv' = inv + 1 /\ pc' = "loop"
  /\ UNCHANGED <<cluster, segment, segmentStart, pod, listed, target, exported, faults>>

Restart == \/ Churn \/ DeleteReturns \/ DeleteLost \/ AwaitReady
           \/ \E p \in Pods : Delete(p) \/ DeleteRefused(p)
Request == Unserved \/ \E p \in Pods : Serve(p)
Harness == NoChurn \/ Restart \/ Raise \/ Export \/ Request

Finished == pc \in {"done", "failed"} /\ UNCHANGED vars

Next == Environment \/ Harness \/ Finished

Spec == Init /\ [][Next]_vars

\* The harness takes its next step or a timeout of it expires; nothing obliges
\* the cluster to replace, start or finish a pod.
FairSpec == Spec /\ WF_vars(Harness)

-----------------------------------------------------------------------------
(* Properties.                                                               *)

Answered == {i \in 1..Len(rows) : rows[i].answered}

\* Unless a delete failed, a pod has never begun more runs than the harness has
\* sent since the segment's restart: the first answer of a segment comes from a
\* process that had served nothing, whatever pods were left over, evicted or
\* restarted before it.
ColdSegments ==
  "refuse" \in faults \/ \A i \in Answered :
    rows[i].segment > 0 => rows[i].runs <= rows[i].position

\* Unless a delete failed, no pod answers in two segments: the restart leaves
\* none of the pods before it.
SegmentsShareNoPod ==
  "refuse" \in faults \/ \A i, j \in Answered :
    rows[i].uid = rows[j].uid => rows[i].segment = rows[j].segment

\* While nothing else deletes pods, a row's pod name and its pod uid, one from
\* the restart and one from the response, are of the same pod.
RowNamesItsPod ==
  faults \ {"crash"} # {} \/ \A i \in Answered :
    rows[i].segment > 0 => rows[i].pod = rows[i].uid

\* When a refused delete left the old pod in place, the table of a client that
\* records something of the pod's counter shows it: of two answers of one pod
\* the later has the greater request_in_pod, and is no first_work.  The tables
\* of the warm-up and of the progressive client have neither column.
FailedChurnShows ==
  "crash" \in faults \/ \A i, j \in Answered :
    (i < j /\ rows[i].uid = rows[j].uid) =>
      /\ rows[i].inPod > 0 => rows[i].inPod < rows[j].inPod
      /\ ~rows[j].firstWork

\* The pushed trace has the runs its pod began before invocation ExportAt and
\* none after.
ExportIsPrefix ==
  (exported = NoExport \/ "crash" \in faults) \/ \A i \in Answered :
    rows[i].uid = exported.pod => (rows[i].runs <= exported.runs <=> i < ExportAt)

\* What the option's help says of --export-at, the "invocation index after
\* which to push the trace": the run of that invocation is in the trace.
ExportFollows ==
  exported = NoExport \/ \A i \in Answered :
    (i = ExportAt /\ rows[i].uid = exported.pod) => rows[i].runs <= exported.runs

\* The harness ends, by its rows or by an exception, however the cluster
\* behaves: every wait of the loop has a timeout.
Ends == <>(pc \in {"done", "failed"})
=============================================================================

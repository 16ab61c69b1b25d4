-------------------------- MODULE ChurnHarnessProofs --------------------------
(* Theorems of ChurnHarness, for every set of pods, every plan of churn      *)
(* points and any mixture of crashes, evictions and failed deletes; and of   *)
(* ProgressiveChain, whose client is a churn client: with a restart before   *)
(* each invocation the archive keeps every answered push.                    *)
EXTENDS ProgressiveChain, FiniteSetTheorems, TLAPS

\* What a segment's position needs beyond the types: segments start in the past.
TypeInv == TypeOK /\ segmentStart <= inv

\* A new row is well typed, and appending it leaves the rows before it alone.
LEMMA RowType ==
    ASSUME TypeInv, NEW uid \in Pods \union {NoPod}, NEW answered \in BOOLEAN,
           NEW runs \in Nat
    PROVE  Row(uid, answered, runs) \in Rows
<1>1. inv - segmentStart + 1 \in Nat
  BY DEF TypeInv, TypeOK
<1>2. segment \in Nat /\ pod \in Pods \union {NoPod}
  BY DEF TypeInv, TypeOK
<1>3. (inv \in ChurnPoints) \in BOOLEAN
  OBVIOUS
<1>4. QED BY <1>1, <1>2, <1>3 DEF Row, Rows

LEMMA AppendRow ==
    ASSUME NEW s \in Seq(Rows), NEW r \in Rows
    PROVE  /\ Append(s, r) \in Seq(Rows)
           /\ Len(Append(s, r)) = Len(s) + 1
           /\ \A i \in 1..Len(s) : Append(s, r)[i] = s[i]
           /\ Append(s, r)[Len(s) + 1] = r
OBVIOUS

\* No step takes a fault back.
LEMMA FaultsStay ==
    ASSUME [Next]_vars
    PROVE  faults \subseteq faults'
BY DEF Next, Environment, Cluster, CreatePod, BecomeReady, Exit, Crash, Evict, Fault,
       Harness, NoChurn, Restart, Churn, Delete, DeleteReturns, DeleteRefused,
       DeleteLost, AwaitReady, Raise, Export, Request, Serve, Unserved, Finished, vars

LEMMA InitType == Init => TypeInv
<1> SUFFICES ASSUME Init PROVE TypeInv
  OBVIOUS
<1>1. phase \in [Pods -> Phases]
  BY DEF Init, Phases
<1>2. rows \in Seq(Rows) /\ exported \in [pod: Pods \union {NoPod}, runs: Nat]
  BY DEF Init, NoExport, NoPod
<1>3. served \in [Pods -> Nat]
  BY DEF Init
<1>4. QED BY <1>1, <1>2, <1>3 DEF Init, TypeInv, TypeOK, NoPod

LEMMA ServeType ==
    ASSUME TypeInv, NEW p \in Pods, Serve(p)
    PROVE  TypeInv'
<1>1. served' \in [Pods -> Nat] /\ served'[p] \in Nat
  BY DEF TypeInv, TypeOK, Serve
<1>2. pod \in Pods \union {NoPod} /\ rows \in Seq(Rows)
  BY DEF TypeInv, TypeOK
<1>3. Row(p, TRUE, served'[p]) \in Rows
  BY <1>1, RowType
<1>4. Row(pod, FALSE, 0) \in Rows
  BY <1>2, RowType
<1>5. rows' \in Seq(Rows)
  BY <1>2, <1>3, <1>4, AppendRow, ZenonT(60) DEF Serve
<1>6. QED BY <1>1, <1>5 DEF TypeInv, TypeOK, Serve

LEMMA UnservedType ==
    ASSUME TypeInv, Unserved
    PROVE  TypeInv'
<1>1. pod \in Pods \union {NoPod} /\ rows \in Seq(Rows)
  BY DEF TypeInv, TypeOK
<1>2. Row(pod, FALSE, 0) \in Rows
  BY <1>1, RowType
<1>3. rows' \in Seq(Rows)
  BY <1>1, <1>2, AppendRow DEF Unserved
<1>4. /\ inv' \in Nat /\ segmentStart' <= inv'
      /\ UNCHANGED <<phase, served, segment, segmentStart, pod, listed, target,
                     exported, faults>>
  BY DEF TypeInv, TypeOK, Unserved, cluster
<1>5. pc' = "loop"
  BY DEF Unserved
<1>6. QED BY <1>3, <1>4, <1>5 DEF TypeInv, TypeOK

LEMMA ExportType ==
    ASSUME TypeInv, Export
    PROVE  TypeInv'
<1>1. exported' \in [pod: Pods \union {NoPod}, runs: Nat]
  <2>1. ASSUME NEW p \in Routable PROVE [pod |-> p, runs |-> served[p]] \in
                                          [pod: Pods \union {NoPod}, runs: Nat]
    BY DEF TypeInv, TypeOK, Routable
  <2>2. QED BY <2>1 DEF Export, TypeInv, TypeOK
<1>2. QED BY <1>1 DEF Export, TypeInv, TypeOK, cluster, loop

\* What the cluster does to the pods is well typed.
LEMMA EnvironmentType ==
    ASSUME TypeInv, Environment
    PROVE  TypeInv'
<1>1. CASE CreatePod
  BY <1>1 DEF CreatePod, TypeInv, TypeOK, loop, Phases
<1>2. ASSUME NEW p \in Pods, BecomeReady(p) \/ Exit(p) PROVE TypeInv'
  BY <1>2 DEF BecomeReady, Exit, TypeInv, TypeOK, loop, Phases
<1>3. ASSUME NEW p \in Pods, Crash(p) PROVE TypeInv'
  BY <1>3 DEF Crash, Fault, FaultKinds, TypeInv, TypeOK, loop, Phases
<1>4. ASSUME NEW p \in Pods, Evict(p) PROVE TypeInv'
  BY <1>4 DEF Evict, Fault, FaultKinds, TypeInv, TypeOK, loop, Phases
<1>5. QED BY <1>1, <1>2, <1>3, <1>4 DEF Environment, Cluster

LEMMA NextType == TypeInv /\ [Next]_vars => TypeInv'
<1> SUFFICES ASSUME TypeInv, [Next]_vars PROVE TypeInv'
  OBVIOUS
<1>1. CASE UNCHANGED vars
  BY <1>1 DEF TypeInv, TypeOK, vars, cluster, loop
<1>2. CASE Environment
  BY <1>2, EnvironmentType
<1>3. CASE NoChurn
  BY <1>3 DEF NoChurn, TypeInv, TypeOK, cluster, loop
<1>4. CASE Churn
  BY <1>4 DEF Churn, TypeInv, TypeOK, ListedPods, cluster
<1>5. CASE DeleteReturns
  BY <1>5 DEF DeleteReturns, TypeInv, TypeOK, cluster, loop
<1>6. CASE AwaitReady
  BY <1>6 DEF AwaitReady, Ready, TypeInv, TypeOK, cluster, loop
<1>7. ASSUME NEW p \in Pods, Delete(p) PROVE TypeInv'
  BY <1>7 DEF Delete, TypeInv, TypeOK, Phases, loop
<1>8. ASSUME NEW p \in Pods, DeleteRefused(p) PROVE TypeInv'
  BY <1>8 DEF DeleteRefused, Fault, FaultKinds, TypeInv, TypeOK, cluster, loop
<1>9. CASE Raise
  BY <1>9 DEF Raise, TypeInv, TypeOK, cluster, loop
<1>10. CASE Export
  BY <1>10, ExportType
<1>11. CASE Unserved
  BY <1>11, UnservedType
<1>12. ASSUME NEW p \in Pods, Serve(p) PROVE TypeInv'
  BY <1>12, ServeType
<1>13. CASE DeleteLost
  BY <1>13 DEF DeleteLost, Fault, FaultKinds, TypeInv, TypeOK, cluster, loop
<1>14. CASE Finished
  BY <1>1, <1>14 DEF Finished
<1>15. QED
  BY <1>1, <1>2, <1>3, <1>4, <1>5, <1>6, <1>7, <1>8, <1>9, <1>10, <1>11, <1>12,
     <1>13, <1>14 DEF Next, Harness, Restart, Request

LEMMA TypeInvariant == Spec => []TypeInv
BY InitType, NextType, PTL DEF Spec

\* Every reachable state of the harness and its deployment is well typed.
THEOREM TypeCorrect == Spec => []TypeOK
<1>1. TypeInv => TypeOK
  BY DEF TypeInv
<1>2. QED BY <1>1, TypeInvariant, PTL

-----------------------------------------------------------------------------
(* ColdSegments.  The invariant follows the restart: a pod that may still    *)
(* answer, and is not among those being deleted, has begun no more runs than *)
(* the segment has sent.                                                     *)

\* While the pods are being deleted, the remaining ones have begun nothing.
RestartIsCold ==
  pc \in {"delete", "deleting"} =>
    /\ segmentStart = inv
    /\ \A p \in Pods : phase[p] # "gone" /\ p \notin listed \union {target}
                         => served[p] = 0

\* In the segment, no pod has begun more runs than the harness has sent.
SegmentIsCold ==
  (pc \in {"loop", "export", "request"} /\ segment > 0) =>
    \A p \in Pods : phase[p] # "gone" => served[p] <= inv - segmentStart

TargetIdle == pc \notin {"deleting", "failed"} => target = NoPod

UnbornIsCold == \A p \in Pods : phase[p] = "unborn" => served[p] = 0

ColdRows == \A i \in Answered : rows[i].segment > 0 => rows[i].runs <= rows[i].position

ColdInv ==
  UnbornIsCold /\ TargetIdle /\ RestartIsCold /\ SegmentIsCold /\ ColdRows

LEMMA InitCold == Init => ColdInv
<1> SUFFICES ASSUME Init PROVE ColdInv
  OBVIOUS
<1>1. UnbornIsCold
  <2> SUFFICES ASSUME NEW p \in Pods, phase[p] = "unborn" PROVE served[p] = 0
    BY DEF UnbornIsCold
  <2>1. p > 2
    BY ChurnAssumption DEF Init
  <2>2. QED BY <2>1 DEF Init
<1>2. QED
  BY <1>1 DEF Init, ColdInv, TargetIdle, RestartIsCold, SegmentIsCold, ColdRows, Answered

\* The cluster brings no pod to life that has begun a run, and takes none back.
LEMMA EnvironmentCold ==
    ASSUME TypeInv, ColdInv, Environment
    PROVE  ColdInv'
<1>1. UNCHANGED <<pc, inv, segment, segmentStart, rows, listed, target>>
  BY DEF Environment, Cluster, CreatePod, BecomeReady, Exit, Crash, Evict, loop
<1>2. ASSUME NEW p \in Pods
      PROVE  /\ phase'[p] = "unborn" => phase[p] = "unborn"
             /\ phase[p] = "gone" => phase'[p] = "gone"
             /\ served'[p] = served[p] \/ served'[p] = 0
  <2>1. CASE CreatePod
    BY <2>1 DEF CreatePod, TypeInv, TypeOK
  <2>2. ASSUME NEW q \in Pods, BecomeReady(q) \/ Exit(q)
        PROVE  /\ phase'[p] = "unborn" => phase[p] = "unborn"
               /\ phase[p] = "gone" => phase'[p] = "gone"
               /\ served'[p] = served[p]
    BY <2>2 DEF BecomeReady, Exit, TypeInv, TypeOK
  <2>3. ASSUME NEW q \in Pods, Crash(q) \/ Evict(q)
        PROVE  /\ phase'[p] = "unborn" => phase[p] = "unborn"
               /\ phase[p] = "gone" => phase'[p] = "gone"
               /\ served'[p] = served[p] \/ served'[p] = 0
    BY <2>3 DEF Crash, Evict, TypeInv, TypeOK
  <2>4. QED BY <2>1, <2>2, <2>3 DEF Environment, Cluster
<1>3. UnbornIsCold'
  BY <1>2 DEF ColdInv, UnbornIsCold
<1>4. RestartIsCold'
  BY <1>1, <1>2 DEF ColdInv, RestartIsCold
<1>5. SegmentIsCold'
  <2> SUFFICES ASSUME pc \in {"loop", "export", "request"}, segment > 0,
                      NEW p \in Pods, phase'[p] # "gone"
               PROVE  served'[p] <= inv - segmentStart
    BY <1>1 DEF SegmentIsCold
  <2>1. served[p] <= inv - segmentStart
    BY <1>2 DEF ColdInv, SegmentIsCold
  <2>2. inv - segmentStart >= 0
    BY DEF TypeInv, TypeOK
  <2>3. QED BY <1>2, <2>1, <2>2
<1>6. ColdRows' /\ TargetIdle'
  BY <1>1 DEF ColdInv, ColdRows, Answered, TargetIdle
<1>7. QED BY <1>3, <1>4, <1>5, <1>6 DEF ColdInv

\* The restart lists every pod that is not gone or unborn.
LEMMA ChurnCold ==
    ASSUME TypeInv, ColdInv, Churn
    PROVE  ColdInv'
<1>1. ASSUME NEW p \in Pods, phase[p] # "gone", p \notin listed'
      PROVE  served[p] = 0
  BY <1>1 DEF Churn, ListedPods, ColdInv, UnbornIsCold
<1>2. target = NoPod /\ TargetIdle'
  BY DEF Churn, ColdInv, TargetIdle
<1>3. RestartIsCold'
  <2>1. target' = target /\ phase' = phase /\ served' = served
        /\ segmentStart' = inv' /\ pc' = "delete"
    BY DEF Churn, cluster
  <2>2. QED BY <1>1, <2>1 DEF RestartIsCold
<1>4. UnbornIsCold' /\ ColdRows' /\ pc' = "delete"
  BY DEF Churn, ColdInv, UnbornIsCold, ColdRows, Answered, cluster
<1>5. QED BY <1>2, <1>3, <1>4 DEF ColdInv, SegmentIsCold

\* A pod leaves the restart's list to be deleted, and is gone when its delete
\* has returned.
LEMMA DeleteCold ==
    ASSUME TypeInv, ColdInv, NEW p \in Pods, Delete(p)
    PROVE  ColdInv'
<1>1. pc = "delete" /\ pc' = "deleting" /\ target = NoPod /\ target' = p
      /\ listed' = listed \ {p}
      /\ UNCHANGED <<served, inv, segment, segmentStart, rows>>
  BY DEF Delete, ColdInv, TargetIdle, loop
<1>2. ASSUME NEW q \in Pods
      PROVE  /\ phase'[q] = "unborn" => phase[q] = "unborn"
             /\ phase'[q] # "gone" => phase[q] # "gone"
  BY DEF Delete, TypeInv, TypeOK
<1>3. RestartIsCold'
  <2>1. \A q \in Pods : q # NoPod
    BY ChurnAssumption DEF NoPod
  <2>2. QED BY <1>1, <1>2, <2>1 DEF ColdInv, RestartIsCold
<1>4. UnbornIsCold' /\ ColdRows'
  BY <1>1, <1>2 DEF ColdInv, UnbornIsCold, ColdRows, Answered
<1>5. QED BY <1>1, <1>3, <1>4 DEF ColdInv, SegmentIsCold, TargetIdle

LEMMA DeleteReturnsCold ==
    ASSUME TypeInv, ColdInv, DeleteReturns
    PROVE  ColdInv'
<1>1. pc = "deleting" /\ pc' = "delete" /\ target' = NoPod
      /\ phase[target] = "gone"
      /\ UNCHANGED <<phase, served, listed, inv, segment, segmentStart, rows>>
  BY DEF DeleteReturns, cluster, loop
<1>2. RestartIsCold'
  BY <1>1 DEF ColdInv, RestartIsCold
<1>3. UnbornIsCold' /\ ColdRows'
  BY <1>1 DEF ColdInv, UnbornIsCold, ColdRows, Answered
<1>4. QED BY <1>1, <1>2, <1>3 DEF ColdInv, SegmentIsCold, TargetIdle

\* When the list is empty and no delete is under way, every pod is cold.
LEMMA AwaitReadyCold ==
    ASSUME TypeInv, ColdInv, AwaitReady
    PROVE  ColdInv'
<1>1. pc = "delete" /\ pc' = "export" /\ target = NoPod /\ listed = {}
      /\ UNCHANGED <<phase, served, target, inv, segment, segmentStart, rows>>
  BY DEF AwaitReady, ColdInv, TargetIdle, cluster, loop
<1>2. \A p \in Pods : phase[p] # "gone" => served[p] = 0
  <2>1. \A p \in Pods : p # NoPod
    BY ChurnAssumption DEF NoPod
  <2>2. QED BY <1>1, <2>1 DEF ColdInv, RestartIsCold
<1>3. SegmentIsCold'
  BY <1>1, <1>2 DEF SegmentIsCold, TypeInv, TypeOK
<1>4. UnbornIsCold' /\ ColdRows'
  BY <1>1 DEF ColdInv, UnbornIsCold, ColdRows, Answered
<1>5. QED BY <1>1, <1>3, <1>4 DEF ColdInv, RestartIsCold, TargetIdle

\* The steps that change neither the pods nor the rows nor the segment.
LEMMA IdleCold ==
    ASSUME TypeInv, ColdInv, NoChurn \/ Raise \/ Export \/ UNCHANGED vars
    PROVE  ColdInv'
<1>1. UNCHANGED <<phase, served, inv, segment, segmentStart, rows, target, listed>>
  BY DEF NoChurn, Raise, Export, vars, cluster, loop
<1>2. /\ pc' \in {"loop", "export", "request"} => pc \in {"loop", "export", "request"}
      /\ pc' \in {"delete", "deleting"} => pc' = pc
      /\ pc' \notin {"deleting", "failed"} => pc \notin {"deleting", "failed"}
  BY DEF NoChurn, Raise, Export, vars
<1>3. UnbornIsCold' /\ ColdRows' /\ TargetIdle'
  BY <1>1, <1>2 DEF ColdInv, UnbornIsCold, ColdRows, Answered, TargetIdle
<1>4. SegmentIsCold' /\ RestartIsCold'
  BY <1>1, <1>2 DEF ColdInv, SegmentIsCold, RestartIsCold
<1>5. QED BY <1>3, <1>4 DEF ColdInv

\* An answer of a cold pod is a cold row.
LEMMA AppendCold ==
    ASSUME TypeInv, ColdRows, NEW uid \in Pods \union {NoPod},
           NEW answered \in BOOLEAN, NEW runs \in Nat,
           rows' = Append(rows, Row(uid, answered, runs)),
           answered /\ segment > 0 => runs <= inv - segmentStart + 1
    PROVE  ColdRows'
<1> DEFINE r == Row(uid, answered, runs)
<1>1. r \in Rows /\ rows \in Seq(Rows)
  BY RowType DEF TypeInv, TypeOK
<1>2. r.answered = answered /\ r.segment = segment /\ r.runs = runs
      /\ r.position = inv - segmentStart + 1
  BY DEF Row
<1> HIDE DEF r
<1>3. /\ Len(rows') = Len(rows) + 1 /\ Len(rows) \in Nat
      /\ \A i \in 1..Len(rows) : rows'[i] = rows[i]
      /\ rows'[Len(rows) + 1] = r
  BY <1>1, AppendRow DEF r
<1> SUFFICES ASSUME NEW i \in 1..Len(rows'), rows'[i].answered, rows'[i].segment > 0
             PROVE  rows'[i].runs <= rows'[i].position
  BY DEF ColdRows, Answered
<1>4. CASE i \in 1..Len(rows)
  BY <1>3, <1>4 DEF ColdRows, Answered
<1>5. CASE i = Len(rows) + 1
  BY <1>2, <1>3, <1>5
<1>6. QED BY <1>3, <1>4, <1>5

LEMMA ServeCold ==
    ASSUME TypeInv, ColdInv, NEW p \in Pods, Serve(p)
    PROVE  ColdInv'
<1>1. pc = "request" /\ pc' = "loop" /\ inv' = inv + 1 /\ phase[p] \in {"ready", "terminating"}
      /\ UNCHANGED <<phase, segment, segmentStart, listed, target>>
  BY DEF Serve, Routable
<1>2. \A q \in Pods : served'[q] = IF q = p THEN served[q] + 1 ELSE served[q]
  BY DEF Serve, TypeInv, TypeOK
<1>3. segment > 0 => \A q \in Pods : phase[q] # "gone" => served[q] <= inv - segmentStart
  BY <1>1 DEF ColdInv, SegmentIsCold
<1>4. served[p] \in Nat /\ inv \in Nat /\ segmentStart \in Nat
  BY DEF TypeInv, TypeOK
<1>5. SegmentIsCold'
  BY <1>1, <1>2, <1>3 DEF SegmentIsCold, TypeInv, TypeOK
<1>6. ColdRows'
  <2>1. CASE rows' = Append(rows, Row(p, TRUE, served'[p]))
    <3>1. served'[p] \in Nat /\ (segment > 0 => served'[p] <= inv - segmentStart + 1)
      BY <1>1, <1>2, <1>3, <1>4
    <3>2. ColdRows
      BY DEF ColdInv
    <3>3. QED BY <2>1, <3>1, <3>2, AppendCold
  <2>2. CASE rows' = Append(rows, Row(pod, FALSE, 0))
    <3>1. pod \in Pods \union {NoPod} /\ ColdRows
      BY DEF TypeInv, TypeOK, ColdInv
    <3>2. QED BY <2>2, <3>1, AppendCold
  <2>3. QED BY <2>1, <2>2 DEF Serve
<1>7. UnbornIsCold'
  BY <1>1, <1>2 DEF ColdInv, UnbornIsCold
<1>8. QED BY <1>1, <1>5, <1>6, <1>7 DEF ColdInv, RestartIsCold, TargetIdle

LEMMA UnservedCold ==
    ASSUME TypeInv, ColdInv, Unserved
    PROVE  ColdInv'
<1>1. pc = "request" /\ pc' = "loop" /\ inv' = inv + 1
      /\ UNCHANGED <<phase, served, segment, segmentStart, listed, target>>
  BY DEF Unserved, cluster
<1>2. SegmentIsCold'
  BY <1>1 DEF ColdInv, SegmentIsCold, TypeInv, TypeOK
<1>3. pod \in Pods \union {NoPod} /\ ColdRows
  BY DEF TypeInv, TypeOK, ColdInv
<1>4. ColdRows'
  BY <1>3, AppendCold DEF Unserved
<1>5. UnbornIsCold'
  BY <1>1 DEF ColdInv, UnbornIsCold
<1>6. QED BY <1>1, <1>2, <1>4, <1>5 DEF ColdInv, RestartIsCold, TargetIdle

LEMMA NextCold ==
    ASSUME TypeInv, ColdInv, [Next]_vars, "refuse" \notin faults'
    PROVE  ColdInv'
<1>1. CASE Environment
  BY <1>1, EnvironmentCold
<1>2. CASE Churn
  BY <1>2, ChurnCold
<1>3. CASE DeleteReturns
  BY <1>3, DeleteReturnsCold
<1>4. CASE AwaitReady
  BY <1>4, AwaitReadyCold
<1>5. ASSUME NEW p \in Pods, Delete(p) PROVE ColdInv'
  BY <1>5, DeleteCold
<1>6. ~ DeleteLost /\ ~ \E p \in Pods : DeleteRefused(p)
  BY DEF DeleteLost, DeleteRefused, Fault
<1>7. CASE Unserved
  BY <1>7, UnservedCold
<1>8. ASSUME NEW p \in Pods, Serve(p) PROVE ColdInv'
  BY <1>8, ServeCold
<1>9. CASE NoChurn \/ Raise \/ Export \/ Finished \/ UNCHANGED vars
  BY <1>9, IdleCold DEF Finished
<1>10. QED
  BY <1>1, <1>2, <1>3, <1>4, <1>5, <1>6, <1>7, <1>8, <1>9
  DEF Next, Harness, Restart, Request

\* Until a delete fails, no answer of a segment comes from a pod that had
\* begun more runs than the segment had sent: every segment starts cold.
THEOREM SegmentsStartCold == Spec => []ColdSegments
<1> DEFINE Inv == TypeInv /\ ("refuse" \in faults \/ ColdInv)
<1>1. Init => Inv
  BY InitType, InitCold
<1>2. Inv /\ [Next]_vars => Inv'
  BY NextType, NextCold, FaultsStay
<1>3. Inv => ColdSegments
  BY DEF ColdSegments, ColdInv, ColdRows
<1>4. QED BY <1>1, <1>2, <1>3, PTL DEF Spec

-----------------------------------------------------------------------------
(* SegmentsShareNoPod.  A pod that has answered and is not gone answered in  *)
(* the current segment, or the restart is still about to delete it.          *)

AnsweredWereBorn ==
  \A i \in Answered : rows[i].uid \in Pods /\ phase[rows[i].uid] # "unborn"

SegmentOwnsItsPods ==
  pc \in {"loop", "export", "request"} => \A i \in Answered :
    phase[rows[i].uid] # "gone" => rows[i].segment = segment

RestartLeavesNone ==
  pc \in {"delete", "deleting"} => \A i \in Answered :
    phase[rows[i].uid] # "gone" => rows[i].uid \in listed \union {target}

PodsApart ==
  \A i, j \in Answered : rows[i].uid = rows[j].uid => rows[i].segment = rows[j].segment

ApartInv ==
  /\ AnsweredWereBorn /\ SegmentOwnsItsPods /\ RestartLeavesNone
  /\ TargetIdle /\ PodsApart

LEMMA InitApart == Init => ApartInv
BY DEF Init, ApartInv, AnsweredWereBorn, SegmentOwnsItsPods, RestartLeavesNone,
   TargetIdle, PodsApart, Answered

\* Steps that add no row and bring no pod back, while the loop stays in the
\* segment or in the restart, or the restart ends with no pod of the rows left.
LEMMA ApartKept ==
    ASSUME TypeInv, ApartInv, UNCHANGED <<rows, segment>>,
           \A p \in Pods : /\ phase'[p] = "unborn" => phase[p] = "unborn"
                           /\ phase[p] = "gone" => phase'[p] = "gone",
           TargetIdle',
           pc' \in {"loop", "export", "request"} =>
             \/ pc \in {"loop", "export", "request"}
             \/ pc = "delete" /\ listed = {},
           pc' \in {"delete", "deleting"} =>
             /\ pc \in {"delete", "deleting"}
             /\ \A p \in listed \union {target} :
                  p = NoPod \/ phase'[p] = "gone" \/ p \in listed' \union {target'}
    PROVE  ApartInv'
<1>1. \A i \in Answered : rows[i].uid \in Pods /\ rows[i].uid # NoPod
  BY ChurnAssumption DEF ApartInv, AnsweredWereBorn, NoPod
<1>2. AnsweredWereBorn'
  BY <1>1 DEF ApartInv, AnsweredWereBorn, Answered
<1>3. SegmentOwnsItsPods'
  <2> SUFFICES ASSUME pc' \in {"loop", "export", "request"}, NEW i \in Answered,
                      phase'[rows[i].uid] # "gone"
               PROVE  rows[i].segment = segment
    BY DEF SegmentOwnsItsPods, Answered
  <2>1. phase[rows[i].uid] # "gone"
    BY <1>1
  <2>2. CASE pc \in {"loop", "export", "request"}
    BY <2>1, <2>2 DEF ApartInv, SegmentOwnsItsPods
  <2>3. CASE pc = "delete" /\ listed = {}
    <3>1. target = NoPod
      BY <2>3 DEF ApartInv, TargetIdle
    <3>2. rows[i].uid \in listed \union {target}
      BY <2>1, <2>3 DEF ApartInv, RestartLeavesNone
    <3>3. QED BY <1>1, <2>3, <3>1, <3>2
  <2>4. QED BY <2>2, <2>3
<1>4. RestartLeavesNone'
  BY <1>1 DEF ApartInv, RestartLeavesNone, Answered
<1>5. PodsApart'
  BY DEF ApartInv, PodsApart, Answered
<1>6. QED BY <1>2, <1>3, <1>4, <1>5 DEF ApartInv

LEMMA EnvironmentApart ==
    ASSUME TypeInv, ApartInv, Environment
    PROVE  ApartInv'
<1>1. UNCHANGED <<pc, inv, segment, segmentStart, rows, listed, target>>
  BY DEF Environment, Cluster, CreatePod, BecomeReady, Exit, Crash, Evict, loop
<1>2. ASSUME NEW p \in Pods
      PROVE  /\ phase'[p] = "unborn" => phase[p] = "unborn"
             /\ phase[p] = "gone" => phase'[p] = "gone"
  BY DEF Environment, Cluster, CreatePod, BecomeReady, Exit, Crash, Evict,
         TypeInv, TypeOK
<1>3. TargetIdle'
  BY <1>1 DEF ApartInv, TargetIdle
<1>4. QED BY <1>1, <1>2, <1>3, ApartKept

LEMMA ChurnApart ==
    ASSUME TypeInv, ApartInv, Churn
    PROVE  ApartInv'
<1>1. pc' = "delete" /\ target = NoPod /\ listed' = ListedPods
      /\ UNCHANGED <<phase, rows, target>>
  BY DEF Churn, ApartInv, TargetIdle, cluster
<1>2. RestartLeavesNone'
  BY <1>1 DEF ApartInv, AnsweredWereBorn, RestartLeavesNone, ListedPods, Answered
<1>3. AnsweredWereBorn' /\ PodsApart'
  BY <1>1 DEF ApartInv, AnsweredWereBorn, PodsApart, Answered
<1>4. QED BY <1>1, <1>2, <1>3 DEF ApartInv, SegmentOwnsItsPods, TargetIdle

LEMMA RestartApart ==
    ASSUME TypeInv, ApartInv,
           DeleteReturns \/ AwaitReady \/ \E p \in Pods : Delete(p)
    PROVE  ApartInv'
<1>1. CASE DeleteReturns
  <2>1. pc = "deleting" /\ pc' = "delete" /\ phase[target] = "gone" /\ target' = NoPod
        /\ UNCHANGED <<phase, rows, segment, listed>>
    BY <1>1 DEF DeleteReturns, cluster, loop
  <2>2. QED BY <2>1, ApartKept DEF TargetIdle
<1>2. CASE AwaitReady
  <2>1. pc = "delete" /\ listed = {} /\ pc' = "export"
        /\ UNCHANGED <<phase, rows, segment, listed, target>>
    BY <1>2 DEF AwaitReady, cluster, loop
  <2>2. TargetIdle'
    BY <2>1 DEF ApartInv, TargetIdle
  <2>3. QED BY <2>1, <2>2, ApartKept
<1>3. ASSUME NEW p \in Pods, Delete(p) PROVE ApartInv'
  <2>1. pc = "delete" /\ target = NoPod /\ pc' = "deleting" /\ target' = p
        /\ listed' = listed \ {p} /\ UNCHANGED <<rows, segment>>
    BY <1>3 DEF Delete, ApartInv, TargetIdle, loop
  <2>2. \A q \in Pods : /\ phase'[q] = "unborn" => phase[q] = "unborn"
                        /\ phase[q] = "gone" => phase'[q] = "gone"
    BY <1>3 DEF Delete, TypeInv, TypeOK
  <2>3. TargetIdle'
    BY <2>1 DEF TargetIdle
  <2>4. QED BY <2>1, <2>2, <2>3, ApartKept
<1>4. QED BY <1>1, <1>2, <1>3

LEMMA IdleApart ==
    ASSUME TypeInv, ApartInv, NoChurn \/ Raise \/ Export \/ UNCHANGED vars
    PROVE  ApartInv'
<1>1. UNCHANGED <<phase, rows, segment, listed, target>>
  BY DEF NoChurn, Raise, Export, vars, cluster, loop
<1>2. /\ pc' \in {"loop", "export", "request"} => pc \in {"loop", "export", "request"}
      /\ pc' \in {"delete", "deleting"} => pc' = pc
      /\ pc' \notin {"deleting", "failed"} => pc \notin {"deleting", "failed"}
  BY DEF NoChurn, Raise, Export, vars
<1>3. TargetIdle'
  BY <1>1, <1>2 DEF ApartInv, TargetIdle
<1>4. QED BY <1>1, <1>2, <1>3, ApartKept

\* The pod that answers is not gone: the other answers it gave are the segment's.
LEMMA AppendApart ==
    ASSUME TypeInv, ApartInv, pc = "request", pc' = "loop",
           UNCHANGED <<phase, segment, target>>,
           NEW uid \in Pods \union {NoPod}, NEW answered \in BOOLEAN, NEW runs \in Nat,
           rows' = Append(rows, Row(uid, answered, runs)),
           answered => uid \in Routable
    PROVE  ApartInv'
<1> DEFINE r == Row(uid, answered, runs)
<1>1. r \in Rows /\ rows \in Seq(Rows)
  BY RowType DEF TypeInv, TypeOK
<1>2. r.answered = answered /\ r.segment = segment /\ r.uid = uid
  BY DEF Row
<1> HIDE DEF r
<1>3. /\ Len(rows') = Len(rows) + 1 /\ Len(rows) \in Nat
      /\ \A i \in 1..Len(rows) : rows'[i] = rows[i]
      /\ rows'[Len(rows) + 1] = r
  BY <1>1, AppendRow DEF r
<1>4. ASSUME NEW i \in Answered'
      PROVE  \/ i \in Answered /\ rows'[i] = rows[i]
             \/ rows'[i] = r /\ answered
  BY <1>2, <1>3 DEF Answered
<1>5. answered => uid \in Pods /\ phase[uid] \notin {"unborn", "gone"}
  BY DEF Routable
<1>6. AnsweredWereBorn'
  BY <1>2, <1>4, <1>5 DEF ApartInv, AnsweredWereBorn
<1>7. SegmentOwnsItsPods'
  BY <1>2, <1>4 DEF ApartInv, SegmentOwnsItsPods
<1>8. PodsApart'
  <2>1. ASSUME NEW i \in Answered, rows[i].uid = uid, answered
        PROVE  rows[i].segment = segment
    BY <1>5, <2>1 DEF ApartInv, SegmentOwnsItsPods
  <2> SUFFICES ASSUME NEW i \in Answered', NEW j \in Answered',
                      rows'[i].uid = rows'[j].uid
               PROVE  rows'[i].segment = rows'[j].segment
    BY DEF PodsApart
  <2>2. CASE i \in Answered /\ rows'[i] = rows[i] /\ j \in Answered /\ rows'[j] = rows[j]
    BY <2>2 DEF ApartInv, PodsApart
  <2>3. CASE answered /\ (rows'[i] = r \/ rows'[j] = r)
    BY <1>2, <1>4, <2>1, <2>3, ZenonT(60)
  <2>4. QED BY <1>4, <2>2, <2>3
<1>9. QED BY <1>6, <1>7, <1>8 DEF ApartInv, RestartLeavesNone, TargetIdle

LEMMA RequestApart ==
    ASSUME TypeInv, ApartInv, Request
    PROVE  ApartInv'
<1>1. pod \in Pods \union {NoPod}
  BY DEF TypeInv, TypeOK
<1>2. pc = "request" /\ pc' = "loop" /\ UNCHANGED <<phase, segment, target>>
  BY DEF Request, Unserved, Serve, cluster
<1>3. CASE rows' = Append(rows, Row(pod, FALSE, 0))
  BY <1>1, <1>2, <1>3, AppendApart
<1>4. ASSUME NEW p \in Pods, Serve(p), rows' = Append(rows, Row(p, TRUE, served'[p]))
      PROVE  ApartInv'
  <2>1. p \in Routable /\ served'[p] \in Nat
    BY <1>4 DEF Serve, TypeInv, TypeOK
  <2>2. p \in Pods \union {NoPod} /\ TRUE \in BOOLEAN /\ (TRUE => p \in Routable)
    BY <2>1
  <2>3. QED BY <1>2, <1>4, <2>1, <2>2, AppendApart
<1>5. QED BY <1>3, <1>4 DEF Request, Unserved, Serve

LEMMA NextApart ==
    ASSUME TypeInv, ApartInv, [Next]_vars, "refuse" \notin faults'
    PROVE  ApartInv'
<1>1. CASE Environment
  BY <1>1, EnvironmentApart
<1>2. CASE Churn
  BY <1>2, ChurnApart
<1>3. CASE DeleteReturns \/ AwaitReady \/ \E p \in Pods : Delete(p)
  BY <1>3, RestartApart
<1>4. ~ DeleteLost /\ ~ \E p \in Pods : DeleteRefused(p)
  BY DEF DeleteLost, DeleteRefused, Fault
<1>5. CASE Request
  BY <1>5, RequestApart
<1>6. CASE NoChurn \/ Raise \/ Export \/ Finished \/ UNCHANGED vars
  BY <1>6, IdleApart DEF Finished
<1>7. QED
  BY <1>1, <1>2, <1>3, <1>4, <1>5, <1>6 DEF Next, Harness, Restart

\* Until a delete fails, no pod answers in two segments.
THEOREM SegmentsApart == Spec => []SegmentsShareNoPod
<1> DEFINE Inv == TypeInv /\ ("refuse" \in faults \/ ApartInv)
<1>1. Init => Inv
  BY InitType, InitApart
<1>2. Inv /\ [Next]_vars => Inv'
  BY NextType, NextApart, FaultsStay
<1>3. Inv => SegmentsShareNoPod
  BY DEF SegmentsShareNoPod, ApartInv, PodsApart
<1>4. QED BY <1>1, <1>2, <1>3, PTL DEF Spec

-----------------------------------------------------------------------------
(* What the rows tell: which pod answered, how often it had answered before, *)
(* and which answers a pushed trace covers.                                  *)

\* Steps other than a request add no row, and only a crash resets a counter.
LEMMA QuietStep ==
    ASSUME TypeInv, [Next]_vars, ~Request
    PROVE  /\ UNCHANGED <<rows, inv>>
           /\ served' = served \/ "crash" \in faults'
<1>1. ASSUME NEW p \in Pods, Crash(p)
      PROVE  "crash" \in faults' /\ UNCHANGED <<rows, inv>>
  BY <1>1 DEF Crash, Fault, loop
<1>2. CASE Environment
  BY <1>1, <1>2 DEF Environment, Cluster, CreatePod, BecomeReady, Exit, Evict, loop
<1>3. CASE UNCHANGED vars
  BY <1>3 DEF vars, cluster, loop
<1>4. CASE NoChurn \/ Restart \/ Raise \/ Export
  BY <1>4 DEF NoChurn, Restart, Churn, Delete, DeleteReturns, DeleteRefused, DeleteLost,
              AwaitReady, Raise, Export, cluster, loop
<1>5. QED BY <1>2, <1>3, <1>4 DEF Next, Harness, Finished

LEMMA Appended ==
    ASSUME TypeInv, NEW r \in Rows, rows' = Append(rows, r)
    PROVE  /\ Len(rows) \in Nat /\ Len(rows') = Len(rows) + 1
           /\ \A i \in 1..Len(rows) : rows'[i] = rows[i]
           /\ rows'[Len(rows')] = r
<1>1. rows \in Seq(Rows)
  BY DEF TypeInv, TypeOK
<1>2. QED BY <1>1, AppendRow

\* A request adds one row: an answer of a pod whose counter it raised, or none.
LEMMA RequestStep ==
    ASSUME TypeInv, Request
    PROVE  /\ pc = "request" /\ pc' = "loop" /\ inv' = inv + 1
           /\ UNCHANGED <<phase, segment, segmentStart, pod, listed, target, exported, faults>>
           /\ Len(rows) \in Nat /\ Len(rows') = Len(rows) + 1
           /\ \A i \in 1..Len(rows) : rows'[i] = rows[i]
           /\ \/ served' = served /\ ~rows'[Len(rows')].answered
              \/ \E p \in Routable :
                   /\ served' = [served EXCEPT ![p] = @ + 1]
                   /\ \/ ~rows'[Len(rows')].answered
                      \/ rows'[Len(rows')] = Row(p, TRUE, served'[p])
<1>1. Row(pod, FALSE, 0) \in Rows /\ ~Row(pod, FALSE, 0).answered
  <2>1. pod \in Pods \union {NoPod} /\ FALSE \in BOOLEAN /\ 0 \in Nat
    BY DEF TypeInv, TypeOK
  <2>2. Row(pod, FALSE, 0) \in Rows
    BY <2>1, RowType
  <2>3. QED BY <2>2 DEF Row
<1>2. CASE Unserved
  <2>1. /\ Len(rows) \in Nat /\ Len(rows') = Len(rows) + 1
        /\ \A i \in 1..Len(rows) : rows'[i] = rows[i]
        /\ ~rows'[Len(rows')].answered
    BY <1>1, <1>2, Appended DEF Unserved
  <2>2. QED BY <1>2, <2>1 DEF Unserved, cluster
<1>3. ASSUME NEW p \in Pods, Serve(p)
      PROVE  /\ Len(rows) \in Nat /\ Len(rows') = Len(rows) + 1
             /\ \A i \in 1..Len(rows) : rows'[i] = rows[i]
             /\ \/ ~rows'[Len(rows')].answered
                \/ rows'[Len(rows')] = Row(p, TRUE, served'[p])
  <2>1. Row(p, TRUE, served'[p]) \in Rows
    <3>1. served'[p] \in Nat /\ p \in Pods \union {NoPod} /\ TRUE \in BOOLEAN
      BY <1>3 DEF Serve, TypeInv, TypeOK
    <3>2. QED BY <3>1, RowType
  <2>2. CASE rows' = Append(rows, Row(p, TRUE, served'[p]))
    BY <2>1, <2>2, Appended
  <2>3. CASE rows' = Append(rows, Row(pod, FALSE, 0))
    BY <1>1, <2>3, Appended
  <2>4. QED BY <1>3, <2>2, <2>3 DEF Serve
<1>4. ASSUME NEW p \in Pods, Serve(p)
      PROVE  /\ p \in Routable /\ served' = [served EXCEPT ![p] = @ + 1]
             /\ pc = "request" /\ pc' = "loop" /\ inv' = inv + 1
             /\ UNCHANGED <<phase, segment, segmentStart, pod, listed, target, exported, faults>>
  BY <1>4 DEF Serve
<1>5. QED BY <1>2, <1>3, <1>4 DEF Request

\* What the request does to the counters.
LEMMA RequestServed ==
    ASSUME TypeInv, Request
    PROVE  /\ \A p \in Pods : /\ served[p] \in Nat /\ served'[p] \in Nat
                               /\ served[p] <= served'[p]
           /\ rows'[Len(rows')].answered =>
                /\ rows'[Len(rows')].uid \in Routable
                /\ rows'[Len(rows')].pod = pod
                /\ rows'[Len(rows')].segment = segment
                /\ rows'[Len(rows')].runs = served[rows'[Len(rows')].uid] + 1
                /\ rows'[Len(rows')].runs = served'[rows'[Len(rows')].uid]
<1>1. served \in [Pods -> Nat]
  BY DEF TypeInv, TypeOK
<1>2. CASE served' = served /\ ~rows'[Len(rows')].answered
  BY <1>1, <1>2
<1>3. ASSUME NEW p \in Routable, served' = [served EXCEPT ![p] = @ + 1]
      PROVE  /\ \A q \in Pods : /\ served'[q] \in Nat /\ served[q] <= served'[q]
             /\ served'[p] = served[p] + 1
  <2>1. p \in Pods
    BY DEF Routable
  <2>2. \A q \in Pods : served'[q] = IF q = p THEN served[q] + 1 ELSE served[q]
    BY <1>1, <1>3, <2>1
  <2>3. \A q \in Pods : served[q] \in Nat
    BY <1>1
  <2>4. QED BY <2>1, <2>2, <2>3
<1>4. ASSUME NEW p \in Routable, rows'[Len(rows')] = Row(p, TRUE, served'[p])
      PROVE  /\ rows'[Len(rows')].uid = p /\ rows'[Len(rows')].pod = pod
             /\ rows'[Len(rows')].segment = segment
             /\ rows'[Len(rows')].runs = served'[p]
  BY <1>4 DEF Row
<1>5. \/ served' = served /\ ~rows'[Len(rows')].answered
      \/ \E p \in Routable :
           /\ served' = [served EXCEPT ![p] = @ + 1]
           /\ \/ ~rows'[Len(rows')].answered
              \/ rows'[Len(rows')] = Row(p, TRUE, served'[p])
  BY RequestStep
<1>6. QED
  <2>1. CASE \E p \in Routable :
              /\ served' = [served EXCEPT ![p] = @ + 1]
              /\ \/ ~rows'[Len(rows')].answered
                 \/ rows'[Len(rows')] = Row(p, TRUE, served'[p])
    <3>1. PICK p \in Routable :
              /\ served' = [served EXCEPT ![p] = @ + 1]
              /\ \/ ~rows'[Len(rows')].answered
                 \/ rows'[Len(rows')] = Row(p, TRUE, served'[p])
      BY <2>1
    <3>2. \A q \in Pods : /\ served[q] \in Nat /\ served'[q] \in Nat
                          /\ served[q] <= served'[q]
      BY <1>1, <1>3, <3>1
    <3>3. served'[p] = served[p] + 1
      BY <1>3, <3>1
    <3>4. CASE rows'[Len(rows')] = Row(p, TRUE, served'[p])
      BY <1>4, <3>2, <3>3, <3>4
    <3>5. QED BY <3>1, <3>2, <3>4
  <2>2. QED BY <1>2, <1>5, <2>1

-----------------------------------------------------------------------------
(* FailedChurnShows.                                                           *)

CountedRows ==
  \A i \in Answered : rows[i].uid \in Pods /\ rows[i].runs <= served[rows[i].uid]

GrowingRows ==
  \A i, j \in Answered :
    (i < j /\ rows[i].uid = rows[j].uid) => rows[i].runs < rows[j].runs

CountInv == CountedRows /\ GrowingRows

\* What the table's columns say of an answer is what the process had begun.
RecordedRows ==
  \A i \in Answered :
    /\ rows[i].runs \in Nat \ {0}
    /\ rows[i].inPod = IF "request_in_pod" \in Columns THEN rows[i].runs ELSE 0
    /\ rows[i].firstWork => rows[i].runs = 1

\* The promise of a client that counts: each of its answered rows has a number.
AnswersCounted ==
  "request_in_pod" \in Columns => \A i \in Answered : rows[i].inPod > 0

\* A request adds one row, recorded from the process that answered it.
LEMMA RequestRecorded ==
    ASSUME TypeInv, RecordedRows, Request
    PROVE  RecordedRows'
<1> DEFINE n == Len(rows')
<1>1. /\ n = Len(rows) + 1 /\ Len(rows) \in Nat
      /\ \A i \in 1..Len(rows) : rows'[i] = rows[i]
  BY RequestStep
<1>2. ASSUME rows'[n].answered
      PROVE  /\ rows'[n].runs \in Nat \ {0}
             /\ rows'[n].inPod = IF "request_in_pod" \in Columns THEN rows'[n].runs ELSE 0
             /\ rows'[n].firstWork => rows'[n].runs = 1
  <2>1. PICK p \in Routable : rows'[n] = Row(p, TRUE, served'[p])
    BY <1>2, RequestStep
  <2> DEFINE r == Row(p, TRUE, served'[p])
  <2>2. /\ r.uid = p /\ r.runs = served'[p]
        /\ r.inPod = IF "request_in_pod" \in Columns THEN r.runs ELSE 0
        /\ r.firstWork => r.runs = 1
    BY DEF Row
  <2> HIDE DEF r
  <2>3. rows'[n] = r
    BY <2>1 DEF r
  <2>4. /\ rows'[n].uid = p /\ rows'[n].runs = served'[p]
        /\ rows'[n].inPod = IF "request_in_pod" \in Columns THEN rows'[n].runs ELSE 0
        /\ rows'[n].firstWork => rows'[n].runs = 1
    BY <2>2, <2>3
  <2>5. served[p] \in Nat /\ rows'[n].runs = served[p] + 1
    BY <1>2, <2>4, RequestServed DEF Routable
  <2>6. rows'[n].runs \in Nat \ {0}
    BY <2>5
  <2>7. QED BY <2>4, <2>6
<1> HIDE DEF n
<1>3. ASSUME NEW i \in Answered', i # n PROVE i \in Answered /\ rows'[i] = rows[i]
  BY <1>1, <1>3 DEF Answered, n
<1>4. ASSUME NEW i \in Answered', i = n PROVE rows'[n].answered
  BY <1>4 DEF Answered
<1>5. QED BY <1>2, <1>3, <1>4 DEF RecordedRows

LEMMA RequestCounts ==
    ASSUME TypeInv, CountInv, Request
    PROVE  CountInv'
<1> DEFINE n == Len(rows')
<1>1. /\ Len(rows) \in Nat /\ n = Len(rows) + 1
      /\ \A i \in 1..Len(rows) : rows'[i] = rows[i]
  BY RequestStep
<1>2. \A i \in Answered : i \in 1..Len(rows) /\ rows[i].runs \in Nat
  <2>1. ASSUME NEW i \in Answered PROVE i \in 1..Len(rows) /\ rows[i] \in Rows
    BY <1>1 DEF Answered, TypeInv, TypeOK
  <2>2. QED BY <2>1 DEF Rows
<1>3. \A p \in Pods : served[p] \in Nat /\ served'[p] \in Nat /\ served[p] <= served'[p]
  BY RequestServed
<1>4. ASSUME NEW i \in Answered', i # n
      PROVE  i \in Answered /\ rows'[i] = rows[i]
  BY <1>1, <1>4 DEF Answered
<1>5. ASSUME n \in Answered'
      PROVE  /\ rows'[n].uid \in Pods
             /\ rows'[n].runs = served'[rows'[n].uid]
             /\ rows'[n].runs = served[rows'[n].uid] + 1
  <2>1. rows'[n].answered
    BY <1>5 DEF Answered
  <2>2. QED BY <2>1, RequestServed DEF Routable
<1> HIDE DEF n
<1>6. CountedRows'
  <2> SUFFICES ASSUME NEW i \in Answered'
               PROVE  rows'[i].uid \in Pods /\ rows'[i].runs <= served'[rows'[i].uid]
    BY DEF CountedRows
  <2>1. CASE i = n
    BY <1>3, <1>5, <2>1
  <2>2. CASE i # n
    BY <1>2, <1>3, <1>4, <2>2 DEF CountInv, CountedRows
  <2> QED BY <2>1, <2>2
<1>7. GrowingRows'
  <2> SUFFICES ASSUME NEW i \in Answered', NEW j \in Answered', i < j,
                      rows'[i].uid = rows'[j].uid
               PROVE  rows'[i].runs < rows'[j].runs
    BY DEF GrowingRows
  <2>1. i # n
    BY <1>1 DEF Answered, n
  <2>2. i \in Answered /\ rows'[i] = rows[i]
    BY <2>1, <1>4
  <2>3. CASE j = n
    BY <1>2, <1>3, <1>5, <2>2, <2>3 DEF CountInv, CountedRows
  <2>4. CASE j # n
    BY <1>4, <2>2, <2>4 DEF CountInv, GrowingRows
  <2> QED BY <2>3, <2>4
<1> QED BY <1>6, <1>7 DEF CountInv

LEMMA NextCounts ==
    ASSUME TypeInv, CountInv, [Next]_vars, "crash" \notin faults'
    PROVE  CountInv'
<1>1. CASE Request
  BY <1>1, RequestCounts
<1>2. CASE ~Request
  BY <1>2, QuietStep DEF CountInv, CountedRows, GrowingRows, Answered
<1> QED BY <1>1, <1>2

LEMMA NextRecorded ==
    ASSUME TypeInv, RecordedRows, [Next]_vars
    PROVE  RecordedRows'
<1>1. CASE Request
  BY <1>1, RequestRecorded
<1>2. CASE ~Request
  BY <1>2, QuietStep DEF RecordedRows, Answered
<1> QED BY <1>1, <1>2

\* In the table of a client that records request_in_pod every answer has its
\* number, and until a container crashes the later of two answers of a pod has
\* the greater one; where first_work is recorded, the later answer is none.  So
\* a pod that outlived its delete shows in these tables, whatever deletes fail.
THEOREM CountersTell == Spec => [](AnswersCounted /\ FailedChurnShows)
<1> DEFINE Inv == TypeInv /\ RecordedRows /\ ("crash" \in faults \/ CountInv)
<1>1. Init => Inv
  BY InitType DEF Init, CountInv, CountedRows, GrowingRows, RecordedRows, Answered
<1>2. Inv /\ [Next]_vars => Inv'
  BY NextType, NextCounts, NextRecorded, FaultsStay
<1>3. RecordedRows => AnswersCounted
  BY DEF RecordedRows, AnswersCounted
<1>4. Inv => FailedChurnShows
  <2> SUFFICES ASSUME RecordedRows, CountInv, NEW i \in Answered, NEW j \in Answered,
                      i < j, rows[i].uid = rows[j].uid
               PROVE  /\ rows[i].inPod > 0 => rows[i].inPod < rows[j].inPod
                      /\ ~rows[j].firstWork
    BY DEF FailedChurnShows
  <2>1. rows[i].runs < rows[j].runs
    BY DEF CountInv, GrowingRows
  <2>2. rows[i].runs \in Nat \ {0} /\ rows[j].runs \in Nat \ {0}
    BY DEF RecordedRows
  <2>3. rows[i].inPod > 0 => rows[i].inPod < rows[j].inPod
    BY <2>1, <2>2 DEF RecordedRows
  <2>4. ~rows[j].firstWork
    BY <2>1, <2>2 DEF RecordedRows
  <2>5. QED BY <2>3, <2>4
<1>5. QED BY <1>1, <1>2, <1>3, <1>4, PTL DEF Spec

-----------------------------------------------------------------------------
(* ExportIsPrefix.                                                             *)

RowsAreCounted == inv = Len(rows) + 1

Exported ==
  exported # NoExport =>
    /\ exported.pod \in Pods /\ exported.runs \in Nat
    /\ exported.runs <= served[exported.pod]
    /\ inv > ExportAt \/ (inv = ExportAt /\ pc = "request")
    /\ \A i \in Answered :
         rows[i].uid = exported.pod => (rows[i].runs <= exported.runs <=> i < ExportAt)

ExportInv == CountInv /\ RowsAreCounted /\ Exported

\* The push finds every run of its pod before it.
LEMMA ExportExported ==
    ASSUME TypeInv, ExportInv, Export
    PROVE  Exported'
<1>1. /\ pc = "export" /\ pc' = "request" /\ UNCHANGED <<inv, rows, served>>
  BY DEF Export, cluster, loop
<1>2. CASE exported' = exported
  BY <1>1, <1>2 DEF ExportInv, Exported, Answered
<1>3. ASSUME NEW p \in Routable, exported' = [pod |-> p, runs |-> served[p]], inv = ExportAt
      PROVE  Exported'
  <2>1. p \in Pods /\ served[p] \in Nat
    BY DEF Routable, TypeInv, TypeOK
  <2>2. \A i \in Answered : i < ExportAt /\ (rows[i].uid = p => rows[i].runs <= served[p])
    BY <1>3 DEF ExportInv, RowsAreCounted, CountInv, CountedRows, Answered, TypeInv, TypeOK
  <2> QED BY <1>1, <1>3, <2>1, <2>2 DEF Exported, Answered
<1> QED BY <1>2, <1>3 DEF Export

LEMMA RequestExported ==
    ASSUME TypeInv, ExportInv, Request
    PROVE  ExportInv'
<1>1. CountInv' /\ CountInv
  BY RequestCounts DEF ExportInv
<1> DEFINE n == Len(rows')
<1>2. /\ Len(rows) \in Nat /\ n = Len(rows) + 1 /\ inv' = inv + 1 /\ exported' = exported
      /\ \A i \in 1..Len(rows) : rows'[i] = rows[i]
      /\ \A p \in Pods : served[p] \in Nat /\ served'[p] \in Nat /\ served[p] <= served'[p]
  BY RequestStep, RequestServed
<1>3. RowsAreCounted'
  BY <1>2 DEF ExportInv, RowsAreCounted
<1>4. ASSUME exported # NoExport, n \in Answered', rows'[n].uid = exported.pod
      PROVE  rows'[n].runs = served[exported.pod] + 1 /\ n >= ExportAt
  <2>1. rows'[n].answered
    BY <1>4 DEF Answered
  <2>2. rows'[n].runs = served[rows'[n].uid] + 1
    BY <2>1, RequestServed
  <2>3. n = inv
    BY <1>2 DEF ExportInv, RowsAreCounted
  <2>4. inv > ExportAt \/ inv = ExportAt
    BY <1>4 DEF ExportInv, Exported
  <2>5. inv \in Nat /\ ExportAt \in Nat
    BY ChurnAssumption DEF TypeInv, TypeOK
  <2> QED BY <1>4, <2>2, <2>3, <2>4, <2>5
<1>5. Exported'
  <2> SUFFICES ASSUME exported # NoExport
               PROVE  /\ exported.pod \in Pods /\ exported.runs \in Nat
                      /\ exported.runs <= served'[exported.pod]
                      /\ inv' > ExportAt
                      /\ \A i \in Answered' : rows'[i].uid = exported.pod
                           => (rows'[i].runs <= exported.runs <=> i < ExportAt)
    BY <1>2 DEF Exported
  <2>1. exported.pod \in Pods /\ exported.runs \in Nat /\ exported.runs <= served[exported.pod]
        /\ inv >= ExportAt
    BY ChurnAssumption DEF ExportInv, Exported, TypeInv, TypeOK
  <2>2. exported.runs <= served'[exported.pod] /\ inv' > ExportAt
    <3>1. /\ served[exported.pod] \in Nat /\ served'[exported.pod] \in Nat
          /\ served[exported.pod] <= served'[exported.pod]
      BY <2>1, RequestServed
    <3>2. inv \in Nat /\ ExportAt \in Nat /\ inv' = inv + 1
      BY <1>2, ChurnAssumption DEF TypeInv, TypeOK
    <3>3. exported.runs <= served'[exported.pod]
      BY <2>1, <3>1
    <3>4. QED BY <2>1, <3>2, <3>3
  <2>3. ASSUME NEW i \in Answered', rows'[i].uid = exported.pod
        PROVE  rows'[i].runs <= exported.runs <=> i < ExportAt
    <3>1. CASE i = n
      <4>1. n \in Answered' /\ rows'[n].uid = exported.pod
        BY <2>3, <3>1
      <4>2. rows'[n].runs = served[exported.pod] + 1 /\ n >= ExportAt
        BY <1>4, <4>1
      <4>3. n \in Nat /\ ExportAt \in Nat /\ served[exported.pod] \in Nat
        <5>1. n \in Nat
          BY <1>2
        <5>2. ExportAt \in Nat
          BY ChurnAssumption
        <5>3. served[exported.pod] \in Nat
          BY <2>1, RequestServed
        <5>4. QED BY <5>1, <5>2, <5>3
      <4>4. QED BY <2>1, <3>1, <4>2, <4>3
    <3>2. CASE i # n
      <4>1. i \in Answered /\ rows'[i] = rows[i]
        BY <1>2, <3>2 DEF Answered
      <4> QED BY <4>1, <2>3 DEF ExportInv, Exported
    <3> QED BY <3>1, <3>2
  <2> QED BY <2>1, <2>2, <2>3
<1> QED BY <1>1, <1>3, <1>5 DEF ExportInv

LEMMA NextExported ==
    ASSUME TypeInv, ExportInv, [Next]_vars, "crash" \notin faults'
    PROVE  ExportInv'
<1>1. CASE Request
  BY <1>1, RequestExported
<1>2. CASE Export
  <2>1. Exported'
    BY <1>2, ExportExported
  <2>2. UNCHANGED <<rows, served, inv>>
    BY <1>2 DEF Export, cluster, loop
  <2> QED BY <2>1, <2>2 DEF ExportInv, CountInv, CountedRows, GrowingRows, RowsAreCounted,
                           Answered
<1>3. CASE ~Request /\ ~Export
  <2>1. UNCHANGED <<rows, inv, served>>
    BY <1>3, QuietStep
  <2>2. UNCHANGED exported /\ (pc = "request" => pc' = "request")
    BY <1>3 DEF Next, Environment, Cluster, CreatePod, BecomeReady, Exit, Crash, Evict,
                Harness, NoChurn, Restart, Churn, Delete, DeleteReturns, DeleteRefused,
                DeleteLost, AwaitReady, Raise, Finished, vars
  <2> QED BY <2>1, <2>2 DEF ExportInv, CountInv, CountedRows, GrowingRows, RowsAreCounted,
                           Exported, Answered
<1> QED BY <1>1, <1>2, <1>3

\* Until a container crashes, a pushed trace has the runs its pod began before
\* invocation ExportAt and none of a later one.
THEOREM ExportsArePrefixes == Spec => []ExportIsPrefix
<1> DEFINE Inv == TypeInv /\ ("crash" \in faults \/ ExportInv)
<1>1. Init => Inv
  <2>1. Init => CountInv
    BY DEF Init, CountInv, CountedRows, GrowingRows, Answered
  <2>2. Init => RowsAreCounted /\ Exported
    BY DEF Init, RowsAreCounted, Exported
  <2> QED BY <2>1, <2>2, InitType DEF ExportInv
<1>2. Inv /\ [Next]_vars => Inv'
  BY NextType, NextExported, FaultsStay
<1>3. Inv => ExportIsPrefix
  BY DEF ExportIsPrefix, ExportInv, Exported
<1>4. QED BY <1>1, <1>2, <1>3, PTL DEF Spec

-----------------------------------------------------------------------------
(* RowNamesItsPod.  While only the harness deletes pods, the deployment has    *)
(* one pod up, a restart owns those that are on their way out, and a segment   *)
(* has the one pod that the restart returned.                                  *)

Up == {p \in Pods : phase[p] \in {"starting", "ready"}}

OneUp == \A p, q \in Up : p = q

RestartOwnsLeaving ==
  pc \in {"delete", "deleting"} =>
    \A p \in Pods : phase[p] = "terminating" => p \in listed \union {target}

SegmentHasOnePod ==
  (pc \in {"loop", "export", "request"} /\ segment > 0) =>
    pod \in Up /\ \A p \in Pods : phase[p] \notin {"unborn", "gone"} => p = pod

NamedRows == \A i \in Answered : rows[i].segment > 0 => rows[i].pod = rows[i].uid

NameInv == OneUp /\ RestartOwnsLeaving /\ SegmentHasOnePod /\ TargetIdle /\ NamedRows

LEMMA InitNames == Init => NameInv
<1> SUFFICES ASSUME Init PROVE NameInv
  OBVIOUS
<1>1. OneUp
  <2> SUFFICES ASSUME NEW p \in Up PROVE p = 1
    BY DEF OneUp
  <2>1. p \in Pods /\ phase[p] \in {"starting", "ready"}
    BY DEF Up
  <2>2. QED BY <2>1 DEF Init
<1>2. QED BY <1>1 DEF Init, NameInv, RestartOwnsLeaving, SegmentHasOnePod, TargetIdle,
                      NamedRows, Answered

\* The controller replaces the pod when none is up, and a crash leaves it up.
LEMMA EnvironmentNames ==
    ASSUME TypeInv, NameInv, Environment, "evict" \notin faults'
    PROVE  NameInv'
<1>1. UNCHANGED <<pc, inv, segment, segmentStart, rows, pod, listed, target>>
  BY DEF Environment, Cluster, CreatePod, BecomeReady, Exit, Crash, Evict, loop
<1>2. ASSUME NEW p \in Pods, Evict(p) PROVE FALSE
  BY <1>2 DEF Evict, Fault
<1>3. CASE CreatePod
  <2>1. PICK n \in Pods : /\ phase[n] = "unborn"
                          /\ phase' = [phase EXCEPT ![n] = "starting"]
    BY <1>3 DEF CreatePod
  <2>2. \A p \in Pods : phase'[p] = IF p = n THEN "starting" ELSE phase[p]
    BY <2>1 DEF TypeInv, TypeOK
  <2>3. Up = {} /\ Up' = {n}
    BY <1>3, <2>1, <2>2 DEF CreatePod, Up
  <2>4. OneUp' /\ RestartOwnsLeaving'
    BY <1>1, <2>2, <2>3 DEF NameInv, OneUp, RestartOwnsLeaving
  <2>5. SegmentHasOnePod'
    BY <1>1, <2>3 DEF NameInv, SegmentHasOnePod
  <2>6. QED BY <1>1, <2>4, <2>5 DEF NameInv, TargetIdle, NamedRows, Answered
<1>4. ASSUME NEW n \in Pods, BecomeReady(n) \/ Exit(n) \/ Crash(n)
      PROVE  NameInv'
  <2>1. \A p \in Pods : /\ phase'[p] \in {"starting", "ready"} <=>
                             phase[p] \in {"starting", "ready"}
                        /\ phase'[p] = "terminating" => phase[p] = "terminating"
                        /\ phase'[p] \notin {"unborn", "gone"} =>
                             phase[p] \notin {"unborn", "gone"}
    BY <1>4 DEF BecomeReady, Exit, Crash, TypeInv, TypeOK
  <2>2. Up' = Up
    BY <2>1 DEF Up
  <2>3. OneUp' /\ RestartOwnsLeaving' /\ SegmentHasOnePod'
    BY <1>1, <2>1, <2>2 DEF NameInv, OneUp, RestartOwnsLeaving, SegmentHasOnePod
  <2>4. QED BY <1>1, <2>3 DEF NameInv, TargetIdle, NamedRows, Answered
<1>5. QED BY <1>2, <1>3, <1>4 DEF Environment, Cluster

LEMMA RestartNames ==
    ASSUME TypeInv, NameInv, Restart, "refuse" \notin faults'
    PROVE  NameInv'
<1>1. ~ DeleteLost /\ ~ \E p \in Pods : DeleteRefused(p)
  BY DEF DeleteLost, DeleteRefused, Fault
<1>2. NamedRows'
  BY DEF Restart, Churn, DeleteReturns, DeleteLost, AwaitReady, Delete, DeleteRefused,
         NameInv, NamedRows, Answered, cluster, loop
<1>3. CASE Churn
  <2>1. pc' = "delete" /\ listed' = ListedPods /\ UNCHANGED <<phase, target>>
        /\ pc = "loop"
    BY <1>3 DEF Churn, cluster
  <2>2. OneUp' /\ RestartOwnsLeaving' /\ TargetIdle'
    BY <2>1 DEF NameInv, OneUp, Up, RestartOwnsLeaving, TargetIdle, ListedPods
  <2>3. QED BY <1>2, <2>1, <2>2 DEF NameInv, SegmentHasOnePod
<1>4. ASSUME NEW n \in Pods, Delete(n) PROVE NameInv'
  <2>1. pc = "delete" /\ pc' = "deleting" /\ target' = n /\ listed' = listed \ {n}
        /\ target = NoPod
    BY <1>4 DEF Delete, NameInv, TargetIdle
  <2>2. \A p \in Pods : phase'[p] = phase[p] \/ (p = n /\ phase'[p] = "terminating")
    BY <1>4 DEF Delete, TypeInv, TypeOK
  <2>3. Up' \subseteq Up
    BY <2>2 DEF Up
  <2>4. OneUp'
    BY <2>3 DEF NameInv, OneUp
  <2>5. RestartOwnsLeaving'
    <3>1. \A p \in Pods : p # NoPod
      BY ChurnAssumption DEF NoPod
    <3>2. QED BY <2>1, <2>2, <3>1 DEF NameInv, RestartOwnsLeaving
  <2>6. QED BY <1>2, <2>1, <2>4, <2>5 DEF NameInv, SegmentHasOnePod, TargetIdle
<1>5. CASE DeleteReturns
  <2>1. pc = "deleting" /\ pc' = "delete" /\ phase[target] = "gone" /\ target' = NoPod
        /\ UNCHANGED <<phase, listed>>
    BY <1>5 DEF DeleteReturns, cluster
  <2>2. OneUp' /\ RestartOwnsLeaving' /\ TargetIdle'
    BY <2>1 DEF NameInv, OneUp, Up, RestartOwnsLeaving, TargetIdle
  <2>3. QED BY <1>2, <2>1, <2>2 DEF NameInv, SegmentHasOnePod
<1>6. CASE AwaitReady
  <2>1. pc = "delete" /\ pc' = "export" /\ listed = {} /\ target = NoPod
        /\ pod' \in Ready /\ UNCHANGED <<phase, target>>
    BY <1>6 DEF AwaitReady, NameInv, TargetIdle, cluster
  <2>2. pod' \in Up /\ Up' = Up
    BY <2>1 DEF Ready, Up
  <2>3. \A p \in Pods : phase[p] # "terminating"
    <3>1. \A p \in Pods : p # NoPod
      BY ChurnAssumption DEF NoPod
    <3>2. QED BY <2>1, <3>1 DEF NameInv, RestartOwnsLeaving
  <2>4. ASSUME NEW p \in Pods, phase[p] \notin {"unborn", "gone"}
        PROVE  p = pod'
    <3>1. p \in Up
      BY <2>3, <2>4 DEF Up, TypeInv, TypeOK, Phases
    <3>2. QED BY <2>2, <3>1 DEF NameInv, OneUp
  <2>5. SegmentHasOnePod'
    BY <2>1, <2>2, <2>4 DEF SegmentHasOnePod
  <2>6. OneUp' /\ RestartOwnsLeaving' /\ TargetIdle'
    BY <2>1, <2>2 DEF NameInv, OneUp, RestartOwnsLeaving, TargetIdle
  <2>7. QED BY <1>2, <2>5, <2>6 DEF NameInv
<1>7. QED BY <1>1, <1>3, <1>4, <1>5, <1>6 DEF Restart

\* Only the segment's pod can answer.
LEMMA RequestNames ==
    ASSUME TypeInv, NameInv, Request
    PROVE  NameInv'
<1> DEFINE n == Len(rows')
<1>1. /\ pc = "request" /\ pc' = "loop"
      /\ UNCHANGED <<phase, segment, pod, listed, target>>
      /\ Len(rows) \in Nat /\ n = Len(rows) + 1
      /\ \A i \in 1..Len(rows) : rows'[i] = rows[i]
  BY RequestStep
<1>2. OneUp' /\ RestartOwnsLeaving' /\ SegmentHasOnePod' /\ TargetIdle'
  BY <1>1 DEF NameInv, OneUp, Up, RestartOwnsLeaving, SegmentHasOnePod, TargetIdle
<1>3. ASSUME n \in Answered', rows'[n].segment > 0
      PROVE  rows'[n].pod = rows'[n].uid
  <2>1. rows'[n].answered
    BY <1>3 DEF Answered
  <2>2. rows'[n].uid \in Routable /\ rows'[n].pod = pod /\ rows'[n].segment = segment
    BY <2>1, RequestServed
  <2>3. QED BY <1>1, <1>3, <2>2 DEF NameInv, SegmentHasOnePod, Routable
<1>4. ASSUME NEW i \in Answered', i # n
      PROVE  i \in Answered /\ rows'[i] = rows[i]
  BY <1>1, <1>4 DEF Answered
<1> HIDE DEF n
<1>5. NamedRows'
  BY <1>3, <1>4 DEF NameInv, NamedRows
<1>6. QED BY <1>2, <1>5 DEF NameInv

LEMMA NextNames ==
    ASSUME TypeInv, NameInv, [Next]_vars, faults' \ {"crash"} = {}
    PROVE  NameInv'
<1>1. "evict" \notin faults' /\ "refuse" \notin faults'
  OBVIOUS
<1>2. CASE Environment
  BY <1>1, <1>2, EnvironmentNames
<1>3. CASE Restart
  BY <1>1, <1>3, RestartNames
<1>4. CASE Request
  BY <1>4, RequestNames
<1>5. CASE NoChurn \/ Raise \/ Export \/ Finished \/ UNCHANGED vars
  <2>1. UNCHANGED <<phase, rows, segment, pod, listed, target>>
    BY <1>5 DEF NoChurn, Raise, Export, Finished, vars, cluster, loop
  <2>2. /\ pc' \in {"loop", "export", "request"} => pc \in {"loop", "export", "request"}
        /\ pc' \in {"delete", "deleting"} => pc' = pc
        /\ pc' \notin {"deleting", "failed"} => pc \notin {"deleting", "failed"}
    BY <1>5 DEF NoChurn, Raise, Export, Finished, vars
  <2>3. OneUp' /\ RestartOwnsLeaving' /\ SegmentHasOnePod' /\ TargetIdle'
    BY <2>1, <2>2 DEF NameInv, OneUp, Up, RestartOwnsLeaving, SegmentHasOnePod, TargetIdle
  <2>4. QED BY <2>1, <2>3 DEF NameInv, NamedRows, Answered
<1>6. QED BY <1>2, <1>3, <1>4, <1>5 DEF Next, Harness

\* While nothing else deletes pods, the pod the restart returned and the pod
\* that answered are the same in every row of a segment.
THEOREM RowsNameTheirPod == Spec => []RowNamesItsPod
<1> DEFINE Inv == TypeInv /\ (faults \ {"crash"} # {} \/ NameInv)
<1>1. Init => Inv
  BY InitType, InitNames
<1>2. Inv /\ [Next]_vars => Inv'
  BY NextType, NextNames, FaultsStay
<1>3. Inv => RowNamesItsPod
  BY DEF RowNamesItsPod, NameInv, NamedRows
<1>4. QED BY <1>1, <1>2, <1>3, PTL DEF Spec

-----------------------------------------------------------------------------
(* The progressive client.                                                   *)

chain == <<vars, chainVars>>

-----------------------------------------------------------------------------
(* The progressive client implements the loop that the churn clients share.  *)

LEMMA ChainStep == [ChainNext]_chain => [Next]_vars
<1> SUFFICES ASSUME [ChainNext]_chain PROVE [Next]_vars
  OBVIOUS
<1>1. CASE ChainEnvironment
  <2>1. ASSUME NEW p \in Pods, StartPod(p) \/ StartCold(p) PROVE Environment
    BY <2>1 DEF StartPod, StartCold, Environment, Cluster
  <2>2. ASSUME NEW p \in Pods, LatePush(p) \/ RedisRestart PROVE UNCHANGED vars
    BY <2>2 DEF LatePush, RedisRestart
  <2>3. RedisRestart => UNCHANGED vars
    BY DEF RedisRestart
  <2>4. CreatePod \/ (\E p \in Pods : Exit(p) \/ Crash(p) \/ Evict(p)) => Environment
    BY DEF Environment, Cluster
  <2>5. QED BY <1>1, <2>1, <2>2, <2>3, <2>4 DEF ChainEnvironment, Next
<1>2. CASE ChainClient
  <2>1. ASSUME NEW p \in Pods, Work(p) PROVE Harness
    BY <2>1 DEF Work, Harness, Request
  <2>2. ASSUME NEW p \in Pods, Push(p) \/ PushUnanswered(p) PROVE UNCHANGED vars
    BY <2>2 DEF Push, PushUnanswered
  <2>3. NoWork \/ Between => Harness
    BY DEF NoWork, Between, Harness, Request
  <2>4. QED BY <1>2, <2>1, <2>2, <2>3 DEF ChainClient, Next
<1>3. CASE Finished \/ UNCHANGED chain
  BY <1>3 DEF Next, chain
<1>4. QED BY <1>1, <1>2, <1>3 DEF ChainNext

\* What is proved of the loop holds of measure_progressive_cold_starts.py: its
\* steps are steps of the loop, or leave the loop and the cluster alone.
THEOREM ProgressiveIsChurn == ChainSpec => Spec
<1>1. ChainInit => Init
  BY DEF ChainInit
<1>2. QED BY <1>1, ChainStep, PTL DEF ChainSpec, Spec, chain

-----------------------------------------------------------------------------
(* The invariants.                                                           *)

\* The loop is at one of its invocations; a push follows the request at once.
InRange ==
  /\ inv > 0
  /\ pc \in {"delete", "deleting", "export", "request"} => inv \in Entries
  /\ pushing => pc = "loop"

ChainTypeInv == ChainTypeOK /\ InRange

Exists(p) == phase[p] # "gone"

\* The pod has what every answered push exported.
Kept(p) == confirmed \subseteq dir[p]

\* A pod whose entrypoint has run, or whose push is late, was born before.
BornFirst == late \subseteq started /\ \A p \in started : phase[p] # "unborn"

\* A late push stores no less than the archive has to keep.
LateKept == \A p \in late : Exists(p) => Kept(p)

\* Besides the pods it still deletes, the restart leaves pods without a late
\* push, and those that have started have imported the archive.
RestartReplaces ==
  pc \in {"delete", "deleting"} =>
    \A p \in Pods : Exists(p) /\ p \notin listed \union {target} =>
      p \notin late /\ (p \in started => Kept(p))

\* So do all pods from then on until the push of the invocation.
InvocationReplaced ==
  pc \in {"export", "request"} \/ pushing =>
    \A p \in Pods : Exists(p) => p \notin late /\ (p \in started => Kept(p))

ArchiveInv ==
  /\ BornFirst /\ TargetIdle
  /\ confirmed \subseteq UNION store
  /\ LateKept /\ RestartReplaces /\ InvocationReplaced

\* What TLC checks of both.
ChainInv == ChainTypeInv /\ (Chained => ArchiveInv)

-----------------------------------------------------------------------------
(* Type correctness.                                                         *)

LEMMA UnionTyped ==
  ASSUME NEW S \in SUBSET SUBSET Entries, S = {} \/ \E x : S = {x}
  PROVE  UNION S \subseteq Entries
OBVIOUS

\* A set of one element, or of none.
LEMMA OneElement ==
  ASSUME NEW x PROVE Cardinality({x}) <= 1 /\ Cardinality({}) <= 1
<1>1. Cardinality({x}) = 1
  BY FS_Singleton
<1>2. Cardinality({}) = 0
  BY FS_EmptySet
<1>3. QED BY <1>1, <1>2

LEMMA InitChainType == ChainInit => ChainTypeInv
<1> SUFFICES ASSUME ChainInit PROVE ChainTypeInv
  OBVIOUS
<1>1. ChainTypeOK
  BY OneElement DEF ChainInit, ChainTypeOK
<1>2. InRange
  BY DEF ChainInit, Init, InRange
<1>3. QED BY <1>1, <1>2 DEF ChainTypeInv

\* The steps of the loop and of the cluster keep to the loop's range.
LEMMA RangeStep ==
  ASSUME TypeInv, InRange, Environment \/ NoChurn \/ Restart \/ Raise \/ Export
  PROVE  /\ inv' > 0
         /\ pc' \in {"delete", "deleting", "export", "request"} => inv' \in Entries
<1>1. Invocations \in Nat /\ inv \in Nat
  BY ChurnAssumption DEF TypeInv, TypeOK
<1>2. UNCHANGED inv
  BY DEF Environment, Cluster, CreatePod, BecomeReady, Exit, Crash, Evict, NoChurn, Restart, Churn,
         Delete, DeleteReturns, DeleteRefused, DeleteLost, AwaitReady, Raise, Export, cluster, loop
<1>3. CASE Environment \/ Raise
  BY <1>2, <1>3
    DEF Environment, Cluster, CreatePod, BecomeReady, Exit, Crash, Evict, Raise, InRange
<1>4. CASE NoChurn
  BY <1>1, <1>2, <1>4 DEF NoChurn, InRange, Entries
<1>5. CASE Churn
  BY <1>1, <1>2, <1>5 DEF Churn, ChurnPoints, InRange, Entries
<1>6. CASE DeleteReturns \/ DeleteLost \/ AwaitReady \/ Export
  BY <1>2, <1>6 DEF DeleteReturns, DeleteLost, AwaitReady, Export, InRange
<1>7. ASSUME NEW p \in Pods, Delete(p) \/ DeleteRefused(p)
      PROVE  /\ inv' > 0
             /\ pc' \in {"delete", "deleting", "export", "request"} => inv' \in Entries
  BY <1>2, <1>7 DEF Delete, DeleteRefused, InRange
<1>8. QED BY <1>3, <1>4, <1>5, <1>6, <1>7 DEF Restart

LEMMA StartType ==
  ASSUME ChainTypeOK, NEW p \in Pods, StartPod(p) \/ StartCold(p)
  PROVE  ChainTypeOK'
<1>1. CASE StartPod(p)
  <2>1. UNION store \subseteq Entries
    BY DEF ChainTypeOK
  <2>2. dir' \in [Pods -> SUBSET Entries]
    BY <1>1, <2>1 DEF StartPod, Import, ChainTypeOK
  <2>3. QED BY <1>1, <2>2 DEF StartPod, ChainTypeOK
<1>2. CASE StartCold(p)
  BY <1>2 DEF StartCold, ChainTypeOK
<1>3. QED BY <1>1, <1>2

LEMMA PushType ==
  ASSUME ChainTypeOK, NEW p \in Pods, Push(p) \/ PushUnanswered(p) \/ LatePush(p)
  PROVE  ChainTypeOK'
<1>1. dir[p] \in SUBSET Entries /\ Cardinality({dir[p]}) <= 1 /\ Cardinality({}) <= 1
  BY OneElement DEF ChainTypeOK
<1>2. CASE Push(p)
  BY <1>1, <1>2 DEF Push, Archive, ChainTypeOK
<1>3. CASE PushUnanswered(p)
  BY <1>3 DEF PushUnanswered, ChainTypeOK
<1>4. CASE LatePush(p)
  BY <1>1, <1>4 DEF LatePush, ChainTypeOK
<1>5. QED BY <1>2, <1>3, <1>4

LEMMA WorkType ==
  ASSUME TypeInv, ChainTypeInv, NoWork \/ \E p \in Pods : Work(p)
  PROVE  ChainTypeInv'
<1>1. pc = "request" /\ pc' = "loop" /\ inv' = inv + 1 /\ inv \in Nat
  BY DEF Work, NoWork, Serve, Unserved, TypeInv, TypeOK
<1>2. inv \in Entries
  BY <1>1 DEF ChainTypeInv, InRange
<1>3. ChainTypeOK'
  BY <1>2 DEF Work, NoWork, ChainTypeInv, ChainTypeOK
<1>4. InRange'
  BY <1>1 DEF InRange
<1>5. QED BY <1>3, <1>4 DEF ChainTypeInv

LEMMA NextChainType ==
  ASSUME TypeInv, ChainTypeInv, [ChainNext]_chain
  PROVE  ChainTypeInv'
<1>1. ChainTypeOK /\ InRange
  BY DEF ChainTypeInv
<1>2. ASSUME NEW p \in Pods, StartPod(p) \/ StartCold(p) PROVE ChainTypeInv'
  <2>1. Environment /\ UNCHANGED <<pc, pushing>>
    BY <1>2 DEF StartPod, StartCold, BecomeReady, Environment, Cluster
  <2>2. InRange'
    BY <1>1, <2>1, RangeStep DEF InRange
  <2>3. QED BY <1>1, <1>2, <2>2, StartType DEF ChainTypeInv
<1>3. ASSUME NEW p \in Pods, Push(p) \/ PushUnanswered(p) \/ LatePush(p) PROVE ChainTypeInv'
  <2>1. UNCHANGED <<pc, inv>> /\ (pushing' => pushing)
    BY <1>3 DEF Push, PushUnanswered, LatePush, vars, loop
  <2>2. InRange'
    BY <1>1, <2>1 DEF InRange
  <2>3. QED BY <1>1, <1>3, <2>2, PushType DEF ChainTypeInv
<1>4. CASE RedisRestart
  <2>1. ChainTypeOK'
    BY <1>1, <1>4, OneElement DEF RedisRestart, ChainTypeOK
  <2>2. InRange'
    BY <1>1, <1>4 DEF RedisRestart, InRange, vars, loop
  <2>3. QED BY <2>1, <2>2 DEF ChainTypeInv
<1>5. CASE (CreatePod \/ \E p \in Pods : Exit(p) \/ Crash(p) \/ Evict(p)) /\ UNCHANGED chainVars
  <2>1. Environment /\ UNCHANGED <<pc, chainVars>>
    BY <1>5 DEF Environment, Cluster, CreatePod, Exit, Crash, Evict
  <2>2. InRange'
    BY <1>1, <2>1, RangeStep DEF InRange, chainVars
  <2>3. QED BY <1>1, <2>1, <2>2 DEF ChainTypeInv, ChainTypeOK, chainVars
<1>6. CASE Between
  <2>1. InRange'
    BY <1>1, <1>6, RangeStep DEF Between, InRange, chainVars
  <2>2. QED BY <1>1, <1>6, <2>1 DEF Between, ChainTypeInv, ChainTypeOK, chainVars
<1>7. ASSUME NEW p \in Pods, Work(p) PROVE ChainTypeInv'
  BY <1>7, WorkType
<1>8. CASE NoWork
  BY <1>8, WorkType
<1>9. CASE UNCHANGED <<vars, chainVars>>
  BY <1>1, <1>9 DEF ChainTypeInv, ChainTypeOK, InRange, vars, loop, chainVars
<1>10. QED BY <1>2, <1>3, <1>4, <1>5, <1>6, <1>7, <1>8, <1>9
         DEF ChainNext, ChainEnvironment, ChainClient, Finished, chain

\* The archive, the directories and the pending pushes are well typed.
THEOREM ChainTypeCorrect == ChainSpec => []ChainTypeOK
<1>1. ChainSpec => []TypeInv
  BY ProgressiveIsChurn, TypeInvariant, PTL
<1>2. TypeInv /\ ChainTypeInv /\ [ChainNext]_chain => ChainTypeInv'
  BY NextChainType
<1>3. ChainTypeInv => ChainTypeOK
  BY DEF ChainTypeInv
<1>4. QED BY <1>1, <1>2, <1>3, InitChainType, PTL DEF ChainSpec, chain

-----------------------------------------------------------------------------
(* The archive.                                                              *)

\* Nothing takes back a failed pull, a Redis restart or a refused delete.
LEMMA LapsesStay ==
  ASSUME TypeInv, [ChainNext]_chain, Chained'
  PROVE  Chained
<1>1. "refuse" \in faults => "refuse" \in faults'
  BY ChainStep, FaultsStay
<1>2. lapses = {}
  <2>1. CASE ChainEnvironment
    <3>1. ASSUME NEW p \in Pods, StartCold(p) PROVE lapses' # {}
      BY <3>1 DEF StartCold
    <3>2. RedisRestart => lapses' # {}
      BY DEF RedisRestart
    <3>3. QED BY <2>1, <3>1, <3>2 DEF ChainEnvironment, StartPod, LatePush, Chained, chainVars
  <2>2. CASE ChainClient
    BY <2>2 DEF ChainClient, Work, NoWork, Between, Push, PushUnanswered, chainVars, Chained
  <2>3. CASE UNCHANGED chainVars
    BY <2>3 DEF chainVars, Chained
  <2>4. QED BY <2>1, <2>2, <2>3 DEF ChainNext, chain
<1>3. QED BY <1>1, <1>2 DEF Chained

\* A step that leaves the archive, the directories and the pushes alone, and in
\* which no pod comes back: what is left is where the loop goes.
LEMMA ClusterKept ==
  ASSUME ArchiveInv, UNCHANGED chainVars, UNCHANGED <<pc, listed, target>>,
         \A p \in Pods : /\ phase[p] = "gone" => phase'[p] = "gone"
                         /\ phase'[p] = "unborn" => phase[p] = "unborn",
         started \subseteq Pods
  PROVE  ArchiveInv'
<1>1. UNCHANGED <<store, dir, started, pushing, late, confirmed>>
  BY DEF chainVars
<1>2. BornFirst' /\ TargetIdle'
  BY <1>1 DEF ArchiveInv, BornFirst, TargetIdle
<1>3. LateKept'
  BY <1>1 DEF ArchiveInv, BornFirst, LateKept, Exists, Kept
<1>4. RestartReplaces' /\ InvocationReplaced'
  BY <1>1 DEF ArchiveInv, RestartReplaces, InvocationReplaced, Exists, Kept
<1>5. QED BY <1>1, <1>2, <1>3, <1>4 DEF ArchiveInv

\* A pod that starts imports the archive, which has what there is to keep.
LEMMA StartKept ==
  ASSUME TypeInv, ChainTypeInv, ArchiveInv, NEW p \in Pods, StartPod(p)
  PROVE  ArchiveInv'
<1>1. /\ phase[p] = "starting" /\ phase' = [phase EXCEPT ![p] = "ready"]
      /\ UNCHANGED <<pc, listed, target, store, pushing, late, confirmed>>
      /\ started' = started \union {p}
  BY DEF StartPod, BecomeReady
<1>2. phase \in [Pods -> Phases] /\ started \subseteq Pods /\ late \subseteq Pods
      /\ dir \in [Pods -> SUBSET Entries]
  BY DEF TypeInv, TypeOK, ChainTypeInv, ChainTypeOK
<1>3. \A q \in Pods : Exists(q)' => Exists(q)
  BY <1>1, <1>2 DEF Exists
<1>4. \A q \in Pods : Kept(q) \/ q = p => Kept(q)'
  <2>1. confirmed \subseteq UNION store
    BY DEF ArchiveInv
  <2>2. CASE store = {}
    BY <1>1, <2>1, <2>2 DEF Kept
  <2>3. CASE store # {}
    <3>1. dir' = [dir EXCEPT ![p] = UNION store]
      BY <2>3 DEF StartPod, Import
    <3>2. QED BY <1>1, <1>2, <2>1, <3>1 DEF Kept
  <2>4. QED BY <2>2, <2>3
<1>5. BornFirst'
  BY <1>1, <1>2 DEF ArchiveInv, BornFirst
<1>6. TargetIdle' /\ confirmed' \subseteq UNION store'
  BY <1>1 DEF ArchiveInv, TargetIdle
<1>7. LateKept'
  BY <1>1, <1>2, <1>3, <1>4 DEF ArchiveInv, LateKept
<1>8. RestartReplaces' /\ InvocationReplaced'
  <2>1. ASSUME NEW q \in Pods, q \notin late, q \in started => Kept(q)
        PROVE  q \notin late' /\ (q \in started' => Kept(q)')
    BY <1>1, <1>4, <2>1
  <2>2. RestartReplaces'
    BY <1>1, <1>3, <2>1 DEF ArchiveInv, RestartReplaces
  <2>3. InvocationReplaced'
    BY <1>1, <1>3, <2>1 DEF ArchiveInv, InvocationReplaced
  <2>4. QED BY <2>2, <2>3
<1>9. QED BY <1>5, <1>6, <1>7, <1>8 DEF ArchiveInv

\* A late push of a pod that is gone does nothing; of another one, it stores what
\* there is to keep.
LEMMA LateKeeps ==
  ASSUME TypeInv, ChainTypeInv, ArchiveInv, NEW p \in Pods, LatePush(p)
  PROVE  ArchiveInv'
<1>1. /\ p \in late /\ late' = late \ {p}
      /\ UNCHANGED <<phase, pc, listed, target, dir, started, pushing, confirmed>>
  BY DEF LatePush, vars, cluster
<1>2. confirmed' \subseteq UNION store'
  <2>1. CASE p \in Reachable
    <3>1. Exists(p) /\ store' = {dir[p]}
      BY <2>1 DEF LatePush, Reachable, Routable, Exists
    <3>2. Kept(p)
      BY <1>1, <3>1 DEF ArchiveInv, LateKept
    <3>3. QED BY <1>1, <3>1, <3>2 DEF Kept
  <2>2. CASE p \notin Reachable
    BY <1>1, <2>2 DEF LatePush, ArchiveInv
  <2>3. QED BY <2>1, <2>2
<1>3. BornFirst' /\ TargetIdle' /\ LateKept'
  BY <1>1 DEF ArchiveInv, BornFirst, TargetIdle, LateKept, Exists, Kept
<1>4. RestartReplaces' /\ InvocationReplaced'
  BY <1>1 DEF ArchiveInv, RestartReplaces, InvocationReplaced, Exists, Kept
<1>5. QED BY <1>2, <1>3, <1>4 DEF ArchiveInv

\* The work of an invocation adds an entry to a directory.
LEMMA WorkKept ==
  ASSUME TypeInv, ChainTypeInv, ArchiveInv, NoWork \/ \E p \in Pods : Work(p)
  PROVE  ArchiveInv'
<1>1. /\ pc = "request" /\ pc' = "loop"
      /\ UNCHANGED <<phase, listed, target, store, started, late, confirmed>>
  BY DEF Work, NoWork, Serve, Unserved, cluster
<1>2. ASSUME NEW q \in Pods PROVE dir[q] \subseteq dir'[q]
  BY DEF Work, NoWork, ChainTypeInv, ChainTypeOK
<1>3. \A q \in Pods : Kept(q) => Kept(q)'
  BY <1>1, <1>2 DEF Kept
<1>4. late \subseteq Pods
  BY DEF ChainTypeInv, ChainTypeOK
<1>5. BornFirst' /\ TargetIdle' /\ confirmed' \subseteq UNION store'
  BY <1>1 DEF ArchiveInv, BornFirst, TargetIdle
<1>6. LateKept'
  BY <1>1, <1>3, <1>4 DEF ArchiveInv, LateKept, Exists
<1>7. RestartReplaces'
  BY <1>1 DEF RestartReplaces
<1>8. InvocationReplaced'
  BY <1>1, <1>3 DEF ArchiveInv, InvocationReplaced, Exists
<1>9. QED BY <1>5, <1>6, <1>7, <1>8 DEF ArchiveInv

\* The push: every pod it may reach has what there is to keep, and none has a
\* late push of an earlier invocation.
LEMMA PushKeeps ==
  ASSUME TypeInv, ChainTypeInv, ArchiveInv, NEW p \in Pods, Push(p) \/ PushUnanswered(p)
  PROVE  ArchiveInv'
<1>1. /\ pushing /\ ~pushing' /\ pc = "loop" /\ pc' = "loop"
      /\ UNCHANGED <<phase, listed, target, dir, started>>
  BY DEF Push, PushUnanswered, vars, cluster, ChainTypeInv, InRange
<1>2. \A q \in Pods : Exists(q) => q \notin late /\ (q \in started => Kept(q))
  BY <1>1 DEF ArchiveInv, InvocationReplaced
<1>3. late \subseteq Pods
  BY DEF ChainTypeInv, ChainTypeOK
<1>4. ASSUME p \in Reachable PROVE Exists(p) /\ Kept(p) /\ p \in started
  BY <1>2, <1>4 DEF Reachable, Routable, Exists
<1>5. RestartReplaces' /\ InvocationReplaced' /\ TargetIdle'
  BY <1>1 DEF ArchiveInv, RestartReplaces, InvocationReplaced, TargetIdle
<1>6. CASE Push(p)
  <2>1. store' = {dir[p]} /\ confirmed' = confirmed \union dir[p] /\ late' = late
    BY <1>6 DEF Push, Archive
  <2>2. confirmed' \subseteq UNION store'
    BY <1>4, <1>6, <2>1 DEF Push, Kept
  <2>3. BornFirst'
    BY <1>1, <2>1 DEF ArchiveInv, BornFirst
  <2>4. LateKept'
    BY <1>1, <1>2, <1>3, <2>1 DEF LateKept, Exists
  <2>5. QED BY <1>5, <2>2, <2>3, <2>4 DEF ArchiveInv
<1>7. CASE PushUnanswered(p)
  <2>1. /\ UNCHANGED <<store, confirmed>>
        /\ late' \subseteq late \union ({p} \cap Reachable)
    BY <1>7 DEF PushUnanswered
  <2>2. BornFirst'
    BY <1>1, <1>4, <2>1 DEF ArchiveInv, BornFirst
  <2>3. LateKept'
    BY <1>1, <1>2, <1>3, <1>4, <2>1 DEF LateKept, Exists, Kept
  <2>4. confirmed' \subseteq UNION store'
    BY <2>1 DEF ArchiveInv
  <2>5. QED BY <1>5, <2>2, <2>3, <2>4 DEF ArchiveInv
<1>8. QED BY <1>6, <1>7

\* The loop between a push and the next request: with a restart before every
\* invocation, only pods that the restart left answer it.
LEMMA BetweenKept ==
  ASSUME 1..Invocations \subseteq ChurnPoints, TypeInv, ChainTypeInv, ArchiveInv, Between,
         "refuse" \notin faults'
  PROVE  ArchiveInv'
<1>1. UNCHANGED <<store, dir, started, pushing, late, confirmed>> /\ ~pushing
  BY DEF Between, chainVars
<1>2. phase \in [Pods -> Phases] /\ started \subseteq Pods /\ late \subseteq Pods
      /\ Pods \subseteq Nat \ {0} /\ NoPod \notin Pods
  BY ChurnAssumption DEF TypeInv, TypeOK, ChainTypeInv, ChainTypeOK, NoPod
<1>3. ASSUME UNCHANGED phase PROVE BornFirst' /\ LateKept' /\ confirmed' \subseteq UNION store'
  BY <1>1, <1>3 DEF ArchiveInv, BornFirst, LateKept, Exists, Kept
<1>4. CASE NoChurn
  <2>1. pc' = "done"
    BY <1>4 DEF NoChurn, ChainTypeInv, InRange, TypeInv, TypeOK
  <2>2. UNCHANGED <<phase, target>> /\ pc = "loop"
    BY <1>4 DEF NoChurn, cluster
  <2>3. QED BY <1>1, <1>3, <2>1, <2>2
          DEF ArchiveInv, TargetIdle, RestartReplaces, InvocationReplaced
<1>5. CASE Churn
  <2>1. /\ UNCHANGED <<phase, target>> /\ pc = "loop" /\ pc' = "delete"
        /\ listed' = ListedPods
    BY <1>5 DEF Churn, cluster
  <2>2. ASSUME NEW q \in Pods, Exists(q), q \notin ListedPods PROVE q \notin late /\ q \notin started
    BY <2>2 DEF Exists, ListedPods, ArchiveInv, BornFirst
  <2>3. RestartReplaces'
    BY <1>1, <2>1, <2>2 DEF RestartReplaces, Exists
  <2>4. QED BY <1>1, <1>3, <2>1, <2>3 DEF ArchiveInv, TargetIdle, InvocationReplaced
<1>6. ASSUME NEW p \in Pods, Delete(p) PROVE ArchiveInv'
  <2>1. /\ pc = "delete" /\ pc' = "deleting" /\ p \in listed
        /\ listed' = listed \ {p} /\ target' = p
        /\ phase' = (IF phase[p] = "gone" THEN phase ELSE [phase EXCEPT ![p] = "terminating"])
    BY <1>6 DEF Delete
  <2>2. target = NoPod
    BY <2>1 DEF ArchiveInv, TargetIdle
  <2>3. \A q \in Pods : Exists(q)' => Exists(q) /\ (phase'[q] = "unborn" => phase[q] = "unborn")
    BY <1>2, <2>1 DEF Exists
  <2>4. \A q : Kept(q)' = Kept(q)
    BY <1>1 DEF Kept
  <2>5. BornFirst' /\ LateKept'
    BY <1>1, <1>2, <2>1, <2>3, <2>4 DEF ArchiveInv, BornFirst, LateKept
  <2>6. RestartReplaces'
    BY <1>1, <1>2, <2>1, <2>2, <2>3, <2>4 DEF ArchiveInv, RestartReplaces
  <2>7. QED BY <1>1, <2>1, <2>5, <2>6 DEF ArchiveInv, TargetIdle, InvocationReplaced
<1>7. CASE DeleteReturns
  <2>1. /\ pc = "deleting" /\ pc' = "delete" /\ phase[target] = "gone" /\ target' = NoPod
        /\ UNCHANGED <<phase, listed>>
    BY <1>7 DEF DeleteReturns, cluster
  <2>2. RestartReplaces'
    BY <1>1, <1>2, <2>1 DEF ArchiveInv, RestartReplaces, Exists, Kept
  <2>3. QED BY <1>1, <1>3, <2>1, <2>2 DEF ArchiveInv, TargetIdle, InvocationReplaced
<1>8. CASE AwaitReady
  <2>1. /\ pc = "delete" /\ pc' = "export" /\ listed = {} /\ UNCHANGED <<phase, target>>
    BY <1>8 DEF AwaitReady, cluster
  <2>2. target = NoPod
    BY <2>1 DEF ArchiveInv, TargetIdle
  <2>3. InvocationReplaced'
    BY <1>1, <1>2, <2>1, <2>2 DEF ArchiveInv, RestartReplaces, InvocationReplaced, Exists, Kept
  <2>4. QED BY <1>1, <1>3, <2>1, <2>2, <2>3 DEF ArchiveInv, TargetIdle, RestartReplaces
<1>9. CASE Raise
  <2>1. pc' = "failed" /\ UNCHANGED phase
    BY <1>9 DEF Raise, cluster
  <2>2. QED BY <1>1, <1>3, <2>1 DEF ArchiveInv, TargetIdle, RestartReplaces, InvocationReplaced
<1>10. CASE Export
  <2>1. pc = "export" /\ pc' = "request" /\ UNCHANGED <<phase, target>>
    BY <1>10 DEF Export, cluster
  <2>2. InvocationReplaced'
    BY <1>1, <2>1 DEF ArchiveInv, InvocationReplaced, Exists, Kept
  <2>3. QED BY <1>1, <1>3, <2>1, <2>2 DEF ArchiveInv, TargetIdle, RestartReplaces
<1>11. ~ DeleteLost /\ ~ \E p \in Pods : DeleteRefused(p)
  BY DEF DeleteLost, DeleteRefused, Fault
<1>12. QED BY <1>4, <1>5, <1>6, <1>7, <1>8, <1>9, <1>10, <1>11 DEF Between, Restart

LEMMA EnvironmentKept ==
  ASSUME TypeInv, ChainTypeInv, ArchiveInv, Chained', UNCHANGED chainVars,
         CreatePod \/ \E p \in Pods : Exit(p) \/ Crash(p) \/ Evict(p)
  PROVE  ArchiveInv'
<1>1. UNCHANGED <<pc, listed, target>>
  BY DEF CreatePod, Exit, Crash, Evict
<1>2. phase \in [Pods -> Phases] /\ started \subseteq Pods
  BY DEF TypeInv, TypeOK, ChainTypeInv, ChainTypeOK
<1>3. ASSUME NEW q \in Pods
      PROVE  /\ phase[q] = "gone" => phase'[q] = "gone"
             /\ phase'[q] = "unborn" => phase[q] = "unborn"
  BY <1>2 DEF CreatePod, Exit, Crash, Evict
<1>4. QED BY <1>1, <1>2, <1>3, ClusterKept

LEMMA NextArchive ==
  ASSUME 1..Invocations \subseteq ChurnPoints, TypeInv, ChainTypeInv, ArchiveInv,
         [ChainNext]_chain, Chained'
  PROVE  ArchiveInv'
<1>1. lapses' = {} /\ "refuse" \notin faults'
  BY DEF Chained
<1>2. ~RedisRestart /\ ~ \E p \in Pods : StartCold(p)
  BY <1>1 DEF RedisRestart, StartCold
<1>3. CASE (CreatePod \/ \E p \in Pods : Exit(p) \/ Crash(p) \/ Evict(p)) /\ UNCHANGED chainVars
  BY <1>3, EnvironmentKept
<1>4. CASE \E p \in Pods : StartPod(p) \/ LatePush(p)
  BY <1>4, StartKept, LateKeeps
<1>5. CASE NoWork \/ Between \/ \E p \in Pods : Work(p) \/ Push(p) \/ PushUnanswered(p)
  BY <1>1, <1>5, WorkKept, BetweenKept, PushKeeps
<1>6. CASE UNCHANGED <<vars, chainVars>>
  <2>1. UNCHANGED <<phase, pc, listed, target, store, dir, started, pushing, late, confirmed>>
    BY <1>6 DEF vars, cluster, chainVars
  <2>2. QED BY <2>1
          DEF ArchiveInv, BornFirst, TargetIdle, LateKept, RestartReplaces, InvocationReplaced, Exists, Kept
<1>7. QED BY <1>2, <1>3, <1>4, <1>5, <1>6
        DEF ChainNext, ChainEnvironment, ChainClient, Finished, chain

LEMMA InitArchive == ChainInit => ArchiveInv
<1> SUFFICES ASSUME ChainInit PROVE ArchiveInv
  OBVIOUS
<1>1. BornFirst
  BY DEF ChainInit, BornFirst
<1>2. TargetIdle /\ RestartReplaces /\ InvocationReplaced /\ LateKept /\ confirmed \subseteq UNION store
  BY DEF ChainInit, Init, TargetIdle, RestartReplaces, InvocationReplaced, LateKept
<1>3. QED BY <1>1, <1>2 DEF ArchiveInv

\* A segment of one invocation is a restart before each.
LEMMA EachRestarted == SegmentLength = 1 => 1..Invocations \subseteq ChurnPoints
<1> SUFFICES ASSUME SegmentLength = 1, NEW i \in 1..Invocations PROVE i \in ChurnPoints
  OBVIOUS
<1>1. Invocations \in Nat
  BY ChurnAssumption
<1>2. i - 1 \in 0..Invocations /\ i = 1 + (i - 1) * SegmentLength
  BY <1>1
<1>3. i \in {1 + k * SegmentLength : k \in 0..Invocations}
  BY <1>2
<1>4. QED BY <1>3 DEF ChurnPoints

LEMMA ArchiveAlways ==
  ASSUME SegmentLength = 1
  PROVE  ChainSpec => [](TypeInv /\ ChainTypeInv /\ (Chained => ArchiveInv))
<1> DEFINE Inv == ChainTypeInv /\ (Chained => ArchiveInv)
<1>1. ChainSpec => []TypeInv
  BY ProgressiveIsChurn, TypeInvariant, PTL
<1>2. ChainInit => Inv
  BY InitChainType, InitArchive
<1>3. TypeInv /\ Inv /\ [ChainNext]_chain => Inv'
  BY EachRestarted, NextChainType, NextArchive, LapsesStay
<1>4. QED BY <1>1, <1>2, <1>3, PTL DEF ChainSpec, chain

\* The archive keeps every entry of a push that was answered, for any pods,
\* crashes, evictions and late pushes (measure_progressive_cold_starts.py, which
\* replaces the pod before each invocation).
THEOREM ArchiveKeepsConfirmed ==
  ASSUME SegmentLength = 1
  PROVE  ChainSpec => []ConfirmedKept
<1>1. ChainTypeInv /\ (Chained => ArchiveInv) => ConfirmedKept
  BY DEF ConfirmedKept, ArchiveInv
<1>2. QED BY <1>1, ArchiveAlways, PTL

\* A pod that a request may reach has imported what every answered push exported:
\* no invocation measures a pod that has missed one before it.
THEOREM EachPodImports ==
  ASSUME SegmentLength = 1
  PROVE  ChainSpec => []ChainUnbroken
<1>1. TypeInv /\ (Chained => ArchiveInv) => ChainUnbroken
  <2> SUFFICES ASSUME ArchiveInv, pc = "request", NEW p \in Reachable PROVE confirmed \subseteq dir[p]
    BY DEF ChainUnbroken
  <2>1. p \in Pods /\ Exists(p) /\ p \in started
    BY DEF Reachable, Routable, Exists
  <2>2. QED BY <2>1 DEF ArchiveInv, InvocationReplaced, Kept
<1>2. QED BY <1>1, ArchiveAlways, PTL

=============================================================================

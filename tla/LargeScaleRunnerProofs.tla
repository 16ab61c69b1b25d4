------------------------ MODULE LargeScaleRunnerProofs ------------------------
(* Theorems of LargeScaleRunner, for every matrix of functions, any number of *)
(* waves and positions, and any faults.                                       *)
EXTENDS LargeScaleRunner, SequenceTheorems, FiniteSetTheorems, TLAPS

-----------------------------------------------------------------------------
(* The invariants.                                                           *)

\* Nothing else than this attempt's populate has written what Redis holds; once
\* lost, this never comes back.
OwnArtifacts == ownStore /\ late = {} /\ store = [b \in BenchmarkSet |-> {"new"}]

\* A baseline pod has no artifact, and a saved one that serves has one.
ArtifactOfPod(b, p) ==
  /\ Block(b).treatment = "baseline" => p.artifact = {}
  /\ Block(b).treatment = "saved" /\ p.state \in {"ready", "draining"} => p.artifact # {}

\* What a pod of the selected functions may have begun: nothing while the restart
\* waits, unless the restart waits for the pod itself; then a run for each
\* position its shard was sent.
Begun(s) == IF pc # "send" THEN 0 ELSE IF s \in todo THEN position - 1 ELSE position

FreshPod(s, p) ==
  pc \in {"deleting", "wait", "send"} /\ (pc = "deleting" => ~p.awaited) =>
    /\ p.runs <= Begun(s)
    /\ OwnArtifacts => "old" \notin p.artifact

PodsFitTreatment ==
  \A b \in Blocks, s \in Shards : \A i \in PodsOf(FunctionName(b, s)) :
    ArtifactOfPod(b, pods[FunctionName(b, s)][i])

PodsAreFresh ==
  failed \/ \A s \in Shards : \A i \in PodsOf(FunctionName(block, s)) :
              FreshPod(s, pods[FunctionName(block, s)][i])

\* There is no row before the matrix is ready.
NoRowsYet == pc \in {"populate", "deploy", "ready"} => rows = {}

PodInv == PodsFitTreatment /\ PodsAreFresh /\ NoRowsYet

\* An answer counts the run of a fresh pod of its treatment.
HonestRow(r) ==
  /\ ~failed => r.run <= r.position
  /\ Block(r.block).treatment = "baseline" => r.artifact = {}
  /\ Block(r.block).treatment = "saved" => r.artifact # {}
  /\ ~failed /\ OwnArtifacts => "old" \notin r.artifact

HonestInv == PodInv /\ \A r \in Answered : HonestRow(r)

-----------------------------------------------------------------------------
Here == Place(block, wave, position)
PlaceOf(r) == Place(r.block, r.wave, r.position)

RowsAt(b, w, p, s) == {r \in rows : <<r.block, r.wave, r.position, r.shard>> = <<b, w, p, s>>}

\* A set of one element.
Single(S) == \E r \in S : S = {r}

\* Rows are of the present position or of those passed, whose rows are all in
\* the file; a position begins without rows, and has one of each shard done.
FileInv ==
  /\ pc \in {"populate", "deploy", "ready", "restart", "deleting", "wait"} => position = 1
  /\ \A r \in rows : PlaceOf(r) <= Here
  /\ pc \in {"restart", "deleting", "wait"} => \A r \in rows : PlaceOf(r) < Here
  /\ \A r \in unflushed : PlaceOf(r) = Here /\ pc = "send"
  /\ \A b \in Blocks, w \in 1..Waves, p \in 1..Positions, s \in Shards :
       Passed(b, w, p) => Single(RowsAt(b, w, p, s))
  /\ pc = "send" => \A s \in Shards :
       IF s \in todo THEN RowsAt(block, wave, position, s) = {}
                     ELSE Single(RowsAt(block, wave, position, s))

IInv == TypeOK /\ HonestInv /\ FileInv
-----------------------------------------------------------------------------
(* The matrix of functions.                                                  *)

LEMMA BlockFields ==
  ASSUME NEW b \in Blocks
  PROVE  Block(b).benchmark \in BenchmarkSet /\ Block(b).treatment \in {"baseline", "saved"}
<1>1. Len(Benchmarks) \in Nat /\ b \in 1..2 * Len(Benchmarks)
  BY ScaleAssumption DEF Blocks
<1>2. (b + 1) \div 2 \in 1..Len(Benchmarks)
  BY <1>1
<1>3. b % 2 = 0 \/ b % 2 = 1
  BY <1>1
<1>4. Treatments[2 - (b % 2)] \in {"baseline", "saved"}
  BY <1>3 DEF Treatments
<1>5. QED BY <1>2, <1>4 DEF Block, BenchmarkSet

LEMMA FirstBlock == 1 \in Blocks /\ Blocks \subseteq Nat \ {0} /\ BenchmarkSet # {}
<1>1. Len(Benchmarks) \in Nat \ {0}
  BY ScaleAssumption, EmptySeq
<1>2. Benchmarks[1] \in BenchmarkSet
  BY <1>1 DEF BenchmarkSet
<1>3. QED BY <1>1, <1>2 DEF Blocks

\* The functions of a block are its shards', and no function is of two blocks
\* or shards.
LEMMA FunctionsApart ==
  /\ \A b \in Blocks, s \in Shards : FunctionName(b, s) \in Selected(b)
  /\ \A b \in Blocks, s \in Shards : FunctionName(b, s) \in Names
  /\ \A b, c \in Blocks, s \in Shards : FunctionName(c, s) \in Selected(b) => c = b
  /\ \A b, c \in Blocks, s, t \in Shards :
       FunctionName(b, s) = FunctionName(c, t) => b = c /\ s = t
  /\ \A n \in Names : \E b \in Blocks, s \in Shards : n = FunctionName(b, s)
  /\ \A b \in Blocks : Selected(b) \subseteq Names
<1>1. \A b, c \in Blocks, s, t \in Shards :
        FunctionName(b, s) = FunctionName(c, t) => b = c /\ s = t
  BY NamesApart
<1>2. QED BY <1>1 DEF Selected, Names

-----------------------------------------------------------------------------
(* Operations on the pods of a function.                                     *)

LEMMA Removed ==
  ASSUME NEW S, NEW q \in Seq(S), NEW i \in 1..Len(q)
  PROVE  LET r == SubSeq(q, 1, i - 1) \o SubSeq(q, i + 1, Len(q))
         IN /\ r \in Seq(S)
            /\ \A k \in 1..Len(r) : \E j \in 1..Len(q) : r[k] = q[j]
<1> DEFINE before == SubSeq(q, 1, i - 1)
           after == SubSeq(q, i + 1, Len(q))
<1>1. Len(q) \in Nat /\ \A j \in 1..Len(q) : q[j] \in S
  BY LenProperties, ElementOfSeq
<1>2. /\ before \in Seq(S) /\ Len(before) = i - 1
      /\ \A k \in 1..i - 1 : before[k] = q[k]
  <2>1. 1 \in Int /\ i - 1 \in Int /\ \A j \in 1..i - 1 : q[j] \in S
    BY <1>1
  <2>2. /\ before \in Seq(S) /\ Len(before) = IF 1 <= i - 1 THEN i - 1 - 1 + 1 ELSE 0
        /\ \A k \in 1..i - 1 - 1 + 1 : before[k] = q[1 + k - 1]
    BY <2>1, SubSeqProperties
  <2>3. QED BY <1>1, <2>2
<1>3. /\ after \in Seq(S) /\ Len(after) = Len(q) - i
      /\ \A k \in 1..Len(q) - i : after[k] = q[i + k]
  <2>1. i + 1 \in Int /\ Len(q) \in Int /\ \A j \in i + 1..Len(q) : q[j] \in S
    BY <1>1
  <2>2. /\ after \in Seq(S)
        /\ Len(after) = IF i + 1 <= Len(q) THEN Len(q) - (i + 1) + 1 ELSE 0
        /\ \A k \in 1..Len(q) - (i + 1) + 1 : after[k] = q[i + 1 + k - 1]
    BY <2>1, SubSeqProperties
  <2>3. QED BY <1>1, <2>2
<1>4. /\ before \o after \in Seq(S)
      /\ Len(before \o after) = Len(q) - 1
      /\ \A k \in 1..Len(q) - 1 :
           (before \o after)[k] = IF k <= i - 1 THEN before[k] ELSE after[k - (i - 1)]
  <2> HIDE DEF before, after
  <2>1. /\ before \o after \in Seq(S)
        /\ Len(before \o after) = Len(before) + Len(after)
        /\ \A k \in 1..Len(before) + Len(after) :
             (before \o after)[k] = IF k <= Len(before) THEN before[k] ELSE after[k - Len(before)]
    BY <1>2, <1>3, ConcatProperties
  <2>2. QED BY <1>1, <1>2, <1>3, <2>1
<1>5. ASSUME NEW k \in 1..Len(before \o after)
      PROVE  \E j \in 1..Len(q) : (before \o after)[k] = q[j]
  <2> HIDE DEF before, after
  <2>1. CASE k <= i - 1
    BY <1>1, <1>2, <1>4, <2>1
  <2>2. CASE k > i - 1
    <3>1. k - (i - 1) \in 1..Len(q) - i /\ k + 1 \in 1..Len(q)
      BY <1>1, <1>4, <2>2
    <3>2. (before \o after)[k] = q[k + 1]
      BY <1>1, <1>3, <1>4, <2>2, <3>1
    <3>3. QED BY <3>1, <3>2
  <2>3. QED BY <1>1, <1>4, <2>1, <2>2
<1>6. QED BY <1>4, <1>5

PodMap == [Names -> Seq(Pods)]

\* The pods of a function, each of its own type.
LEMMA PodsTyped ==
  ASSUME pods \in PodMap, NEW n \in Names
  PROVE  /\ pods[n] \in Seq(Pods) /\ Len(pods[n]) \in Nat
         /\ \A i \in PodsOf(n) : pods[n][i] \in Pods
<1>1. pods[n] \in Seq(Pods)
  BY DEF PodMap
<1>2. QED BY <1>1, LenProperties, ElementOfSeq DEF PodsOf

LEMMA NewPodTyped == NewPod \in Pods
BY DEF NewPod, Pods, States

LEMMA TerminatedTyped ==
  ASSUME NEW p \in Pods, NEW awaited \in BOOLEAN
  PROVE  /\ Terminated(p, awaited) \in Pods
         /\ Terminated(p, awaited).awaited = (p.awaited \/ awaited)
         /\ Terminated(p, awaited).runs = p.runs
         /\ Terminated(p, awaited).artifact = p.artifact
         /\ Terminated(p, awaited).state \in {"ready", "draining"}
              => p.state \in {"ready", "draining"}
BY DEF Terminated, Pods, States

LEMMA ReplaceTyped ==
  ASSUME pods \in PodMap, NEW n \in Names, NEW i \in PodsOf(n), NEW p \in Pods, Replace(n, i, p)
  PROVE  /\ pods' \in PodMap
         /\ \A m \in Names : PodsOf(m)' = PodsOf(m)
         /\ \A m \in Names : \A k \in PodsOf(m) :
              pods'[m][k] = IF m = n /\ k = i THEN p ELSE pods[m][k]
<1>1. /\ pods[n] \in Seq(Pods) /\ i \in 1..Len(pods[n])
  BY PodsTyped DEF PodsOf
<1>2. pods' = [pods EXCEPT ![n] = [pods[n] EXCEPT ![i] = p]]
  BY DEF Replace
<1>3. /\ [pods[n] EXCEPT ![i] = p] \in Seq(Pods)
      /\ Len([pods[n] EXCEPT ![i] = p]) = Len(pods[n])
      /\ \A j \in 1..Len(pods[n]) : [pods[n] EXCEPT ![i] = p][j] = IF j = i THEN p ELSE pods[n][j]
  BY <1>1, ExceptSeq
<1>4. pods' \in PodMap
  BY <1>2, <1>3 DEF PodMap
<1>5. \A m \in Names : pods'[m] = IF m = n THEN [pods[n] EXCEPT ![i] = p] ELSE pods[m]
  BY <1>2 DEF PodMap
<1>6. QED BY <1>3, <1>4, <1>5 DEF PodsOf

\* Each pod of some functions is terminated, and the others stay.
LEMMA TerminateTyped ==
  ASSUME pods \in PodMap, NEW some \in SUBSET Names, NEW awaited \in BOOLEAN,
         pods' = [n \in Names |-> IF n \in some
                    THEN [i \in PodsOf(n) |-> Terminated(pods[n][i], awaited)] ELSE pods[n]]
  PROVE  /\ pods' \in PodMap
         /\ \A m \in Names : PodsOf(m)' = PodsOf(m)
         /\ \A m \in Names : \A k \in PodsOf(m) :
              pods'[m][k] = IF m \in some THEN Terminated(pods[m][k], awaited) ELSE pods[m][k]
<1>1. ASSUME NEW n \in Names
      PROVE  LET t == [i \in PodsOf(n) |-> Terminated(pods[n][i], awaited)]
             IN t \in Seq(Pods) /\ Len(t) = Len(pods[n])
  <2>1. Len(pods[n]) \in Nat /\ \A i \in PodsOf(n) : Terminated(pods[n][i], awaited) \in Pods
    BY PodsTyped, TerminatedTyped
  <2>2. QED BY <2>1 DEF PodsOf
<1>2. ASSUME NEW n \in Names PROVE pods'[n] \in Seq(Pods) /\ Len(pods'[n]) = Len(pods[n])
  BY <1>1, PodsTyped
<1>3. pods' \in PodMap
  BY <1>2 DEF PodMap
<1>4. QED BY <1>2, <1>3 DEF PodsOf

-----------------------------------------------------------------------------
(* What a step of the cluster does to a pod of a function of block b.        *)

Serving == {"ready", "draining"}

ClusterStep(b, q, p) ==
  /\ q.awaited = p.awaited /\ q.runs <= p.runs
  /\ \/ q.artifact = p.artifact /\ (q.state \in Serving => p.state \in Serving)
     \/ /\ Block(b).treatment = "baseline" => q.artifact = {}
        /\ Block(b).treatment = "saved" =>
             q.artifact # {} /\ q.artifact = store[Block(b).benchmark]

\* Every pod was there before, or is new.
Descends ==
  \A b \in Blocks, s \in Shards :
    LET n == FunctionName(b, s)
    IN \A k \in PodsOf(n)' :
         pods'[n][k] = NewPod \/ \E j \in PodsOf(n) : ClusterStep(b, pods'[n][k], pods[n][j])

LEMMA CreatePodStep ==
  ASSUME TypeOK, NEW n \in Names, CreatePod(n)
  PROVE  pods' \in PodMap /\ Descends
<1>1. pods \in PodMap
  BY DEF TypeOK, PodMap
<1>2. pods' = [pods EXCEPT ![n] = Append(pods[n], NewPod)]
  BY DEF CreatePod
<1>3. pods[n] \in Seq(Pods) /\ NewPod \in Pods
  BY <1>1, PodsTyped, NewPodTyped
<1>4. /\ Append(pods[n], NewPod) \in Seq(Pods)
      /\ Len(Append(pods[n], NewPod)) = Len(pods[n]) + 1
      /\ \A i \in 1..Len(pods[n]) : Append(pods[n], NewPod)[i] = pods[n][i]
      /\ Append(pods[n], NewPod)[Len(pods[n]) + 1] = NewPod
  BY <1>3, AppendProperties
<1>5. pods' \in PodMap
  BY <1>1, <1>2, <1>4 DEF PodMap
<1>6. ASSUME NEW m \in Names, NEW k \in PodsOf(m)'
      PROVE  pods'[m][k] = NewPod \/ (k \in PodsOf(m) /\ pods'[m][k] = pods[m][k])
  <2>1. CASE m = n
    <3>1. pods'[m] = Append(pods[n], NewPod) /\ Len(pods[n]) \in Nat
      BY <1>1, <1>2, <2>1, PodsTyped DEF PodMap
    <3>2. k \in 1..Len(pods[n]) + 1
      BY <1>4, <3>1 DEF PodsOf
    <3>3. QED BY <1>4, <2>1, <3>1, <3>2 DEF PodsOf
  <2>2. CASE m # n
    BY <1>1, <1>2, <2>2 DEF PodMap, PodsOf
  <2>3. QED BY <2>1, <2>2
<1>7. ASSUME NEW b \in Blocks, NEW s \in Shards, NEW k \in PodsOf(FunctionName(b, s))'
      PROVE  \/ pods'[FunctionName(b, s)][k] = NewPod
             \/ \E j \in PodsOf(FunctionName(b, s)) :
                  ClusterStep(b, pods'[FunctionName(b, s)][k], pods[FunctionName(b, s)][j])
  <2> DEFINE m == FunctionName(b, s)
  <2>1. m \in Names
    BY FunctionsApart
  <2>2. pods'[m][k] = NewPod \/ (k \in PodsOf(m) /\ pods'[m][k] = pods[m][k])
    BY <1>6, <2>1
  <2>3. ASSUME k \in PodsOf(m) PROVE ClusterStep(b, pods[m][k], pods[m][k])
    <3>1. pods[m][k] \in Pods
      BY <1>1, <2>1, <2>3, PodsTyped
    <3>2. QED BY <3>1 DEF ClusterStep, Pods
  <2>4. QED BY <2>2, <2>3
<1>8. QED BY <1>5, <1>7 DEF Descends

LEMMA ExitStep ==
  ASSUME TypeOK, NEW n \in Names, NEW i \in PodsOf(n), Exit(n, i)
  PROVE  pods' \in PodMap /\ Descends
<1>1. pods \in PodMap
  BY DEF TypeOK, PodMap
<1> DEFINE left == SubSeq(pods[n], 1, i - 1) \o SubSeq(pods[n], i + 1, Len(pods[n]))
<1>2. pods' = [pods EXCEPT ![n] = left]
  BY DEF Exit
<1>3. pods[n] \in Seq(Pods) /\ i \in 1..Len(pods[n])
  BY <1>1, PodsTyped DEF PodsOf
<1>4. left \in Seq(Pods) /\ \A k \in 1..Len(left) : \E j \in PodsOf(n) : left[k] = pods[n][j]
  BY <1>3, Removed DEF PodsOf
<1> HIDE DEF left
<1>5. pods' \in PodMap
  BY <1>1, <1>2, <1>4 DEF PodMap
<1>6. ASSUME NEW m \in Names, NEW k \in PodsOf(m)'
      PROVE  \E j \in PodsOf(m) : pods'[m][k] = pods[m][j]
  <2>1. CASE m = n
    BY <1>1, <1>2, <1>4, <2>1 DEF PodMap, PodsOf
  <2>2. CASE m # n
    BY <1>1, <1>2, <2>2 DEF PodMap, PodsOf
  <2>3. QED BY <2>1, <2>2
<1>7. ASSUME NEW b \in Blocks, NEW m \in Names, NEW j \in PodsOf(m)
      PROVE  ClusterStep(b, pods[m][j], pods[m][j])
  <2>1. pods[m][j] \in Pods
    BY <1>1, PodsTyped
  <2>2. QED BY <2>1 DEF ClusterStep, Pods
<1>8. Descends
  BY <1>6, <1>7, FunctionsApart DEF Descends
<1>9. QED BY <1>5, <1>8

\* A pod becomes another as a step of the cluster has it.
LEMMA ReplaceStep ==
  ASSUME TypeOK, NEW n \in Names, NEW i \in PodsOf(n), NEW p \in Pods, Replace(n, i, p),
         \A b \in Blocks, s \in Shards : n = FunctionName(b, s) => ClusterStep(b, p, pods[n][i])
  PROVE  pods' \in PodMap /\ Descends
<1>1. pods \in PodMap
  BY DEF TypeOK, PodMap
<1>2. /\ pods' \in PodMap
      /\ \A m \in Names : PodsOf(m)' = PodsOf(m)
      /\ \A m \in Names : \A k \in PodsOf(m) :
           pods'[m][k] = IF m = n /\ k = i THEN p ELSE pods[m][k]
  BY <1>1, ReplaceTyped
<1>3. ASSUME NEW b \in Blocks, NEW m \in Names, NEW j \in PodsOf(m)
      PROVE  ClusterStep(b, pods[m][j], pods[m][j])
  <2>1. pods[m][j] \in Pods
    BY <1>1, PodsTyped
  <2>2. QED BY <2>1 DEF ClusterStep, Pods
<1>4. ASSUME NEW b \in Blocks, NEW s \in Shards, NEW k \in PodsOf(FunctionName(b, s))'
      PROVE  ClusterStep(b, pods'[FunctionName(b, s)][k], pods[FunctionName(b, s)][k])
  BY <1>2, <1>3, FunctionsApart
<1>5. Descends
  BY <1>2, <1>4, FunctionsApart DEF Descends
<1>6. QED BY <1>2, <1>5

LEMMA ReadyStep ==
  ASSUME TypeOK, NEW n \in Names, NEW i \in PodsOf(n), BecomeReady(n, i)
  PROVE  pods' \in PodMap /\ Descends
<1>1. PICK b \in Blocks : Start(b, n, i)
  BY DEF BecomeReady
<1> DEFINE found == IF Block(b).treatment = "saved" THEN store[Block(b).benchmark] ELSE {}
           p == [pods[n][i] EXCEPT !.state = "ready", !.artifact = found]
<1>2. n \in Selected(b) /\ Replace(n, i, p) /\ (Block(b).treatment = "saved" => found # {})
  BY <1>1 DEF Start
<1>3. pods[n][i] \in Pods
  BY PodsTyped DEF TypeOK, PodMap
<1>4. found \in {{}} \union {{a} : a \in Ages}
  BY BlockFields DEF TypeOK
<1>5. p \in Pods
  BY <1>3, <1>4 DEF Pods, States
<1>6. ASSUME NEW c \in Blocks, NEW s \in Shards, n = FunctionName(c, s)
      PROVE  ClusterStep(c, p, pods[n][i])
  <2>1. c = b
    BY <1>2, <1>6, FunctionsApart
  <2>2. Block(b).treatment \in {"baseline", "saved"}
    BY BlockFields
  <2>3. p.awaited = pods[n][i].awaited /\ p.runs = pods[n][i].runs /\ p.artifact = found
    BY <1>3 DEF Pods
  <2>4. p.runs <= pods[n][i].runs
    BY <1>3, <2>3 DEF Pods
  <2>5. QED BY <1>2, <2>1, <2>2, <2>3, <2>4 DEF ClusterStep
<1> HIDE DEF p
<1>7. QED BY <1>2, <1>5, <1>6, ReplaceStep

LEMMA CrashStep ==
  ASSUME TypeOK, NEW n \in Names, NEW i \in PodsOf(n), Crash(n, i) \/ Evict(n, i)
  PROVE  pods' \in PodMap /\ Descends
<1>1. pods[n][i] \in Pods
  BY PodsTyped DEF TypeOK, PodMap
<1>2. CASE Crash(n, i)
  <2> DEFINE p == [pods[n][i] EXCEPT !.state = "starting", !.runs = 0]
  <2>1. Replace(n, i, p) /\ p \in Pods
    BY <1>1, <1>2 DEF Crash, Pods, States
  <2>2. \A b \in Blocks : ClusterStep(b, p, pods[n][i])
    BY <1>1 DEF ClusterStep, Pods, Serving
  <2> HIDE DEF p
  <2>3. QED BY <2>1, <2>2, ReplaceStep
<1>3. CASE Evict(n, i)
  <2> DEFINE p == Terminated(pods[n][i], FALSE)
  <2>1. Replace(n, i, p)
    BY <1>3 DEF Evict
  <2>2. /\ p \in Pods /\ p.awaited = (pods[n][i].awaited \/ FALSE)
        /\ p.runs = pods[n][i].runs /\ p.artifact = pods[n][i].artifact
        /\ p.state \in Serving => pods[n][i].state \in Serving
    BY <1>1, TerminatedTyped DEF Serving
  <2>3. pods[n][i].awaited \in BOOLEAN /\ pods[n][i].runs \in Nat
    BY <1>1 DEF Pods
  <2> HIDE DEF p
  <2>4. \A b \in Blocks : ClusterStep(b, p, pods[n][i])
    BY <2>2, <2>3 DEF ClusterStep
  <2>5. QED BY <2>1, <2>2, <2>4, ReplaceStep
<1>4. QED BY <1>2, <1>3

LEMMA SamePods ==
  ASSUME TypeOK, pods' = pods
  PROVE  pods' \in PodMap /\ Descends
<1>1. pods \in PodMap
  BY DEF TypeOK, PodMap
<1>2. ASSUME NEW b \in Blocks, NEW m \in Names, NEW j \in PodsOf(m)
      PROVE  ClusterStep(b, pods[m][j], pods[m][j])
  <2>1. pods[m][j] \in Pods
    BY <1>1, PodsTyped
  <2>2. QED BY <2>1 DEF ClusterStep, Pods
<1>3. \A m \in Names : PodsOf(m)' = PodsOf(m)
  BY DEF PodsOf
<1>4. Descends
  BY <1>2, <1>3, FunctionsApart DEF Descends
<1>5. QED BY <1>1, <1>4

LEMMA EnvironmentStep ==
  ASSUME TypeOK, Environment
  PROVE  /\ pods' \in PodMap /\ Descends
         /\ UNCHANGED <<pc, setup, loop, todo, file, failed>>
         /\ store' \in [BenchmarkSet -> {{}} \union {{a} : a \in Ages}]
         /\ late' \subseteq BenchmarkSet /\ faults' \in Nat
         /\ OwnArtifacts' => OwnArtifacts
<1>1. CASE RedisRestart
  <2>1. store' # [b \in BenchmarkSet |-> {"new"}]
    BY <1>1, FirstBlock DEF RedisRestart
  <2>2. QED BY <1>1, <2>1, SamePods DEF RedisRestart, Fault, TypeOK, OwnArtifacts
<1>2. ASSUME NEW b \in late, LatePopulate(b)
      PROVE  /\ pods' = pods /\ UNCHANGED <<pc, setup, loop, todo, file, failed, faults>>
             /\ store' \in [BenchmarkSet -> {{}} \union {{a} : a \in Ages}]
             /\ late' \subseteq BenchmarkSet /\ ~OwnArtifacts'
  <2>1. b \in BenchmarkSet /\ store \in [BenchmarkSet -> {{}} \union {{a} : a \in Ages}]
    BY DEF TypeOK
  <2>2. store' = [store EXCEPT ![b] = {"old"}] /\ "old" \in Ages
    BY <1>2 DEF LatePopulate, Ages
  <2>3. store' \in [BenchmarkSet -> {{}} \union {{a} : a \in Ages}] /\ store'[b] = {"old"}
    BY <2>1, <2>2
  <2>4. {"old"} # {"new"}
    OBVIOUS
  <2>5. ~OwnArtifacts'
    BY <2>1, <2>3, <2>4 DEF OwnArtifacts
  <2>6. QED BY <1>2, <2>3, <2>5 DEF LatePopulate, TypeOK
<1>3. ASSUME NEW n \in Names, CreatePod(n)
      PROVE  UNCHANGED <<pc, setup, store, late, loop, todo, file, failed, faults>>
  BY <1>3 DEF CreatePod
<1>4. ASSUME NEW n \in Names, NEW i \in PodsOf(n),
             BecomeReady(n, i) \/ Exit(n, i) \/ Crash(n, i) \/ Evict(n, i)
      PROVE  UNCHANGED <<pc, setup, store, late, loop, todo, file, failed>> /\ faults' \in Nat
  <2>1. Fault => faults' \in Nat
    BY DEF Fault, TypeOK
  <2>2. CASE BecomeReady(n, i) \/ Exit(n, i)
    BY <2>2 DEF BecomeReady, Exit, TypeOK
  <2>3. CASE Crash(n, i) \/ Evict(n, i)
    BY <2>1, <2>3 DEF Crash, Evict
  <2>4. QED BY <1>4, <2>2, <2>3
<1>5. ASSUME UNCHANGED <<pc, setup, store, late, loop, todo, file, failed>>, faults' \in Nat,
             pods' \in PodMap, Descends
      PROVE  /\ UNCHANGED <<pc, setup, loop, todo, file, failed>>
             /\ store' \in [BenchmarkSet -> {{}} \union {{a} : a \in Ages}]
             /\ late' \subseteq BenchmarkSet
             /\ OwnArtifacts' => OwnArtifacts
  BY <1>5 DEF TypeOK, OwnArtifacts, setup
<1>6. CASE \E b \in late : LatePopulate(b)
  BY <1>2, <1>6, SamePods DEF TypeOK
<1>7. CASE \E n \in Names : CreatePod(n)
  BY <1>3, <1>5, <1>7, CreatePodStep DEF TypeOK
<1>8. CASE \E n \in Names : \E i \in PodsOf(n) :
             BecomeReady(n, i) \/ Exit(n, i) \/ Crash(n, i) \/ Evict(n, i)
  BY <1>4, <1>5, <1>8, ReadyStep, ExitStep, CrashStep
<1>9. QED BY <1>1, <1>6, <1>7, <1>8 DEF Environment

-----------------------------------------------------------------------------
(* Type correctness.                                                         *)

LEMMA RowTyped ==
  ASSUME TypeOK, NEW s \in Shards, NEW answered \in BOOLEAN, NEW run \in Nat,
         NEW artifact \in {{}} \union {{a} : a \in Ages}
  PROVE  Row(s, answered, run, artifact) \in Rows
<1>1. position \in Nat /\ wave \in Nat
  BY ScaleAssumption DEF TypeOK
<1>2. block \in Blocks
  BY DEF TypeOK
<1>3. QED BY <1>1, <1>2 DEF Row, Rows

LEMMA RecordTyped ==
  ASSUME TypeOK, NEW s \in Shards, NEW row \in Rows, Record(s, row),
         pods' \in PodMap, faults' \in Nat
  PROVE  TypeOK'
BY DEF TypeOK, Record, PodMap, setup, loop

\* The run of a request, and the row of its answer.
LEMMA InvokeTyped ==
  ASSUME TypeOK, NEW s \in Shards, NEW i \in PodsOf(FunctionName(block, s)),
         Replace(FunctionName(block, s), i,
                 [pods[FunctionName(block, s)][i] EXCEPT !.runs = @ + 1])
  PROVE  LET n == FunctionName(block, s)
             p == pods[n][i]
         IN /\ pods' \in PodMap /\ p \in Pods
            /\ Row(s, TRUE, p.runs + 1, p.artifact) \in Rows
            /\ Row(s, FALSE, 0, {}) \in Rows
            /\ \A m \in Names : PodsOf(m)' = PodsOf(m)
            /\ \A m \in Names : \A k \in PodsOf(m) :
                 pods'[m][k] = IF m = n /\ k = i THEN [p EXCEPT !.runs = @ + 1] ELSE pods[m][k]
<1> DEFINE n == FunctionName(block, s)
           p == pods[n][i]
<1>1. n \in Names /\ pods \in PodMap /\ block \in Blocks
  BY FunctionsApart DEF TypeOK, PodMap
<1>2. p \in Pods
  BY <1>1, PodsTyped
<1>3. [p EXCEPT !.runs = @ + 1] \in Pods /\ p.runs + 1 \in Nat
      /\ p.artifact \in {{}} \union {{a} : a \in Ages}
  BY <1>2 DEF Pods
<1>4. /\ pods' \in PodMap
      /\ \A m \in Names : PodsOf(m)' = PodsOf(m)
      /\ \A m \in Names : \A k \in PodsOf(m) :
           pods'[m][k] = IF m = n /\ k = i THEN [p EXCEPT !.runs = @ + 1] ELSE pods[m][k]
  BY <1>1, <1>3, ReplaceTyped
<1>5. Row(s, TRUE, p.runs + 1, p.artifact) \in Rows /\ Row(s, FALSE, 0, {}) \in Rows
  BY <1>3, RowTyped
<1>6. QED BY <1>2, <1>4, <1>5

LEMMA FaultTyped == ASSUME TypeOK, Fault PROVE faults' \in Nat
BY DEF TypeOK, Fault

LEMMA InvokeType ==
  ASSUME TypeOK, NEW s \in Shards, Invoke(s) \/ InvokeNothing(s)
  PROVE  TypeOK'
<1>1. CASE Invoke(s)
  <2>1. PICK i \in PodsOf(FunctionName(block, s)) :
          LET n == FunctionName(block, s)
          IN /\ Replace(n, i, [pods[n][i] EXCEPT !.runs = @ + 1])
             /\ \/ Record(s, Row(s, TRUE, pods[n][i].runs + 1, pods[n][i].artifact))
                   /\ UNCHANGED faults
                \/ Fault /\ Record(s, Row(s, FALSE, 0, {}))
    BY <1>1 DEF Invoke
  <2>2. faults' \in Nat
    BY <2>1, FaultTyped DEF TypeOK
  <2>3. QED BY <2>1, <2>2, InvokeTyped, RecordTyped
<1>2. CASE InvokeNothing(s)
  <2>1. Row(s, FALSE, 0, {}) \in Rows
    BY RowTyped
  <2>2. pods' \in PodMap /\ faults' \in Nat
    BY <1>2 DEF InvokeNothing, TypeOK, PodMap
  <2>3. QED BY <1>2, <2>1, <2>2, RecordTyped DEF InvokeNothing
<1>3. QED BY <1>1, <1>2

LEMMA AdvanceType ==
  ASSUME TypeOK, Advance
  PROVE  /\ block' \in Blocks /\ wave' \in 1..Waves /\ position' \in 1..Positions
         /\ todo' \subseteq Shards /\ pc' \in {"send", "restart", "done"}
<1>1. /\ block \in Blocks /\ wave \in 1..Waves /\ position \in 1..Positions
      /\ Waves \in Nat \ {0} /\ Positions \in Nat \ {0}
  BY ScaleAssumption DEF TypeOK
<1>2. CASE position < Positions /\ position' = position + 1
  BY <1>1, <1>2 DEF Advance, loop
<1>3. CASE position = Positions
  BY <1>1, <1>3 DEF Advance, loop
<1>4. QED BY <1>1, <1>2, <1>3 DEF Advance

LEMMA SelectedPods ==
  ASSUME TypeOK, NEW some \in SUBSET Names, NEW awaited \in BOOLEAN,
         pods' = [n \in Names |-> IF n \in some
                    THEN [i \in PodsOf(n) |-> Terminated(pods[n][i], awaited)] ELSE pods[n]]
  PROVE  pods' \in [Names -> Seq(Pods)]
<1>1. pods \in PodMap
  BY DEF TypeOK, PodMap
<1>2. QED BY <1>1, TerminateTyped DEF PodMap

LEMMA DeleteType ==
  ASSUME TypeOK, DeletePods \/ DeleteFails
  PROVE  TypeOK'
<1>1. Selected(block) \subseteq Names
  BY FunctionsApart DEF TypeOK
<1>2. CASE DeletePods
  <2>1. pods' \in [Names -> Seq(Pods)]
    BY <1>1, <1>2, SelectedPods DEF DeletePods
  <2>2. QED BY <1>2, <2>1 DEF DeletePods, TypeOK, setup, loop, file
<1>3. CASE DeleteFails
  <2>1. PICK some \in SUBSET Selected(block) :
          pods' = [n \in Names |-> IF n \in some
                     THEN [i \in PodsOf(n) |-> Terminated(pods[n][i], TRUE)] ELSE pods[n]]
    BY <1>3 DEF DeleteFails
  <2>2. pods' \in [Names -> Seq(Pods)]
    BY <1>1, <2>1, SelectedPods
  <2>3. faults' \in Nat
    BY <1>3, FaultTyped DEF DeleteFails
  <2>4. QED BY <1>3, <2>2, <2>3 DEF DeleteFails, TypeOK, setup, loop, file
<1>4. QED BY <1>2, <1>3

LEMMA CleanupType ==
  ASSUME TypeOK, Cleanup
  PROVE  TypeOK'
<1>1. pods' = [n \in Names |-> IF n \in Names
                 THEN [i \in PodsOf(n) |-> Terminated(pods[n][i], FALSE)] ELSE pods[n]]
  BY DEF Cleanup
<1>2. pods' \in [Names -> Seq(Pods)]
  BY <1>1, SelectedPods
<1>3. QED BY <1>2 DEF Cleanup, TypeOK, loop, file

LEMMA PopulateType ==
  ASSUME TypeOK, Populate
  PROVE  TypeOK'
<1>1. PICK i \in 1..Len(Benchmarks) :
        /\ store' = [store EXCEPT ![Benchmarks[i]] = {"new"}]
        /\ populating' = {Benchmarks[j] : j \in i + 1..Len(Benchmarks)}
  BY DEF Populate
<1>2. Len(Benchmarks) \in Nat
  BY ScaleAssumption
<1>3. populating' \subseteq BenchmarkSet
  BY <1>1, <1>2 DEF BenchmarkSet
<1>4. {"new"} \in {{}} \union {{a} : a \in Ages}
  BY DEF Ages
<1>5. store' \in [BenchmarkSet -> {{}} \union {{a} : a \in Ages}]
  BY <1>1, <1>4 DEF TypeOK
<1>6. pc' \in {"deploy", "populate"}
  BY DEF Populate
<1>7. QED BY <1>3, <1>5, <1>6 DEF Populate, TypeOK, loop, file

\* The other steps of the runner leave the pods alone.
Step ==
  \/ SkipDeploy \/ Apply \/ MatrixReady \/ DeleteReturns \/ DeleteLost \/ AwaitReady
  \/ EndPosition \/ Raise \/ Malformed \/ Kill

LEMMA StepType ==
  ASSUME TypeOK, Step
  PROVE  TypeOK'
<1>1. CASE SkipDeploy \/ Apply \/ MatrixReady \/ DeleteReturns \/ Raise
  BY <1>1 DEF SkipDeploy, Apply, MatrixReady, DeleteReturns, Raise, TypeOK, setup, cluster, loop, file
<1>2. CASE AwaitReady
  BY <1>2, ScaleAssumption DEF AwaitReady, TypeOK, setup, cluster, file
<1>3. CASE DeleteLost \/ Malformed
  <2>1. faults' \in Nat
    BY <1>3, FaultTyped DEF DeleteLost, Malformed
  <2>2. QED BY <1>3, <2>1 DEF DeleteLost, Malformed, TypeOK, setup, cluster, loop, file
<1>4. CASE Kill
  <2>1. faults' \in Nat
    BY <1>4, FaultTyped DEF Kill
  <2>2. rows' \subseteq rows /\ unflushed' = {}
    BY <1>4 DEF Kill
  <2>3. QED BY <1>4, <2>1, <2>2 DEF Kill, TypeOK, setup, cluster, loop
<1>5. CASE EndPosition
  BY <1>5, AdvanceType DEF EndPosition, TypeOK, setup, cluster
<1>6. QED BY <1>1, <1>2, <1>3, <1>4, <1>5 DEF Step

LEMMA InitType == Init => TypeOK
<1> SUFFICES ASSUME Init PROVE TypeOK
  OBVIOUS
<1>1. PICK old, left, skipPopulate \in BOOLEAN :
        /\ store = [b \in BenchmarkSet |-> IF old THEN {"old"} ELSE {}]
        /\ late \in IF old THEN {{}, {Benchmarks[1]}} ELSE {{}}
        /\ deployed = left
        /\ pods = [n \in Names |-> IF left THEN << OldPod(CHOOSE b \in Blocks : n \in Selected(b)) >>
                                          ELSE <<>>]
        /\ ownStore = ~skipPopulate
        /\ pc = IF skipPopulate THEN "deploy" ELSE "populate"
  BY DEF Init
<1>2. {"old"} \in {{}} \union {{a} : a \in Ages}
  BY DEF Ages
<1>3. store \in [BenchmarkSet -> {{}} \union {{a} : a \in Ages}]
  BY <1>1, <1>2
<1>4. Len(Benchmarks) \in Nat \ {0}
  BY ScaleAssumption, EmptySeq
<1>5. late \subseteq BenchmarkSet
  BY <1>1, <1>4 DEF BenchmarkSet
<1>6. \A b : OldPod(b) \in Pods
  BY DEF OldPod, Pods, States, Ages
<1>7. pods \in [Names -> Seq(Pods)]
  BY <1>1, <1>6
<1>8. 1 \in Blocks /\ 1 \in 1..Waves /\ 1 \in 1..Positions
  BY FirstBlock, ScaleAssumption
<1>9. pc \in {"populate", "deploy"} /\ ownStore \in BOOLEAN /\ deployed \in BOOLEAN
  BY <1>1
<1>10. QED BY <1>3, <1>5, <1>7, <1>8, <1>9 DEF Init, TypeOK

LEMMA NextCases ==
  ASSUME [Next]_vars
  PROVE  \/ Environment \/ Populate \/ DeletePods \/ DeleteFails \/ Cleanup \/ Step
         \/ \E s \in Shards : Invoke(s) \/ InvokeNothing(s)
         \/ UNCHANGED vars
BY DEF Next, Runner, Step, Finished

LEMMA NextType ==
  ASSUME TypeOK, [Next]_vars
  PROVE  TypeOK'
<1>1. CASE Environment
  BY <1>1, EnvironmentStep DEF TypeOK, PodMap, setup, loop, file
<1>2. CASE UNCHANGED vars
  BY <1>2 DEF vars, setup, cluster, loop, file, TypeOK
<1>3. QED BY <1>1, <1>2, NextCases, PopulateType, DeleteType, CleanupType, StepType, InvokeType

\* Every reachable state is well typed (the variables of large_scale_runner.py
\* and of the cluster).
THEOREM TypeCorrect == Spec => []TypeOK
<1>1. QED BY InitType, NextType, PTL DEF Spec

-----------------------------------------------------------------------------
(* Pods and answers.                                                         *)

LEMMA BegunTyped == ASSUME TypeOK, NEW s \in Shards PROVE Begun(s) \in Nat
BY ScaleAssumption DEF TypeOK, Begun

\* Rows that stay, or a part of them, are as honest as before.
LEMMA HonestRowsStay ==
  ASSUME \A r \in Answered : HonestRow(r), rows' \subseteq rows, failed => failed',
         OwnArtifacts' => OwnArtifacts
  PROVE  \A r \in Answered' : HonestRow(r)'
BY DEF Answered, HonestRow

\* A step of the cluster.
LEMMA EnvironmentHonest ==
  ASSUME TypeOK, HonestInv, Environment
  PROVE  HonestInv'
<1>1. /\ Descends /\ UNCHANGED <<pc, block, position, todo, rows, failed>>
      /\ OwnArtifacts' => OwnArtifacts
  BY EnvironmentStep DEF loop, file
<1>2. PodsFitTreatment'
  <2> SUFFICES ASSUME NEW b \in Blocks, NEW s \in Shards, NEW k \in PodsOf(FunctionName(b, s))'
               PROVE  ArtifactOfPod(b, pods'[FunctionName(b, s)][k])
    BY DEF PodsFitTreatment
  <2> DEFINE q == pods'[FunctionName(b, s)][k]
  <2>1. CASE q = NewPod
    BY <2>1 DEF ArtifactOfPod, NewPod
  <2>2. ASSUME NEW j \in PodsOf(FunctionName(b, s)),
               ClusterStep(b, q, pods[FunctionName(b, s)][j])
        PROVE  ArtifactOfPod(b, q)
    <3>1. ArtifactOfPod(b, pods[FunctionName(b, s)][j])
      BY DEF HonestInv, PodInv, PodsFitTreatment
    <3>2. QED BY <2>2, <3>1 DEF ClusterStep, ArtifactOfPod, Serving
  <2>3. QED BY <1>1, <2>1, <2>2 DEF Descends
<1>3. PodsAreFresh'
  <2> SUFFICES ASSUME ~failed, NEW s \in Shards, NEW k \in PodsOf(FunctionName(block, s))',
                      NEW q, q = pods'[FunctionName(block, s)][k]
               PROVE  FreshPod(s, q)'
    BY <1>1 DEF PodsAreFresh
  <2>1. Begun(s)' = Begun(s) /\ Begun(s) \in Nat /\ block \in Blocks
    BY <1>1, BegunTyped DEF Begun, TypeOK
  <2>2. CASE q = NewPod
    BY <2>1, <2>2 DEF FreshPod, NewPod
  <2>3. ASSUME NEW j \in PodsOf(FunctionName(block, s)),
               ClusterStep(block, q, pods[FunctionName(block, s)][j])
        PROVE  FreshPod(s, q)'
    <3> DEFINE p == pods[FunctionName(block, s)][j]
    <3>1. FreshPod(s, p)
      BY DEF HonestInv, PodInv, PodsAreFresh
    <3>2. p \in Pods /\ q \in Pods
      <4>1. FunctionName(block, s) \in Names /\ pods \in PodMap /\ pods' \in PodMap
        <5>1. pods \in PodMap
          BY DEF TypeOK, PodMap
        <5>2. QED BY <2>1, <5>1, FunctionsApart, EnvironmentStep
      <4>2. pods'[FunctionName(block, s)] \in Seq(Pods)
        BY <4>1 DEF PodMap
      <4>3. q \in Pods
        <5>1. k \in 1..Len(pods'[FunctionName(block, s)])
          BY <1>1 DEF PodsOf
        <5>2. QED BY <4>2, <5>1, ElementOfSeq
      <4>4. QED BY <4>1, <4>3, PodsTyped
    <3>3. q.awaited = p.awaited /\ q.runs <= p.runs
      BY <2>3 DEF ClusterStep
    <3>4. ASSUME OwnArtifacts, "old" \notin p.artifact PROVE "old" \notin q.artifact
      <4>1. Block(block).benchmark \in BenchmarkSet /\ Block(block).treatment \in {"baseline", "saved"}
        BY <2>1, BlockFields
      <4>2. store[Block(block).benchmark] = {"new"}
        BY <3>4, <4>1 DEF OwnArtifacts
      <4>3. QED BY <2>3, <3>4, <4>1, <4>2 DEF ClusterStep
    <3>5. q.runs <= Begun(s)' \/ ~(p.runs <= Begun(s))
      BY <2>1, <3>2, <3>3 DEF Pods
    <3>6. QED BY <1>1, <3>1, <3>3, <3>4, <3>5 DEF FreshPod
  <2>4. QED BY <1>1, <2>1, <2>2, <2>3 DEF Descends
<1>4. QED BY <1>1, <1>2, <1>3, HonestRowsStay DEF HonestInv, PodInv, NoRowsYet

\* A step that leaves the pods alone: the selected ones stay fresh when they
\* may have begun no less, or when nobody relies on them.
LEMMA QuietHonest ==
  ASSUME TypeOK, HonestInv, pods' = pods, rows' \subseteq rows, failed => failed',
         OwnArtifacts' => OwnArtifacts,
         \/ failed' \/ pc' \notin {"deleting", "wait", "send"}
         \/ /\ block' = block /\ pc \in {"deleting", "wait", "send"} /\ pc' # "deleting"
            /\ pc = "deleting" => \A n \in Names : \A i \in PodsOf(n) : ~pods[n][i].awaited
            /\ \A s \in Shards : Begun(s) <= Begun(s)' /\ Begun(s)' \in Nat,
         pc' \in {"populate", "deploy", "ready"} => pc \in {"populate", "deploy", "ready"}
  PROVE  HonestInv'
<1>1. PodsFitTreatment'
  BY DEF HonestInv, PodInv, PodsFitTreatment, PodsOf
<1>2. PodsAreFresh'
  <2>1. CASE failed'
    BY <2>1 DEF PodsAreFresh
  <2>2. CASE pc' \notin {"deleting", "wait", "send"}
    BY <2>2 DEF PodsAreFresh, FreshPod
  <2>3. CASE /\ ~failed' /\ block' = block /\ pc \in {"deleting", "wait", "send"} /\ pc' # "deleting"
             /\ pc = "deleting" => \A n \in Names : \A i \in PodsOf(n) : ~pods[n][i].awaited
             /\ \A s \in Shards : Begun(s) <= Begun(s)' /\ Begun(s)' \in Nat
    <3> SUFFICES ASSUME NEW s \in Shards, NEW k \in PodsOf(FunctionName(block, s)),
                        NEW q, q = pods[FunctionName(block, s)][k]
                 PROVE  FreshPod(s, q)'
      BY <2>3 DEF PodsAreFresh, PodsOf
    <3>1. FreshPod(s, q)
      BY <2>3 DEF HonestInv, PodInv, PodsAreFresh
    <3>2. block \in Blocks /\ pods \in PodMap
      BY DEF TypeOK, PodMap
    <3>3. FunctionName(block, s) \in Names /\ q \in Pods
      BY <3>2, FunctionsApart, PodsTyped
    <3>4. q.runs <= Begun(s) /\ (OwnArtifacts => "old" \notin q.artifact)
      BY <2>3, <3>1, <3>3 DEF FreshPod
    <3>5. q.runs \in Nat /\ Begun(s) \in Nat /\ Begun(s)' \in Nat /\ Begun(s) <= Begun(s)'
      BY <2>3, <3>3, BegunTyped DEF Pods
    <3>6. QED BY <3>4, <3>5 DEF FreshPod
  <2>4. QED BY <2>1, <2>2, <2>3
<1>3. NoRowsYet'
  BY DEF HonestInv, PodInv, NoRowsYet
<1>4. QED BY <1>1, <1>2, <1>3, HonestRowsStay DEF HonestInv, PodInv

\* The other steps that leave the pods alone.
LEMMA StepHonest ==
  ASSUME TypeOK, HonestInv, Step
  PROVE  HonestInv'
<1>1. CASE SkipDeploy \/ Apply \/ MatrixReady \/ Raise
  BY <1>1, QuietHonest DEF SkipDeploy, Apply, MatrixReady, Raise, OwnArtifacts, setup, cluster, loop, file
<1>2. CASE DeleteReturns
  <2>1. \A s \in Shards : Begun(s) = 0 /\ Begun(s)' = 0
    BY <1>2 DEF DeleteReturns, Begun
  <2>2. QED BY <1>2, <2>1, QuietHonest DEF DeleteReturns, OwnArtifacts, setup, cluster, loop, file
<1>3. CASE DeleteLost \/ Malformed
  BY <1>3, QuietHonest DEF DeleteLost, Malformed, OwnArtifacts, setup, cluster, loop, file
<1>4. CASE AwaitReady
  <2>1. \A s \in Shards : Begun(s) = 0 /\ Begun(s)' = 0
    BY <1>4 DEF AwaitReady, Begun
  <2>2. QED BY <1>4, <2>1, QuietHonest DEF AwaitReady, OwnArtifacts, setup, cluster, file
<1>5. CASE Kill
  <2>1. rows' \subseteq rows /\ pc' = "killed" /\ UNCHANGED <<setup, cluster, failed>>
    BY <1>5 DEF Kill
  <2>2. QED BY <2>1, QuietHonest DEF OwnArtifacts, setup, cluster
<1>6. CASE EndPosition
  <2>1. /\ Advance /\ pc = "send" /\ todo = {} /\ UNCHANGED <<setup, cluster, rows, failed>>
        /\ TypeOK'
    BY <1>6, StepType DEF EndPosition, Step
  <2>2. ASSUME pc' = "send"
        PROVE  block' = block /\ \A s \in Shards : Begun(s) <= Begun(s)' /\ Begun(s)' \in Nat
    <3>1. position' = position + 1 /\ todo' = Shards /\ block' = block
      BY <2>1, <2>2 DEF Advance
    <3>2. position \in Nat
      BY ScaleAssumption DEF TypeOK
    <3>3. \A s \in Shards : Begun(s) = position /\ Begun(s)' = position
      BY <2>1, <2>2, <3>1, <3>2 DEF Begun
    <3>4. QED BY <3>1, <3>2, <3>3
  <2>3. pc' \in {"send", "restart", "done"}
    BY <2>1, AdvanceType
  <2>4. QED BY <2>1, <2>2, <2>3, QuietHonest DEF OwnArtifacts, setup, cluster
<1>7. QED BY <1>1, <1>2, <1>3, <1>4, <1>5, <1>6 DEF Step

\* Terminated pods fit their treatment.
LEMMA TerminatedFit ==
  ASSUME TypeOK, PodsFitTreatment, NEW some \in SUBSET Names, NEW awaited \in BOOLEAN,
         pods' = [n \in Names |-> IF n \in some
                    THEN [i \in PodsOf(n) |-> Terminated(pods[n][i], awaited)] ELSE pods[n]]
  PROVE  PodsFitTreatment'
<1>1. pods \in PodMap
  BY DEF TypeOK, PodMap
<1>2. /\ \A m \in Names : PodsOf(m)' = PodsOf(m)
      /\ \A m \in Names : \A k \in PodsOf(m) :
           pods'[m][k] = IF m \in some THEN Terminated(pods[m][k], awaited) ELSE pods[m][k]
  BY <1>1, TerminateTyped
<1> SUFFICES ASSUME NEW b \in Blocks, NEW s \in Shards, NEW k \in PodsOf(FunctionName(b, s))'
             PROVE  ArtifactOfPod(b, pods'[FunctionName(b, s)][k])
  BY DEF PodsFitTreatment
<1> DEFINE p == pods[FunctionName(b, s)][k]
<1>3. FunctionName(b, s) \in Names
  BY FunctionsApart
<1>4. k \in PodsOf(FunctionName(b, s))
  BY <1>2, <1>3
<1>5. p \in Pods
  BY <1>1, <1>3, <1>4, PodsTyped
<1>6. ArtifactOfPod(b, p)
  BY <1>4 DEF PodsFitTreatment
<1>7. ArtifactOfPod(b, Terminated(p, awaited))
  BY <1>5, <1>6, TerminatedTyped DEF ArtifactOfPod
<1>8. QED BY <1>2, <1>3, <1>4, <1>6, <1>7

\* The restart of a wave awaits every pod of its functions.
LEMMA DeleteHonest ==
  ASSUME TypeOK, HonestInv, DeletePods \/ DeleteFails
  PROVE  HonestInv'
<1>1. /\ PodsFitTreatment /\ \A r \in Answered : HonestRow(r)
      /\ block \in Blocks /\ Selected(block) \in SUBSET Names /\ pods \in PodMap
  BY FunctionsApart DEF HonestInv, PodInv, TypeOK, PodMap
<1>2. /\ UNCHANGED <<setup, store, late, loop, todo, file>> /\ pc = "restart"
      /\ pc' \in {"deleting", "wait"} /\ (failed => failed')
  <2>1. CASE DeletePods
    BY <2>1 DEF DeletePods
  <2>2. CASE DeleteFails
    BY <2>2 DEF DeleteFails
  <2>3. QED BY <2>1, <2>2
<1>3. NoRowsYet' /\ \A r \in Answered' : HonestRow(r)'
  <2>1. OwnArtifacts' => OwnArtifacts
    BY <1>2 DEF OwnArtifacts, setup
  <2>2. QED BY <1>1, <1>2, <2>1, HonestRowsStay DEF NoRowsYet, file
<1>4. CASE DeletePods
  <2>1. pods' = [n \in Names |-> IF n \in Selected(block)
                   THEN [i \in PodsOf(n) |-> Terminated(pods[n][i], TRUE)] ELSE pods[n]]
    BY <1>4 DEF DeletePods
  <2>2. PodsFitTreatment'
    BY <1>1, <2>1, TerminatedFit
  <2>3. ASSUME NEW s \in Shards, NEW k \in PodsOf(FunctionName(block, s))'
        PROVE  pods'[FunctionName(block, s)][k].awaited
    <3>1. FunctionName(block, s) \in Selected(block) /\ FunctionName(block, s) \in Names
      BY <1>1, FunctionsApart
    <3>2. k \in PodsOf(FunctionName(block, s))
      BY <1>1, <1>2, <2>1, <2>3, <3>1, TerminateTyped DEF loop
    <3>3. pods[FunctionName(block, s)][k] \in Pods
      BY <1>1, <3>1, <3>2, PodsTyped
    <3>4. pods'[FunctionName(block, s)][k] = Terminated(pods[FunctionName(block, s)][k], TRUE)
      BY <1>1, <2>1, <3>1, <3>2, TerminateTyped
    <3>5. Terminated(pods[FunctionName(block, s)][k], TRUE).awaited
            = (pods[FunctionName(block, s)][k].awaited \/ TRUE)
      BY <3>3, TerminatedTyped
    <3>6. QED BY <3>4, <3>5
  <2>4. pc' = "deleting" /\ block' = block
    BY <1>2, <1>4 DEF DeletePods, loop
  <2>5. PodsAreFresh'
    BY <2>3, <2>4 DEF PodsAreFresh, FreshPod
  <2>6. QED BY <1>3, <2>2, <2>5 DEF HonestInv, PodInv
<1>5. CASE DeleteFails
  <2>1. PICK some \in SUBSET Selected(block) :
          pods' = [n \in Names |-> IF n \in some
                     THEN [i \in PodsOf(n) |-> Terminated(pods[n][i], TRUE)] ELSE pods[n]]
    BY <1>5 DEF DeleteFails
  <2>2. PodsFitTreatment'
    BY <1>1, <2>1, TerminatedFit
  <2>3. PodsAreFresh'
    BY <1>5 DEF DeleteFails, PodsAreFresh
  <2>4. QED BY <1>3, <2>2, <2>3 DEF HonestInv, PodInv
<1>6. QED BY <1>4, <1>5

LEMMA CleanupHonest ==
  ASSUME TypeOK, HonestInv, Cleanup
  PROVE  HonestInv'
<1>1. pods' = [n \in Names |-> IF n \in Names
                 THEN [i \in PodsOf(n) |-> Terminated(pods[n][i], FALSE)] ELSE pods[n]]
  BY DEF Cleanup
<1>2. PodsFitTreatment'
  BY <1>1, TerminatedFit DEF HonestInv, PodInv
<1>3. pc' = "done" /\ UNCHANGED <<ownStore, store, late, rows, failed>>
  BY DEF Cleanup, file
<1>4. PodsAreFresh' /\ NoRowsYet'
  BY <1>3 DEF PodsAreFresh, FreshPod, NoRowsYet
<1>5. OwnArtifacts' => OwnArtifacts
  BY <1>3 DEF OwnArtifacts
<1>6. QED BY <1>2, <1>3, <1>4, <1>5, HonestRowsStay DEF HonestInv, PodInv

\* The populate loop may finish this attempt's artifacts, before there are rows.
LEMMA PopulateHonest ==
  ASSUME TypeOK, HonestInv, Populate
  PROVE  HonestInv'
<1>1. pc = "populate" /\ pc' \in {"deploy", "populate"} /\ UNCHANGED <<pods, rows, failed>>
  BY DEF Populate, file
<1>2. rows = {}
  BY <1>1 DEF HonestInv, PodInv, NoRowsYet
<1>3. PodsFitTreatment'
  BY <1>1 DEF HonestInv, PodInv, PodsFitTreatment, PodsOf
<1>4. PodsAreFresh' /\ NoRowsYet' /\ Answered' = {}
  BY <1>1, <1>2 DEF PodsAreFresh, FreshPod, NoRowsYet, Answered
<1>5. QED BY <1>3, <1>4 DEF HonestInv, PodInv

\* A request runs in a fresh pod of its treatment, which it uses up by one run.
LEMMA InvokeHonest ==
  ASSUME TypeOK, HonestInv, NEW s \in Shards, Invoke(s)
  PROVE  HonestInv'
<1> DEFINE n == FunctionName(block, s)
<1>1. pc = "send" /\ s \in todo /\ block \in Blocks /\ pods \in PodMap /\ n \in Names
      /\ position \in 1..Positions /\ Positions \in Nat
  BY FunctionsApart, ScaleAssumption DEF Invoke, TypeOK, PodMap
<1>2. PICK i \in PodsOf(n) :
        /\ pods[n][i].state \in {"ready", "draining"}
        /\ Replace(n, i, [pods[n][i] EXCEPT !.runs = @ + 1])
        /\ \/ Record(s, Row(s, TRUE, pods[n][i].runs + 1, pods[n][i].artifact)) /\ UNCHANGED faults
           \/ Fault /\ Record(s, Row(s, FALSE, 0, {}))
  BY DEF Invoke
<1> DEFINE p == pods[n][i]
           answer == Row(s, TRUE, p.runs + 1, p.artifact)
           error == Row(s, FALSE, 0, {})
<1>3. /\ p \in Pods
      /\ \A m \in Names : PodsOf(m)' = PodsOf(m)
      /\ \A m \in Names : \A k \in PodsOf(m) :
           pods'[m][k] = IF m = n /\ k = i THEN [p EXCEPT !.runs = @ + 1] ELSE pods[m][k]
  BY <1>2, InvokeTyped
<1>4. /\ UNCHANGED <<pc, ownStore, store, late, block, wave, position, failed>>
      /\ todo' = todo \ {s} /\ rows' \in {rows \union {answer}, rows \union {error}}
  BY <1>2 DEF Record, loop, setup
<1>5. OwnArtifacts' = OwnArtifacts
  BY <1>4 DEF OwnArtifacts
<1>6. ArtifactOfPod(block, p)
  BY <1>1, <1>2 DEF HonestInv, PodInv, PodsFitTreatment
<1>7. ~failed => p.runs + 1 <= position /\ (OwnArtifacts => "old" \notin p.artifact)
  <2> SUFFICES ASSUME ~failed
               PROVE  p.runs + 1 <= position /\ (OwnArtifacts => "old" \notin p.artifact)
    OBVIOUS
  <2>1. FreshPod(s, p)
    BY <1>2 DEF HonestInv, PodInv, PodsAreFresh
  <2>2. p.runs <= position - 1 /\ (OwnArtifacts => "old" \notin p.artifact)
    BY <1>1, <2>1 DEF FreshPod, Begun
  <2>3. p.runs \in Nat
    BY <1>3 DEF Pods
  <2>4. QED BY <1>1, <2>2, <2>3
<1>8. PodsFitTreatment'
  <2> SUFFICES ASSUME NEW b \in Blocks, NEW t \in Shards, NEW k \in PodsOf(FunctionName(b, t))'
               PROVE  ArtifactOfPod(b, pods'[FunctionName(b, t)][k])
    BY DEF PodsFitTreatment
  <2>1. FunctionName(b, t) \in Names
    BY FunctionsApart
  <2>2. k \in PodsOf(FunctionName(b, t)) /\ ArtifactOfPod(b, pods[FunctionName(b, t)][k])
    BY <1>3, <2>1 DEF HonestInv, PodInv, PodsFitTreatment
  <2>3. CASE FunctionName(b, t) = n /\ k = i
    <3>1. pods'[FunctionName(b, t)][k] = [p EXCEPT !.runs = @ + 1] /\ ArtifactOfPod(b, p)
      BY <1>3, <2>1, <2>2, <2>3
    <3>2. QED BY <1>3, <3>1 DEF ArtifactOfPod, Pods
  <2>4. QED BY <1>3, <2>1, <2>2, <2>3
<1>9. PodsAreFresh'
  <2> SUFFICES ASSUME ~failed, NEW t \in Shards, NEW k \in PodsOf(FunctionName(block, t))',
                      NEW q, q = pods'[FunctionName(block, t)][k]
               PROVE  FreshPod(t, q)'
    BY <1>4 DEF PodsAreFresh
  <2>1. FunctionName(block, t) \in Names /\ (FunctionName(block, t) = n => t = s)
    BY <1>1, FunctionsApart
  <2>2. k \in PodsOf(FunctionName(block, t)) /\ FreshPod(t, pods[FunctionName(block, t)][k])
    BY <1>3, <1>4, <2>1 DEF HonestInv, PodInv, PodsAreFresh
  <2>3. /\ pc' = "send" /\ Begun(t)' \in Nat /\ Begun(t) \in Nat
        /\ Begun(t)' = (IF t = s THEN position ELSE Begun(t))
    BY <1>1, <1>4, BegunTyped DEF Begun
  <2>4. CASE t = s /\ k = i
    <3>1. q.runs = p.runs + 1 /\ q.artifact = p.artifact
      BY <1>3, <2>1, <2>2, <2>4 DEF Pods
    <3>2. QED BY <1>5, <1>7, <2>3, <2>4, <3>1 DEF FreshPod
  <2>5. CASE ~(t = s /\ k = i)
    <3>1. q = pods[FunctionName(block, t)][k] /\ q \in Pods
      BY <1>1, <1>3, <2>1, <2>2, <2>5, PodsTyped
    <3>2. q.runs <= Begun(t) /\ (OwnArtifacts => "old" \notin q.artifact)
      BY <1>1, <2>2, <3>1 DEF FreshPod
    <3>3. Begun(s) <= position /\ q.runs \in Nat
      BY <1>1, <3>1 DEF Begun, Pods
    <3>4. q.runs <= Begun(t)'
      BY <1>1, <2>3, <3>2, <3>3
    <3>5. QED BY <1>5, <3>2, <3>4 DEF FreshPod
  <2>6. QED BY <2>4, <2>5
<1>10. \A r \in Answered' : HonestRow(r)'
  <2>1. ~error.answered
    BY DEF Row
  <2>2. ASSUME NEW r, r = answer PROVE HonestRow(r)'
    <3>1. r.block = block /\ r.position = position /\ r.run = p.runs + 1 /\ r.artifact = p.artifact
      BY <2>2 DEF Row
    <3>2. QED BY <1>2, <1>4, <1>5, <1>6, <1>7, <3>1 DEF HonestRow, ArtifactOfPod
  <2>3. ASSUME NEW r \in Answered' PROVE r \in Answered \/ r = answer
    BY <1>4, <2>1 DEF Answered
  <2>4. ASSUME NEW r \in Answered PROVE HonestRow(r)'
    BY <1>4, <1>5 DEF HonestInv, HonestRow
  <2>5. QED BY <2>2, <2>3, <2>4
<1>11. NoRowsYet'
  BY <1>1, <1>4 DEF NoRowsYet
<1>12. QED BY <1>8, <1>9, <1>10, <1>11 DEF HonestInv, PodInv

\* A request that reaches no pod has no answer.
LEMMA InvokeNothingHonest ==
  ASSUME TypeOK, HonestInv, NEW s \in Shards, InvokeNothing(s)
  PROVE  HonestInv'
<1> DEFINE error == Row(s, FALSE, 0, {})
<1>1. /\ pc = "send" /\ s \in todo /\ todo' = todo \ {s} /\ rows' = rows \union {error}
      /\ UNCHANGED <<pc, setup, cluster, loop, failed>>
  BY DEF InvokeNothing, Record, cluster
<1>2. ~error.answered
  BY DEF Row
<1>3. Answered' = Answered
  BY <1>1, <1>2 DEF Answered
<1>4. TypeOK'
  BY InvokeType
<1>5. ASSUME NEW t \in Shards PROVE Begun(t) <= Begun(t)' /\ Begun(t)' \in Nat
  BY <1>1, ScaleAssumption DEF Begun, TypeOK, loop
<1>6. UNCHANGED <<block, position, wave, ownStore, store, late, pods>>
  BY <1>1 DEF setup, cluster, loop
<1>7. PodsFitTreatment'
  BY <1>6 DEF HonestInv, PodInv, PodsFitTreatment, PodsOf
<1>8. PodsAreFresh'
  <2> SUFFICES ASSUME ~failed, NEW t \in Shards, NEW k \in PodsOf(FunctionName(block, t)),
                      NEW q, q = pods[FunctionName(block, t)][k]
               PROVE  FreshPod(t, q)'
    BY <1>1, <1>6 DEF PodsAreFresh, PodsOf
  <2>1. FreshPod(t, q)
    BY DEF HonestInv, PodInv, PodsAreFresh
  <2>2. FunctionName(block, t) \in Names /\ pods \in PodMap
    BY FunctionsApart DEF TypeOK, PodMap
  <2>3. q \in Pods
    BY <2>2, PodsTyped
  <2>4. q.runs \in Nat /\ Begun(t) \in Nat /\ Begun(t) <= Begun(t)' /\ Begun(t)' \in Nat
    BY <1>5, <2>3, BegunTyped DEF Pods
  <2>5. q.runs <= Begun(t) /\ (OwnArtifacts => "old" \notin q.artifact)
    BY <1>1, <2>1 DEF FreshPod
  <2>6. QED BY <1>6, <2>4, <2>5 DEF FreshPod, OwnArtifacts
<1>9. NoRowsYet'
  BY <1>1 DEF NoRowsYet
<1>10. ASSUME NEW r \in Answered' PROVE HonestRow(r)'
  BY <1>1, <1>3, <1>6 DEF HonestInv, HonestRow, OwnArtifacts
<1>11. QED BY <1>7, <1>8, <1>9, <1>10 DEF HonestInv, PodInv

\* What an earlier attempt left fits its treatment, since no function is of two.
LEMMA InitHonest == Init => HonestInv
<1> SUFFICES ASSUME Init PROVE HonestInv
  OBVIOUS
<1>1. PICK left \in BOOLEAN :
        pods = [n \in Names |-> IF left THEN << OldPod(CHOOSE b \in Blocks : n \in Selected(b)) >>
                                        ELSE <<>>]
  BY DEF Init
<1>2. pc \in {"populate", "deploy"} /\ rows = {}
  BY DEF Init
<1>3. PodsFitTreatment
  <2> SUFFICES ASSUME NEW b \in Blocks, NEW s \in Shards, NEW k \in PodsOf(FunctionName(b, s))
               PROVE  ArtifactOfPod(b, pods[FunctionName(b, s)][k])
    BY DEF PodsFitTreatment
  <2> DEFINE n == FunctionName(b, s)
  <2>1. n \in Names /\ n \in Selected(b) /\ \A c \in Blocks : n \in Selected(c) => c = b
    BY FunctionsApart
  <2>2. (CHOOSE c \in Blocks : n \in Selected(c)) = b
    BY <2>1
  <2>3. CASE ~left
    <3>1. pods[n] = <<>>
      BY <1>1, <2>1, <2>3
    <3>2. QED BY <3>1 DEF PodsOf
  <2>4. CASE left
    <3>1. pods[n] = << OldPod(b) >>
      BY <1>1, <2>1, <2>2, <2>4
    <3>2. k = 1 /\ pods[n][k] = OldPod(b)
      BY <3>1 DEF PodsOf
    <3>3. QED BY <3>2 DEF ArtifactOfPod, OldPod
  <2>5. QED BY <2>3, <2>4
<1>4. PodsAreFresh /\ NoRowsYet /\ Answered = {}
  BY <1>2 DEF PodsAreFresh, FreshPod, NoRowsYet, Answered
<1>5. QED BY <1>3, <1>4 DEF HonestInv, PodInv

LEMMA NextHonest ==
  ASSUME TypeOK, HonestInv, [Next]_vars
  PROVE  HonestInv'
<1>1. CASE UNCHANGED vars
  <2>1. UNCHANGED <<pc, ownStore, store, late, pods, block, position, todo, rows, failed>>
    BY <1>1 DEF vars, setup, cluster, loop, file
  <2>2. OwnArtifacts' = OwnArtifacts /\ Answered' = Answered
    BY <2>1 DEF OwnArtifacts, Answered
  <2>3. QED BY <2>1, <2>2
          DEF HonestInv, PodInv, PodsFitTreatment, PodsAreFresh, NoRowsYet, HonestRow, FreshPod, Begun, PodsOf
<1>2. QED BY <1>1, NextCases, EnvironmentHonest, PopulateHonest, DeleteHonest, CleanupHonest,
             StepHonest, InvokeHonest, InvokeNothingHonest

LEMMA HonestAlways == Spec => [](TypeOK /\ HonestInv)
<1>1. Init => TypeOK /\ HonestInv
  BY InitType, InitHonest
<1>2. (TypeOK /\ HonestInv) /\ [Next]_vars => (TypeOK /\ HonestInv)'
  BY NextType, NextHonest
<1>3. QED BY <1>1, <1>2, PTL DEF Spec

\* No row counts a request as earlier in its pod than it was, for any faults,
\* unless a delete failed (the rows of run_request_position, after restart_pods).
THEOREM PositionsHonest == Spec => []PositionNeverFlattered
<1>1. HonestInv => PositionNeverFlattered
  BY DEF HonestInv, HonestRow, PositionNeverFlattered
<1>2. QED BY <1>1, HonestAlways, PTL

\* The rows of a treatment are of its pods, and with this attempt's artifacts
\* (the counts "saved_rows_without_used_artifact" and
\* "baseline_rows_with_used_artifact" of the summary).
THEOREM TreatmentsApart == Spec => []TreatmentHolds
<1>1. HonestInv => TreatmentHolds
  BY DEF HonestInv, HonestRow, TreatmentHolds, SavedWithoutArtifact, BaselineWithArtifact, OwnArtifacts
<1>2. QED BY <1>1, HonestAlways, PTL

-----------------------------------------------------------------------------
(* The order of the positions.                                               *)

\* Digits to a base: the greater first digit wins.
LEMMA DigitOrder ==
  ASSUME NEW M \in Nat \ {0}, NEW x \in Nat, NEW y \in Nat, x < y, NEW i \in 1..M, NEW j \in 1..M
  PROVE  x * M + i < y * M + j
<1>1. PICK d \in Nat : y = x + 1 + d
  <2>1. y - x - 1 \in Nat /\ y = x + 1 + (y - x - 1)
    OBVIOUS
  <2>2. QED BY <2>1
<1>2. y * M = x * M + M + d * M
  BY <1>1
<1>3. d * M \in Nat /\ x * M \in Nat
  OBVIOUS
<1>4. QED BY <1>2, <1>3

LEMMA PlaceTyped ==
  ASSUME NEW b \in Nat, NEW w \in Nat, NEW p \in Nat
  PROVE  Place(b, w, p) \in Int
<1>1. Waves \in Nat /\ Positions \in Nat
  BY ScaleAssumption
<1>2. QED BY <1>1 DEF Place

\* The places are in the order of the loops.
LEMMA PlaceOrder ==
  ASSUME NEW b \in Blocks, NEW w \in 1..Waves, NEW p \in 1..Positions,
         NEW c \in Blocks, NEW v \in 1..Waves, NEW q \in 1..Positions
  PROVE  /\ Place(b, w, p) \in Nat \ {0}
         /\ b < c => Place(b, w, p) < Place(c, v, q)
         /\ b = c /\ w < v => Place(b, w, p) < Place(c, v, q)
         /\ Place(b, w, p) = Place(c, v, q) => b = c /\ w = v /\ p = q
<1>1. /\ Waves \in Nat \ {0} /\ Positions \in Nat \ {0}
      /\ b \in Nat \ {0} /\ c \in Nat \ {0}
      /\ w \in Nat \ {0} /\ v \in Nat \ {0} /\ p \in Nat \ {0} /\ q \in Nat \ {0}
  BY ScaleAssumption, FirstBlock
<1> DEFINE Wave(d, u) == (d - 1) * Waves + u - 1
<1>2. /\ Place(b, w, p) = Wave(b, w) * Positions + p
      /\ Place(c, v, q) = Wave(c, v) * Positions + q
  BY DEF Place
<1>3. Wave(b, w) \in Nat /\ Wave(c, v) \in Nat
  <2>1. (b - 1) * Waves \in Nat /\ (c - 1) * Waves \in Nat
    BY <1>1
  <2>2. QED BY <1>1, <2>1
<1>4. b < c => Wave(b, w) < Wave(c, v)
  <2> SUFFICES ASSUME b < c PROVE Wave(b, w) < Wave(c, v)
    OBVIOUS
  <2>1. b - 1 \in Nat /\ c - 1 \in Nat /\ b - 1 < c - 1
    BY <1>1
  <2>2. (b - 1) * Waves + w < (c - 1) * Waves + v
    BY <1>1, <2>1, DigitOrder
  <2>3. (b - 1) * Waves \in Int /\ (c - 1) * Waves \in Int
    BY <1>1
  <2>4. QED BY <1>1, <2>2, <2>3
<1>5. b = c /\ w < v => Wave(b, w) < Wave(c, v)
  <2>1. (b - 1) * Waves \in Int
    BY <1>1
  <2>2. QED BY <1>1, <2>1
<1>6. /\ c < b => Wave(c, v) < Wave(b, w)
      /\ b = c /\ v < w => Wave(c, v) < Wave(b, w)
  <2>1. ASSUME c < b PROVE Wave(c, v) < Wave(b, w)
    <3>1. b - 1 \in Nat /\ c - 1 \in Nat /\ c - 1 < b - 1
      BY <1>1, <2>1
    <3>2. (c - 1) * Waves + v < (b - 1) * Waves + w
      BY <1>1, <3>1, DigitOrder
    <3>3. (b - 1) * Waves \in Int /\ (c - 1) * Waves \in Int
      BY <1>1
    <3>4. QED BY <1>1, <3>2, <3>3
  <2>2. (b - 1) * Waves \in Int
    BY <1>1
  <2>3. QED BY <1>1, <2>1, <2>2
<1> HIDE DEF Wave
<1>7. Wave(b, w) < Wave(c, v) => Place(b, w, p) < Place(c, v, q)
  BY <1>1, <1>2, <1>3, DigitOrder
<1>8. Wave(c, v) < Wave(b, w) => Place(c, v, q) < Place(b, w, p)
  BY <1>1, <1>2, <1>3, DigitOrder
<1>9. Place(b, w, p) \in Nat \ {0} /\ Place(c, v, q) \in Nat
  <2>1. Wave(b, w) * Positions \in Nat /\ Wave(c, v) * Positions \in Nat
    BY <1>1, <1>3
  <2>2. QED BY <1>1, <1>2, <2>1
<1>10. b = c /\ w = v /\ Place(b, w, p) = Place(c, v, q) => p = q
  <2>1. Wave(b, w) * Positions \in Nat
    BY <1>1, <1>3
  <2>2. QED BY <1>1, <1>2, <2>1
<1>11. QED BY <1>1, <1>4, <1>5, <1>6, <1>7, <1>8, <1>9, <1>10

\* The next turn has the next place; there is none after the last.
LEMMA NextPlace ==
  ASSUME TypeOK, Advance
  PROVE  /\ pc' # "done" => Here' = Here + 1
         /\ pc' = "done" => UNCHANGED loop /\
              \A b \in Blocks, w \in 1..Waves, p \in 1..Positions :
                Place(b, w, p) < Here \/ <<b, w, p>> = <<block, wave, position>>
<1>1. /\ Waves \in Nat \ {0} /\ Positions \in Nat \ {0} /\ block \in Blocks /\ block \in Nat \ {0}
      /\ wave \in 1..Waves /\ position \in 1..Positions
      /\ wave \in Nat \ {0} /\ position \in Nat \ {0}
  BY ScaleAssumption, FirstBlock DEF TypeOK
<1>2. CASE position < Positions /\ position' = position + 1 /\ UNCHANGED <<block, wave>> /\ pc' = "send"
  <2>1. ((block - 1) * Waves + wave - 1) * Positions \in Int
    BY <1>1
  <2>2. QED BY <1>1, <1>2, <2>1 DEF Here, Place
<1>3. CASE /\ position = Positions /\ wave' = wave + 1 /\ position' = 1 /\ UNCHANGED block
           /\ pc' = "restart"
  <2> DEFINE x == (block - 1) * Waves + wave - 1
  <2>1. x \in Int /\ (block - 1) * Waves + wave' - 1 = x + 1
    BY <1>1, <1>3
  <2>2. (x + 1) * Positions + 1 = x * Positions + Positions + 1
    BY <1>1, <2>1
  <2>3. QED BY <1>3, <2>1, <2>2 DEF Here, Place
<1>4. CASE /\ position = Positions /\ wave = Waves /\ block' = block + 1 /\ wave' = 1 /\ position' = 1
           /\ pc' = "restart"
  <2> DEFINE x == (block - 1) * Waves + Waves - 1
  <2>1. x \in Int /\ ((block + 1) - 1) * Waves + (1 - 1) = x + 1
    BY <1>1
  <2>2. (x + 1) * Positions + 1 = x * Positions + Positions + 1
    BY <1>1, <2>1
  <2>3. Here = x * Positions + Positions /\ Here' = (x + 1) * Positions + 1
    <3>1. Here' = (((block + 1) - 1) * Waves + (1 - 1)) * Positions + 1
      <4>1. Here' = Place(block', wave', position')
        BY DEF Here, Place
      <4>2. Here' = Place(block + 1, 1, 1)
        BY <1>4, <4>1
      <4>3. QED BY <4>2 DEF Place
    <3>2. Here = x * Positions + Positions
      BY <1>4 DEF Here, Place
    <3> HIDE DEF x
    <3>3. QED BY <2>1, <3>1, <3>2
  <2>4. x * Positions \in Int
    BY <1>1, <2>1
  <2> HIDE DEF x
  <2>5. QED BY <1>1, <1>4, <2>2, <2>3, <2>4
<1>5. CASE position = Positions /\ wave = Waves /\ block + 1 \notin Blocks /\ UNCHANGED loop
           /\ pc' = "done"
  <2>1. \A b \in Blocks : b \in Nat /\ b <= block
    <3>1. Len(Benchmarks) \in Nat
      BY ScaleAssumption
    <3>2. QED BY <1>1, <1>5, <3>1 DEF Blocks
  <2>2. ASSUME NEW b \in Blocks, NEW w \in 1..Waves, NEW p \in 1..Positions
        PROVE  Place(b, w, p) < Here \/ <<b, w, p>> = <<block, wave, position>>
    <3>1. CASE b < block \/ (b = block /\ w < wave)
      BY <1>1, <3>1, PlaceOrder DEF Here
    <3>2. CASE b = block /\ w = wave
      <4>1. ((block - 1) * Waves + wave - 1) * Positions \in Int
        BY <1>1
      <4>2. p \in Nat /\ p <= position
        BY <1>1, <1>5
      <4>3. QED BY <1>1, <3>2, <4>1, <4>2 DEF Here, Place
    <3>3. QED BY <1>1, <1>5, <2>1, <3>1, <3>2
  <2>3. QED BY <1>5, <2>2
<1>6. \/ <1>2!1 \/ <1>3!1 \/ <1>4!1 \/ <1>5!1
  BY DEF Advance
<1>7. QED BY <1>2, <1>3, <1>4, <1>5, <1>6

-----------------------------------------------------------------------------
(* The file.                                                                 *)

\* The place of the rows of a turn.
LEMMA RowsPlaced ==
  ASSUME NEW b, NEW w, NEW p, NEW s, NEW r \in RowsAt(b, w, p, s)
  PROVE  PlaceOf(r) = Place(b, w, p) /\ r \in rows
BY DEF RowsAt, PlaceOf

LEMMA HereTyped == TypeOK => Here \in Nat \ {0} /\ \A r \in rows : PlaceOf(r) \in Int
<1> SUFFICES ASSUME TypeOK PROVE Here \in Nat \ {0} /\ \A r \in rows : PlaceOf(r) \in Int
  OBVIOUS
<1>1. Here \in Nat \ {0}
  BY PlaceOrder DEF Here, TypeOK
<1>2. ASSUME NEW r \in rows PROVE PlaceOf(r) \in Int
  <2>1. r.block \in Nat /\ r.wave \in Nat /\ r.position \in Nat
    BY FirstBlock DEF TypeOK, Rows
  <2>2. QED BY <2>1, PlaceTyped DEF PlaceOf
<1>3. QED BY <1>1, <1>2

Early == {"populate", "deploy", "ready"}
Restarting == {"restart", "deleting", "wait"}

\* A step that neither sends nor goes past a position.
LEMMA QuietFile ==
  ASSUME TypeOK, FileInv, UNCHANGED <<loop, rows>>,
         unflushed' = {} \/ (unflushed' = unflushed /\ (pc = "send" => pc' = "send")),
         pc' = "done" => pc = "done", pc' = "send" => pc = "send" /\ todo' = todo,
         pc' \in Early => pc \in Early,
         pc' \in Restarting => pc \in Restarting \/ (pc \in Early /\ rows = {})
  PROVE  FileInv'
<1>1. Here' = Here /\ position' = position
  BY DEF Here, Place, loop
<1>2. \A b, w, p : Passed(b, w, p)' => Passed(b, w, p)
  BY DEF Passed, Place, loop
<1>3. \A b, w, p, s : RowsAt(b, w, p, s)' = RowsAt(b, w, p, s)
  BY DEF RowsAt
<1>4. \A r : PlaceOf(r)' = PlaceOf(r)
  BY DEF PlaceOf, Place
<1>5. pc' \in {"populate", "deploy", "ready", "restart", "deleting", "wait"} => position' = 1
  BY <1>1 DEF FileInv, Early, Restarting
<1>6. (\A r \in rows : PlaceOf(r) <= Here)'
  BY <1>1, <1>4 DEF FileInv
<1>7. pc' \in {"restart", "deleting", "wait"} => (\A r \in rows : PlaceOf(r) < Here)'
  BY <1>1, <1>4 DEF FileInv, Early, Restarting
<1>8. (\A r \in unflushed : PlaceOf(r) = Here /\ pc = "send")'
  BY <1>1, <1>4 DEF FileInv
<1>9. (\A b \in Blocks, w \in 1..Waves, p \in 1..Positions, s \in Shards :
         Passed(b, w, p) => Single(RowsAt(b, w, p, s)))'
  BY <1>2, <1>3 DEF FileInv, Single
<1>10. (pc = "send" => \A s \in Shards :
          IF s \in todo THEN RowsAt(block, wave, position, s) = {}
                        ELSE Single(RowsAt(block, wave, position, s)))'
  BY <1>1, <1>3 DEF FileInv, Single, loop
<1>11. QED BY <1>5, <1>6, <1>7, <1>8, <1>9, <1>10 DEF FileInv

\* Most steps are of that kind.
LEMMA QuietSteps ==
  ASSUME TypeOK, HonestInv, FileInv,
         \/ Environment \/ Populate \/ DeletePods \/ DeleteFails \/ Cleanup \/ UNCHANGED vars
         \/ SkipDeploy \/ Apply \/ MatrixReady \/ DeleteReturns \/ DeleteLost \/ Raise \/ Malformed
  PROVE  FileInv'
<1>1. pc \in Early => rows = {}
  BY DEF HonestInv, PodInv, NoRowsYet, Early
<1>2. CASE Environment
  BY <1>2, EnvironmentStep, QuietFile DEF loop, file
<1>3. CASE Populate \/ SkipDeploy \/ Apply \/ MatrixReady
  BY <1>1, <1>3, QuietFile DEF Populate, SkipDeploy, Apply, MatrixReady, Early, Restarting, file
<1>4. CASE DeletePods \/ DeleteFails \/ DeleteReturns \/ DeleteLost
  BY <1>4, QuietFile DEF DeletePods, DeleteFails, DeleteReturns, DeleteLost, Early, Restarting, file
<1>5. CASE Raise \/ Malformed \/ Cleanup
  BY <1>5, QuietFile DEF Raise, Malformed, Cleanup, Early, Restarting, file
<1>6. CASE UNCHANGED vars
  BY <1>6, QuietFile DEF vars, file
<1>7. QED BY <1>2, <1>3, <1>4, <1>5, <1>6

\* The first position of a wave has no rows yet.
LEMMA AwaitFile ==
  ASSUME TypeOK, FileInv, AwaitReady
  PROVE  FileInv'
<1>1. /\ pc = "wait" /\ pc' = "send" /\ position = 1 /\ position' = 1
      /\ UNCHANGED <<block, wave, rows, unflushed>> /\ todo' = Shards
  BY DEF AwaitReady, FileInv, file
<1>2. Here' = Here /\ \A r : PlaceOf(r)' = PlaceOf(r)
  BY <1>1 DEF Here, Place, PlaceOf
<1>3. \A b, w, p, s : RowsAt(b, w, p, s)' = RowsAt(b, w, p, s)
  BY <1>1 DEF RowsAt
<1>4. \A b, w, p : Passed(b, w, p)' => Passed(b, w, p)
  BY <1>1 DEF Passed, Place
<1>5. \A r \in rows : PlaceOf(r) < Here
  BY <1>1 DEF FileInv
<1>6. unflushed = {}
  BY <1>1 DEF FileInv
<1>7. ASSUME NEW s \in Shards PROVE RowsAt(block, wave, position, s) = {}
  <2> SUFFICES ASSUME NEW r \in RowsAt(block, wave, position, s) PROVE FALSE
    OBVIOUS
  <2>1. PlaceOf(r) = Here /\ PlaceOf(r) < Here
    BY <1>5, RowsPlaced DEF Here
  <2>2. QED BY <2>1, HereTyped
<1>8. (\A b \in Blocks, w \in 1..Waves, p \in 1..Positions, s \in Shards :
         Passed(b, w, p) => Single(RowsAt(b, w, p, s)))'
  BY <1>3, <1>4 DEF FileInv, Single
<1>9. (\A r \in rows : PlaceOf(r) <= Here)'
  BY <1>1, <1>2 DEF FileInv
<1>10. (pc = "send" => \A s \in Shards :
          IF s \in todo THEN RowsAt(block, wave, position, s) = {}
                        ELSE Single(RowsAt(block, wave, position, s)))'
  BY <1>1, <1>3, <1>7
<1>11. QED BY <1>1, <1>6, <1>8, <1>9, <1>10 DEF FileInv

\* A position ends with a row of each shard; the next one begins without rows.
LEMMA EndFile ==
  ASSUME TypeOK, FileInv, EndPosition
  PROVE  FileInv'
<1>1. /\ pc = "send" /\ todo = {} /\ Advance /\ UNCHANGED rows /\ unflushed' = {}
      /\ pc' \in {"send", "restart", "done"}
  BY AdvanceType DEF EndPosition
<1>2. block \in Blocks /\ wave \in 1..Waves /\ position \in 1..Positions
  BY DEF TypeOK
<1>3. Here \in Nat \ {0} /\ \A r \in rows : PlaceOf(r) \in Int /\ PlaceOf(r) <= Here
  BY HereTyped DEF FileInv
<1>4. \A b, w, p, s : RowsAt(b, w, p, s)' = RowsAt(b, w, p, s)
  BY <1>1 DEF RowsAt
<1>5. \A r : PlaceOf(r)' = PlaceOf(r)
  BY DEF PlaceOf, Place
<1>6. pc' # "send" => pc' = "done" \/ position' = 1
  BY <1>1 DEF Advance
<1>7. /\ Here' \in {Here, Here + 1}
      /\ pc' # "done" => Here' = Here + 1
  <2>1. UNCHANGED loop => Here' = Here
    BY DEF loop, Here, Place
  <2>2. QED BY <1>1, <2>1, NextPlace
<1>8. (\A r \in rows : PlaceOf(r) <= Here)' /\ (pc' # "done" => (\A r \in rows : PlaceOf(r) < Here)')
  BY <1>1, <1>3, <1>5, <1>7
<1>9. ASSUME NEW b \in Blocks, NEW w \in 1..Waves, NEW p \in 1..Positions, Passed(b, w, p)'
      PROVE  Passed(b, w, p) \/ <<b, w, p>> = <<block, wave, position>>
  <2>1. CASE pc' = "done"
    BY <1>1, <2>1, NextPlace DEF Passed, Here
  <2>2. CASE pc' # "done"
    <3>1. Place(b, w, p)' < Here' /\ Place(b, w, p)' = Place(b, w, p)
      BY <1>9, <2>2 DEF Passed, Here, Place
    <3>2. Place(b, w, p) \in Nat /\ Place(b, w, p) < Here + 1
      BY <1>2, <1>7, <2>2, <3>1, PlaceOrder
    <3>3. Place(b, w, p) < Here \/ Place(b, w, p) = Here
      BY <1>3, <3>2
    <3>4. Place(b, w, p) = Here => b = block /\ w = wave /\ p = position
      BY <1>2, PlaceOrder DEF Here
    <3>5. QED BY <3>3, <3>4 DEF Passed, Here
  <2>3. QED BY <2>1, <2>2
<1>10. (\A b \in Blocks, w \in 1..Waves, p \in 1..Positions, s \in Shards :
          Passed(b, w, p) => Single(RowsAt(b, w, p, s)))'
  <2> SUFFICES ASSUME NEW b \in Blocks, NEW w \in 1..Waves, NEW p \in 1..Positions, NEW s \in Shards,
                      Passed(b, w, p)'
               PROVE  Single(RowsAt(b, w, p, s))
    BY <1>4 DEF Single
  <2>1. CASE Passed(b, w, p)
    BY <2>1 DEF FileInv
  <2>2. CASE <<b, w, p>> = <<block, wave, position>>
    BY <1>1, <2>2 DEF FileInv
  <2>3. QED BY <1>9, <2>1, <2>2
<1>11. (pc = "send" => \A s \in Shards :
          IF s \in todo THEN RowsAt(block, wave, position, s) = {}
                        ELSE Single(RowsAt(block, wave, position, s)))'
  <2> SUFFICES ASSUME pc' = "send", NEW s \in Shards, NEW r \in RowsAt(block, wave, position, s)'
               PROVE  FALSE
    <3>1. pc' = "send" => todo' = Shards
      BY <1>1 DEF Advance
    <3>2. QED BY <3>1
  <2>1. r \in rows /\ PlaceOf(r)' = Here'
    BY <1>1, RowsPlaced DEF RowsAt, Here, PlaceOf
  <2>2. QED BY <1>3, <1>5, <1>7, <2>1
<1>12. QED BY <1>1, <1>6, <1>8, <1>10, <1>11 DEF FileInv

\* A shard without a row at its turn gets one.
LEMMA RecordFile ==
  ASSUME TypeOK, FileInv, pc = "send", UNCHANGED pc, NEW s \in todo, NEW row, Record(s, row),
         row.block = block, row.wave = wave, row.position = position, row.shard = s
  PROVE  FileInv'
<1>1. /\ todo' = todo \ {s} /\ rows' = rows \union {row} /\ unflushed' = unflushed \union {row}
      /\ UNCHANGED <<block, wave, position>> /\ s \in Shards
  BY DEF Record, loop, TypeOK
<1>2. block \in Blocks /\ wave \in 1..Waves /\ position \in 1..Positions
  BY DEF TypeOK
<1>3. Here' = Here /\ Here \in Nat /\ (\A r : PlaceOf(r)' = PlaceOf(r)) /\ PlaceOf(row) = Here
  BY <1>1, HereTyped DEF Here, Place, PlaceOf
<1>4. (\A r \in rows : PlaceOf(r) <= Here)' /\ (\A r \in unflushed : PlaceOf(r) = Here /\ pc = "send")'
  BY <1>1, <1>3 DEF FileInv
<1>5. ASSUME NEW b, NEW w, NEW p, NEW t
      PROVE  RowsAt(b, w, p, t)' = IF <<b, w, p, t>> = <<block, wave, position, s>>
                                     THEN RowsAt(b, w, p, t) \union {row} ELSE RowsAt(b, w, p, t)
  BY <1>1 DEF RowsAt
<1>6. (\A b \in Blocks, w \in 1..Waves, p \in 1..Positions, t \in Shards :
         Passed(b, w, p) => Single(RowsAt(b, w, p, t)))'
  <2> SUFFICES ASSUME NEW b \in Blocks, NEW w \in 1..Waves, NEW p \in 1..Positions, NEW t \in Shards,
                      Passed(b, w, p)'
               PROVE  Single(RowsAt(b, w, p, t)')
    BY DEF Single
  <2>1. Place(b, w, p) < Here /\ Passed(b, w, p)
    BY <1>1 DEF Passed, Here, Place
  <2>2. <<b, w, p>> # <<block, wave, position>>
    BY <1>3, <2>1 DEF Here
  <2>3. RowsAt(b, w, p, t)' = RowsAt(b, w, p, t)
    BY <1>5, <2>2
  <2>4. QED BY <2>1, <2>3 DEF FileInv
<1>7. ASSUME NEW t \in Shards
      PROVE  IF t \in todo' THEN RowsAt(block, wave, position, t)' = {}
                            ELSE Single(RowsAt(block, wave, position, t)')
  <2>1. IF t \in todo THEN RowsAt(block, wave, position, t) = {}
                      ELSE Single(RowsAt(block, wave, position, t))
    BY DEF FileInv
  <2>2. CASE t = s
    <3>1. RowsAt(block, wave, position, t) = {}
      BY <2>1, <2>2
    <3>2. RowsAt(block, wave, position, t)' = {row}
      <4>1. {r \in rows : <<r.block, r.wave, r.position, r.shard>> = <<block, wave, position, s>>} = {}
        BY <2>2, <3>1 DEF RowsAt
      <4>2. <<row.block, row.wave, row.position, row.shard>> = <<block, wave, position, s>>
        OBVIOUS
      <4>3. {r \in rows' : <<r.block, r.wave, r.position, r.shard>> = <<block, wave, position, s>>} = {row}
        BY <1>1, <4>1, <4>2
      <4>4. QED BY <1>1, <2>2, <4>3 DEF RowsAt
    <3>3. QED BY <1>1, <2>2, <3>2 DEF Single
  <2>3. CASE t # s
    <3>1. RowsAt(block, wave, position, t)' = RowsAt(block, wave, position, t)
      BY <1>1, <2>3 DEF RowsAt
    <3>2. QED BY <1>1, <2>1, <2>3, <3>1
  <2>4. QED BY <2>2, <2>3
<1>8. (pc = "send" => \A t \in Shards :
         IF t \in todo THEN RowsAt(block, wave, position, t) = {}
                       ELSE Single(RowsAt(block, wave, position, t)))'
  BY <1>7 DEF Single
<1>9. QED BY <1>4, <1>6, <1>8 DEF FileInv

LEMMA InvokeFile ==
  ASSUME TypeOK, FileInv, NEW s \in Shards, Invoke(s) \/ InvokeNothing(s)
  PROVE  FileInv'
<1>1. pc = "send" /\ s \in todo
  BY DEF Invoke, InvokeNothing
<1>2. \E answered, run, artifact : Record(s, Row(s, answered, run, artifact))
  BY DEF Invoke, InvokeNothing
<1>3. PICK answered, run, artifact : Record(s, Row(s, answered, run, artifact))
  BY <1>2
<1> DEFINE r == Row(s, answered, run, artifact)
<1>4. r.block = block /\ r.wave = wave /\ r.position = position /\ r.shard = s
  BY DEF Row
<1>5. UNCHANGED pc
  BY <1>3 DEF Record
<1> HIDE DEF r
<1>6. QED BY <1>1, <1>3, <1>4, <1>5, RecordFile DEF r

\* A kill loses rows of the present position only.
LEMMA KillFile ==
  ASSUME TypeOK, FileInv, Kill
  PROVE  FileInv'
<1>1. PICK lost \in SUBSET unflushed : rows' = rows \ lost
  BY DEF Kill
<1>2. pc' = "killed" /\ UNCHANGED <<block, wave, position>> /\ unflushed' = {} /\ pc # "done"
  BY DEF Kill, loop
<1>3. Here' = Here /\ Here \in Nat /\ \A r : PlaceOf(r)' = PlaceOf(r)
  BY <1>2, HereTyped DEF Here, Place, PlaceOf
<1>4. (\A r \in rows : PlaceOf(r) <= Here)'
  BY <1>1, <1>3 DEF FileInv
<1>5. (\A b \in Blocks, w \in 1..Waves, p \in 1..Positions, t \in Shards :
         Passed(b, w, p) => Single(RowsAt(b, w, p, t)))'
  <2> SUFFICES ASSUME NEW b \in Blocks, NEW w \in 1..Waves, NEW p \in 1..Positions, NEW t \in Shards,
                      Passed(b, w, p)'
               PROVE  Single(RowsAt(b, w, p, t)')
    BY DEF Single
  <2>1. Place(b, w, p) < Here /\ Passed(b, w, p)
    BY <1>2 DEF Passed, Here, Place
  <2>2. ASSUME NEW r \in RowsAt(b, w, p, t) PROVE r \notin lost
    <3>1. PlaceOf(r) < Here
      BY <2>1, RowsPlaced
    <3>2. r \in unflushed => PlaceOf(r) = Here
      BY DEF FileInv
    <3>3. QED BY <1>3, <3>1, <3>2
  <2>3. RowsAt(b, w, p, t)' = RowsAt(b, w, p, t)
    BY <1>1, <2>2 DEF RowsAt
  <2>4. QED BY <2>1, <2>3 DEF FileInv
<1>6. QED BY <1>2, <1>4, <1>5 DEF FileInv

LEMMA InitFile == Init => FileInv
<1> SUFFICES ASSUME Init PROVE FileInv
  OBVIOUS
<1>1. /\ pc \in {"populate", "deploy"} /\ block = 1 /\ wave = 1 /\ position = 1
      /\ rows = {} /\ unflushed = {}
  BY DEF Init
<1>2. Waves \in Nat /\ Positions \in Nat
  BY ScaleAssumption
<1>3. Here = 1
  <2>1. ((1 - 1) * Waves + (1 - 1)) * Positions = 0
    BY <1>2
  <2>2. Here = ((1 - 1) * Waves + (1 - 1)) * Positions + 1
    BY <1>1 DEF Here, Place
  <2>3. QED BY <2>1, <2>2
<1>4. ASSUME NEW b \in Blocks, NEW w \in 1..Waves, NEW p \in 1..Positions PROVE ~Passed(b, w, p)
  <2>1. Place(b, w, p) \in Nat \ {0}
    BY PlaceOrder
  <2>2. QED BY <1>1, <1>3, <2>1 DEF Passed, Here
<1>5. QED BY <1>1, <1>4 DEF FileInv

LEMMA FileAlways == Spec => []IInv
<1>1. Init => IInv
  BY InitType, InitHonest, InitFile DEF IInv
<1>2. IInv /\ [Next]_vars => IInv'
  <2> SUFFICES ASSUME IInv, [Next]_vars PROVE IInv'
    OBVIOUS
  <2>1. TypeOK /\ HonestInv /\ FileInv
    BY DEF IInv
  <2>2. FileInv'
    BY <2>1, NextCases, QuietSteps, AwaitFile, EndFile, InvokeFile, KillFile DEF Step
  <2>3. QED BY <2>1, <2>2, NextType, NextHonest DEF IInv
<1>3. QED BY <1>1, <1>2, PTL DEF Spec

\* The file has the rows of every position passed, one of each shard, and none
\* of a later one, whatever happens to the process (write_row and flush in the
\* loops of run_large_scale).
THEOREM FileComplete == Spec => []PositionsComplete
<1>1. IInv => PositionsComplete
  <2> SUFFICES ASSUME TypeOK, FileInv PROVE PositionsComplete
    BY DEF IInv
  <2>1. ASSUME NEW b \in Blocks, NEW w \in 1..Waves, NEW p \in 1..Positions, NEW s \in Shards,
               Passed(b, w, p)
        PROVE  Cardinality({r \in rows \ unflushed :
                              <<r.block, r.wave, r.position, r.shard>> = <<b, w, p, s>>}) = 1
    <3>1. ASSUME NEW r \in RowsAt(b, w, p, s) PROVE r \notin unflushed
      <4> SUFFICES ASSUME r \in unflushed PROVE FALSE
        OBVIOUS
      <4>1. PlaceOf(r) = Here /\ pc = "send" /\ PlaceOf(r) = Place(b, w, p)
        BY RowsPlaced DEF FileInv
      <4>2. QED BY <2>1, <4>1, HereTyped DEF Passed, Here
    <3>2. {r \in rows \ unflushed : <<r.block, r.wave, r.position, r.shard>> = <<b, w, p, s>>}
            = RowsAt(b, w, p, s)
      BY <3>1 DEF RowsAt
    <3>3. Single(RowsAt(b, w, p, s))
      BY <2>1 DEF FileInv
    <3>4. PICK r : RowsAt(b, w, p, s) = {r}
      BY <3>3 DEF Single
    <3>5. QED BY <3>2, <3>4, FS_Singleton
  <2>2. QED BY <2>1 DEF PositionsComplete, FileInv, PlaceOf, Here
<1>2. QED BY <1>1, FileAlways, PTL

=============================================================================

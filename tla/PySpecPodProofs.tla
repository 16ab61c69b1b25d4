--------------------------- MODULE PySpecPodProofs ---------------------------
(***************************************************************************)
(* Theorems of PySpecPod, for every set of pods, threads and benchmarks,   *)
(* every deployment and every bound.                                       *)
(***************************************************************************)
EXTENDS PySpecPod, TLAPS

\* What an import yields: a text that behaves like a module, or an exception.
LEMMA LoadOutcomesType ==
    ASSUME NEW text \in Text \cup {Nil}
    PROVE  LoadOutcomes(text) \subseteq Text \cup {Raise}
BY SpecialsAssumption DEF LoadOutcomes, Text

\* A dead container leaves well-typed, idle state behind.
LEMMA ExitType ==
    ASSUME TypeOK, NEW p \in Pods, Exit(p)
    PROVE  /\ phase' \in [Pods -> Phases]
           /\ fetched' \in [Pods -> Text \cup {Nil}]
           /\ module' \in [Pods -> Text \cup {Nil}]
           /\ invocation' \in [Pods -> Nat]
           /\ req' \in [Pods -> [Threads -> Req]]
           /\ resp' \in [Pods -> [Threads -> Resp]]
<1>1. IdleReq \in Req
  BY DeploymentAssumption DEF IdleReq, Req, ReqPcs
<1>2. NoResp \in Resp
  BY DeploymentAssumption DEF NoResp, Resp
<1>3. phase' \in [Pods -> Phases] /\ fetched' \in [Pods -> Text \cup {Nil}]
  BY DEF Exit, TypeOK, Phases
<1>4. module' \in [Pods -> Text \cup {Nil}] /\ invocation' \in [Pods -> Nat]
  BY DEF Exit, TypeOK
<1>5. req' \in [Pods -> [Threads -> Req]]
  BY <1>1 DEF Exit, TypeOK
<1>6. resp' \in [Pods -> [Threads -> Resp]]
  BY <1>2 DEF Exit, TypeOK
<1>7. QED BY <1>3, <1>4, <1>5, <1>6

\* Moving a thread on, with or without a value, keeps the requests well typed.
LEMMA ReqType ==
    ASSUME TypeOK, NEW p \in Pods, NEW t \in Threads,
           NEW pc \in ReqPcs, NEW val \in Text \cup {Nil},
           Goto(p, t, pc) \/ Keep(p, t, val, pc)
    PROVE  req' \in [Pods -> [Threads -> Req]]
<1>1. req[p][t] \in Req
  BY DEF TypeOK
<1>2. [req[p][t] EXCEPT !.pc = pc] \in Req
  BY <1>1 DEF Req
<1>3. [pc |-> pc, bench |-> req[p][t].bench, val |-> val] \in Req
  BY <1>1 DEF Req
<1>4. CASE Goto(p, t, pc)
  BY <1>2, <1>4 DEF TypeOK, Goto
<1>5. CASE Keep(p, t, val, pc)
  BY <1>3, <1>5 DEF TypeOK, Keep
<1>6. QED BY <1>4, <1>5

\* So does answering a request with a well-typed response.
LEMMA ReplyType ==
    ASSUME TypeOK, NEW p \in Pods, NEW t \in Threads,
           NEW r \in Resp, Reply(p, t, r)
    PROVE  /\ req' \in [Pods -> [Threads -> Req]]
           /\ resp' \in [Pods -> [Threads -> Resp]]
<1>1. IdleReq \in Req
  BY DeploymentAssumption DEF IdleReq, Req, ReqPcs
<1>2. QED BY <1>1 DEF Reply, TypeOK

\* The responses to work and to populates are well typed.
LEMMA WorkReplyType ==
    ASSUME TypeOK, NEW p \in Pods, NEW t \in Threads,
           NEW status \in {0, 200, 400, 500}
    PROVE  WorkReply(p, t, status) \in Resp
<1>1. req[p][t].bench \in Benchmarks /\ req[p][t].val \in Text \cup {Nil}
  BY DEF TypeOK, Req
<1>2. QED BY <1>1 DEF WorkReply, Resp

LEMMA PopulateReplyType ==
    ASSUME TypeOK, NEW p \in Pods, NEW t \in Threads,
           NEW status \in {0, 200, 400, 500}, NEW hash \in Text \cup {Nil}
    PROVE  PopulateReply(p, t, status, hash) \in Resp
<1>1. req[p][t].bench \in Benchmarks /\ req[p][t].val \in Text \cup {Nil}
  BY DEF TypeOK, Req
<1>2. QED BY <1>1 DEF PopulateReply, Resp

\* TypeOK is inductive: every step of a container keeps the types.
LEMMA EntrypointType ==
    ASSUME TypeOK, NEW p \in Pods, Entrypoint(p) \/ PullFails(p) \/ Kill(p)
    PROVE  TypeOK'
<1>1. NoMeta \in Meta
  BY DEF NoMeta, Meta
<1>2. CASE BootPlain(p)
  BY <1>1, <1>2 DEF TypeOK, BootPlain, Phases
<1>3. CASE BootSaved(p)
  BY <1>3 DEF TypeOK, BootSaved, Phases
<1>4. CASE PullMissing(p)
  <2>1. CASE Exit(p)
    BY <1>1, <1>4, <2>1, ExitType DEF TypeOK, PullMissing
  <2>2. CASE ~Exit(p)
    BY <1>1, <1>4, <2>2 DEF TypeOK, PullMissing, Phases
  <2>3. QED BY <2>1, <2>2
<1>5. CASE PullFound(p)
  BY <1>5 DEF TypeOK, PullFound, Phases
<1>6. CASE PullWrite(p)
  BY <1>6 DEF TypeOK, PullWrite, Phases
<1>7. CASE PullMeta(p)
  <2>1. [imported |-> TRUE, hash |-> fetched[p]] \in Meta
    BY DEF TypeOK, Meta
  <2>2. QED BY <1>7, <2>1 DEF TypeOK, PullMeta, Phases
<1>8. CASE PreloadArtifact(p)
  <2>1. CASE Exit(p)
    BY <1>8, <2>1, ExitType DEF TypeOK, PreloadArtifact
  <2>2. CASE ~Exit(p)
    BY <1>8, <2>2, DeploymentAssumption, ZenonT(60) DEF TypeOK, PreloadArtifact, Phases, Text
  <2>3. QED BY <2>1, <2>2
<1>9. CASE SkipPreload(p)
  BY <1>9 DEF TypeOK, SkipPreload, Phases
<1>10. CASE PullFails(p)
  BY <1>10, ExitType DEF TypeOK, PullFails, Fault
<1>11. CASE Kill(p)
  <2>1. file' \in [Pods -> Text \cup {Nil}] /\ meta' \in [Pods -> Meta]
    BY <1>1, <1>11, ZenonT(60) DEF TypeOK, Kill
  <2>2. faults' \in Nat
    BY <1>11 DEF TypeOK, Kill, Fault
  <2>3. Exit(p) /\ UNCHANGED <<store, published>>
    BY <1>11 DEF Kill
  <2>4. QED BY <2>1, <2>2, <2>3, ExitType DEF TypeOK
<1>12. QED
  BY <1>2, <1>3, <1>4, <1>5, <1>6, <1>7, <1>8, <1>9, <1>10, <1>11 DEF Entrypoint

\* Every step of a request thread keeps them.
LEMMA ThreadType ==
    ASSUME TypeOK, NEW p \in Pods, NEW t \in Threads,
           Request(p, t) \/ Thread(p, t) \/ PutSetFails(p, t)
    PROVE  TypeOK'
<1>1. NoResp \in Resp
  BY DeploymentAssumption DEF NoResp, Resp
<1>2. ASSUME NEW b \in Benchmarks, StartWork(p, t, b)
      PROVE  TypeOK'
  <2>1. /\ [pc |-> "ensure", bench |-> b, val |-> Nil] \in Req
        /\ [pc |-> "respond", bench |-> b, val |-> b] \in Req
    BY DEF Req, ReqPcs, Text
  <2>2. invocation' \in [Pods -> Nat]
    BY <1>2 DEF TypeOK, StartWork
  <2>3. QED BY <1>1, <1>2, <2>1, <2>2 DEF TypeOK, StartWork, podVars
<1>3. ASSUME NEW b \in Benchmarks, StartPopulate(p, t, b)
      PROVE  TypeOK'
  <2>1. [pc |-> "truncate", bench |-> b, val |-> Nil] \in Req
    BY DEF Req, ReqPcs
  <2>2. QED BY <1>1, <1>3, <2>1 DEF TypeOK, StartPopulate, podVars
<1>4. CASE EnsureCached(p, t)
  BY <1>4, ReqType DEF TypeOK, EnsureCached, podVars, ReqPcs
<1>5. CASE EnsureLoad(p, t)
  <2>1. PICK m \in LoadOutcomes(file[p]) :
          \/ m = Raise /\ Reply(p, t, WorkReply(p, t, 500))
          \/ /\ m # Raise
             /\ Keep(p, t, m, "assign")
             /\ UNCHANGED resp
    BY <1>5 DEF EnsureLoad
  <2>2. m = Raise \/ m \in Text
    BY <2>1, LoadOutcomesType DEF TypeOK
  <2>3. req' \in [Pods -> [Threads -> Req]] /\ resp' \in [Pods -> [Threads -> Resp]]
    <3>1. CASE m = Raise
      <4>1. WorkReply(p, t, 500) \in Resp
        BY WorkReplyType
      <4>2. Reply(p, t, WorkReply(p, t, 500))
        BY <2>1, <3>1
      <4>3. QED BY <4>1, <4>2, ReplyType
    <3>2. CASE m # Raise
      <4>1. req' \in [Pods -> [Threads -> Req]]
        BY <2>1, <2>2, <3>2, ReqType DEF ReqPcs
      <4>2. QED BY <2>1, <3>2, <4>1 DEF TypeOK
    <3>3. QED BY <3>1, <3>2
  <2>4. QED BY <1>5, <2>3 DEF TypeOK, EnsureLoad, podVars
<1>6. CASE EnsureAssign(p, t)
  <2>1. req' \in [Pods -> [Threads -> Req]]
    BY <1>6, ReqType DEF EnsureAssign, ReqPcs
  <2>2. module' \in [Pods -> Text \cup {Nil}]
    BY <1>6 DEF TypeOK, EnsureAssign, Req
  <2>3. QED BY <1>6, <2>1, <2>2 DEF TypeOK, EnsureAssign, podVars
<1>7. CASE EnsureCheck(p, t)
  <2>1. req' \in [Pods -> [Threads -> Req]] /\ resp' \in [Pods -> [Threads -> Resp]]
    <3>1. WorkReply(p, t, 400) \in Resp
      BY WorkReplyType
    <3>2. CASE Reply(p, t, WorkReply(p, t, 400))
      BY <3>1, <3>2, ReplyType
    <3>3. CASE Goto(p, t, "run") /\ UNCHANGED resp
      BY <3>3, ReqType DEF TypeOK, ReqPcs
    <3>4. QED BY <1>7, <3>2, <3>3 DEF EnsureCheck
  <2>2. QED BY <1>7, <2>1 DEF TypeOK, EnsureCheck, podVars
<1>8. CASE RunArtifact(p, t)
  <2>1. module[p] \in Text \cup {Nil}
    BY DEF TypeOK
  <2>2. req' \in [Pods -> [Threads -> Req]] /\ resp' \in [Pods -> [Threads -> Resp]]
    <3>1. WorkReply(p, t, 500) \in Resp
      BY WorkReplyType
    <3>2. CASE Reply(p, t, WorkReply(p, t, 500))
      BY <3>1, <3>2, ReplyType
    <3>3. CASE Keep(p, t, module[p], "respond") /\ UNCHANGED resp
      BY <2>1, <3>3, ReqType DEF TypeOK, ReqPcs
    <3>4. QED BY <1>8, <3>2, <3>3 DEF RunArtifact
  <2>3. QED BY <1>8, <2>2 DEF TypeOK, RunArtifact, podVars
<1>9. CASE RespondWork(p, t)
  <2>1. WorkReply(p, t, 200) \in Resp
    BY WorkReplyType
  <2>2. QED BY <1>9, <2>1, ReplyType DEF TypeOK, RespondWork, podVars
<1>10. CASE Truncate(p, t)
  BY <1>10, ReqType DEF TypeOK, Truncate, ReqPcs, Text
<1>11. CASE WriteText(p, t)
  <2>1. file' \in [Pods -> Text \cup {Nil}]
    BY <1>11 DEF TypeOK, WriteText, Req, Text
  <2>2. req' \in [Pods -> [Threads -> Req]]
    BY <1>11, ReqType DEF WriteText, ReqPcs
  <2>3. QED BY <1>11, <2>1, <2>2 DEF TypeOK, WriteText
<1>12. CASE PutRead(p, t)
  <2>1. req' \in [Pods -> [Threads -> Req]]
    <3>1. file[p] \in Text \cup {Nil}
      BY DEF TypeOK
    <3>2. QED BY <1>12, <3>1, ReqType DEF PutRead, ReqPcs
  <2>2. QED BY <1>12, <2>1 DEF TypeOK, PutRead, podVars
<1>13. CASE PutSet(p, t)
  <2>1. req[p][t].val \in Text \cup {Nil}
    BY DEF TypeOK, Req
  <2>2. req' \in [Pods -> [Threads -> Req]]
    BY <1>13, ReqType DEF PutSet, ReqPcs
  <2>3. QED BY <1>13, <2>1, <2>2 DEF TypeOK, PutSet, podVars
<1>14. CASE PutSetFails(p, t)
  <2>1. req[p][t].val \in Text \cup {Nil}
    BY DEF TypeOK, Req
  <2>2. PopulateReply(p, t, 500, Nil) \in Resp
    BY PopulateReplyType
  <2>3. req' \in [Pods -> [Threads -> Req]] /\ resp' \in [Pods -> [Threads -> Resp]]
    BY <1>14, <2>2, ReplyType DEF PutSetFails
  <2>4. QED BY <1>14, <2>1, <2>3 DEF TypeOK, PutSetFails, Fault, podVars
<1>15. CASE RespondPopulate(p, t)
  <2>1. file[p] \in Text \cup {Nil}
    BY DEF TypeOK
  <2>2. PopulateReply(p, t, 200, file[p]) \in Resp
    BY <2>1, PopulateReplyType
  <2>3. QED BY <1>15, <2>2, ReplyType DEF TypeOK, RespondPopulate, podVars
<1>16. QED
  BY <1>2, <1>3, <1>4, <1>5, <1>6, <1>7, <1>8, <1>9, <1>10, <1>11, <1>12, <1>13,
     <1>14, <1>15 DEF Request, Thread

\* Types hold in every state: TypeOK is inductive on its own.
THEOREM TypeCorrect == Spec => []TypeOK
<1>1. Init => TypeOK
  BY DeploymentAssumption DEF Init, TypeOK, Phases, Meta, NoMeta, Req, IdleReq, ReqPcs,
     Resp, NoResp
<1>2. TypeOK /\ [Next]_vars => TypeOK'
  <2> SUFFICES ASSUME TypeOK, [Next]_vars PROVE TypeOK'
    OBVIOUS
  <2>1. CASE RedisRestart
    BY <2>1 DEF TypeOK, RedisRestart, Fault, podVars
  <2>2. CASE UNCHANGED vars
    BY <2>2 DEF TypeOK, vars, podVars
  <2>3. QED BY <2>1, <2>2, EntrypointType, ThreadType DEF Next
<1>3. QED BY <1>1, <1>2, PTL DEF Spec

------------------------------------------------------------------------------
(* A saved pod runs what it imported. *)

\* What ties a saved pod to Redis on its way to serving: the text it carries
\* was published, the file and then the metadata agree with it, and once it
\* serves no thread imports a module any more.
PodImport(p) ==
    /\ phase[p] \in {"write", "meta"} => fetched[p] \in published
    /\ phase[p] = "meta" => file[p] = fetched[p]
    /\ phase[p] = "preload" =>
         meta[p].imported /\ meta[p].hash = file[p] /\ file[p] \in published
    /\ phase[p] = "serving" =>
         /\ module[p] = DefaultBenchmark
         /\ meta[p].imported
         /\ meta[p].hash \in published
         /\ module[p] \in LoadOutcomes(meta[p].hash)
    /\ \A t \in Threads : req[p][t].pc # "assign"

ImportInv ==
    Require /\ Preload =>
        /\ store = Nil \/ store \in published
        /\ \A p \in SavedPods : PodImport(p)

ThreadStep(p, t) == Request(p, t) \/ Thread(p, t) \/ PutSetFails(p, t)
PodStep(p) ==
    \/ Entrypoint(p) \/ PullFails(p) \/ Kill(p)
    \/ \E t \in Threads : ThreadStep(p, t)

\* A step of one pod leaves the others as they are and forgets no artifact.
LEMMA ExitFrame ==
    ASSUME TypeOK, NEW p \in Pods, Exit(p), NEW q \in Pods, q # p
    PROVE  /\ phase'[q] = phase[q] /\ fetched'[q] = fetched[q]
           /\ module'[q] = module[q] /\ req'[q] = req[q] /\ resp'[q] = resp[q]
           /\ invocation'[q] = invocation[q]
BY DEF TypeOK, Exit

LEMMA PodFrame ==
    ASSUME TypeOK, NEW p \in Pods, PodStep(p), NEW q \in Pods, q # p
    PROVE  /\ phase'[q] = phase[q] /\ fetched'[q] = fetched[q]
           /\ file'[q] = file[q] /\ meta'[q] = meta[q]
           /\ module'[q] = module[q] /\ req'[q] = req[q] /\ resp'[q] = resp[q]
           /\ invocation'[q] = invocation[q]
<1>1. CASE Entrypoint(p)
  BY <1>1, ExitFrame DEF TypeOK, Entrypoint, BootPlain, BootSaved, PullMissing, PullFound,
     PullWrite, PullMeta, PreloadArtifact, SkipPreload
<1>2. CASE PullFails(p) \/ Kill(p)
  BY <1>2, ExitFrame DEF TypeOK, PullFails, Kill
<1>3. CASE \E t \in Threads : Request(p, t)
  BY <1>3 DEF TypeOK, Request, StartWork, StartPopulate, podVars
<1>4. CASE \E t \in Threads : Thread(p, t)
  BY <1>4 DEF TypeOK, Thread, EnsureCached, EnsureLoad, EnsureAssign, EnsureCheck,
     RunArtifact, RespondWork, Truncate, WriteText, PutRead, PutSet, RespondPopulate,
     Goto, Keep, Reply, podVars
<1>5. CASE \E t \in Threads : PutSetFails(p, t)
  BY <1>5 DEF TypeOK, PutSetFails, Reply, podVars
<1>6. QED BY <1>1, <1>2, <1>3, <1>4, <1>5 DEF PodStep, ThreadStep

\* Redis only ever holds what some SET stored.
LEMMA StorePublished ==
    ASSUME store = Nil \/ store \in published, [Next]_vars
    PROVE  /\ published \subseteq published'
           /\ store' = Nil \/ store' \in published'
<1>1. CASE UNCHANGED vars
  BY <1>1 DEF vars
<1>2. CASE RedisRestart
  BY <1>2 DEF RedisRestart
<1>3. ASSUME NEW p \in Pods, Entrypoint(p) \/ PullFails(p) \/ Kill(p)
      PROVE  UNCHANGED <<store, published>>
  BY <1>3 DEF Entrypoint, BootPlain, BootSaved, PullMissing, PullFound, PullWrite,
     PullMeta, PreloadArtifact, SkipPreload, PullFails, Kill
<1>4. ASSUME NEW p \in Pods, NEW t \in Threads, ThreadStep(p, t)
      PROVE  \/ UNCHANGED <<store, published>>
             \/ store' = req[p][t].val /\ published' = published \cup {req[p][t].val}
  <2>1. CASE Request(p, t)
    BY <2>1 DEF Request, StartWork, StartPopulate
  <2>2. CASE Thread(p, t)
    BY <2>2 DEF Thread, EnsureCached, EnsureLoad, EnsureAssign, EnsureCheck,
       RunArtifact, RespondWork, Truncate, WriteText, PutRead, PutSet, RespondPopulate
  <2>3. CASE PutSetFails(p, t)
    BY <2>3 DEF PutSetFails
  <2>4. QED BY <1>4, <2>1, <2>2, <2>3 DEF ThreadStep
<1>5. QED BY <1>1, <1>2, <1>3, <1>4 DEF Next, ThreadStep

\* A container step of a saved pod carries the published text one stage on.
LEMMA EntrypointImport ==
    ASSUME TypeOK, Require, Preload, store = Nil \/ store \in published,
           NEW p \in SavedPods, PodImport(p),
           Entrypoint(p) \/ PullFails(p) \/ Kill(p)
    PROVE  PodImport(p)'
<1>1. p \in Pods /\ published' = published
  BY DeploymentAssumption DEF Entrypoint, BootPlain, BootSaved, PullMissing, PullFound,
     PullWrite, PullMeta, PreloadArtifact, SkipPreload, PullFails, Kill
<1>2. CASE Exit(p)
  <2>1. phase'[p] = "down" /\ \A t \in Threads : req'[p][t].pc = "idle"
    BY <1>1, <1>2 DEF TypeOK, Exit, IdleReq
  <2>2. QED BY <2>1 DEF PodImport
<1>3. CASE BootSaved(p)
  <2>1. phase'[p] = "pull" /\ req' = req
    BY <1>1, <1>3 DEF TypeOK, BootSaved
  <2>2. QED BY <2>1 DEF PodImport
<1>4. CASE PullFound(p)
  <2>1. /\ phase'[p] = "write" /\ req' = req
        /\ fetched'[p] = store /\ store \in published
    BY <1>1, <1>4 DEF TypeOK, PullFound
  <2>2. QED BY <1>1, <2>1 DEF PodImport
<1>5. CASE PullWrite(p)
  <2>1. /\ phase[p] = "write" /\ phase'[p] = "meta" /\ req' = req
        /\ fetched' = fetched /\ file'[p] = fetched[p]
    BY <1>1, <1>5 DEF TypeOK, PullWrite
  <2>2. QED BY <1>1, <2>1 DEF PodImport
<1>6. CASE PullMeta(p)
  <2>1. /\ phase[p] = "meta" /\ phase'[p] = "preload" /\ req' = req /\ file' = file
        /\ meta'[p] = [imported |-> TRUE, hash |-> fetched[p]]
    BY <1>1, <1>6 DEF TypeOK, PullMeta
  <2>2. QED BY <1>1, <2>1 DEF PodImport
<1>7. CASE PreloadArtifact(p) /\ ~Exit(p)
  <2>1. /\ phase[p] = "preload" /\ phase'[p] = "serving" /\ req' = req /\ meta' = meta
        /\ module'[p] = DefaultBenchmark
        /\ DefaultBenchmark \in LoadOutcomes(file[p])
    BY <1>1, <1>7 DEF TypeOK, PreloadArtifact
  <2>2. QED BY <1>1, <2>1 DEF PodImport
<1>8. QED
  BY <1>2, <1>3, <1>4, <1>5, <1>6, <1>7 DEF Entrypoint, BootPlain, PullMissing,
     SkipPreload, PullFails, Kill

\* Moving a thread to another point than "assign" leaves none there.
LEMMA NoneAssigns ==
    ASSUME TypeOK, NEW p \in Pods, NEW t \in Threads, NEW pc, pc # "assign",
           NEW val, NEW r, Goto(p, t, pc) \/ Keep(p, t, val, pc) \/ Reply(p, t, r),
           \A u \in Threads : req[p][u].pc # "assign"
    PROVE  \A u \in Threads : req'[p][u].pc # "assign"
<1>1. req[p][t] \in Req /\ req[p] \in [Threads -> Req] /\ req \in [Pods -> [Threads -> Req]]
  BY DEF TypeOK
<1>2. CASE Goto(p, t, pc)
  <2>1. [req[p][t] EXCEPT !.pc = pc].pc = pc
    BY <1>1 DEF Req
  <2>2. req'[p] = [req[p] EXCEPT ![t] = [req[p][t] EXCEPT !.pc = pc]]
    BY <1>1, <1>2 DEF Goto
  <2>3. QED BY <1>1, <2>1, <2>2
<1>3. CASE Keep(p, t, val, pc)
  BY <1>1, <1>3 DEF Keep
<1>4. CASE Reply(p, t, r)
  BY <1>1, <1>4 DEF Reply, IdleReq
<1>5. QED BY <1>2, <1>3, <1>4

\* Nor does any request that a saved pod answers disturb what it runs: its
\* module is there, so no thread gets to import another.
LEMMA ThreadImport ==
    ASSUME TypeOK, Require, Preload, NEW p \in SavedPods, PodImport(p),
           NEW t \in Threads, ThreadStep(p, t), published \subseteq published'
    PROVE  PodImport(p)'
<1>1. p \in Pods
  BY DeploymentAssumption
<1>2. phase[p] = "serving"
  BY DEF ThreadStep, Request, StartWork, StartPopulate, Thread, EnsureCached, EnsureLoad,
     EnsureAssign, EnsureCheck, RunArtifact, RespondWork, Truncate, WriteText, PutRead,
     PutSet, RespondPopulate, PutSetFails, At
<1>3. module[p] # Nil /\ req[p][t].pc # "assign"
  BY <1>2, SpecialsAssumption, DeploymentAssumption DEF PodImport, Text
<1>4. /\ UNCHANGED <<phase, meta, module>>
      /\ \A u \in Threads : req'[p][u].pc # "assign"
  <2>0. \A u \in Threads : req[p][u].pc # "assign"
    BY DEF PodImport
  <2>1. CASE Request(p, t)
    <3>1. \E r : r.pc # "assign" /\ req' = [req EXCEPT ![p][t] = r]
      <4>1. PICK b \in Benchmarks : StartWork(p, t, b) \/ StartPopulate(p, t, b)
        BY <2>1 DEF Request
      <4>2. CASE StartWork(p, t, b)
        BY <1>1, <4>2 DEF StartWork
      <4>3. CASE StartPopulate(p, t, b)
        BY <4>3 DEF StartPopulate
      <4>4. QED BY <4>1, <4>2, <4>3
    <3>2. \A u \in Threads : req'[p][u].pc # "assign"
      BY <1>1, <2>0, <3>1 DEF TypeOK
    <3>3. UNCHANGED <<phase, meta, module>>
      BY <2>1 DEF Request, StartWork, StartPopulate, podVars
    <3>4. QED BY <3>2, <3>3
  <2>2. CASE \/ EnsureCached(p, t) \/ EnsureCheck(p, t) \/ RunArtifact(p, t)
             \/ RespondWork(p, t)
    <3>1. UNCHANGED <<phase, meta, module>>
      BY <2>2 DEF EnsureCached, EnsureCheck, RunArtifact, RespondWork, podVars
    <3>2. \E val, r : \/ Goto(p, t, "run") \/ Keep(p, t, val, "respond")
                     \/ Reply(p, t, r)
      BY <2>2 DEF EnsureCached, EnsureCheck, RunArtifact, RespondWork
    <3>3. QED BY <1>1, <2>0, <3>1, <3>2, NoneAssigns
  <2>3. CASE \/ Truncate(p, t) \/ WriteText(p, t) \/ PutRead(p, t)
             \/ PutSet(p, t) \/ RespondPopulate(p, t) \/ PutSetFails(p, t)
    <3>1. UNCHANGED <<phase, meta, module>>
      BY <2>3 DEF Truncate, WriteText, PutRead, PutSet, RespondPopulate, PutSetFails,
         podVars
    <3>2. \E val, r : \/ Goto(p, t, "write") \/ Goto(p, t, "read") \/ Goto(p, t, "hash")
                     \/ Keep(p, t, val, "set") \/ Reply(p, t, r)
      BY <2>3 DEF Truncate, WriteText, PutRead, PutSet, RespondPopulate, PutSetFails
    <3>3. QED BY <1>1, <2>0, <3>1, <3>2, NoneAssigns
  <2>4. ~EnsureLoad(p, t) /\ ~EnsureAssign(p, t)
    BY <1>3 DEF EnsureLoad, EnsureAssign, At
  <2>5. QED BY <2>1, <2>2, <2>3, <2>4 DEF ThreadStep, Thread
<1>5. QED BY <1>2, <1>4 DEF PodImport

\* ImportInv is inductive.
LEMMA ImportStep == TypeOK /\ ImportInv /\ [Next]_vars => ImportInv'
<1> SUFFICES ASSUME TypeOK, ImportInv, [Next]_vars, Require, Preload
             PROVE  /\ store' = Nil \/ store' \in published'
                    /\ \A p \in SavedPods : PodImport(p)'
  BY DEF ImportInv
<1>1. /\ published \subseteq published'
      /\ store' = Nil \/ store' \in published'
  BY StorePublished DEF ImportInv
<1>2. ASSUME NEW q \in SavedPods PROVE PodImport(q)'
  <2>1. q \in Pods /\ PodImport(q)
    BY DeploymentAssumption DEF ImportInv
  <2>2. CASE UNCHANGED vars \/ RedisRestart
    BY <2>1, <2>2 DEF PodImport, vars, podVars, RedisRestart
  <2>3. CASE PodStep(q)
    BY <1>1, <2>1, <2>3, EntrypointImport, ThreadImport DEF PodStep, ImportInv
  <2>4. ASSUME NEW p \in Pods, p # q, PodStep(p) PROVE PodImport(q)'
    BY <1>1, <2>1, <2>4, PodFrame DEF PodImport
  <2>5. QED BY <2>2, <2>3, <2>4 DEF Next, PodStep, ThreadStep
<1>3. QED BY <1>1, <1>2

LEMMA ImportInvariant == Spec => []ImportInv
<1>1. Init => ImportInv
  BY DeploymentAssumption DEF Init, ImportInv, PodImport, IdleReq
<1>2. QED BY <1>1, ImportStep, TypeCorrect, PTL DEF Spec

\* Every saved pod that serves in a deployment that requires and preloads the
\* artifact runs the text its metadata reports, and Redis did hold that text.
THEOREM ImportSound == Spec => []SavedPodRunsItsImport
<1>1. ImportInv => SavedPodRunsItsImport
  BY DEF ImportInv, PodImport, SavedPodRunsItsImport
<1>2. QED BY <1>1, ImportInvariant, PTL

------------------------------------------------------------------------------
(* Serialised populates publish whole artifacts and report them truthfully. *)

PopulatePcs == {"truncate", "write", "read", "set", "hash"}

\* What a populate of thread t can count on at each point, and what its last
\* response says.
PopulateSound(p, t) ==
    /\ req[p][t].pc = "write" => file[p] = Empty
    /\ req[p][t].pc \in {"read", "set", "hash"} => file[p] = req[p][t].bench
    /\ req[p][t].pc \in {"set", "hash"} => req[p][t].val = req[p][t].bench
    /\ req[p][t].pc = "hash" => req[p][t].bench \in published
    /\ resp[p][t].op = "populate" /\ resp[p][t].status = 200 =>
          /\ resp[p][t].hash = resp[p][t].bench
          /\ resp[p][t].served = resp[p][t].bench
          /\ resp[p][t].bench \in published

\* A container that does not serve has no request, and one thread of a pod at a
\* time owns the artifact file.
WholePod(p) ==
    /\ phase[p] # "serving" => \A t \in Threads : req[p][t].pc = "idle"
    /\ \A t, u \in Threads :
         req[p][t].pc \in PopulatePcs /\ req[p][u].pc \in PopulatePcs => t = u
    /\ \A t \in Threads : PopulateSound(p, t)

WholeInv ==
    ~Overlap =>
        /\ published \subseteq Benchmarks
        /\ \A p \in Pods : WholePod(p)

\* A step of one thread leaves the others where they are.
LEMMA ThreadFrame ==
    ASSUME TypeOK, NEW p \in Pods, NEW t \in Threads, ThreadStep(p, t)
    PROVE  /\ phase[p] = "serving" /\ phase' = phase
           /\ \A u \in Threads \ {t} :
                req'[p][u] = req[p][u] /\ resp'[p][u] = resp[p][u]
<1>1. CASE Request(p, t)
  BY <1>1 DEF TypeOK, Request, StartWork, StartPopulate, At, podVars
<1>2. CASE Thread(p, t)
  BY <1>2 DEF TypeOK, Thread, EnsureCached, EnsureLoad, EnsureAssign, EnsureCheck,
     RunArtifact, RespondWork, Truncate, WriteText, PutRead, PutSet, RespondPopulate,
     Goto, Keep, Reply, At, podVars
<1>3. CASE PutSetFails(p, t)
  BY <1>3 DEF TypeOK, PutSetFails, Reply, At, podVars
<1>4. QED BY <1>1, <1>2, <1>3 DEF ThreadStep

\* Where a thread goes, seen from the thread.
LEMMA ThreadMoves ==
    ASSUME TypeOK, NEW p \in Pods, NEW t \in Threads
    PROVE  /\ \A pc : Goto(p, t, pc) =>
                /\ req'[p][t].pc = pc /\ req'[p][t].bench = req[p][t].bench
                /\ req'[p][t].val = req[p][t].val
           /\ \A pc, val : Keep(p, t, val, pc) =>
                /\ req'[p][t].pc = pc /\ req'[p][t].bench = req[p][t].bench
                /\ req'[p][t].val = val
           /\ \A r : Reply(p, t, r) => req'[p][t].pc = "idle" /\ resp'[p][t] = r
<1>1. /\ req[p][t] \in Req /\ req[p] \in [Threads -> Req]
      /\ req \in [Pods -> [Threads -> Req]] /\ resp \in [Pods -> [Threads -> Resp]]
  BY DEF TypeOK
<1>2. ASSUME NEW pc, Goto(p, t, pc)
      PROVE  /\ req'[p][t].pc = pc /\ req'[p][t].bench = req[p][t].bench
             /\ req'[p][t].val = req[p][t].val
  <2>1. req'[p][t] = [req[p][t] EXCEPT !.pc = pc]
    BY <1>1, <1>2 DEF Goto
  <2>2. QED BY <1>1, <2>1 DEF Req
<1>3. ASSUME NEW pc, NEW val, Keep(p, t, val, pc)
      PROVE  /\ req'[p][t].pc = pc /\ req'[p][t].bench = req[p][t].bench
             /\ req'[p][t].val = val
  BY <1>1, <1>3 DEF Keep
<1>4. ASSUME NEW r, Reply(p, t, r) PROVE req'[p][t].pc = "idle" /\ resp'[p][t] = r
  BY <1>1, <1>4 DEF Reply, IdleReq
<1>5. QED BY <1>2, <1>3, <1>4

\* A step of a thread keeps what it can count on itself, and touches the file
\* only while it owns it.
LEMMA PopulateStep ==
    ASSUME TypeOK, ~Overlap, NEW p \in Pods, NEW t \in Threads, WholePod(p),
           published \subseteq Benchmarks, ThreadStep(p, t)
    PROVE  /\ published \subseteq published' /\ published' \subseteq Benchmarks
           /\ file'[p] = file[p] \/ req[p][t].pc \in PopulatePcs
           /\ req'[p][t].pc \in PopulatePcs =>
                req[p][t].pc \in PopulatePcs \/ ~Populating(p)
           /\ PopulateSound(p, t)'
<1> DEFINE Goal == /\ published \subseteq published' /\ published' \subseteq Benchmarks
                   /\ file'[p] = file[p] \/ req[p][t].pc \in PopulatePcs
                   /\ req'[p][t].pc \in PopulatePcs =>
                        req[p][t].pc \in PopulatePcs \/ ~Populating(p)
                   /\ PopulateSound(p, t)'
<1>0. PopulateSound(p, t) /\ req[p][t].bench \in Benchmarks
  BY DEF WholePod, TypeOK, Req
<1>1. ASSUME NEW b \in Benchmarks, StartWork(p, t, b) PROVE Goal
  <2>1. /\ req'[p][t].pc \in {"ensure", "respond"} /\ resp'[p][t] = NoResp
        /\ published' = published /\ file' = file
    <3>1. req'[p][t] \in {[pc |-> "ensure", bench |-> b, val |-> Nil],
                          [pc |-> "respond", bench |-> b, val |-> b]}
      BY <1>1 DEF TypeOK, StartWork
    <3>2. resp'[p][t] = NoResp /\ published' = published /\ file' = file
      BY <1>1 DEF TypeOK, StartWork, podVars
    <3>3. QED BY <3>1, <3>2
  <2>2. QED BY <2>1 DEF PopulateSound, NoResp, PopulatePcs
<1>2. ASSUME NEW b \in Benchmarks, StartPopulate(p, t, b) PROVE Goal
  <2>1. /\ req'[p][t].pc = "truncate" /\ resp'[p][t] = NoResp
        /\ published' = published /\ file' = file
    BY <1>2 DEF TypeOK, StartPopulate, podVars
  <2>2. ~Populating(p)
    BY <1>2 DEF StartPopulate
  <2>3. QED BY <2>1, <2>2 DEF PopulateSound, NoResp, PopulatePcs
<1>3. CASE \/ EnsureCached(p, t) \/ EnsureLoad(p, t) \/ EnsureAssign(p, t)
           \/ EnsureCheck(p, t) \/ RunArtifact(p, t) \/ RespondWork(p, t)
  <2>1. /\ published' = published /\ file' = file
    BY <1>3 DEF EnsureCached, EnsureLoad, EnsureAssign, EnsureCheck, RunArtifact,
       RespondWork, podVars
  <2>2. \/ (resp' = resp /\ \E val : \/ Goto(p, t, "run") \/ Keep(p, t, val, "assign")
                                    \/ Keep(p, t, val, "check")
                                    \/ Keep(p, t, val, "respond"))
        \/ \E status : Reply(p, t, WorkReply(p, t, status))
    BY <1>3 DEF EnsureCached, EnsureLoad, EnsureAssign, EnsureCheck, RunArtifact,
       RespondWork
  <2>3. /\ req'[p][t].pc \notin PopulatePcs
        /\ resp'[p][t] = resp[p][t] \/ resp'[p][t].op = "work"
    <3>1. ASSUME NEW status, Reply(p, t, WorkReply(p, t, status))
          PROVE  req'[p][t].pc = "idle" /\ resp'[p][t].op = "work"
      BY <3>1, ThreadMoves DEF WorkReply
    <3>2. ASSUME NEW val, \/ Goto(p, t, "run") \/ Keep(p, t, val, "assign")
                          \/ Keep(p, t, val, "check") \/ Keep(p, t, val, "respond")
          PROVE  req'[p][t].pc \in {"run", "assign", "check", "respond"}
      BY <3>2, ThreadMoves
    <3>3. QED BY <2>2, <3>1, <3>2 DEF PopulatePcs
  <2>4. QED BY <1>0, <2>1, <2>3 DEF PopulateSound, PopulatePcs
<1>4. CASE Truncate(p, t)
  <2>1. /\ req[p][t].pc = "truncate" /\ req'[p][t].pc = "write" /\ file'[p] = Empty
        /\ published' = published /\ resp' = resp
    BY <1>4, ThreadMoves DEF TypeOK, Truncate, At
  <2>2. QED BY <1>0, <2>1 DEF PopulateSound, PopulatePcs
<1>5. CASE WriteText(p, t)
  <2>1. req[p][t].pc = "write" /\ file[p] = Empty
    BY <1>0, <1>5 DEF WriteText, At, PopulateSound
  <2>2. /\ req'[p][t].pc = "read" /\ req'[p][t].bench = req[p][t].bench
        /\ file'[p] = req[p][t].bench
        /\ published' = published /\ resp' = resp
    <3>1. file' = [file EXCEPT ![p] = req[p][t].bench]
      BY <1>5, <2>1 DEF WriteText
    <3>2. Goto(p, t, "read") /\ published' = published /\ resp' = resp
      BY <1>5 DEF WriteText
    <3>3. req'[p][t].pc = "read" /\ req'[p][t].bench = req[p][t].bench
      BY <3>2, ThreadMoves
    <3>4. file'[p] = req[p][t].bench
      BY <3>1 DEF TypeOK
    <3>5. QED BY <3>2, <3>3, <3>4
  <2>3. QED BY <1>0, <2>1, <2>2 DEF PopulateSound, PopulatePcs
<1>6. CASE PutRead(p, t)
  <2>1. /\ req[p][t].pc = "read" /\ req'[p][t].pc = "set"
        /\ req'[p][t].bench = req[p][t].bench /\ req'[p][t].val = file[p]
        /\ file' = file /\ published' = published /\ resp' = resp
    BY <1>6, ThreadMoves DEF PutRead, At, podVars
  <2>2. QED BY <1>0, <2>1 DEF PopulateSound, PopulatePcs
<1>7. CASE PutSet(p, t)
  <2>1. /\ req[p][t].pc = "set" /\ req'[p][t].pc = "hash"
        /\ req'[p][t].bench = req[p][t].bench /\ req'[p][t].val = req[p][t].val
        /\ file' = file /\ published' = published \cup {req[p][t].val} /\ resp' = resp
    BY <1>7, ThreadMoves DEF PutSet, At, podVars
  <2>2. QED BY <1>0, <2>1 DEF PopulateSound, PopulatePcs
<1>8. CASE PutSetFails(p, t)
  <2>1. /\ req[p][t].pc = "set" /\ req'[p][t].pc = "idle"
        /\ file' = file /\ resp'[p][t].status = 500
        /\ published' \in {published, published \cup {req[p][t].val}}
    BY <1>8, ThreadMoves DEF PutSetFails, At, podVars, PopulateReply
  <2>2. QED BY <1>0, <2>1 DEF PopulateSound, PopulatePcs
<1>9. CASE RespondPopulate(p, t)
  <2>1. /\ req[p][t].pc = "hash" /\ req'[p][t].pc = "idle"
        /\ file' = file /\ published' = published
        /\ resp'[p][t] = PopulateReply(p, t, 200, file[p])
    BY <1>9, ThreadMoves DEF RespondPopulate, At, podVars
  <2>2. QED BY <1>0, <2>1 DEF PopulateSound, PopulatePcs, PopulateReply
<1>10. QED
  BY <1>1, <1>2, <1>3, <1>4, <1>5, <1>6, <1>7, <1>8, <1>9 DEF ThreadStep, Request, Thread

LEMMA ThreadWhole ==
    ASSUME TypeOK, ~Overlap, NEW p \in Pods, NEW t \in Threads, WholePod(p),
           published \subseteq Benchmarks, ThreadStep(p, t)
    PROVE  WholePod(p)'
<1>1. phase'[p] = "serving"
  BY ThreadFrame
<1>2. ASSUME NEW u \in Threads, u # t PROVE PopulateSound(p, u)'
  <2>1. PopulateSound(p, u)
    BY DEF WholePod
  <2>2. req'[p][u] = req[p][u] /\ resp'[p][u] = resp[p][u]
    BY <1>2, ThreadFrame
  <2>3. file'[p] = file[p] \/ req[p][u].pc \notin PopulatePcs
    BY <1>2, PopulateStep DEF WholePod
  <2>4. QED BY <2>1, <2>2, <2>3, PopulateStep DEF PopulateSound, PopulatePcs
<1>3. ASSUME NEW u \in Threads, NEW v \in Threads,
             req'[p][u].pc \in PopulatePcs, req'[p][v].pc \in PopulatePcs
      PROVE  u = v
  <2>1. \A w \in Threads \ {t} : req'[p][w] = req[p][w]
    BY ThreadFrame
  <2>2. CASE u # t /\ v # t
    BY <1>3, <2>1, <2>2 DEF WholePod
  <2>3. CASE u = t \/ v = t
    <3>1. req[p][t].pc \in PopulatePcs
          \/ \A w \in Threads : req[p][w].pc \notin PopulatePcs
      BY <1>3, <2>3, PopulateStep DEF Populating, PopulatePcs
    <3>2. QED BY <1>3, <2>1, <2>3, <3>1 DEF WholePod
  <2>4. QED BY <2>2, <2>3
<1>4. QED BY <1>1, <1>2, <1>3, PopulateStep DEF WholePod

\* The entrypoint runs while no request does, and a dead container has none.
LEMMA EntrypointWhole ==
    ASSUME TypeOK, NEW p \in Pods, WholePod(p),
           Entrypoint(p) \/ PullFails(p) \/ Kill(p)
    PROVE  WholePod(p)' /\ published' = published
<1>1. published' = published
  BY DEF Entrypoint, BootPlain, BootSaved, PullMissing, PullFound,
     PullWrite, PullMeta, PreloadArtifact, SkipPreload, PullFails, Kill
<1>2. CASE Exit(p)
  <2>1. phase'[p] = "down" /\ \A t \in Threads : req'[p][t].pc = "idle" /\ resp'[p][t] = NoResp
    BY <1>2 DEF TypeOK, Exit, IdleReq
  <2>2. QED BY <1>1, <2>1 DEF WholePod, PopulateSound, PopulatePcs, NoResp
<1>3. CASE ~Exit(p)
  <2>1. phase[p] # "serving" /\ req' = req /\ resp' = resp
    BY <1>3 DEF Entrypoint, BootPlain, BootSaved, PullMissing, PullFound,
       PullWrite, PullMeta, PreloadArtifact, SkipPreload, PullFails, Kill
  <2>2. QED BY <1>1, <2>1 DEF WholePod, PopulateSound, PopulatePcs
<1>4. QED BY <1>2, <1>3

\* WholeInv is inductive.
LEMMA WholeStep == TypeOK /\ WholeInv /\ [Next]_vars => WholeInv'
<1> SUFFICES ASSUME TypeOK, WholeInv, [Next]_vars, ~Overlap
             PROVE  published' \subseteq Benchmarks /\ \A q \in Pods : WholePod(q)'
  BY DEF WholeInv
<1>0. published \subseteq Benchmarks /\ \A q \in Pods : WholePod(q)
  BY DEF WholeInv
<1>1. CASE UNCHANGED vars \/ RedisRestart
  BY <1>0, <1>1 DEF WholePod, PopulateSound, vars, podVars, RedisRestart
<1>2. ASSUME NEW p \in Pods, PodStep(p)
      PROVE  published' \subseteq Benchmarks /\ \A q \in Pods : WholePod(q)'
  <2>1. WholePod(p)' /\ published \subseteq published' /\ published' \subseteq Benchmarks
    BY <1>0, <1>2, EntrypointWhole, ThreadWhole, PopulateStep DEF PodStep
  <2>2. ASSUME NEW q \in Pods, q # p PROVE WholePod(q)'
    BY <1>0, <1>2, <2>1, <2>2, PodFrame DEF WholePod, PopulateSound
  <2>3. QED BY <2>1, <2>2
<1>3. QED BY <1>1, <1>2 DEF Next, PodStep, ThreadStep

LEMMA WholeInvariant == Spec => []WholeInv
<1>1. Init => WholeInv
  BY DEF Init, WholeInv, WholePod, PopulateSound, PopulatePcs, IdleReq, NoResp
<1>2. QED BY <1>1, WholeStep, TypeCorrect, PTL DEF Spec

\* Redis only ever gets whole artifacts when populates of a pod are serialised.
THEOREM ExportWhole == Spec => []WholeArtifactsOnly
<1>1. WholeInv => WholeArtifactsOnly
  BY DEF WholeInv, WholeArtifactsOnly
<1>2. QED BY <1>1, WholeInvariant, PTL

\* And every successful populate reports the artifact that it stored.
THEOREM PopulateTruthful == Spec => []PopulateResponseAgrees
<1>1. WholeInv => PopulateResponseAgrees
  BY DEF WholeInv, WholePod, PopulateSound, PopulateResponseAgrees
<1>2. QED BY <1>1, WholeInvariant, PTL

------------------------------------------------------------------------------
(* The first work of a container is reported once. *)

WorkPcs == {"ensure", "assign", "check", "run", "respond"}

\* Thread t has a work under way, or has answered one and nothing since.
Worked(p, t) == req[p][t].pc \in WorkPcs \/ resp[p][t].op = "work"

\* While the counter is at 1 a single thread has anything to do with a work.
FirstPod(p) ==
    /\ invocation[p] = 0 => \A t \in Threads : ~Worked(p, t)
    /\ invocation[p] = 1 =>
         \A t, u \in Threads : Worked(p, t) /\ Worked(p, u) => t = u
    /\ \A t \in Threads : resp[p][t].first => resp[p][t].op = "work"
    /\ \A t, u \in Threads : resp[p][t].first /\ resp[p][u].first => t = u

FirstInv == \A p \in Pods : FirstPod(p)

LEMMA EntrypointFirst ==
    ASSUME TypeOK, NEW p \in Pods, FirstPod(p),
           Entrypoint(p) \/ PullFails(p) \/ Kill(p)
    PROVE  FirstPod(p)'
<1>1. CASE Exit(p)
  <2>1. /\ invocation'[p] = 0
        /\ \A t \in Threads : req'[p][t].pc = "idle" /\ resp'[p][t] = NoResp
    BY <1>1 DEF TypeOK, Exit, IdleReq
  <2>2. QED BY <2>1 DEF FirstPod, Worked, WorkPcs, NoResp
<1>2. CASE ~Exit(p)
  <2>1. UNCHANGED <<invocation, req, resp>>
    BY <1>2 DEF Entrypoint, BootPlain, BootSaved, PullMissing, PullFound, PullWrite,
       PullMeta, PreloadArtifact, SkipPreload, PullFails, Kill
  <2>2. QED BY <2>1 DEF FirstPod, Worked
<1>3. QED BY <1>1, <1>2

LEMMA ThreadFirst ==
    ASSUME TypeOK, NEW p \in Pods, NEW t \in Threads, FirstPod(p), ThreadStep(p, t)
    PROVE  FirstPod(p)'
<1>0. \A u \in Threads \ {t} : req'[p][u] = req[p][u] /\ resp'[p][u] = resp[p][u]
  BY ThreadFrame
<1>1. ASSUME NEW b \in Benchmarks, StartWork(p, t, b) PROVE FirstPod(p)'
  <2>1. invocation'[p] = invocation[p] + 1 /\ invocation[p] \in Nat
    BY <1>1 DEF TypeOK, StartWork
  <2>2. ~resp'[p][t].first
    BY <1>1 DEF TypeOK, StartWork, NoResp
  <2>3. invocation'[p] = 1 => \A u \in Threads \ {t} : ~Worked(p, u)'
    BY <1>0, <2>1 DEF FirstPod, Worked
  <2>4. QED BY <1>0, <2>1, <2>2, <2>3 DEF FirstPod
<1>2. ASSUME invocation' = invocation,
             Worked(p, t)' => Worked(p, t),
             resp'[p][t].first =>
               \/ resp[p][t].first /\ resp'[p][t].op = resp[p][t].op
               \/ /\ resp'[p][t].op = "work" /\ req[p][t].pc \in WorkPcs
                  /\ invocation[p] = 1
      PROVE  FirstPod(p)'
  <2>1. \A u \in Threads : Worked(p, u)' => Worked(p, u)
    BY <1>0, <1>2 DEF Worked
  <2>2. \A u \in Threads : resp'[p][u].first => resp'[p][u].op = "work"
    BY <1>0, <1>2 DEF FirstPod
  <2>3. \A u \in Threads \ {t} : resp'[p][t].first => ~resp'[p][u].first
    BY <1>0, <1>2 DEF FirstPod, Worked
  <2>4. QED BY <1>0, <1>2, <2>1, <2>2, <2>3 DEF FirstPod
<1>3. ASSUME NEW b \in Benchmarks, StartPopulate(p, t, b) PROVE FirstPod(p)'
  <2>1. /\ req'[p][t].pc = "truncate" /\ resp'[p][t] = NoResp /\ invocation' = invocation
    BY <1>3 DEF TypeOK, StartPopulate
  <2>2. QED BY <1>2, <2>1 DEF Worked, WorkPcs, NoResp
<1>4. CASE Thread(p, t) \/ PutSetFails(p, t)
  <2>1. invocation' = invocation
    BY <1>4 DEF Thread, EnsureCached, EnsureLoad, EnsureAssign, EnsureCheck, RunArtifact,
       RespondWork, Truncate, WriteText, PutRead, PutSet, RespondPopulate, PutSetFails
  <2>2. \/ /\ req[p][t].pc \in WorkPcs /\ resp' = resp
        \/ /\ req[p][t].pc \in WorkPcs
           /\ \E status : Reply(p, t, WorkReply(p, t, status))
        \/ /\ resp' = resp
           /\ \/ \E pc \in PopulatePcs : Goto(p, t, pc)
              \/ \E val : Keep(p, t, val, "set")
        \/ \E status, hash : Reply(p, t, PopulateReply(p, t, status, hash))
    <3>1. CASE \/ EnsureCached(p, t) \/ EnsureLoad(p, t) \/ EnsureAssign(p, t)
               \/ EnsureCheck(p, t) \/ RunArtifact(p, t) \/ RespondWork(p, t)
      BY <3>1 DEF EnsureCached, EnsureLoad, EnsureAssign, EnsureCheck, RunArtifact,
         RespondWork, At, WorkPcs
    <3>2. CASE \/ Truncate(p, t) \/ WriteText(p, t) \/ PutRead(p, t)
               \/ PutSet(p, t) \/ RespondPopulate(p, t) \/ PutSetFails(p, t)
      BY <3>2 DEF Truncate, WriteText, PutRead, PutSet, RespondPopulate, PutSetFails,
         PopulatePcs
    <3>3. QED BY <1>4, <3>1, <3>2 DEF Thread
  <2>3. CASE req[p][t].pc \in WorkPcs /\ resp' = resp
    BY <1>2, <2>1, <2>3 DEF Worked
  <2>4. CASE /\ req[p][t].pc \in WorkPcs
             /\ \E status : Reply(p, t, WorkReply(p, t, status))
    <3>1. /\ resp'[p][t].op = "work"
          /\ resp'[p][t].first => invocation[p] = 1
      <4>1. PICK status : resp'[p][t] = WorkReply(p, t, status)
        BY <2>4, ThreadMoves
      <4>2. /\ resp'[p][t].op = "work"
            /\ resp'[p][t].first = (status = 200 /\ invocation[p] = 1)
        BY <4>1 DEF WorkReply
      <4>3. QED BY <4>2
    <3>2. QED BY <1>2, <2>1, <2>4, <3>1 DEF Worked
  <2>5. CASE /\ resp' = resp
             /\ \/ \E pc \in PopulatePcs : Goto(p, t, pc)
                \/ \E val : Keep(p, t, val, "set")
    <3>1. req'[p][t].pc \in PopulatePcs
      BY <2>5, ThreadMoves DEF PopulatePcs
    <3>2. QED BY <1>2, <2>1, <2>5, <3>1 DEF Worked, WorkPcs, PopulatePcs
  <2>6. CASE \E status, hash : Reply(p, t, PopulateReply(p, t, status, hash))
    <3>1. /\ req'[p][t].pc = "idle" /\ resp'[p][t].op = "populate"
          /\ resp'[p][t].first = FALSE
      BY <2>6, ThreadMoves DEF PopulateReply
    <3>2. QED BY <1>2, <2>1, <3>1 DEF Worked, WorkPcs
  <2>7. QED BY <2>2, <2>3, <2>4, <2>5, <2>6
<1>5. QED BY <1>1, <1>3, <1>4 DEF ThreadStep, Request

\* first_work is true in the response of at most one request of a container.
THEOREM FirstWorkSound == Spec => []FirstWorkOnce
<1>1. Init => FirstInv
  <2>1. ASSUME Init, NEW p \in Pods PROVE FirstPod(p)
    <3>1. /\ invocation[p] = 0
          /\ \A t \in Threads : req[p][t].pc = "idle" /\ resp[p][t] = NoResp
      BY <2>1 DEF Init, IdleReq
    <3>2. QED BY <3>1 DEF FirstPod, Worked, WorkPcs, NoResp
  <2>2. QED BY <2>1 DEF FirstInv
<1>2. TypeOK /\ FirstInv /\ [Next]_vars => FirstInv'
  <2> SUFFICES ASSUME TypeOK, FirstInv, [Next]_vars, NEW q \in Pods
               PROVE  FirstPod(q)'
    BY DEF FirstInv
  <2>1. FirstPod(q)
    BY DEF FirstInv
  <2>2. CASE UNCHANGED vars \/ RedisRestart
    BY <2>1, <2>2 DEF FirstPod, Worked, vars, RedisRestart
  <2>3. CASE PodStep(q)
    BY <2>1, <2>3, EntrypointFirst, ThreadFirst DEF PodStep
  <2>4. ASSUME NEW p \in Pods, p # q, PodStep(p) PROVE FirstPod(q)'
    BY <2>1, <2>4, PodFrame DEF FirstPod, Worked
  <2>5. QED BY <2>2, <2>3, <2>4 DEF Next, PodStep, ThreadStep
<1>3. FirstInv => FirstWorkOnce
  BY DEF FirstInv, FirstPod, FirstWorkOnce
<1>4. QED BY <1>1, <1>2, <1>3, TypeCorrect, PTL DEF Spec

------------------------------------------------------------------------------
(* Who holds a module. *)

\* A container holds a module only while it serves, and only a saved pod ever
\* gets near an import.
HolderPod(p) ==
    /\ phase[p] # "serving" => module[p] = Nil
    /\ p \notin SavedPods =>
         /\ phase[p] \in {"down", "serving"}
         /\ \A t \in Threads : req[p][t].pc \notin {"ensure", "assign"}

HolderInv == \A p \in Pods : HolderPod(p)

LEMMA EntrypointHolder ==
    ASSUME TypeOK, NEW p \in Pods, HolderPod(p),
           Entrypoint(p) \/ PullFails(p) \/ Kill(p)
    PROVE  HolderPod(p)'
<1>1. CASE Exit(p)
  <2>1. /\ phase'[p] = "down" /\ module'[p] = Nil
        /\ \A t \in Threads : req'[p][t].pc = "idle"
    BY <1>1 DEF TypeOK, Exit, IdleReq
  <2>2. QED BY <2>1 DEF HolderPod
<1>2. CASE BootPlain(p)
  <2>1. phase'[p] = "serving" /\ module' = module /\ req' = req
    BY <1>2 DEF TypeOK, BootPlain
  <2>2. QED BY <2>1 DEF HolderPod
<1>3. CASE BootSaved(p)
  BY <1>3 DEF TypeOK, BootSaved, HolderPod
<1>4. CASE PullMissing(p) /\ ~Exit(p)
  BY <1>4 DEF TypeOK, PullMissing, HolderPod
<1>5. CASE PullFound(p) \/ PullWrite(p) \/ PullMeta(p)
  BY <1>5 DEF TypeOK, PullFound, PullWrite, PullMeta, HolderPod
<1>6. CASE (PreloadArtifact(p) /\ ~Exit(p)) \/ SkipPreload(p)
  BY <1>6 DEF TypeOK, PreloadArtifact, SkipPreload, HolderPod
<1>7. QED
  BY <1>1, <1>2, <1>3, <1>4, <1>5, <1>6 DEF Entrypoint, PullFails, Kill

LEMMA ThreadHolder ==
    ASSUME TypeOK, NEW p \in Pods, NEW t \in Threads, HolderPod(p), ThreadStep(p, t)
    PROVE  HolderPod(p)'
<1>1. phase[p] = "serving" /\ phase' = phase
  BY ThreadFrame
<1>2. SUFFICES ASSUME p \notin SavedPods
               PROVE  \A u \in Threads : req'[p][u].pc \notin {"ensure", "assign"}
  BY <1>1 DEF HolderPod
<1>3. req[p][t].pc \notin {"ensure", "assign"}
  BY <1>2 DEF HolderPod
<1>4. req'[p][t].pc \notin {"ensure", "assign"}
  <2>1. CASE Request(p, t)
    <3>1. req'[p][t].pc \in {"respond", "truncate"}
      BY <1>2, <2>1 DEF TypeOK, Request, StartWork, StartPopulate
    <3>2. QED BY <3>1
  <2>2. CASE Thread(p, t) \/ PutSetFails(p, t)
    <3>1. ~EnsureLoad(p, t)
      BY <1>3 DEF EnsureLoad, At
    <3>2. \/ \E pc \in {"run", "write", "read", "hash"} : Goto(p, t, pc)
          \/ \E val : \E pc \in {"check", "respond", "set"} : Keep(p, t, val, pc)
          \/ \E r : Reply(p, t, r)
      BY <2>2, <3>1 DEF Thread, EnsureCached, EnsureAssign, EnsureCheck, RunArtifact,
         RespondWork, Truncate, WriteText, PutRead, PutSet, RespondPopulate, PutSetFails
    <3>3. QED BY <3>2, ThreadMoves
  <2>3. QED BY <2>1, <2>2 DEF ThreadStep
<1>5. QED BY <1>2, <1>4, ThreadFrame DEF HolderPod

LEMMA HolderInvariant == Spec => []HolderInv
<1>1. Init => HolderInv
  <2>1. ASSUME Init, NEW p \in Pods PROVE HolderPod(p)
    <3>1. /\ phase[p] = "down" /\ module[p] = Nil
          /\ \A t \in Threads : req[p][t].pc = "idle"
      BY <2>1 DEF Init, IdleReq
    <3>2. QED BY <3>1 DEF HolderPod
  <2>2. QED BY <2>1 DEF HolderInv
<1>2. TypeOK /\ HolderInv /\ [Next]_vars => HolderInv'
  <2> SUFFICES ASSUME TypeOK, HolderInv, [Next]_vars, NEW q \in Pods
               PROVE  HolderPod(q)'
    BY DEF HolderInv
  <2>1. HolderPod(q)
    BY DEF HolderInv
  <2>2. CASE UNCHANGED vars \/ RedisRestart
    BY <2>1, <2>2 DEF HolderPod, vars, podVars, RedisRestart
  <2>3. CASE PodStep(q)
    BY <2>1, <2>3, EntrypointHolder, ThreadHolder DEF PodStep
  <2>4. ASSUME NEW p \in Pods, p # q, PodStep(p) PROVE HolderPod(q)'
    BY <2>1, <2>4, PodFrame DEF HolderPod
  <2>5. QED BY <2>2, <2>3, <2>4 DEF Next, PodStep, ThreadStep
<1>3. QED BY <1>1, <1>2, TypeCorrect, PTL DEF Spec

------------------------------------------------------------------------------
(* A 200 computed the benchmark that was asked for. *)

DefaultOnly == ~Overlap /\ OnlyDefault(PopulateOf, Pods)
ServeAssumed == OnlyDefault(WorkOf, SavedPods) /\ (Preload \/ DefaultOnly)

\* The texts a pod can meet when only the default benchmark is populated.
DefaultTexts(p) ==
    /\ fetched[p] \in {Nil, DefaultBenchmark}
    /\ file[p] \in {Nil, Empty, DefaultBenchmark}
    /\ \A t \in Threads : req[p][t].pc \in PopulatePcs => req[p][t].bench = DefaultBenchmark

\* What a work of a saved pod can count on: after a preload no thread imports
\* any more; without one a thread may import an empty file, but never runs it.
SavedWork(p) ==
    /\ module[p] \in {Nil, Empty, DefaultBenchmark}
    /\ phase[p] = "serving" /\ Preload => module[p] = DefaultBenchmark
    /\ \A t \in Threads :
         /\ req[p][t].pc = "assign" => ~Preload /\ req[p][t].val \in {Empty, DefaultBenchmark}
         /\ req[p][t].pc \in {"check", "run"} => module[p] # Nil
         /\ req[p][t].pc \in WorkPcs => req[p][t].bench = DefaultBenchmark

ServePod(p) ==
    /\ p \in SavedPods => SavedWork(p)
    /\ \A t \in Threads :
         /\ p \notin SavedPods => req[p][t].pc \notin WorkPcs \ {"respond"}
         /\ req[p][t].pc = "respond" => req[p][t].val = req[p][t].bench
         /\ resp[p][t].op = "work" /\ resp[p][t].status = 200 =>
               resp[p][t].served = resp[p][t].bench

DefaultInv == DefaultOnly =>
    store \in {Nil, DefaultBenchmark} /\ \A p \in Pods : DefaultTexts(p)
ServeInv == ServeAssumed => \A p \in Pods : ServePod(p)

LEMMA EntrypointServe ==
    ASSUME TypeOK, NEW p \in Pods, HolderPod(p), ServePod(p),
           Entrypoint(p) \/ PullFails(p) \/ Kill(p)
    PROVE  ServePod(p)'
<1>1. CASE Exit(p)
  <2>1. /\ module'[p] = Nil /\ phase'[p] = "down"
        /\ \A t \in Threads : req'[p][t].pc = "idle" /\ resp'[p][t] = NoResp
    BY <1>1 DEF TypeOK, Exit, IdleReq
  <2>2. QED BY <2>1 DEF ServePod, SavedWork, WorkPcs, NoResp
<1>2. CASE ~Exit(p)
  <2>1. UNCHANGED <<req, resp>>
    BY <1>2 DEF Entrypoint, BootPlain, BootSaved, PullMissing, PullFound, PullWrite,
       PullMeta, PreloadArtifact, SkipPreload, PullFails, Kill
  <2>2. CASE PreloadArtifact(p)
    <3>1. module'[p] = DefaultBenchmark
      BY <1>2, <2>2 DEF TypeOK, PreloadArtifact
    <3>2. DefaultBenchmark # Nil
      BY SpecialsAssumption, DeploymentAssumption DEF Text
    <3>3. QED BY <2>1, <3>1, <3>2 DEF ServePod, SavedWork
  <2>3. CASE ~PreloadArtifact(p)
    <3>1. /\ module' = module
          /\ phase'[p] = "serving" => p \notin SavedPods \/ ~Preload
      BY <1>2, <2>3 DEF TypeOK, HolderPod, Entrypoint, BootPlain, BootSaved, PullMissing,
         PullFound, PullWrite, PullMeta, SkipPreload, PullFails, Kill
    <3>2. QED BY <2>1, <3>1 DEF ServePod, SavedWork
  <2>4. QED BY <2>2, <2>3
<1>3. QED BY <1>1, <1>2

\* What an import finds where only the default benchmark is populated.
LEMMA DefaultLoads ==
    ASSUME NEW text \in {Nil, Empty, DefaultBenchmark}, NEW m \in LoadOutcomes(text), m # Raise
    PROVE  m \in {Empty, DefaultBenchmark}
BY SpecialsAssumption, DeploymentAssumption DEF LoadOutcomes, Text

LEMMA ThreadServe ==
    ASSUME TypeOK, ServeAssumed, NEW p \in Pods, NEW t \in Threads, ServePod(p),
           DefaultOnly => DefaultTexts(p), ThreadStep(p, t)
    PROVE  ServePod(p)'
<1> DEFINE Own == /\ p \in SavedPods =>
                       /\ req'[p][t].pc = "assign" =>
                            ~Preload /\ req'[p][t].val \in {Empty, DefaultBenchmark}
                       /\ req'[p][t].pc \in {"check", "run"} => module'[p] # Nil
                       /\ req'[p][t].pc \in WorkPcs => req'[p][t].bench = DefaultBenchmark
                  /\ p \notin SavedPods => req'[p][t].pc \notin WorkPcs \ {"respond"}
                  /\ req'[p][t].pc = "respond" => req'[p][t].val = req'[p][t].bench
                  /\ resp'[p][t].op = "work" /\ resp'[p][t].status = 200 =>
                       resp'[p][t].served = resp'[p][t].bench
<1>0. /\ phase[p] = "serving" /\ phase' = phase
      /\ \A u \in Threads \ {t} : req'[p][u] = req[p][u] /\ resp'[p][u] = resp[p][u]
  BY ThreadFrame
<1>1. /\ DefaultBenchmark # Nil /\ DefaultBenchmark # Empty /\ Empty # Nil
      /\ DefaultBenchmark \in Benchmarks /\ SavedPods \subseteq Pods
  BY SpecialsAssumption, DeploymentAssumption DEF Text
<1>2. ASSUME Own, module'[p] = module[p] PROVE ServePod(p)'
  BY <1>0, <1>2 DEF ServePod, SavedWork
<1>3. ASSUME NEW b \in Benchmarks, StartWork(p, t, b) PROVE ServePod(p)'
  <2>1. module' = module /\ resp'[p][t] = NoResp
    BY <1>3 DEF TypeOK, StartWork
  <2>2. p \in SavedPods => b = DefaultBenchmark
    BY <1>3 DEF StartWork, ServeAssumed, OnlyDefault
  <2>3. req'[p][t] = IF p \in SavedPods
                     THEN [pc |-> "ensure", bench |-> b, val |-> Nil]
                     ELSE [pc |-> "respond", bench |-> b, val |-> b]
    BY <1>3 DEF TypeOK, StartWork
  <2>4. QED BY <1>2, <2>1, <2>2, <2>3 DEF NoResp, WorkPcs
<1>4. ASSUME NEW b \in Benchmarks, StartPopulate(p, t, b) PROVE ServePod(p)'
  <2>1. module' = module /\ resp'[p][t] = NoResp /\ req'[p][t].pc = "truncate"
    BY <1>4 DEF TypeOK, StartPopulate
  <2>2. QED BY <1>2, <2>1 DEF NoResp, WorkPcs
<1>5. CASE EnsureCached(p, t)
  <2>1. /\ req[p][t].pc = "ensure" /\ module[p] # Nil /\ module' = module /\ resp' = resp
        /\ req'[p][t].pc = "run" /\ req'[p][t].bench = req[p][t].bench
    BY <1>5, ThreadMoves DEF EnsureCached, At
  <2>2. QED BY <1>2, <2>1 DEF ServePod, SavedWork, WorkPcs
<1>6. CASE EnsureLoad(p, t)
  <2>1. req[p][t].pc = "ensure" /\ module[p] = Nil /\ module' = module /\ p \in SavedPods
    BY <1>6 DEF EnsureLoad, At, ServePod, WorkPcs
  <2>2. ~Preload /\ DefaultOnly
    BY <1>0, <1>1, <2>1 DEF ServePod, SavedWork, ServeAssumed
  <2>3. PICK m \in LoadOutcomes(file[p]) :
          \/ m = Raise /\ Reply(p, t, WorkReply(p, t, 500))
          \/ m # Raise /\ Keep(p, t, m, "assign") /\ resp' = resp
    BY <1>6 DEF EnsureLoad
  <2>4. CASE m = Raise
    <3>1. req'[p][t].pc = "idle" /\ resp'[p][t].status = 500
      BY <2>3, <2>4, ThreadMoves DEF WorkReply
    <3>2. QED BY <1>2, <2>1, <3>1 DEF WorkPcs
  <2>5. CASE m # Raise
    <3>1. m \in {Empty, DefaultBenchmark}
      BY <2>2, <2>3, <2>5, DefaultLoads DEF DefaultTexts
    <3>2. /\ req'[p][t].pc = "assign" /\ req'[p][t].bench = req[p][t].bench
          /\ req'[p][t].val = m /\ resp' = resp
      BY <2>3, <2>5, ThreadMoves
    <3>3. QED BY <1>2, <2>1, <2>2, <3>1, <3>2 DEF ServePod, SavedWork, WorkPcs
  <2>6. QED BY <2>4, <2>5
<1>7. CASE EnsureAssign(p, t)
  <2>1. /\ req[p][t].pc = "assign" /\ p \in SavedPods /\ resp' = resp
        /\ module'[p] = req[p][t].val
        /\ req'[p][t].pc = "check" /\ req'[p][t].bench = req[p][t].bench
    BY <1>7, ThreadMoves DEF TypeOK, EnsureAssign, At, ServePod, WorkPcs
  <2>2. ~Preload /\ module'[p] \in {Empty, DefaultBenchmark}
    BY <2>1 DEF ServePod, SavedWork
  <2>3. QED BY <1>0, <1>1, <2>1, <2>2 DEF ServePod, SavedWork, WorkPcs
<1>8. CASE EnsureCheck(p, t)
  <2>1. req[p][t].pc = "check" /\ module' = module
    BY <1>8 DEF EnsureCheck, At
  <2>2. CASE Goto(p, t, "run") /\ resp' = resp
    <3>1. req'[p][t].pc = "run" /\ req'[p][t].bench = req[p][t].bench
      BY <2>2, ThreadMoves
    <3>2. QED BY <1>2, <2>1, <2>2, <3>1 DEF ServePod, SavedWork, WorkPcs
  <2>3. CASE Reply(p, t, WorkReply(p, t, 400))
    <3>1. req'[p][t].pc = "idle" /\ resp'[p][t].status = 400
      BY <2>3, ThreadMoves DEF WorkReply
    <3>2. QED BY <1>2, <2>1, <3>1 DEF WorkPcs
  <2>4. QED BY <1>8, <2>2, <2>3 DEF EnsureCheck
<1>9. CASE RunArtifact(p, t)
  <2>1. req[p][t].pc = "run" /\ module' = module /\ p \in SavedPods
    BY <1>9 DEF RunArtifact, At, ServePod, WorkPcs
  <2>2. CASE module[p] # Empty /\ Keep(p, t, module[p], "respond") /\ resp' = resp
    <3>1. module[p] = DefaultBenchmark /\ req[p][t].bench = DefaultBenchmark
      BY <2>1, <2>2 DEF ServePod, SavedWork, WorkPcs
    <3>2. /\ req'[p][t].pc = "respond" /\ req'[p][t].bench = req[p][t].bench
          /\ req'[p][t].val = module[p]
      BY <2>2, ThreadMoves
    <3>3. QED BY <1>2, <2>1, <2>2, <3>1, <3>2 DEF ServePod
  <2>3. CASE Reply(p, t, WorkReply(p, t, 500))
    <3>1. req'[p][t].pc = "idle" /\ resp'[p][t].status = 500
      BY <2>3, ThreadMoves DEF WorkReply
    <3>2. QED BY <1>2, <2>1, <3>1 DEF WorkPcs
  <2>4. QED BY <1>9, <2>2, <2>3 DEF RunArtifact
<1>10. CASE RespondWork(p, t)
  <2>1. /\ req[p][t].pc = "respond" /\ module' = module /\ req'[p][t].pc = "idle"
        /\ resp'[p][t] = WorkReply(p, t, 200)
    BY <1>10, ThreadMoves DEF RespondWork, At
  <2>2. QED BY <1>2, <2>1 DEF ServePod, WorkReply, WorkPcs
<1>11. CASE \/ Truncate(p, t) \/ WriteText(p, t) \/ PutRead(p, t) \/ PutSet(p, t)
  <2>1. /\ module' = module /\ resp' = resp
        /\ \/ \E pc \in PopulatePcs : Goto(p, t, pc)
           \/ \E val : Keep(p, t, val, "set")
    BY <1>11 DEF Truncate, WriteText, PutRead, PutSet, PopulatePcs, podVars
  <2>2. req'[p][t].pc \in PopulatePcs
    BY <2>1, ThreadMoves DEF PopulatePcs
  <2>3. QED BY <1>2, <2>1, <2>2 DEF ServePod, WorkPcs, PopulatePcs
<1>12. CASE PutSetFails(p, t) \/ RespondPopulate(p, t)
  <2>1. /\ module' = module
        /\ \E status, hash : Reply(p, t, PopulateReply(p, t, status, hash))
    BY <1>12 DEF PutSetFails, RespondPopulate
  <2>2. req'[p][t].pc = "idle" /\ resp'[p][t].op = "populate"
    BY <2>1, ThreadMoves DEF PopulateReply
  <2>3. QED BY <1>2, <2>1, <2>2 DEF WorkPcs
<1>13. QED
  BY <1>3, <1>4, <1>5, <1>6, <1>7, <1>8, <1>9, <1>10, <1>11, <1>12
     DEF ThreadStep, Request, Thread

\* Where only the default benchmark is populated, nothing else travels from a
\* pod's file to Redis and from there to another pod's file.
LEMMA DefaultPodStep ==
    ASSUME TypeOK, DefaultOnly, NEW p \in Pods, DefaultTexts(p), WholePod(p),
           store \in {Nil, DefaultBenchmark}, PodStep(p)
    PROVE  DefaultTexts(p)' /\ store' \in {Nil, DefaultBenchmark}
<1>1. CASE Entrypoint(p) \/ PullFails(p) \/ Kill(p)
  <2>1. store' = store
    BY <1>1 DEF Entrypoint, BootPlain, BootSaved, PullMissing, PullFound, PullWrite,
       PullMeta, PreloadArtifact, SkipPreload, PullFails, Kill
  <2>2. req' = req \/ \A t \in Threads : req'[p][t].pc = "idle"
    BY <1>1 DEF TypeOK, Entrypoint, BootPlain, BootSaved, PullMissing, PullFound, PullWrite,
       PullMeta, PreloadArtifact, SkipPreload, PullFails, Kill, Exit, IdleReq
  <2>3. fetched'[p] \in {Nil, fetched[p], store}
    BY <1>1 DEF TypeOK, Entrypoint, BootPlain, BootSaved, PullMissing, PullFound, PullWrite,
       PullMeta, PreloadArtifact, SkipPreload, PullFails, Kill, Exit
  <2>4. file'[p] \in {Nil, fetched[p], file[p]}
    BY <1>1 DEF TypeOK, Entrypoint, BootPlain, BootSaved, PullMissing, PullFound, PullWrite,
       PullMeta, PreloadArtifact, SkipPreload, PullFails, Kill
  <2>5. QED BY <2>1, <2>2, <2>3, <2>4 DEF DefaultTexts, PopulatePcs
<1>2. ASSUME NEW t \in Threads, ThreadStep(p, t)
      PROVE  DefaultTexts(p)' /\ store' \in {Nil, DefaultBenchmark}
  <2>0. /\ \A u \in Threads \ {t} : req'[p][u] = req[p][u]
        /\ PopulateSound(p, t) /\ ~Overlap
    BY <1>2, ThreadFrame DEF WholePod, DefaultOnly
  <2>1. ASSUME fetched' = fetched, file'[p] \in {Empty, DefaultBenchmark, file[p]},
               store' \in {DefaultBenchmark, store},
               req'[p][t].pc \in PopulatePcs => req'[p][t].bench = DefaultBenchmark
        PROVE  DefaultTexts(p)' /\ store' \in {Nil, DefaultBenchmark}
    BY <2>0, <2>1 DEF DefaultTexts
  <2>2. CASE \/ EnsureCached(p, t) \/ EnsureLoad(p, t) \/ EnsureAssign(p, t)
             \/ EnsureCheck(p, t) \/ RunArtifact(p, t) \/ RespondWork(p, t)
    <3>1. UNCHANGED <<store, fetched, file>>
      BY <2>2 DEF EnsureCached, EnsureLoad, EnsureAssign, EnsureCheck, RunArtifact,
         RespondWork, podVars
    <3>2. \/ \E val : \E pc \in WorkPcs : Goto(p, t, pc) \/ Keep(p, t, val, pc)
          \/ \E status : Reply(p, t, WorkReply(p, t, status))
      BY <2>2 DEF EnsureCached, EnsureLoad, EnsureAssign, EnsureCheck, RunArtifact,
         RespondWork, WorkPcs
    <3>3. req'[p][t].pc \notin PopulatePcs
      BY <3>2, ThreadMoves DEF WorkPcs, PopulatePcs
    <3>4. QED BY <2>1, <3>1, <3>3
  <2>3. CASE Request(p, t)
    <3>1. UNCHANGED <<store, fetched, file>>
      BY <2>3 DEF Request, StartWork, StartPopulate, podVars
    <3>2. req'[p][t].pc \in {"ensure", "respond"} \/ req'[p][t].bench = DefaultBenchmark
      <4>1. PICK b \in Benchmarks : StartWork(p, t, b) \/ StartPopulate(p, t, b)
        BY <2>3 DEF Request
      <4>2. CASE StartWork(p, t, b)
        BY <4>2 DEF TypeOK, StartWork
      <4>3. CASE StartPopulate(p, t, b)
        <5>1. b = DefaultBenchmark
          BY <4>3 DEF StartPopulate, DefaultOnly, OnlyDefault
        <5>2. QED BY <4>3, <5>1 DEF TypeOK, StartPopulate
      <4>4. QED BY <4>1, <4>2, <4>3
    <3>3. QED BY <2>1, <3>1, <3>2 DEF PopulatePcs
  <2>4. CASE Truncate(p, t)
    <3>1. /\ store' = store /\ fetched' = fetched /\ file'[p] = Empty
          /\ req[p][t].pc = "truncate" /\ req'[p][t].bench = req[p][t].bench
      BY <2>4, ThreadMoves DEF TypeOK, Truncate, At
    <3>2. QED BY <2>1, <3>1 DEF DefaultTexts, PopulatePcs
  <2>5. CASE WriteText(p, t)
    <3>1. req[p][t].pc = "write" /\ file[p] = Empty /\ req[p][t].bench = DefaultBenchmark
      BY <2>0, <2>5 DEF WriteText, At, PopulateSound, DefaultTexts, PopulatePcs
    <3>2. file' = [file EXCEPT ![p] = DefaultBenchmark]
      BY <2>5, <3>1 DEF WriteText
    <3>3. /\ store' = store /\ fetched' = fetched /\ Goto(p, t, "read")
      BY <2>5 DEF WriteText
    <3>4. req'[p][t].bench = DefaultBenchmark
      BY <3>1, <3>3, ThreadMoves
    <3>5. file'[p] = DefaultBenchmark
      BY <3>2 DEF TypeOK
    <3>6. QED BY <2>1, <3>3, <3>4, <3>5
  <2>6. CASE PutRead(p, t)
    <3>1. /\ UNCHANGED <<store, fetched, file>>
          /\ req[p][t].pc = "read" /\ req'[p][t].bench = req[p][t].bench
      BY <2>6, ThreadMoves DEF PutRead, At, podVars
    <3>2. QED BY <2>1, <3>1 DEF DefaultTexts, PopulatePcs
  <2>7. CASE PutSet(p, t) \/ PutSetFails(p, t)
    <3>1. req[p][t].pc = "set" /\ UNCHANGED <<fetched, file>>
      BY <2>7 DEF PutSet, PutSetFails, At, podVars
    <3>2. req[p][t].bench = DefaultBenchmark /\ req[p][t].val = DefaultBenchmark
      BY <2>0, <3>1 DEF PopulateSound, DefaultTexts, PopulatePcs
    <3>3. store' \in {req[p][t].val, store}
      BY <2>7 DEF PutSet, PutSetFails
    <3>4. \/ Goto(p, t, "hash")
          \/ \E r : Reply(p, t, r)
      BY <2>7 DEF PutSet, PutSetFails
    <3>5. req'[p][t].pc = "idle" \/ req'[p][t].bench = DefaultBenchmark
      BY <3>2, <3>4, ThreadMoves
    <3>6. QED BY <2>1, <3>1, <3>2, <3>3, <3>5 DEF PopulatePcs
  <2>8. CASE RespondPopulate(p, t)
    <3>1. UNCHANGED <<store, fetched, file>> /\ req'[p][t].pc = "idle"
      BY <2>8, ThreadMoves DEF RespondPopulate, podVars
    <3>2. QED BY <2>1, <3>1 DEF PopulatePcs
  <2>9. QED
    BY <1>2, <2>2, <2>3, <2>4, <2>5, <2>6, <2>7, <2>8 DEF ThreadStep, Thread
<1>3. QED BY <1>1, <1>2 DEF PodStep

LEMMA DefaultInvariant == Spec => []DefaultInv
<1>1. Init => DefaultInv
  BY DEF Init, DefaultInv, DefaultTexts, PopulatePcs, IdleReq
<1>2. TypeOK /\ WholeInv /\ DefaultInv /\ [Next]_vars => DefaultInv'
  <2> SUFFICES ASSUME TypeOK, WholeInv, DefaultInv, [Next]_vars, DefaultOnly
               PROVE  /\ store' \in {Nil, DefaultBenchmark}
                      /\ \A q \in Pods : DefaultTexts(q)'
    BY DEF DefaultInv
  <2>1. /\ store \in {Nil, DefaultBenchmark}
        /\ \A q \in Pods : DefaultTexts(q) /\ WholePod(q)
    BY DEF DefaultInv, WholeInv, DefaultOnly
  <2>2. CASE UNCHANGED vars \/ RedisRestart
    BY <2>1, <2>2 DEF DefaultTexts, vars, podVars, RedisRestart
  <2>3. ASSUME NEW p \in Pods, PodStep(p)
        PROVE  /\ store' \in {Nil, DefaultBenchmark}
               /\ \A q \in Pods : DefaultTexts(q)'
    <3>1. DefaultTexts(p)' /\ store' \in {Nil, DefaultBenchmark}
      BY <2>1, <2>3, DefaultPodStep
    <3>2. ASSUME NEW q \in Pods, q # p PROVE DefaultTexts(q)'
      BY <2>1, <2>3, <3>2, PodFrame DEF DefaultTexts
    <3>3. QED BY <3>1, <3>2
  <2>4. QED BY <2>2, <2>3 DEF Next, PodStep, ThreadStep
<1>3. QED BY <1>1, <1>2, TypeCorrect, WholeInvariant, PTL DEF Spec

\* A 200 of /work computed the requested benchmark, in a deployment that asks
\* saved pods for its own benchmark only, and either preloads or has that
\* benchmark alone populated, one populate of a pod at a time.
THEOREM ServedSound == Spec => []ServedAsRequested
<1>1. Init => ServeInv
  <2>1. ASSUME Init, NEW p \in Pods PROVE ServePod(p)
    <3>1. /\ phase[p] = "down" /\ module[p] = Nil
          /\ \A t \in Threads : req[p][t].pc = "idle" /\ resp[p][t] = NoResp
      BY <2>1 DEF Init, IdleReq
    <3>2. QED BY <3>1 DEF ServePod, SavedWork, WorkPcs, NoResp
  <2>2. QED BY <2>1 DEF ServeInv
<1>2. TypeOK /\ HolderInv /\ DefaultInv /\ ServeInv /\ [Next]_vars => ServeInv'
  <2> SUFFICES ASSUME TypeOK, HolderInv, DefaultInv, ServeInv, [Next]_vars, ServeAssumed,
                      NEW q \in Pods
               PROVE  ServePod(q)'
    BY DEF ServeInv
  <2>1. ServePod(q) /\ HolderPod(q) /\ (DefaultOnly => DefaultTexts(q))
    BY DEF ServeInv, HolderInv, DefaultInv
  <2>2. CASE UNCHANGED vars \/ RedisRestart
    BY <2>1, <2>2 DEF ServePod, SavedWork, vars, podVars, RedisRestart
  <2>3. CASE PodStep(q)
    BY <2>1, <2>3, EntrypointServe, ThreadServe DEF PodStep
  <2>4. ASSUME NEW p \in Pods, p # q, PodStep(p) PROVE ServePod(q)'
    BY <2>1, <2>4, PodFrame DEF ServePod, SavedWork
  <2>5. QED BY <2>2, <2>3, <2>4 DEF Next, PodStep, ThreadStep
<1>3. ServeInv => ServedAsRequested
  BY DEF ServeInv, ServePod, ServeAssumed, DefaultOnly, ServedAsRequested
<1>4. QED
  BY <1>1, <1>2, <1>3, TypeCorrect, HolderInvariant, DefaultInvariant, PTL DEF Spec

------------------------------------------------------------------------------
(* The pods of a deployment that requires and preloads its artifact, and      *)
(* serialises populates, implement ArtifactCache.                             *)

\* Container steps: a preload loads a published artifact, an exit unloads it.
LEMMA EntrypointRefines ==
    ASSUME TypeOK, Require, Preload, published \subseteq Benchmarks,
           NEW p \in Pods, HolderPod(p), p \in SavedPods => PodImport(p),
           Entrypoint(p) \/ PullFails(p) \/ Kill(p)
    PROVE  [Cache!Next]_(Cache!cacheVars)
<1>1. published' = published
  BY DEF Entrypoint, BootPlain, BootSaved, PullMissing, PullFound,
     PullWrite, PullMeta, PreloadArtifact, SkipPreload, PullFails, Kill
<1>2. CASE Exit(p)
  <2>1. Cache!Unload(p)
    BY <1>1, <1>2 DEF Exit, Cache!Unload
  <2>2. QED BY <2>1 DEF Cache!Next
<1>3. CASE PreloadArtifact(p) /\ ~Exit(p)
  <2>1. /\ phase[p] = "preload" /\ DefaultBenchmark \in LoadOutcomes(file[p])
        /\ module' = [module EXCEPT ![p] = DefaultBenchmark]
    BY <1>3 DEF PreloadArtifact
  <2>2. file[p] \in Benchmarks /\ file[p] \in published /\ module[p] = Nil
    BY <2>1 DEF HolderPod, PodImport
  <2>3. DefaultBenchmark = file[p]
    BY <2>1, <2>2, SpecialsAssumption DEF LoadOutcomes, Text
  <2>4. DefaultBenchmark \in Text
    BY DeploymentAssumption DEF Text
  <2>5. Cache!Load(p, DefaultBenchmark)
    BY <1>1, <2>1, <2>2, <2>3 DEF Cache!Load
  <2>6. QED BY <2>4, <2>5 DEF Cache!Next
<1>4. CASE ~Exit(p) /\ ~PreloadArtifact(p)
  <2>1. module' = module
    BY <1>4 DEF Entrypoint, BootPlain, BootSaved, PullMissing, PullFound,
       PullWrite, PullMeta, SkipPreload, PullFails, Kill
  <2>2. QED BY <1>1, <2>1 DEF Cache!cacheVars
<1>5. QED BY <1>2, <1>3, <1>4

\* Thread steps: a SET publishes, and nothing else is visible.
LEMMA ThreadRefines ==
    ASSUME TypeOK, Require, Preload, ~Overlap, NEW p \in Pods, NEW t \in Threads,
           HolderPod(p), WholePod(p), p \in SavedPods => PodImport(p),
           ThreadStep(p, t)
    PROVE  [Cache!Next]_(Cache!cacheVars)
<1>1. ~EnsureAssign(p, t)
  BY DEF EnsureAssign, At, HolderPod, PodImport
<1>2. module' = module
  BY <1>1 DEF ThreadStep, Request, StartWork, StartPopulate, Thread, EnsureCached, EnsureLoad,
     EnsureCheck, RunArtifact, RespondWork, Truncate, WriteText, PutRead, PutSet,
     RespondPopulate, PutSetFails
<1>3. CASE published' = published
  BY <1>2, <1>3 DEF Cache!cacheVars
<1>4. CASE published' # published
  <2>1. PutSet(p, t) \/ PutSetFails(p, t)
    BY <1>4 DEF ThreadStep, Request, StartWork, StartPopulate, Thread, EnsureCached,
       EnsureLoad, EnsureAssign, EnsureCheck, RunArtifact, RespondWork, Truncate, WriteText,
       PutRead, RespondPopulate
  <2>2. req[p][t].pc = "set" /\ published' = published \cup {req[p][t].val}
    BY <1>4, <2>1 DEF PutSet, PutSetFails, At
  <2>3. req[p][t].val = req[p][t].bench
    BY <2>2 DEF WholePod, PopulateSound
  <2>4. req[p][t].val \in Text
    BY <2>3 DEF TypeOK, Req, Text
  <2>5. Cache!Publish(req[p][t].val)
    BY <1>2, <2>2 DEF Cache!Publish
  <2>6. QED BY <2>4, <2>5 DEF Cache!Next
<1>5. QED BY <1>3, <1>4

\* The module of a pod is loaded only after it was published, is kept, and is
\* lost only with the container.
THEOREM PodsImplementCache ==
    ASSUME Require, Preload, ~Overlap
    PROVE  Spec => ImplementsArtifactCache
<1>1. Init => Cache!Init
  BY DEF Init, Cache!Init
<1>2. TypeOK /\ ImportInv /\ WholeInv /\ HolderInv /\ [Next]_vars
      => [Cache!Next]_(Cache!cacheVars)
  <2> SUFFICES ASSUME TypeOK, ImportInv, WholeInv, HolderInv, [Next]_vars
               PROVE  [Cache!Next]_(Cache!cacheVars)
    OBVIOUS
  <2>1. CASE UNCHANGED vars \/ RedisRestart
    BY <2>1 DEF vars, RedisRestart, Cache!cacheVars
  <2>2. ASSUME NEW p \in Pods, PodStep(p) PROVE [Cache!Next]_(Cache!cacheVars)
    <3>1. /\ HolderPod(p) /\ WholePod(p) /\ published \subseteq Benchmarks
          /\ p \in SavedPods => PodImport(p)
      BY DEF HolderInv, WholeInv, ImportInv
    <3>2. QED BY <2>2, <3>1, EntrypointRefines, ThreadRefines DEF PodStep
  <2>3. QED BY <2>1, <2>2 DEF Next, PodStep, ThreadStep
<1>3. QED
  BY <1>1, <1>2, TypeCorrect, ImportInvariant, WholeInvariant, HolderInvariant, PTL
     DEF Spec, ImplementsArtifactCache, Cache!Spec

\* What the abstract cache promises: whatever a pod works from was published.
LEMMA CacheSound ==
    Cache!Spec => [](Cache!ArtifactCacheTypeOK /\ Cache!WorksFromPublished)
<1> DEFINE CacheInv == Cache!ArtifactCacheTypeOK /\ Cache!WorksFromPublished
<1>1. Cache!Init => CacheInv
  BY DEF Cache!Init, Cache!ArtifactCacheTypeOK, Cache!WorksFromPublished
<1>2. CacheInv /\ [Cache!Next]_(Cache!cacheVars) => CacheInv'
  <2> SUFFICES ASSUME Cache!ArtifactCacheTypeOK, Cache!WorksFromPublished,
                      [Cache!Next]_(Cache!cacheVars)
               PROVE  Cache!ArtifactCacheTypeOK' /\ Cache!WorksFromPublished'
    OBVIOUS
  <2>1. ASSUME NEW a \in Text, Cache!Publish(a)
        PROVE  Cache!ArtifactCacheTypeOK' /\ Cache!WorksFromPublished'
    BY <2>1 DEF Cache!Publish, Cache!ArtifactCacheTypeOK, Cache!WorksFromPublished
  <2>2. ASSUME NEW p \in Pods, NEW a \in Text, Cache!Load(p, a)
        PROVE  Cache!ArtifactCacheTypeOK' /\ Cache!WorksFromPublished'
    BY <2>2 DEF Cache!Load, Cache!ArtifactCacheTypeOK, Cache!WorksFromPublished
  <2>3. ASSUME NEW p \in Pods, Cache!Unload(p)
        PROVE  Cache!ArtifactCacheTypeOK' /\ Cache!WorksFromPublished'
    BY <2>3 DEF Cache!Unload, Cache!ArtifactCacheTypeOK, Cache!WorksFromPublished
  <2>4. CASE UNCHANGED Cache!cacheVars
    BY <2>4 DEF Cache!cacheVars, Cache!ArtifactCacheTypeOK, Cache!WorksFromPublished
  <2> QED BY <2>1, <2>2, <2>3, <2>4 DEF Cache!Next
<1> QED BY <1>1, <1>2, PTL DEF Cache!Spec

\* The pods of such a deployment inherit it: the module of a pod, saved or
\* populating, is an artifact that a SET has stored before.
COROLLARY ModulesWerePublished ==
    ASSUME Require, Preload, ~Overlap
    PROVE  Spec => []Cache!WorksFromPublished
BY CacheSound, PodsImplementCache, PTL DEF ImplementsArtifactCache
==============================================================================

------------------------- MODULE V8CacheServerProofs -------------------------
(***************************************************************************)
(* The Node servers for any number of pods, concurrent requests, sources   *)
(* and faults.  ServerInv is the inductive invariant: ReqOK says what a    *)
(* request knows of Redis at each await, CacheOK ties the two globals      *)
(* together, CountOK counts the requests that may still be the first.      *)
(***************************************************************************)
EXTENDS V8Artifacts, TLAPS

\* A request, given what Redis holds and its pod's settings.
ReqOK(q, held, mode, require) ==
    /\ q.sure => held # Nil
    /\ q.pc \in {"get", "run"} => q.op = "work"
    /\ q.pc = "get" /\ q.reply = "sent" /\ q.sure => q.artifact # Nil
    /\ q.pc = "run" => q.found = (q.artifact # Nil) /\ (q.sure => q.artifact # Nil)
    /\ q.pc = "set" => q.op = "populate" /\ q.artifact # Nil
    /\ q.answer = "missing" => ~q.sure
    /\ q.pc # "idle" => q.answer = "none" /\ ~q.first
    /\ q.op = "work" /\ q.answer = "ok" =>
           /\ q.found = (q.artifact # Nil)
           /\ mode = "redis" /\ require => q.found

\* loadArtifact's globals, as a pair.
CacheOK(p) == cached[p] # Nil => meta[p] = "found"

\* A work request that runs, or that was the first, has been counted.
Counted(q) == q.first \/ (q.op = "work" /\ q.pc # "idle")

CountOK(p) ==
    /\ \A r \in Slots : Counted(req[p][r]) => count[p] >= 1
    /\ \A r, t \in Slots :
           r # t /\ Counted(req[p][r]) /\ Counted(req[p][t]) => count[p] >= 2
    /\ \A r, t \in Slots : r # t => ~(req[p][r].first /\ req[p][t].first)

ReqInv == \A p \in Pods, r \in Slots : ReqOK(req[p][r], store, Mode[p], Require[p])

PodInv == \A p \in Pods : CacheOK(p) /\ CountOK(p)

ServerInv == TypeOK /\ ReqInv /\ PodInv

------------------------------------------------------------------------------
LEMMA NoReqOK ==
    ASSUME NEW held, NEW mode, NEW require
    PROVE  NoReq \in Req /\ ReqOK(NoReq, held, mode, require) /\ ~Counted(NoReq)
BY DEF NoReq, Req, Artifacts, ReqOK, Counted

LEMMA FirstCounted ==
    ASSUME NEW q \in Req, q.first
    PROVE  Counted(q)
<1>1. q.first = TRUE
  BY DEF Req
<1> QED BY <1>1 DEF Counted

\* What a typed state gives.
LEMMA Types ==
    ASSUME ServerInv, NEW p \in Pods, NEW r \in Slots
    PROVE  /\ req[p][r] \in Req /\ ReqOK(req[p][r], store, Mode[p], Require[p])
           /\ CacheOK(p) /\ CountOK(p)
           /\ count[p] \in Nat /\ cached[p] \in Artifacts /\ store \in Artifacts
           /\ late \in SUBSET Sources /\ faults + 1 \in Nat
           /\ cached \in [Pods -> Artifacts] /\ count \in [Pods -> Nat]
           /\ meta \in [Pods -> {"none", "missing", "found"}]
           /\ req \in [Pods -> [Slots -> Req]] /\ faults \in Nat
BY DEF ServerInv, TypeOK, ReqInv, PodInv

\* A request moves to q without being counted anew; what Redis holds may be
\* replaced, never lost.
LEMMA MoveStep ==
    ASSUME ServerInv, NEW p \in Pods, NEW r \in Slots, NEW q \in Req, Keep(p, r, q),
           UNCHANGED <<count, faults>>,
           store' \in Artifacts, store # Nil => store' # Nil,
           late' \in SUBSET Sources,
           cached' \in [Pods -> Artifacts],
           meta' \in [Pods -> {"none", "missing", "found"}],
           \A o \in Pods : cached'[o] # Nil => meta'[o] = "found",
           ReqOK(q, store', Mode[p], Require[p]),
           Counted(q) => Counted(req[p][r]),
           q.first => req[p][r].first \/ count[p] = 1
    PROVE  ServerInv'
<1>1. /\ req \in [Pods -> [Slots -> Req]] /\ count \in [Pods -> Nat] /\ faults \in Nat
      /\ CountOK(p)
  BY Types
<1>2. /\ req' \in [Pods -> [Slots -> Req]] /\ req'[p][r] = q
      /\ \A o \in Pods, t \in Slots : ~(o = p /\ t = r) => req'[o][t] = req[o][t]
  BY <1>1 DEF Keep
<1>3. TypeOK'
  BY <1>1, <1>2 DEF TypeOK
<1>4. ReqInv'
  <2> SUFFICES ASSUME NEW o \in Pods, NEW t \in Slots
               PROVE  ReqOK(req'[o][t], store', Mode[o], Require[o])
    BY DEF ReqInv
  <2>1. CASE o = p /\ t = r
    BY <1>2, <2>1
  <2>2. CASE ~(o = p /\ t = r)
    BY <1>2, <2>2, Types DEF ReqOK
  <2> QED BY <2>1, <2>2
<1>5. ASSUME NEW o \in Pods
      PROVE  CountOK(o)'
  <2>1. CASE o # p
    <3>1. CountOK(o)
      BY DEF ServerInv, PodInv
    <3>2. req'[o] = req[o]
      BY <1>1, <2>1 DEF Keep
    <3> QED BY <3>1, <3>2 DEF CountOK
  <2>2. CASE o = p
    <3>1. \A t \in Slots : Counted(req'[p][t]) => Counted(req[p][t])
      BY <1>2
    <3>2. \A t, u \in Slots : t # u => ~(req'[p][t].first /\ req'[p][u].first)
      <4> SUFFICES ASSUME NEW u \in Slots, u # r, q.first, req[p][u].first
                   PROVE  FALSE
        BY <1>1, <1>2 DEF CountOK
      <4>1. Counted(req[p][r]) /\ Counted(req[p][u])
        <5>1. Counted(q) /\ Counted(req[p][u])
          BY <1>1, FirstCounted
        <5> QED BY <5>1
      <4>2. count[p] = 1
        BY <1>1 DEF CountOK
      <4> QED BY <1>1, <4>1, <4>2 DEF CountOK
    <3> QED BY <1>1, <2>2, <3>1, <3>2 DEF CountOK
  <2> QED BY <2>1, <2>2
<1>6. PodInv'
  BY <1>5 DEF PodInv, CacheOK
<1> QED BY <1>3, <1>4, <1>6 DEF ServerInv

LEMMA WorkStep ==
    ASSUME ServerInv, NEW p \in Pods, NEW r \in Slots, StartWork(p, r)
    PROVE  ServerInv'
<1> DEFINE q == [NoReq EXCEPT !.op = "work", !.sure = store # Nil]
           a == IF Mode[p] # "redis" THEN Work(q, Nil, FALSE, count[p] + 1)
                ELSE IF Cached(p)
                THEN [q EXCEPT !.pc = "run", !.artifact = cached[p],
                               !.found = meta[p] = "found"]
                ELSE [q EXCEPT !.pc = "get"]
<1>1. /\ count[p] \in Nat /\ cached[p] \in Artifacts /\ CacheOK(p) /\ CountOK(p)
      /\ req \in [Pods -> [Slots -> Req]] /\ count \in [Pods -> Nat]
  BY Types
<1>2. /\ req[p][r].pc = "idle" /\ count' = [count EXCEPT ![p] = @ + 1]
      /\ Keep(p, r, a) /\ UNCHANGED <<store, late, cached, meta, faults>>
  BY DEF StartWork
<1>3. q \in Req
  BY DEF NoReq, Req, Artifacts
<1>4. a \in Req /\ ReqOK(a, store, Mode[p], Require[p]) /\ (a.first => count[p] = 0)
  <2>1. CASE Mode[p] # "redis"
    <3>1. a = Work(q, Nil, FALSE, count[p] + 1)
      BY <2>1
    <3>2. count[p] + 1 = 1 <=> count[p] = 0
      BY <1>1
    <3> QED BY <2>1, <3>1, <3>2 DEF Work, NoReq, Req, Artifacts, ReqOK
  <2>2. CASE Mode[p] = "redis" /\ Cached(p)
    BY <1>1, <2>2 DEF Cached, CacheOK, NoReq, Req, Artifacts, ReqOK
  <2>3. CASE Mode[p] = "redis" /\ ~Cached(p)
    BY <2>3 DEF NoReq, Req, Artifacts, ReqOK
  <2> QED BY <2>1, <2>2, <2>3
<1> HIDE DEF a
<1>5. /\ req' \in [Pods -> [Slots -> Req]] /\ req'[p][r] = a
      /\ count' \in [Pods -> Nat] /\ count'[p] = count[p] + 1
      /\ \A o \in Pods, t \in Slots : ~(o = p /\ t = r) => req'[o][t] = req[o][t]
      /\ \A o \in Pods \ {p} : count'[o] = count[o] /\ req'[o] = req[o]
  BY <1>1, <1>2, <1>4 DEF Keep
<1>6. TypeOK'
  BY <1>2, <1>5 DEF ServerInv, TypeOK
<1>7. ReqInv'
  <2> SUFFICES ASSUME NEW o \in Pods, NEW t \in Slots
               PROVE  ReqOK(req'[o][t], store, Mode[o], Require[o])
    BY <1>2 DEF ReqInv
  <2>1. CASE o = p /\ t = r
    BY <1>4, <1>5, <2>1
  <2>2. CASE ~(o = p /\ t = r)
    BY <1>5, <2>2, Types
  <2> QED BY <2>1, <2>2
<1>8. CountOK(p)'
  <2>1. \A t \in Slots : t # r /\ Counted(req'[p][t]) => count[p] >= 1
    BY <1>1, <1>5 DEF CountOK
  <2>2. \A t \in Slots : t # r /\ req'[p][t].first => ~a.first
    <3>1. \A t \in Slots : req'[p][t].first => Counted(req'[p][t])
      BY <1>5, FirstCounted
    <3>2. count[p] >= 1 => count[p] # 0
      BY <1>1
    <3> QED BY <1>4, <2>1, <3>1, <3>2
  <2>3. \A t, u \in Slots : t # u => ~(req'[p][t].first /\ req'[p][u].first)
    BY <1>1, <1>5, <2>2 DEF CountOK
  <2>4. \A t \in Slots : Counted(req'[p][t]) => count'[p] >= 1
    BY <1>1, <1>5
  <2>5. \A t, u \in Slots :
            t # u /\ Counted(req'[p][t]) /\ Counted(req'[p][u]) => count'[p] >= 2
    BY <1>1, <1>5, <2>1
  <2> QED BY <2>3, <2>4, <2>5 DEF CountOK
<1>9. \A o \in Pods \ {p} : CountOK(o)'
  BY <1>5 DEF ServerInv, PodInv, CountOK
<1>10. PodInv'
  BY <1>2, <1>8, <1>9 DEF ServerInv, PodInv, CacheOK
<1> QED BY <1>6, <1>7, <1>10 DEF ServerInv

\* The steps of one request after its first await.
LEMMA RequestStep ==
    ASSUME ServerInv, NEW p \in Pods, NEW r \in Slots,
           \/ Callback(p, r) \/ RedisGet(p, r) \/ RedisSet(p, r) \/ Closed(p, r)
           \/ \E s \in Sources : StartPopulate(p, r, s)
    PROVE  ServerInv'
<1> DEFINE q == req[p][r]
<1>1. /\ q \in Req /\ ReqOK(q, store, Mode[p], Require[p])
      /\ count[p] \in Nat /\ cached[p] \in Artifacts /\ store \in Artifacts
      /\ late \in SUBSET Sources /\ faults \in Nat
      /\ cached \in [Pods -> Artifacts] /\ count \in [Pods -> Nat]
      /\ meta \in [Pods -> {"none", "missing", "found"}]
  BY Types
<1>2. \A o \in Pods : cached[o] # Nil => meta[o] = "found"
  BY DEF ServerInv, PodInv, CacheOK
<1>3. CASE LoadReply(p, r)
  <2> DEFINE a == [q EXCEPT !.pc = "run", !.found = q.artifact # Nil]
  <2>1. /\ q.pc = "get" /\ q.reply = "sent" /\ Keep(p, r, a)
        /\ cached' = [cached EXCEPT ![p] = q.artifact]
        /\ meta' = [meta EXCEPT ![p] = IF q.artifact = Nil THEN "missing" ELSE "found"]
        /\ UNCHANGED <<store, late, count, faults>>
    BY <1>3 DEF LoadReply
  <2>2. a \in Req /\ ReqOK(a, store, Mode[p], Require[p])
    BY <1>1, <2>1 DEF Req, ReqOK
  <2>3. Counted(a) => Counted(q)
    BY <1>1, <2>1 DEF Counted, Req
  <2>4. /\ cached' \in [Pods -> Artifacts]
        /\ meta' \in [Pods -> {"none", "missing", "found"}]
        /\ \A o \in Pods : cached'[o] # Nil => meta'[o] = "found"
    BY <1>1, <1>2, <2>1 DEF Req
  <2>5. a.first => q.first
    BY <1>1 DEF Req
  <2> QED BY <1>1, <2>1, <2>2, <2>3, <2>4, <2>5, MoveStep
<1>4. CASE PopulateReply(p, r)
  <2> DEFINE a == [NoReq EXCEPT !.op = "populate", !.answer = "ok"]
  <2>1. /\ q.pc = "set" /\ Keep(p, r, a)
        /\ cached' = [cached EXCEPT ![p] = q.artifact]
        /\ meta' = [meta EXCEPT ![p] = "found"]
        /\ UNCHANGED <<store, late, count, faults>>
    BY <1>4 DEF PopulateReply
  <2>2. a \in Req /\ ReqOK(a, store, Mode[p], Require[p]) /\ ~Counted(a) /\ ~a.first
    BY DEF NoReq, Req, Artifacts, ReqOK, Counted
  <2>3. /\ cached' \in [Pods -> Artifacts]
        /\ meta' \in [Pods -> {"none", "missing", "found"}]
        /\ \A o \in Pods : cached'[o] # Nil => meta'[o] = "found"
    BY <1>1, <1>2, <2>1 DEF Req
  <2> QED BY <1>1, <2>1, <2>2, <2>3, MoveStep
<1>5. CASE Run(p, r)
  <2>1. q.pc = "run" /\ UNCHANGED <<store, late, count, cached, meta, faults>>
    BY <1>5 DEF Run
  <2>2. q.op = "work" /\ q.found = (q.artifact # Nil) /\ ~q.first /\ q.answer = "none"
        /\ (q.sure => q.artifact # Nil) /\ (q.sure => store # Nil)
    BY <1>1, <2>1 DEF ReqOK
  <2>3. Counted(q)
    BY <2>1, <2>2 DEF Counted
  <2>4. CASE q.artifact = Nil /\ Require[p]
    <3> DEFINE a == [q EXCEPT !.pc = "idle", !.reply = "none", !.answer = "missing"]
    <3>1. Keep(p, r, a)
      BY <1>5, <2>4 DEF Run
    <3>2. a \in Req /\ ReqOK(a, store, Mode[p], Require[p])
      BY <1>1, <2>2, <2>4 DEF Req, ReqOK
    <3>3. ~a.first
      BY <1>1, <2>2 DEF Req
    <3> QED BY <1>1, <1>2, <2>1, <2>3, <3>1, <3>2, <3>3, MoveStep
  <2>5. CASE ~(q.artifact = Nil /\ Require[p])
    <3> DEFINE a == Work(q, q.artifact, q.found, count[p])
    <3>1. Keep(p, r, a)
      BY <1>5, <2>5 DEF Run
    <3>2. a \in Req /\ ReqOK(a, store, Mode[p], Require[p])
      BY <1>1, <2>2, <2>5 DEF Work, Req, ReqOK
    <3>3. a.first => count[p] = 1
      BY <1>1 DEF Work, Req
    <3> QED BY <1>1, <1>2, <2>1, <2>3, <3>1, <3>2, <3>3, MoveStep
  <2> QED BY <2>4, <2>5
<1>6. CASE Fails(p, r)
  <2> DEFINE a == [NoReq EXCEPT !.op = q.op, !.answer = "failed"]
  <2>1. /\ Keep(p, r, a) /\ late' \in {late, late \union Unexecuted(p, {r})}
        /\ UNCHANGED <<store, count, cached, meta, faults>>
    BY <1>6 DEF Fails
  <2>2. a \in Req /\ ReqOK(a, store, Mode[p], Require[p]) /\ ~Counted(a) /\ ~a.first
    <3>1. q.op \in {"none", "work", "populate"}
      BY <1>1 DEF Req
    <3> QED BY <3>1 DEF NoReq, Req, Artifacts, ReqOK, Counted
  <2>3. Unexecuted(p, {r}) \subseteq Sources
    BY <1>1 DEF Unexecuted, ReqOK, Req, Artifacts
  <2> QED BY <1>1, <1>2, <2>1, <2>2, <2>3, MoveStep
<1>7. ASSUME NEW a \in Req, Keep(p, r, a), ReqOK(a, store', Mode[p], Require[p]),
             store' \in Artifacts, store # Nil => store' # Nil,
             Counted(a) => Counted(q), a.first => q.first,
             UNCHANGED <<late, count, cached, meta, faults>>
      PROVE  ServerInv'
  BY <1>1, <1>2, <1>7, MoveStep
<1>8. CASE RedisGet(p, r)
  <2> DEFINE a == [q EXCEPT !.reply = "sent", !.artifact = store]
  <2>1. /\ q.pc = "get" /\ Keep(p, r, a)
        /\ UNCHANGED <<store, late, count, cached, meta, faults>>
    BY <1>8 DEF RedisGet
  <2>2. a \in Req /\ ReqOK(a, store, Mode[p], Require[p])
    BY <1>1, <2>1 DEF Req, ReqOK
  <2>3. (Counted(a) => Counted(q)) /\ (a.first => q.first)
    BY <1>1 DEF Req, Counted
  <2> QED BY <1>1, <1>7, <2>1, <2>2, <2>3
<1>9. CASE RedisSet(p, r)
  <2> DEFINE a == [q EXCEPT !.reply = "sent"]
  <2>1. /\ q.pc = "set" /\ Keep(p, r, a) /\ store' = q.artifact
        /\ UNCHANGED <<late, count, cached, meta, faults>>
    BY <1>9 DEF RedisSet
  <2>2. store' \in Artifacts /\ store' # Nil
    BY <1>1, <2>1 DEF Req, ReqOK
  <2>3. a \in Req /\ ReqOK(a, store', Mode[p], Require[p])
    BY <1>1, <2>1, <2>2 DEF Req, ReqOK
  <2>4. (Counted(a) => Counted(q)) /\ (a.first => q.first)
    BY <1>1 DEF Req, Counted
  <2> QED BY <1>1, <1>7, <2>1, <2>2, <2>3, <2>4
<1>10. CASE Closed(p, r)
  <2> DEFINE a == [q EXCEPT !.pc = "closed"]
  <2>1. /\ q.pc \in {"get", "set"} /\ Keep(p, r, a)
        /\ UNCHANGED <<store, late, count, cached, meta, faults>>
    BY <1>10 DEF Closed, Waiting
  <2>2. a \in Req /\ ReqOK(a, store, Mode[p], Require[p])
    BY <1>1, <2>1 DEF Req, ReqOK
  <2>3. (Counted(a) => Counted(q)) /\ (a.first => q.first)
    BY <1>1, <2>1 DEF Req, Counted
  <2> QED BY <1>1, <1>7, <2>1, <2>2, <2>3
<1>11. ASSUME NEW s \in Sources, StartPopulate(p, r, s)
       PROVE  ServerInv'
  <2> DEFINE a == [NoReq EXCEPT !.pc = "set", !.op = "populate", !.artifact = s]
  <2>1. Keep(p, r, a) /\ UNCHANGED <<store, late, count, cached, meta, faults>>
    BY <1>11 DEF StartPopulate
  <2>2. a \in Req /\ ReqOK(a, store, Mode[p], Require[p]) /\ ~Counted(a) /\ ~a.first
    BY ServerAssumption DEF NoReq, Req, Artifacts, ReqOK, Counted
  <2> QED BY <1>1, <1>7, <2>1, <2>2
<1> QED BY <1>3, <1>4, <1>5, <1>6, <1>8, <1>9, <1>10, <1>11 DEF Callback

\* Redis restarts, a process dies, a SET is executed late.
LEMMA FaultStep ==
    ASSUME ServerInv, RedisRestart \/ LateSet \/ \E p \in Pods : Kill(p)
    PROVE  ServerInv'
<1>0. TypeOK /\ ReqInv /\ PodInv /\ faults + 1 \in Nat
  BY DEF ServerInv, TypeOK
<1>1. CASE RedisRestart
  <2>1. /\ store' = Nil /\ late' = {} /\ faults' = faults + 1
        /\ UNCHANGED <<count, cached, meta>>
    BY <1>1 DEF RedisRestart
  <2>2. ASSUME NEW p \in Pods, NEW r \in Slots
        PROVE  /\ req'[p][r] \in Req /\ ReqOK(req'[p][r], store', Mode[p], Require[p])
               /\ Counted(req'[p][r]) => Counted(req[p][r])
               /\ req'[p][r].first = req[p][r].first
    <3> DEFINE q == req[p][r]
               reply == IF Waiting(p, r) /\ q.reply = "none" THEN "cut" ELSE q.reply
    <3>1. req'[p][r] = [q EXCEPT !.sure = FALSE, !.reply = reply]
      BY <1>1 DEF RedisRestart
    <3>2. q \in Req /\ ReqOK(q, store, Mode[p], Require[p])
      BY <1>0 DEF TypeOK, ReqInv
    <3>3. reply \in {"none", "sent", "cut"}
      BY <3>2 DEF Req
    <3> HIDE DEF reply
    <3> QED BY <3>1, <3>2, <3>3, ZenonT(60) DEF Req, ReqOK, Counted
  <2>3. req' \in [Pods -> [Slots -> Req]]
    BY <1>1, <2>2 DEF RedisRestart
  <2>4. TypeOK' /\ ReqInv'
    BY <1>0, <2>1, <2>2, <2>3 DEF TypeOK, ReqInv, Artifacts
  <2>5. PodInv'
    BY <1>0, <2>1, <2>2 DEF PodInv, CacheOK, CountOK
  <2> QED BY <2>4, <2>5 DEF ServerInv
<1>2. CASE LateSet
  <2>1. PICK a \in late : store' = a /\ late' = late \ {a}
    BY <1>2 DEF LateSet
  <2>2. UNCHANGED <<count, cached, meta, req, faults>>
    BY <1>2 DEF LateSet
  <2>3. store' \in Artifacts /\ store' # Nil /\ late' \in SUBSET Sources
    BY <1>0, <2>1, ServerAssumption DEF TypeOK, Artifacts
  <2>4. TypeOK' /\ PodInv'
    BY <1>0, <2>2, <2>3 DEF TypeOK, PodInv, CacheOK, CountOK
  <2>5. ReqInv'
    BY <1>0, <2>2, <2>3 DEF ReqInv, ReqOK
  <2> QED BY <2>4, <2>5 DEF ServerInv
<1>3. ASSUME NEW p \in Pods, Kill(p)
      PROVE  ServerInv'
  <2>1. /\ count' = [count EXCEPT ![p] = 0] /\ cached' = [cached EXCEPT ![p] = Nil]
        /\ meta' = [meta EXCEPT ![p] = "none"] /\ store' = store /\ faults' = faults + 1
        /\ late' \in {late, late \union Unexecuted(p, Slots)}
        /\ req' = [req EXCEPT ![p] = [r \in Slots |-> NoReq]]
    BY <1>3 DEF Kill
  <2>2. Unexecuted(p, Slots) \subseteq Sources
    BY <1>0 DEF Unexecuted, ReqInv, ReqOK, TypeOK, Req, Artifacts
  <2>3. TypeOK'
    BY <1>0, <2>1, <2>2, NoReqOK DEF TypeOK, Artifacts
  <2>4. ASSUME NEW o \in Pods, NEW r \in Slots
        PROVE  ReqOK(req'[o][r], store', Mode[o], Require[o])
    <3>1. CASE o = p
      BY <1>0, <2>1, <3>1, NoReqOK DEF TypeOK
    <3>2. CASE o # p
      BY <1>0, <2>1, <3>2 DEF TypeOK, ReqInv
    <3> QED BY <3>1, <3>2
  <2>5. ASSUME NEW o \in Pods
        PROVE  CacheOK(o)' /\ CountOK(o)'
    <3>1. CASE o = p
      <4>1. cached'[p] = Nil /\ \A r \in Slots : req'[p][r] = NoReq
        BY <1>0, <2>1 DEF TypeOK
      <4>2. ~NoReq.first
        BY DEF NoReq
      <4> QED BY <3>1, <4>1, <4>2, NoReqOK DEF CacheOK, CountOK
    <3>2. CASE o # p
      <4>1. /\ cached'[o] = cached[o] /\ meta'[o] = meta[o] /\ count'[o] = count[o]
            /\ req'[o] = req[o]
        BY <1>0, <2>1, <3>2 DEF TypeOK
      <4> QED BY <1>0, <4>1 DEF PodInv, CacheOK, CountOK
    <3> QED BY <3>1, <3>2
  <2> QED BY <2>3, <2>4, <2>5 DEF ServerInv, ReqInv, PodInv
<1> QED BY <1>1, <1>2, <1>3

------------------------------------------------------------------------------
LEMMA InitInv == Init => ServerInv
<1> SUFFICES ASSUME Init PROVE ServerInv
  OBVIOUS
<1>1. \A p \in Pods, r \in Slots : req[p][r] = NoReq
  BY DEF Init
<1>2. ~NoReq.first
  BY DEF NoReq
<1>3. TypeOK
  BY NoReqOK DEF Init, TypeOK, Artifacts
<1>4. ReqInv
  BY <1>1, NoReqOK DEF ReqInv
<1>5. PodInv
  BY <1>1, <1>2, NoReqOK DEF Init, PodInv, CacheOK, CountOK
<1> QED BY <1>3, <1>4, <1>5 DEF ServerInv

LEMMA NextInv == ServerInv /\ [Next]_vars => ServerInv'
<1> SUFFICES ASSUME ServerInv, [Next]_vars PROVE ServerInv'
  OBVIOUS
<1>1. CASE UNCHANGED vars
  BY <1>1 DEF ServerInv, TypeOK, ReqInv, PodInv, CacheOK, CountOK, vars
<1>2. CASE Next
  BY <1>2, WorkStep, RequestStep, FaultStep DEF Next
<1> QED BY <1>1, <1>2

LEMMA Invariance == Spec => []ServerInv
BY InitInv, NextInv, PTL DEF Spec

\* Every variable keeps its type.
THEOREM TypeCorrect == Spec => []TypeOK
BY Invariance, PTL DEF ServerInv

\* A request that comes after the populate is not refused for want of an
\* artifact, whatever lookups and answers overlap.
THEOREM FoundWhenAvailable == Spec => []AvailableIsFound
<1>1. ServerInv => AvailableIsFound
  BY DEF ServerInv, ReqInv, ReqOK, AvailableIsFound
<1> QED BY <1>1, Invariance, PTL

\* A response describes the import its script was compiled with.
THEOREM ResponseSound == Spec => []ResponseMatchesImport
<1>1. ServerInv => ResponseMatchesImport
  BY DEF ServerInv, ReqInv, ReqOK, ResponseMatchesImport
<1> QED BY <1>1, Invariance, PTL

\* No two responses of a process call themselves the first work.
THEOREM OneFirstWork == Spec => []FirstWorkOnce
<1>1. ServerInv => FirstWorkOnce
  BY DEF ServerInv, PodInv, CountOK, FirstWorkOnce
<1> QED BY <1>1, Invariance, PTL
------------------------------------------------------------------------------
(* The cache from outside.  A reply on its way carries what a SET stored,   *)
(* whatever happened to Redis since; the globals only take such replies.    *)

Sent(q, stored) ==
    q.pc \in {"get", "set"} /\ q.reply = "sent" /\ q.artifact # Nil
        => q.artifact \in stored

PublishedInv ==
    /\ published \subseteq Sources
    /\ store # Nil => store \in published
    /\ \A p \in Pods : cached[p] # Nil => cached[p] \in published
    /\ \A p \in Pods, r \in Slots : Sent(req[p][r], published)

ArtifactInv == ServerInv /\ PublishedInv

\* What every step of the servers and of Redis does to the history.
LEMMA HistoryGrows ==
    ASSUME ArtifactInv, PublishedNext
    PROVE  /\ published' \subseteq Sources /\ published \subseteq published'
           /\ store' # Nil => store' \in published'
           /\ store' = store \/ store' = Nil => published' = published
           /\ store' # Nil => published' = published \union {store'}
<1>1. published' = published \union ({store'} \ {Nil}) /\ Next
  BY DEF PublishedNext
<1>2. ServerInv'
  BY <1>1, NextInv DEF ArtifactInv
<1>3. store' \in Artifacts
  BY <1>2 DEF ServerInv, TypeOK
<1>4. published \subseteq Sources /\ (store # Nil => store \in published)
  BY DEF ArtifactInv, PublishedInv
<1> QED BY <1>1, <1>3, <1>4 DEF Artifacts

\* A request of pod p moves to q.
LEMMA SentMove ==
    ASSUME ArtifactInv, PublishedNext, NEW p \in Pods, NEW r \in Slots, NEW q,
           Keep(p, r, q), Sent(q, published')
    PROVE  \A o \in Pods, t \in Slots : Sent(req'[o][t], published')
<1>1. req \in [Pods -> [Slots -> Req]]
  BY DEF ArtifactInv, ServerInv, TypeOK
<1>2. published \subseteq published'
  BY HistoryGrows
<1> SUFFICES ASSUME NEW o \in Pods, NEW t \in Slots
             PROVE  Sent(req'[o][t], published')
  OBVIOUS
<1>3. CASE o = p /\ t = r
  <2>1. req'[o][t] = q
    BY <1>1, <1>3 DEF Keep
  <2> QED BY <2>1
<1>4. CASE ~(o = p /\ t = r)
  <2>1. req'[o][t] = req[o][t]
    BY <1>1, <1>4 DEF Keep
  <2>2. Sent(req[o][t], published)
    BY DEF ArtifactInv, PublishedInv
  <2> QED BY <1>2, <2>1, <2>2 DEF Sent
<1> QED BY <1>3, <1>4

\* The steps that give Redis or a pod a request, or take one away.
LEMMA SentStep ==
    ASSUME ArtifactInv, PublishedNext, NEW p \in Pods, NEW r \in Slots,
           \/ StartWork(p, r) \/ Callback(p, r)
           \/ RedisGet(p, r) \/ RedisSet(p, r) \/ Closed(p, r)
           \/ \E s \in Sources : StartPopulate(p, r, s)
    PROVE  \A o \in Pods, t \in Slots : Sent(req'[o][t], published')
<1> DEFINE q == req[p][r]
<1>1. q \in Req
  BY DEF ArtifactInv, ServerInv, TypeOK
<1>2. ASSUME NEW a, Keep(p, r, a), a.pc \notin {"get", "set"} \/ a.reply # "sent"
      PROVE  \A o \in Pods, t \in Slots : Sent(req'[o][t], published')
  <2>1. Sent(a, published')
    BY <1>2 DEF Sent
  <2> QED BY <1>2, <2>1, SentMove
<1>3. CASE StartWork(p, r)
  <2> DEFINE w == [NoReq EXCEPT !.op = "work", !.sure = store # Nil]
  <2>1. CASE Mode[p] # "redis"
    <3>1. Keep(p, r, Work(w, Nil, FALSE, count[p] + 1))
      BY <1>3, <2>1 DEF StartWork
    <3>2. Work(w, Nil, FALSE, count[p] + 1).pc = "idle"
      BY DEF Work, NoReq
    <3> QED BY <1>2, <3>1, <3>2
  <2>2. CASE Mode[p] = "redis" /\ Cached(p)
    <3> DEFINE a == [w EXCEPT !.pc = "run", !.artifact = cached[p],
                              !.found = meta[p] = "found"]
    <3>1. Keep(p, r, a)
      BY <1>3, <2>2 DEF StartWork
    <3>2. a.pc = "run"
      BY DEF NoReq
    <3> QED BY <1>2, <3>1, <3>2
  <2>3. CASE Mode[p] = "redis" /\ ~Cached(p)
    <3> DEFINE a == [w EXCEPT !.pc = "get"]
    <3>1. Keep(p, r, a)
      BY <1>3, <2>3 DEF StartWork
    <3>2. a.reply = "none"
      BY DEF NoReq
    <3> QED BY <1>2, <3>1, <3>2
  <2> QED BY <2>1, <2>2, <2>3
<1>4. CASE LoadReply(p, r)
  <2> DEFINE a == [q EXCEPT !.pc = "run", !.found = q.artifact # Nil]
  <2>1. Keep(p, r, a)
    BY <1>4 DEF LoadReply
  <2>2. a.pc = "run"
    BY <1>1 DEF Req
  <2> QED BY <1>2, <2>1, <2>2
<1>5. CASE PopulateReply(p, r)
  <2> DEFINE a == [NoReq EXCEPT !.op = "populate", !.answer = "ok"]
  <2>1. Keep(p, r, a)
    BY <1>5 DEF PopulateReply
  <2>2. a.pc = "idle"
    BY DEF NoReq
  <2> QED BY <1>2, <2>1, <2>2
<1>6. CASE Run(p, r)
  <2> DEFINE a == [q EXCEPT !.pc = "idle", !.reply = "none", !.answer = "missing"]
             b == Work(q, q.artifact, q.found, count[p])
  <2>1. Keep(p, r, a) \/ Keep(p, r, b)
    BY <1>6 DEF Run
  <2>2. a.pc = "idle" /\ b.pc = "idle"
    BY <1>1 DEF Req, Work
  <2> QED BY <1>2, <2>1, <2>2
<1>7. CASE Fails(p, r)
  <2> DEFINE a == [NoReq EXCEPT !.op = q.op, !.answer = "failed"]
  <2>1. Keep(p, r, a)
    BY <1>7 DEF Fails
  <2>2. a.pc = "idle"
    BY DEF NoReq
  <2> QED BY <1>2, <2>1, <2>2
<1>8. CASE RedisGet(p, r)
  <2> DEFINE a == [q EXCEPT !.reply = "sent", !.artifact = store]
  <2>1. Keep(p, r, a) /\ store' = store
    BY <1>8 DEF RedisGet
  <2>2. a.artifact = store
    BY <1>1 DEF Req
  <2>3. Sent(a, published')
    BY <2>1, <2>2, HistoryGrows DEF Sent
  <2> QED BY <2>1, <2>3, SentMove
<1>9. CASE RedisSet(p, r)
  <2> DEFINE a == [q EXCEPT !.reply = "sent"]
  <2>1. Keep(p, r, a) /\ store' = q.artifact
    BY <1>9 DEF RedisSet
  <2>2. a.artifact = store'
    BY <1>1, <2>1 DEF Req
  <2>3. Sent(a, published')
    BY <2>2, HistoryGrows DEF Sent
  <2> QED BY <2>1, <2>3, SentMove
<1>10. CASE Closed(p, r)
  <2> DEFINE a == [q EXCEPT !.pc = "closed"]
  <2>1. Keep(p, r, a)
    BY <1>10 DEF Closed
  <2>2. a.pc = "closed"
    BY <1>1 DEF Req
  <2> QED BY <1>2, <2>1, <2>2
<1>11. ASSUME NEW s \in Sources, StartPopulate(p, r, s)
       PROVE  \A o \in Pods, t \in Slots : Sent(req'[o][t], published')
  <2> DEFINE a == [NoReq EXCEPT !.pc = "set", !.op = "populate", !.artifact = s]
  <2>1. Keep(p, r, a)
    BY <1>11 DEF StartPopulate
  <2>2. a.reply = "none"
    BY DEF NoReq
  <2> QED BY <1>2, <2>1, <2>2
<1> QED BY <1>3, <1>4, <1>5, <1>6, <1>7, <1>8, <1>9, <1>10, <1>11 DEF Callback

\* A restart of Redis cuts the commands it has not answered; a death takes the
\* requests of its pod; a SET without a client touches none.
LEMMA SentFault ==
    ASSUME ArtifactInv, PublishedNext,
           RedisRestart \/ LateSet \/ \E p \in Pods : Kill(p)
    PROVE  \A o \in Pods, t \in Slots : Sent(req'[o][t], published')
<1>1. req \in [Pods -> [Slots -> Req]]
  BY DEF ArtifactInv, ServerInv, TypeOK
<1>2. published \subseteq published'
  BY HistoryGrows
<1> SUFFICES ASSUME NEW o \in Pods, NEW t \in Slots
             PROVE  Sent(req'[o][t], published')
  OBVIOUS
<1>3. Sent(req[o][t], published)
  BY DEF ArtifactInv, PublishedInv
<1>4. CASE RedisRestart
  <2> DEFINE q == req[o][t]
             reply == IF Waiting(o, t) /\ q.reply = "none" THEN "cut" ELSE q.reply
  <2>1. req'[o][t] = [q EXCEPT !.sure = FALSE, !.reply = reply]
    BY <1>4 DEF RedisRestart
  <2>2. q \in Req /\ (reply = "sent" => q.reply = "sent")
    BY <1>1
  <2> HIDE DEF reply
  <2>3. /\ req'[o][t].pc = q.pc /\ req'[o][t].artifact = q.artifact
        /\ req'[o][t].reply = reply
    BY <2>1, <2>2 DEF Req
  <2> QED BY <1>2, <1>3, <2>2, <2>3 DEF Sent
<1>5. CASE LateSet
  <2>1. req' = req
    BY <1>5 DEF LateSet
  <2> QED BY <1>2, <1>3, <2>1 DEF Sent
<1>6. ASSUME NEW p \in Pods, Kill(p)
      PROVE  Sent(req'[o][t], published')
  <2>1. req' = [req EXCEPT ![p] = [r \in Slots |-> NoReq]]
    BY <1>6 DEF Kill
  <2>2. req'[o][t] = NoReq \/ req'[o][t] = req[o][t]
    BY <1>1, <2>1
  <2>3. NoReq.pc = "idle"
    BY DEF NoReq
  <2> QED BY <1>2, <1>3, <2>2, <2>3 DEF Sent
<1> QED BY <1>4, <1>5, <1>6

\* How a step may change what the pods work from: not at all, or one pod takes
\* what was published or forgets, while Redis is left alone.
LEMMA CachedStep ==
    ASSUME ArtifactInv, PublishedNext
    PROVE  \/ cached' = cached
           \/ /\ store' = store
              /\ \E p \in Pods, a \in published \union {Nil} :
                     cached' = [cached EXCEPT ![p] = a]
<1>1. Next
  BY DEF PublishedNext
<1>2. ASSUME NEW p \in Pods, NEW r \in Slots, LoadReply(p, r) \/ PopulateReply(p, r)
      PROVE  /\ store' = store
             /\ \E a \in published \union {Nil} : cached' = [cached EXCEPT ![p] = a]
  <2>1. /\ req[p][r].pc \in {"get", "set"} /\ req[p][r].reply = "sent"
        /\ cached' = [cached EXCEPT ![p] = req[p][r].artifact] /\ store' = store
    BY <1>2 DEF LoadReply, PopulateReply
  <2>2. req[p][r].artifact \in published \union {Nil}
    BY <2>1 DEF ArtifactInv, PublishedInv, Sent
  <2> QED BY <2>1, <2>2
<1>3. ASSUME NEW p \in Pods, NEW r \in Slots,
             \/ StartWork(p, r) \/ Run(p, r) \/ Fails(p, r)
             \/ RedisGet(p, r) \/ RedisSet(p, r) \/ Closed(p, r)
             \/ \E s \in Sources : StartPopulate(p, r, s)
      PROVE  cached' = cached
  BY <1>3 DEF StartWork, Run, Fails, RedisGet, RedisSet, Closed, StartPopulate
<1>4. ASSUME NEW p \in Pods, Kill(p)
      PROVE  store' = store /\ cached' = [cached EXCEPT ![p] = Nil]
  BY <1>4 DEF Kill
<1>5. LateSet \/ RedisRestart => cached' = cached
  BY DEF LateSet, RedisRestart
<1> QED BY <1>1, <1>2, <1>3, <1>4, <1>5 DEF Next, Callback

LEMMA ArtifactStep ==
    ASSUME ArtifactInv, [PublishedNext]_<<vars, published>>
    PROVE  ArtifactInv'
<1>1. ServerInv'
  BY NextInv DEF ArtifactInv, PublishedNext
<1>2. CASE UNCHANGED <<vars, published>>
  BY <1>1, <1>2 DEF ArtifactInv, PublishedInv, vars
<1>3. CASE PublishedNext
  <2>1. \A o \in Pods, t \in Slots : Sent(req'[o][t], published')
    BY <1>3, SentStep, SentFault DEF PublishedNext, Next
  <2>2. \A o \in Pods : cached'[o] # Nil => cached'[o] \in published'
    <3>1. published \subseteq published'
      BY <1>3, HistoryGrows
    <3>2. /\ \A o \in Pods : cached[o] # Nil => cached[o] \in published
          /\ cached \in [Pods -> Artifacts]
      BY DEF ArtifactInv, PublishedInv, ServerInv, TypeOK
    <3> QED BY <1>3, <3>1, <3>2, CachedStep
  <2> QED BY <1>1, <1>3, <2>1, <2>2, HistoryGrows DEF ArtifactInv, PublishedInv
<1> QED BY <1>2, <1>3

LEMMA ArtifactInit == PublishedInit => ArtifactInv /\ Cache!Init
<1> SUFFICES ASSUME PublishedInit PROVE ArtifactInv /\ Cache!Init
  OBVIOUS
<1>1. ServerInv /\ Init /\ published = {}
  BY InitInv DEF PublishedInit
<1>2. \A p \in Pods, r \in Slots : Sent(req[p][r], published)
  BY <1>1 DEF Init, NoReq, Sent
<1> QED BY <1>1, <1>2 DEF Init, ArtifactInv, PublishedInv, Cache!Init

LEMMA ArtifactInvariance == PublishedSpec => []ArtifactInv
<1>1. ArtifactInv /\ [PublishedNext]_<<vars, published>> => ArtifactInv'
  BY ArtifactStep
<1> QED BY <1>1, ArtifactInit, PTL DEF PublishedSpec

\* Whatever is compiled under the key, a server works only from what a SET has
\* stored, although a SET may be executed after its client is gone and a reply
\* may arrive after Redis restarted.
THEOREM ServersWorkFromPublished == PublishedSpec => []WorksFromPublished
<1>1. ArtifactInv => WorksFromPublished
  BY DEF ArtifactInv, PublishedInv, WorksFromPublished, Cache!WorksFromPublished
<1> QED BY <1>1, ArtifactInvariance, PTL

\* A step that leaves the global alone stores at most one artifact.
LEMMA StoreStep ==
    ASSUME ArtifactInv, PublishedNext, cached' = cached
    PROVE  [Cache!Next]_(Cache!cacheVars)
<1>1. CASE store' = Nil
  BY <1>1, HistoryGrows DEF Cache!cacheVars
<1>2. CASE store' # Nil
  <2>1. Cache!Publish(store')
    BY <1>2, HistoryGrows DEF Cache!Publish
  <2>2. store' \in Sources
    BY <1>2, HistoryGrows
  <2> QED BY <2>1, <2>2 DEF Cache!Next
<1> QED BY <1>1, <1>2

\* A step that changes it gives one pod a published artifact, or none.
LEMMA GlobalStep ==
    ASSUME ArtifactInv, PublishedNext, cached' # cached
    PROVE  \E p \in Pods :
              \/ Cache!Unload(p)
              \/ \E a \in Sources : Cache!Replace(p, a) /\ cached[p] # a
<1>1. PICK p \in Pods, a \in published \union {Nil} : cached' = [cached EXCEPT ![p] = a]
  BY CachedStep
<1>2. published' = published
  BY CachedStep, HistoryGrows
<1>3. CASE a = Nil
  BY <1>1, <1>2, <1>3 DEF Cache!Unload
<1>4. CASE a # Nil
  <2>1. a \in published /\ a \in Sources /\ cached \in [Pods -> Artifacts]
    BY <1>4 DEF ArtifactInv, PublishedInv, ServerInv, TypeOK
  <2>2. cached[p] # a
    BY <1>1, <2>1
  <2>3. Cache!Replace(p, a)
    BY <1>1, <1>2, <2>1 DEF Cache!Replace
  <2> QED BY <2>1, <2>2, <2>3
<1> QED BY <1>3, <1>4

\* For any sources, the servers implement the cache whose pods may be given
\* another published artifact while they live: a late reply of a GET or of a
\* populate replaces what an earlier one brought.
THEOREM ServersImplementReplacingCache == PublishedSpec => ImplementsReplacingCache
<1>1. ASSUME ArtifactInv, [PublishedNext]_<<vars, published>>
      PROVE  [Cache!ReplacingNext]_(Cache!cacheVars)
  <2>1. CASE UNCHANGED <<vars, published>>
    BY <2>1 DEF vars, Cache!cacheVars
  <2>2. CASE PublishedNext /\ cached' = cached
    BY <1>1, <2>2, StoreStep DEF Cache!ReplacingNext
  <2>3. CASE PublishedNext /\ cached' # cached
    BY <1>1, <2>3, GlobalStep DEF Cache!ReplacingNext, Cache!Next
  <2> QED BY <1>1, <2>1, <2>2, <2>3
<1> QED BY <1>1, ArtifactInit, ArtifactInvariance, PTL
        DEF PublishedSpec, ImplementsReplacingCache, Cache!ReplacingSpec

\* Where one source is compiled under the key, as in a churn run, a reply
\* replaces nothing: the servers implement the cache in full, and what a pod
\* works from is only forgotten and loaded again.
THEOREM ServersImplementCache ==
    ASSUME \A a, b \in Sources : a = b
    PROVE  PublishedSpec => ImplementsArtifactCache
<1>1. ASSUME ArtifactInv, [PublishedNext]_<<vars, published>>
      PROVE  [Cache!Next]_(Cache!cacheVars)
  <2>1. CASE UNCHANGED <<vars, published>>
    BY <2>1 DEF vars, Cache!cacheVars
  <2>2. CASE PublishedNext /\ cached' = cached
    BY <1>1, <2>2, StoreStep
  <2>3. CASE PublishedNext /\ cached' # cached
    <3>1. ASSUME NEW p \in Pods, NEW a \in Sources, Cache!Replace(p, a), cached[p] # a
          PROVE  Cache!Load(p, a)
      <4>1. cached[p] \in Artifacts
        BY <1>1 DEF ArtifactInv, ServerInv, TypeOK
      <4>2. cached[p] \in Sources => cached[p] = a
        BY <3>1
      <4>3. cached[p] = Nil
        BY <3>1, <4>1, <4>2 DEF Artifacts
      <4> QED BY <3>1, <4>3 DEF Cache!Replace, Cache!Load
    <3> QED BY <1>1, <2>3, <3>1, GlobalStep DEF Cache!Next
  <2> QED BY <1>1, <2>1, <2>2, <2>3
<1> QED BY <1>1, ArtifactInit, ArtifactInvariance, PTL
        DEF PublishedSpec, ImplementsArtifactCache, Cache!Spec
==============================================================================

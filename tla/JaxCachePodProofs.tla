-------------------------- MODULE JaxCachePodProofs --------------------------
(***************************************************************************)
(* The JAX pods for any number of pods and threads, any schedules and any  *)
(* number of faults.  JaxInv is the inductive invariant: PodOK ties the    *)
(* import metadata to the directory, ReqOK ties a request's place in the   *)
(* handler to the configuration and the directory of its process.          *)
(***************************************************************************)
EXTENDS JaxArtifacts, WellFoundedInduction, TLAPS

\* A pod that serves has its metadata, and the entries the metadata claims.
PodOK(p) ==
    /\ phase[p] = "serving" => meta[p].status # "none"
    /\ phase[p] = "extract" \/ meta[p].status = "ok" => Mode[p] = "redis"
    /\ phase[p] = "serving" /\ meta[p].status = "ok" => meta[p].files \subseteq dir[p]
    /\ configured[p] => cacheOn[p] = CacheEnabledForMode(Mode[p])

\* Where a request is, given the mode, phase, metadata, directory, CONFIGURED
\* and INVOCATION of its pod.
PlaceOK(r, ph, conf, inv) ==
    /\ ph # "serving" => r.pc = "idle" /\ r.op = "none"
    /\ r.op = "none" => r.pc = "idle"
    /\ r.op = "push" => r.pc \in {"archive", "set", "idle"}
    /\ r.op \in {"work", "populate"} /\ r.pc # "idle" => r.schedule \in Schedules
    /\ r.op # "push" /\ r.pc \in {"plan", "compile", "archive", "set"} => conf
    /\ r.op = "work" /\ r.pc # "idle" => inv >= 1
    /\ r.pc \in {"config", "locked", "plan"} => r.left >= 1
    /\ r.op = "populate" /\ r.pc # "idle" => r.export
    /\ r.pc # "idle" => r.status = 0

\* A populate's variants are in the directory until they are in its snapshot.
ExportOK(r, mode, d) ==
    r.op = "populate" /\ CacheEnabledForMode(mode) =>
        /\ r.pc \in {"config", "locked"} => r.compiled = {}
        /\ r.pc \in {"plan", "compile", "archive"} => r.compiled \subseteq d
        /\ r.pc = "set" \/ r.status = 200 => r.compiled \subseteq r.snap

\* A request compiles what a populate of its schedule compiles, and misses
\* nothing of it that was imported.
TraceOK(r, mt) ==
    /\ r.pc = "compile" => r.todo \subseteq PopulateVariants(r.schedule)
    /\ mt.status = "ok" /\ r.op # "none" /\ PopulateVariants(r.schedule) \subseteq mt.files
          => r.missed = {}

ReqOK(r, mode, ph, mt, d, conf, inv) ==
    PlaceOK(r, ph, conf, inv) /\ ExportOK(r, mode, d) /\ TraceOK(r, mt)

PodInv == \A p \in Pods : PodOK(p)

ReqInv ==
    \A p \in Pods, t \in Threads :
        ReqOK(req[p][t], Mode[p], phase[p], meta[p], dir[p], configured[p], invocation[p])

JaxInv == TypeOK /\ PodInv /\ ReqInv

------------------------------------------------------------------------------
(* Induction over the natural numbers, for a set that contains zero and the *)
(* successors of its elements: the least number outside it has no place.    *)

LEMMA Minimum ==
    ASSUME NEW T, T \subseteq Nat, T # {}
    PROVE  \E n \in T : \A m \in T : n <= m
<1> DEFINE R == {pair \in Nat \X Nat : pair[1] < pair[2]}
<1>1. IsWellFoundedOn(R, Nat)
  BY NatLessThanWellFounded, Zenon DEF OpToRel
<1> HIDE DEF R
<1>2. PICK n \in T : \A m \in T : <<m, n>> \notin R
  BY <1>1, WFMin, Zenon
<1>3. ASSUME NEW m \in T PROVE n <= m
  <2>1. <<m, n>> \notin R
    BY <1>2, Zenon
  <2>2. m < n => <<m, n>> \in R
    BY DEF R
  <2> QED BY <2>1, <2>2
<1> QED BY <1>3

LEMMA Induction ==
    ASSUME NEW S, 0 \in S, \A n \in Nat : n \in S => n + 1 \in S
    PROVE  Nat \subseteq S
<1> DEFINE T == Nat \ S
<1> SUFFICES ASSUME T # {} PROVE FALSE
  OBVIOUS
<1>1. PICK n \in T : \A m \in T : n <= m
  BY Minimum
<1>2. n # 0 /\ n - 1 \in Nat /\ n - 1 \notin T
  BY <1>1
<1> QED BY <1>1, <1>2

------------------------------------------------------------------------------
(* Which variants a request compiles. *)

\* The partial sums of a schedule are what their recursion says, and grow.
LEMMA Sums ==
    ASSUME NEW s \in Seq(Nat)
    PROVE  /\ SumTo(s, 0) = 0
           /\ \A n \in 0..Len(s) : SumTo(s, n) \in Nat
           /\ \A n \in 1..Len(s) : SumTo(s, n) = SumTo(s, n - 1) + s[n]
           /\ \A n \in 0..Len(s) : SumTo(s, n) <= SumTo(s, Len(s))
<1> DEFINE
      Counts(f, n) == /\ f \in [0..n -> Nat] /\ f[0] = 0
                      /\ \A k \in 1..n : f[k] = f[k - 1] + s[k]
      S == {n \in Nat : n <= Len(s) => \E f : Counts(f, n)}
      Sum(f) == [k \in 0..Len(s) |-> IF k = 0 THEN 0 ELSE f[k - 1] + s[k]]
      sum == CHOOSE f : f = Sum(f)
<1>1. Len(s) \in Nat /\ \A k \in 1..Len(s) : s[k] \in Nat
  OBVIOUS
<1>2. 0 \in S
  <2>1. Counts([k \in 0..0 |-> 0], 0)
    OBVIOUS
  <2> QED BY <2>1
<1>3. \A n \in Nat : n \in S => n + 1 \in S
  <2> SUFFICES ASSUME NEW n \in Nat, n + 1 <= Len(s), \E f : Counts(f, n)
               PROVE  \E f : Counts(f, n + 1)
    <3> HIDE DEF Counts
    <3> QED BY <1>1
  <2>1. PICK f : Counts(f, n)
    OBVIOUS
  <2> DEFINE g == [k \in 0..(n + 1) |-> IF k = n + 1 THEN f[n] + s[n + 1] ELSE f[k]]
  <2>2. g \in [0..(n + 1) -> Nat] /\ g[0] = 0 /\ g[n + 1] = f[n] + s[n + 1]
    BY <1>1, <2>1
  <2>3. \A k \in 0..n : g[k] = f[k]
    OBVIOUS
  <2> HIDE DEF g
  <2>4. ASSUME NEW k \in 1..(n + 1) PROVE g[k] = g[k - 1] + s[k]
    <3>1. CASE k = n + 1
      BY <2>2, <2>3, <3>1
    <3>2. CASE k # n + 1
      <4>1. k \in 1..n /\ k \in 0..n /\ k - 1 \in 0..n
        BY <3>2
      <4> QED BY <2>1, <2>3, <4>1
    <3> QED BY <3>1, <3>2
  <2> QED BY <2>2, <2>4
<1>4. Len(s) \in S
  <2> HIDE DEF S
  <2> QED BY <1>1, <1>2, <1>3, Induction
<1>5. PICK f : Counts(f, Len(s))
  BY <1>1, <1>4
<1>6. f = Sum(f)
  BY <1>1, <1>5
<1>7. sum = Sum(sum)
  <2> HIDE DEF Sum
  <2> QED BY <1>6
<1>8. \A n : SumTo(s, n) = sum[n]
  BY DEF SumTo
<1> HIDE DEF sum
<1>9. sum[0] = 0 /\ \A n \in 1..Len(s) : sum[n] = sum[n - 1] + s[n]
  BY <1>1, <1>7
<1> DEFINE T == {n \in Nat : n <= Len(s) => sum[n] \in Nat}
           U == {n \in Nat : n <= Len(s) => sum[Len(s) - n] <= sum[Len(s)]}
<1>10. \A n \in 0..Len(s) : sum[n] \in Nat
  <2>1. 0 \in T
    BY <1>9
  <2>2. \A n \in Nat : n \in T => n + 1 \in T
    BY <1>1, <1>9
  <2>3. Nat \subseteq T
    <3> HIDE DEF T
    <3> QED BY <2>1, <2>2, Induction
  <2> QED BY <1>1, <2>3
<1>11. \A n \in 0..Len(s) : sum[n] <= sum[Len(s)]
  <2>1. 0 \in U
    BY <1>1, <1>10
  <2>2. ASSUME NEW n \in Nat, n + 1 <= Len(s), sum[Len(s) - n] <= sum[Len(s)]
        PROVE  sum[Len(s) - (n + 1)] <= sum[Len(s)]
    <3>1. Len(s) - n \in 1..Len(s) /\ Len(s) - (n + 1) = (Len(s) - n) - 1
      BY <1>1, <2>2
    <3>2. sum[Len(s) - n] = sum[Len(s) - (n + 1)] + s[Len(s) - n]
      BY <1>9, <3>1
    <3>3. /\ sum[Len(s) - n] \in Nat /\ sum[Len(s) - (n + 1)] \in Nat /\ sum[Len(s)] \in Nat
          /\ s[Len(s) - n] \in Nat /\ sum[Len(s) - n] <= sum[Len(s)]
      BY <1>1, <1>10, <2>2, <3>1
    <3> QED BY <3>2, <3>3
  <2>3. \A n \in Nat : n \in U => n + 1 \in U
    BY <1>1, <2>2
  <2>4. Nat \subseteq U
    <3> HIDE DEF U
    <3> QED BY <2>1, <2>3, Induction
  <2>5. ASSUME NEW n \in 0..Len(s) PROVE sum[n] <= sum[Len(s)]
    <3>1. Len(s) - n \in U /\ Len(s) - (Len(s) - n) = n /\ Len(s) - n <= Len(s)
      BY <1>1, <2>4
    <3> QED BY <3>1
  <2> QED BY <2>5
<1>12. SumTo(s, 0) = 0 /\ SumTo(s, Len(s)) = sum[Len(s)]
  BY <1>8, <1>9
<1>13. ASSUME NEW n \in 1..Len(s) PROVE SumTo(s, n) = SumTo(s, n - 1) + s[n]
  BY <1>8, <1>9
<1>14. ASSUME NEW n \in 0..Len(s) PROVE SumTo(s, n) \in Nat /\ SumTo(s, n) <= SumTo(s, Len(s))
  BY <1>8, <1>10, <1>11
<1> QED BY <1>12, <1>13, <1>14

\* The r-th segment of a schedule is part of what a populate compiles.
LEMMA SegmentInSchedule ==
    ASSUME NEW s \in Schedules, NEW n \in Nat, n >= 1
    PROVE  WorkVariants(s, n) \subseteq PopulateVariants(s)
<1> DEFINE total == SumTo(s, Len(s))
<1>1. s \in Seq(Nat) /\ Len(s) \in Nat /\ CompileVariants \in Nat
  BY DeploymentAssumption
<1>2. total \in Nat
  BY <1>1, Sums
<1>3. 0 \in AllVariants
  BY <1>1 DEF AllVariants
<1>4. 0 \in PopulateVariants(s)
  BY <1>2, <1>3 DEF PopulateVariants
<1>5. CASE s = <<>>
  <2>1. WorkVariants(s, n) = AllVariants /\ Len(s) = 0
    BY <1>5 DEF WorkVariants
  <2>2. total = 0
    BY <1>1, <2>1, Sums
  <2> QED BY <2>1, <2>2 DEF PopulateVariants
<1>6. CASE s # <<>>
  <2>1. WorkVariants(s, n) = ScheduledVariants(s, n)
    BY <1>6 DEF WorkVariants
  <2>2. CASE n > Len(s) \/ s[n] = 0
    BY <1>4, <2>1, <2>2 DEF ScheduledVariants
  <2>3. CASE ~(n > Len(s) \/ s[n] = 0)
    <3>1. n \in 1..Len(s) /\ n - 1 \in 0..Len(s) /\ n \in 0..Len(s) /\ s[n] \in Nat
      BY <1>1, <2>3
    <3>2. /\ SumTo(s, n - 1) \in Nat /\ SumTo(s, n) = SumTo(s, n - 1) + s[n]
          /\ SumTo(s, n) <= total
      BY <1>1, <3>1, Sums
    <3>3. ScheduledVariants(s, n) = SumTo(s, n - 1) .. (SumTo(s, n - 1) + s[n] - 1)
      BY <2>3 DEF ScheduledVariants
    <3>4. total > 0 /\ PopulateVariants(s) = 0 .. (total - 1)
      BY <1>2, <2>3, <3>1, <3>2 DEF PopulateVariants
    <3>5. ScheduledVariants(s, n) \subseteq PopulateVariants(s)
      BY <1>2, <3>1, <3>2, <3>3, <3>4
    <3> QED BY <2>1, <3>5
  <2> QED BY <2>2, <2>3
<1> QED BY <1>5, <1>6

LEMMA PopulateInVariants ==
    ASSUME NEW s \in Schedules
    PROVE  PopulateVariants(s) \subseteq Variants
BY DEF Variants

------------------------------------------------------------------------------
(* Requests. *)

\* What is right about a request stays right while its process goes on.
LEMMA ReqStable ==
    ASSUME NEW r, NEW mode, NEW ph, NEW mt, NEW d, NEW d2, NEW conf, NEW conf2,
           NEW inv \in Nat, NEW inv2 \in Nat,
           ReqOK(r, mode, ph, mt, d, conf, inv),
           d \subseteq d2, conf => conf2, inv <= inv2
    PROVE  ReqOK(r, mode, ph, mt, d2, conf2, inv2)
<1>1. PlaceOK(r, ph, conf2, inv2)
  BY DEF ReqOK, PlaceOK
<1>2. ExportOK(r, mode, d2)
  BY DEF ReqOK, ExportOK
<1> QED BY <1>1, <1>2 DEF ReqOK

\* A request nobody has made is right anywhere.
LEMMA IdleOK ==
    ASSUME NEW mode, NEW ph, NEW mt, NEW d, NEW conf, NEW inv
    PROVE  ReqOK(IdleReq, mode, ph, mt, d, conf, inv) /\ IdleReq \in Req
BY DEF ReqOK, PlaceOK, ExportOK, TraceOK, IdleReq, Req, ReqPcs

\* One request moves, its process only grows.
LEMMA ReqStep ==
    ASSUME TypeOK, ReqInv, TypeOK',
           NEW p \in Pods, NEW t \in Threads, NEW r,
           req' = [req EXCEPT ![p][t] = r],
           UNCHANGED <<phase, meta>>,
           \A q \in Pods : /\ dir[q] \subseteq dir'[q]
                           /\ configured[q] => configured'[q]
                           /\ invocation[q] <= invocation'[q],
           ReqOK(r, Mode[p], phase[p], meta[p], dir'[p], configured'[p], invocation'[p])
    PROVE  ReqInv'
<1> SUFFICES ASSUME NEW q \in Pods, NEW u \in Threads
             PROVE  ReqOK(req'[q][u], Mode[q], phase'[q], meta'[q], dir'[q],
                          configured'[q], invocation'[q])
  BY DEF ReqInv
<1>1. invocation[q] \in Nat /\ invocation'[q] \in Nat
  BY DEF TypeOK
<1>2. CASE q = p /\ u = t
  BY <1>2 DEF TypeOK
<1>3. CASE ~(q = p /\ u = t)
  <2>1. req'[q][u] = req[q][u]
    BY <1>3 DEF TypeOK
  <2>2. ReqOK(req[q][u], Mode[q], phase[q], meta[q], dir[q], configured[q], invocation[q])
    BY DEF ReqInv
  <2>3. ReqOK(req[q][u], Mode[q], phase[q], meta[q], dir'[q], configured'[q], invocation'[q])
    BY <1>1, <2>2, ReqStable
  <2> QED BY <2>1, <2>3
<1> QED BY <1>2, <1>3

------------------------------------------------------------------------------
(* The entrypoint and the faults. *)

LEMMA KeepType ==
    ASSUME TypeOK, NEW p \in Pods, NEW t \in Threads, NEW r \in Req,
           req' = [req EXCEPT ![p][t] = r]
    PROVE  req' \in [Pods -> [Threads -> Req]]
BY DEF TypeOK

LEMMA NoneOK ==
    ASSUME NEW r, r.pc = "idle", r.op = "none", NEW mode, NEW ph, NEW mt, NEW d,
           NEW conf, NEW inv
    PROVE  ReqOK(r, mode, ph, mt, d, conf, inv)
BY DEF ReqOK, PlaceOK, ExportOK, TraceOK

\* The entrypoint runs before any request.
LEMMA BootReq ==
    ASSUME ReqInv, NEW p \in Pods, phase[p] # "serving",
           UNCHANGED <<req, configured, invocation>>,
           \A q \in Pods \ {p} : phase'[q] = phase[q] /\ meta'[q] = meta[q] /\ dir'[q] = dir[q]
    PROVE  ReqInv'
<1> SUFFICES ASSUME NEW q \in Pods, NEW u \in Threads
             PROVE  ReqOK(req[q][u], Mode[q], phase'[q], meta'[q], dir'[q],
                          configured[q], invocation[q])
  BY DEF ReqInv
<1>1. ReqOK(req[q][u], Mode[q], phase[q], meta[q], dir[q], configured[q], invocation[q])
  BY DEF ReqInv
<1>2. CASE q = p
  <2>1. req[q][u].pc = "idle" /\ req[q][u].op = "none"
    BY <1>1, <1>2 DEF ReqOK, PlaceOK
  <2> QED BY <2>1, NoneOK
<1>3. CASE q # p
  BY <1>1, <1>3
<1> QED BY <1>2, <1>3

LEMMA StampType ==
    ASSUME TypeOK, NEW p \in Pods, NEW f \in SUBSET Variants,
           NEW st \in {"none", "skipped", "missing", "error", "ok"}, Stamp(p, st, f)
    PROVE  /\ meta' \in [Pods -> Meta]
           /\ meta'[p].status = st /\ meta'[p].files = f
           /\ \A q \in Pods \ {p} : meta'[q] = meta[q]
BY DEF TypeOK, Stamp, Meta

LEMMA BootStep ==
    ASSUME JaxInv, NEW p \in Pods, Boot(p) \/ PullFails(p)
    PROVE  JaxInv'
<1> USE DEF JaxInv
<1>0. phase \in [Pods -> {"pull", "extract", "serving"}] /\ dir \in [Pods -> SUBSET Variants]
      /\ fetched \in [Pods -> SUBSET Variants] /\ {} \in SUBSET Variants
  BY DEF TypeOK
<1>1. ASSUME NEW st \in {"skipped", "missing", "error"}, NEW ph \in {"pull", "serving"},
             phase[p] = "pull", Stamp(p, st, {}), phase' = [phase EXCEPT ![p] = ph],
             UNCHANGED <<store, fetched, dir, process, req>>,
             faults' \in Nat
      PROVE  JaxInv'
  <2>1. /\ meta' \in [Pods -> Meta] /\ meta'[p].status = st
        /\ \A q \in Pods \ {p} : meta'[q] = meta[q]
    BY <1>0, <1>1, StampType
  <2>2. TypeOK'
    BY <1>0, <1>1, <2>1 DEF TypeOK, process
  <2>3. phase'[p] = ph /\ \A q \in Pods \ {p} : phase'[q] = phase[q]
    BY <1>0, <1>1
  <2>4. PodInv'
    BY <1>1, <2>1, <2>3 DEF PodInv, PodOK, process
  <2>5. ReqInv'
    BY <1>1, <2>1, <2>3, BootReq DEF process
  <2> QED BY <2>2, <2>4, <2>5
<1>a. faults \in Nat /\ faults + 1 \in Nat
  BY DEF TypeOK
<1>b. phase[p] = "pull" => [phase EXCEPT ![p] = "pull"] = phase
  BY <1>0
<1>2. CASE PullSkipped(p)
  BY <1>2, <1>1, <1>a DEF PullSkipped, Advance
<1>3. CASE PullMissing(p)
  BY <1>3, <1>1, <1>a, <1>b DEF PullMissing, Advance
<1>4. CASE PullFails(p)
  BY <1>4, <1>1, <1>a, <1>b DEF PullFails, Advance, Fault
<1>5. CASE PullFound(p)
  <2>1. store \in SUBSET Variants
    <3>1. store \in (SUBSET Variants) \union {Nil}
      BY DEF TypeOK
    <3> QED BY <1>5, <3>1 DEF PullFound
  <2>2. TypeOK'
    BY <1>0, <1>5, <2>1 DEF PullFound, Advance, TypeOK, process
  <2>3. /\ phase[p] = "pull" /\ phase'[p] = "extract" /\ Mode[p] = "redis"
        /\ \A q \in Pods \ {p} : phase'[q] = phase[q] /\ dir'[q] = dir[q]
        /\ UNCHANGED <<meta, req, configured, cacheOn, invocation>>
    BY <1>0, <1>5 DEF PullFound, Advance, process
  <2>4. PodInv'
    BY <2>3 DEF PodInv, PodOK
  <2>5. ReqInv'
    BY <2>3, BootReq
  <2> QED BY <2>2, <2>4, <2>5
<1>6. CASE ExtractEntry(p)
  <2>1. TypeOK'
    BY <1>0, <1>6 DEF ExtractEntry, TypeOK, process
  <2>2. /\ phase[p] = "extract"
        /\ \A q \in Pods \ {p} : dir'[q] = dir[q]
        /\ UNCHANGED <<phase, meta, req, configured, cacheOn, invocation>>
    BY <1>0, <1>6 DEF ExtractEntry, process
  <2>3. PodInv'
    BY <2>2 DEF PodInv, PodOK
  <2>4. ReqInv'
    BY <2>2, BootReq
  <2> QED BY <2>1, <2>3, <2>4
<1>7. CASE StampImport(p)
  <2>1. /\ meta' \in [Pods -> Meta] /\ meta'[p].status = "ok" /\ meta'[p].files = fetched[p]
        /\ \A q \in Pods \ {p} : meta'[q] = meta[q]
    BY <1>0, <1>7, StampType DEF StampImport
  <2>2. TypeOK'
    BY <1>0, <1>7, <2>1 DEF StampImport, Advance, TypeOK, process
  <2>3. /\ phase[p] = "extract" /\ phase'[p] = "serving" /\ fetched[p] \subseteq dir[p]
        /\ \A q \in Pods \ {p} : phase'[q] = phase[q]
        /\ UNCHANGED <<dir, req, configured, cacheOn, invocation>>
    BY <1>0, <1>7 DEF StampImport, Advance, process
  <2>4. PodInv'
    BY <2>1, <2>3 DEF PodInv, PodOK
  <2>5. ReqInv'
    BY <2>1, <2>3, BootReq
  <2> QED BY <2>2, <2>4, <2>5
<1> QED BY <1>2, <1>3, <1>4, <1>5, <1>6, <1>7 DEF Boot

\* Kill and Replace leave a pod without requests and without configuration.
LEMMA ExitStep ==
    ASSUME JaxInv, NEW p \in Pods, Kill(p) \/ Replace(p)
    PROVE  JaxInv'
<1> USE DEF JaxInv
<1>0. TypeOK /\ PodInv /\ ReqInv /\ faults + 1 \in Nat
  BY DEF TypeOK
<1>1. Exit(p) /\ faults' = faults + 1 /\ store' = store
  BY DEF Kill, Replace, Fault
<1>2. /\ meta' \in [Pods -> Meta] /\ dir' \in [Pods -> SUBSET Variants]
      /\ \A q \in Pods \ {p} : meta'[q] = meta[q] /\ dir'[q] = dir[q]
      /\ meta'[p] = meta[p] \/ meta'[p].status = "none"
  <2>1. dir \in [Pods -> SUBSET Variants] /\ meta \in [Pods -> Meta]
    BY <1>0 DEF TypeOK
  <2>2. NoMeta \in Meta /\ NoMeta.status = "none"
    BY DEF NoMeta, Meta
  <2>3. CASE Kill(p)
    BY <2>1, <2>3 DEF Kill, files
  <2>4. CASE Replace(p)
    BY <2>1, <2>2, <2>4 DEF Replace
  <2> QED BY <2>3, <2>4
<1>3. /\ phase' \in [Pods -> {"pull", "extract", "serving"}] /\ phase'[p] = "pull"
      /\ configured' \in [Pods -> BOOLEAN] /\ ~configured'[p]
      /\ cacheOn' \in [Pods -> BOOLEAN]
      /\ invocation' \in [Pods -> Nat]
      /\ fetched' \in [Pods -> SUBSET Variants] /\ lock' \in [Pods -> Threads \union {Nil}]
      /\ \A q \in Pods \ {p} : /\ phase'[q] = phase[q] /\ configured'[q] = configured[q]
                               /\ cacheOn'[q] = cacheOn[q] /\ invocation'[q] = invocation[q]
  BY <1>0, <1>1 DEF Exit, TypeOK
<1>4. /\ req' \in [Pods -> [Threads -> Req]]
      /\ \A u \in Threads : req'[p][u] = IdleReq
      /\ \A q \in Pods \ {p} : req'[q] = req[q]
  BY <1>0, <1>1, IdleOK DEF Exit, TypeOK
<1>5. TypeOK'
  BY <1>0, <1>1, <1>2, <1>3, <1>4 DEF TypeOK
<1>6. PodInv'
  BY <1>0, <1>2, <1>3 DEF PodInv, PodOK
<1>7. ReqInv'
  <2> SUFFICES ASSUME NEW q \in Pods, NEW u \in Threads
               PROVE  ReqOK(req'[q][u], Mode[q], phase'[q], meta'[q], dir'[q],
                            configured'[q], invocation'[q])
    BY DEF ReqInv
  <2>1. CASE q = p
    BY <1>4, <2>1, IdleOK
  <2>2. CASE q # p
    BY <1>0, <1>2, <1>3, <1>4, <2>2 DEF ReqInv
  <2> QED BY <2>1, <2>2
<1> QED BY <1>5, <1>6, <1>7

LEMMA RedisStep ==
    ASSUME JaxInv, RedisRestart
    PROVE  JaxInv'
<1>1. TypeOK /\ PodInv /\ ReqInv
  BY DEF JaxInv
<1>2. /\ store' = Nil /\ faults' = faults + 1
      /\ UNCHANGED <<phase, fetched, files, process, req>>
  BY DEF RedisRestart, Fault
<1>3. TypeOK'
  BY <1>1, <1>2 DEF TypeOK, files, process
<1>4. PodInv' /\ ReqInv'
  BY <1>1, <1>2 DEF PodInv, PodOK, ReqInv, files, process
<1> QED BY <1>3, <1>4 DEF JaxInv

------------------------------------------------------------------------------
(* The steps of requests. *)

\* What a request that runs tells of its pod.
LEMMA RunningFacts ==
    ASSUME JaxInv, NEW p \in Pods, NEW t \in Threads, req[p][t].pc # "idle"
    PROVE  /\ req[p][t] \in Req
           /\ phase[p] = "serving" /\ meta[p].status # "none"
           /\ PlaceOK(req[p][t], phase[p], configured[p], invocation[p])
           /\ ExportOK(req[p][t], Mode[p], dir[p])
           /\ TraceOK(req[p][t], meta[p])
           /\ req[p][t].op # "none"
           /\ invocation[p] \in Nat
           /\ faults + 1 \in Nat
<1>1. TypeOK /\ PodInv /\ ReqInv
  BY DEF JaxInv
<1>2. ReqOK(req[p][t], Mode[p], phase[p], meta[p], dir[p], configured[p], invocation[p])
  BY <1>1 DEF ReqInv
<1>3. phase[p] = "serving" /\ req[p][t].op # "none"
  BY <1>2 DEF ReqOK, PlaceOK
<1>4. meta[p].status # "none"
  BY <1>1, <1>3 DEF PodInv, PodOK
<1>5. req[p][t] \in Req /\ invocation[p] \in Nat /\ faults + 1 \in Nat
  BY <1>1 DEF TypeOK
<1> QED BY <1>2, <1>3, <1>4, <1>5 DEF ReqOK

\* A request moves to r and leaves its pod's files and configuration alone.
LEMMA MoveStep ==
    ASSUME JaxInv, NEW p \in Pods, NEW t \in Threads, NEW r \in Req,
           Keep(p, t, r),
           UNCHANGED <<phase, fetched, files, configured>>,
           store' \in (SUBSET Variants) \union {Nil},
           lock' \in [Pods -> Threads \union {Nil}],
           cacheOn' \in [Pods -> BOOLEAN],
           \A q \in Pods : configured[q] => cacheOn'[q] = cacheOn[q],
           invocation' \in [Pods -> Nat],
           \A q \in Pods : invocation[q] <= invocation'[q],
           faults' \in Nat,
           ReqOK(r, Mode[p], phase[p], meta[p], dir[p], configured[p], invocation'[p])
    PROVE  JaxInv'
<1>1. TypeOK /\ PodInv /\ ReqInv
  BY DEF JaxInv
<1>2. UNCHANGED <<phase, meta, dir, configured>>
  BY DEF files
<1>3. req' \in [Pods -> [Threads -> Req]]
  BY <1>1, KeepType DEF Keep
<1>4. TypeOK'
  BY <1>1, <1>2, <1>3 DEF TypeOK
<1>5. PodInv'
  BY <1>1, <1>2 DEF PodInv, PodOK
<1>6. ReqInv'
  BY <1>1, <1>2, <1>4, ReqStep DEF Keep
<1> QED BY <1>4, <1>5, <1>6 DEF JaxInv

\* An answer keeps what a request has compiled, missed and stored.
LEMMA AnsweredOK ==
    ASSUME JaxInv, NEW p \in Pods, NEW t \in Threads, req[p][t].pc # "idle",
           NEW st \in {200, 500},
           req[p][t].op = "populate" /\ st = 200 => req[p][t].pc = "set",
           NEW conf, NEW inv
    PROVE  LET r == Answered(req[p][t], st)
           IN  r \in Req /\ ReqOK(r, Mode[p], phase[p], meta[p], dir[p], conf, inv)
<1> DEFINE r == Answered(req[p][t], st)
<1>1. /\ r.pc = "idle" /\ r.op = req[p][t].op /\ r.schedule = req[p][t].schedule
      /\ r.compiled = req[p][t].compiled /\ r.missed = req[p][t].missed
      /\ r.snap = req[p][t].snap /\ r.status = st
  BY DEF Answered, IdleReq
<1>2. r \in Req
  <2>1. req[p][t] \in Req
    BY RunningFacts
  <2>2. /\ req[p][t].op \in {"none", "work", "populate", "push"}
        /\ req[p][t].schedule \in Schedules \union {<<>>}
        /\ req[p][t].compiled \in SUBSET Variants
        /\ req[p][t].missed \in SUBSET Variants
        /\ req[p][t].snap \in SUBSET Variants
    BY <2>1 DEF Req
  <2>3. "idle" \in ReqPcs /\ st \in {0, 200, 500}
    BY DEF ReqPcs
  <2> QED BY <2>2, <2>3 DEF Answered, Req
<1>3. PlaceOK(r, phase[p], conf, inv)
  BY <1>1, RunningFacts DEF PlaceOK
<1>4. ExportOK(r, Mode[p], dir[p])
  <2>1. ExportOK(req[p][t], Mode[p], dir[p])
    BY RunningFacts
  <2>2. SUFFICES ASSUME r.op = "populate", CacheEnabledForMode(Mode[p]), r.status = 200
                 PROVE  r.compiled \subseteq r.snap
    BY <1>1 DEF ExportOK
  <2> QED BY <1>1, <2>1, <2>2 DEF ExportOK
<1>5. TraceOK(r, meta[p])
  BY <1>1, RunningFacts DEF TraceOK
<1> QED BY <1>2, <1>3, <1>4, <1>5 DEF ReqOK

LEMMA ClientStep ==
    ASSUME JaxInv, NEW p \in Pods, NEW t \in Threads, Client(p, t)
    PROVE  JaxInv'
<1>0. TypeOK
  BY DEF JaxInv
<1>a. /\ store \in (SUBSET Variants) \union {Nil}
      /\ lock \in [Pods -> Threads \union {Nil}] /\ cacheOn \in [Pods -> BOOLEAN]
      /\ invocation \in [Pods -> Nat] /\ faults \in Nat /\ invocation[p] \in Nat
      /\ \A q \in Pods : invocation[q] <= invocation[q]
  BY <1>0 DEF TypeOK
<1>1. ASSUME NEW s \in Schedules, NEW export \in BOOLEAN, StartWork(p, t, s, export)
      PROVE  JaxInv'
  <2> DEFINE e == export /\ Mode[p] = "populate"
             r == [IdleReq EXCEPT !.pc = "config", !.op = "work", !.schedule = s,
                      !.left = 1, !.export = e]
  <2>1. /\ Keep(p, t, r) /\ phase[p] = "serving"
        /\ invocation' = [invocation EXCEPT ![p] = @ + 1]
        /\ UNCHANGED <<store, phase, fetched, files, lock, configured, cacheOn, faults>>
    BY <1>1 DEF StartWork
  <2>2. e \in BOOLEAN
    OBVIOUS
  <2>3. r \in Req
    BY <2>2, ZenonT(60) DEF IdleReq, Req, ReqPcs
  <2>4. /\ invocation' \in [Pods -> Nat] /\ invocation'[p] >= 1
        /\ \A q \in Pods : invocation[q] <= invocation'[q]
    BY <1>a, <2>1
  <2>5. ReqOK(r, Mode[p], phase[p], meta[p], dir[p], configured[p], invocation'[p])
    BY <2>1, <2>4 DEF ReqOK, PlaceOK, ExportOK, TraceOK, IdleReq
  <2> QED BY <1>a, <2>1, <2>3, <2>4, <2>5, MoveStep
<1>2. ASSUME NEW s \in Schedules, NEW n \in 1..MaxIterations, StartPopulate(p, t, s, n)
      PROVE  JaxInv'
  <2> DEFINE r == [IdleReq EXCEPT !.pc = "config", !.op = "populate", !.schedule = s,
                      !.left = n, !.export = TRUE]
  <2>1. /\ Keep(p, t, r) /\ phase[p] = "serving"
        /\ UNCHANGED <<store, phase, fetched, files, process, faults>>
    BY <1>2 DEF StartPopulate
  <2>2. n \in Nat /\ n >= 1
    BY DeploymentAssumption
  <2>3. r \in Req
    BY <2>2 DEF IdleReq, Req, ReqPcs
  <2>4. ReqOK(r, Mode[p], phase[p], meta[p], dir[p], configured[p], invocation[p])
    BY <2>1, <2>2 DEF ReqOK, PlaceOK, ExportOK, TraceOK, IdleReq
  <2> QED BY <1>a, <2>1, <2>3, <2>4, MoveStep DEF process
<1>3. CASE StartPush(p, t)
  <2> DEFINE r == [IdleReq EXCEPT !.pc = "archive", !.op = "push"]
  <2>1. /\ Keep(p, t, r) /\ phase[p] = "serving"
        /\ UNCHANGED <<store, phase, fetched, files, process, faults>>
    BY <1>3 DEF StartPush
  <2>2. r \in Req
    BY DEF IdleReq, Req, ReqPcs
  <2>3. ReqOK(r, Mode[p], phase[p], meta[p], dir[p], configured[p], invocation[p])
    BY <2>1 DEF ReqOK, PlaceOK, ExportOK, TraceOK, IdleReq
  <2> QED BY <1>a, <2>1, <2>2, <2>3, MoveStep DEF process
<1> QED BY <1>1, <1>2, <1>3 DEF Client

LEMMA ConfigStep ==
    ASSUME JaxInv, NEW p \in Pods, NEW t \in Threads,
           EnterConfig(p, t) \/ Configure(p, t) \/ ConfigureFails(p, t)
    PROVE  JaxInv'
<1> DEFINE q == req[p][t]
<1>0. TypeOK /\ PodInv /\ ReqInv
  BY DEF JaxInv
<1>1. q.pc # "idle"
  BY DEF EnterConfig, Configure, ConfigureFails
<1>2. /\ q \in Req /\ phase[p] = "serving" /\ meta[p].status # "none"
      /\ PlaceOK(q, phase[p], configured[p], invocation[p])
      /\ ExportOK(q, Mode[p], dir[p]) /\ TraceOK(q, meta[p])
      /\ faults + 1 \in Nat
  BY <1>1, RunningFacts
<1>3. /\ store \in (SUBSET Variants) \union {Nil}
      /\ lock \in [Pods -> Threads \union {Nil}] /\ cacheOn \in [Pods -> BOOLEAN]
      /\ invocation \in [Pods -> Nat] /\ faults \in Nat
      /\ configured \in [Pods -> BOOLEAN]
      /\ \A o \in Pods : invocation[o] <= invocation[o]
  BY <1>0 DEF TypeOK
<1>4. SecondPull(p) => UNCHANGED files
  BY <1>2 DEF SecondPull, NoMeta
<1>5. CASE EnterConfig(p, t)
  <2>1. CASE configured[p]
    <3> DEFINE r == [q EXCEPT !.pc = "plan"]
    <3>1. q.pc = "config" /\ Keep(p, t, r)
          /\ UNCHANGED <<store, phase, fetched, files, lock, configured, cacheOn, invocation, faults>>
      BY <1>5, <2>1 DEF EnterConfig
    <3>2. r \in Req
      BY <1>2 DEF Req, ReqPcs
    <3>3. ReqOK(r, Mode[p], phase[p], meta[p], dir[p], configured[p], invocation[p])
      BY <1>2, <2>1, <3>1 DEF ReqOK, PlaceOK, ExportOK, TraceOK, Req
    <3> QED BY <1>3, <3>1, <3>2, <3>3, MoveStep
  <2>2. CASE ~configured[p]
    <3> DEFINE r == [q EXCEPT !.pc = "locked"]
    <3>1. q.pc = "config" /\ Keep(p, t, r) /\ lock' = [lock EXCEPT ![p] = t]
          /\ UNCHANGED <<store, phase, fetched, files, configured, cacheOn, invocation, faults>>
      BY <1>5, <2>2 DEF EnterConfig
    <3>2. r \in Req
      BY <1>2 DEF Req, ReqPcs
    <3>3. ReqOK(r, Mode[p], phase[p], meta[p], dir[p], configured[p], invocation[p])
      BY <1>2, <3>1 DEF ReqOK, PlaceOK, ExportOK, TraceOK, Req
    <3>4. lock' \in [Pods -> Threads \union {Nil}]
      BY <1>3, <3>1
    <3> QED BY <1>3, <3>1, <3>2, <3>3, <3>4, MoveStep
  <2> QED BY <2>1, <2>2
<1>6. CASE ConfigureFails(p, t)
  <2>1. /\ q.pc = "locked" /\ Keep(p, t, Answered(q, 500))
        /\ cacheOn' = [cacheOn EXCEPT ![p] = CacheEnabledForMode(Mode[p])]
        /\ lock' = [lock EXCEPT ![p] = Nil] /\ faults' = faults + 1
        /\ UNCHANGED <<store, phase, fetched, files, configured, invocation>>
    BY <1>4, <1>6 DEF ConfigureFails, Fault, Answer
  <2>2. /\ Answered(q, 500) \in Req
        /\ ReqOK(Answered(q, 500), Mode[p], phase[p], meta[p], dir[p], configured[p],
                 invocation[p])
    BY <2>1, AnsweredOK
  <2>3. /\ lock' \in [Pods -> Threads \union {Nil}] /\ cacheOn' \in [Pods -> BOOLEAN]
        /\ \A o \in Pods : configured[o] => cacheOn'[o] = cacheOn[o]
    <3>1. CacheEnabledForMode(Mode[p]) \in BOOLEAN
      BY DEF CacheEnabledForMode
    <3>2. configured[p] => cacheOn[p] = CacheEnabledForMode(Mode[p])
      BY <1>0 DEF PodInv, PodOK
    <3> QED BY <1>3, <2>1, <3>1, <3>2
  <2> QED BY <1>2, <1>3, <2>1, <2>2, <2>3, MoveStep
<1>7. CASE Configure(p, t)
  <2> DEFINE r == [q EXCEPT !.pc = "plan"]
  <2>1. /\ q.pc = "locked" /\ Keep(p, t, r)
        /\ cacheOn' = [cacheOn EXCEPT ![p] = CacheEnabledForMode(Mode[p])]
        /\ configured' = [configured EXCEPT ![p] = TRUE]
        /\ lock' = [lock EXCEPT ![p] = Nil]
        /\ UNCHANGED <<store, phase, fetched, files, invocation, faults>>
    BY <1>4, <1>7 DEF Configure
  <2>2. r \in Req
    BY <1>2 DEF Req, ReqPcs
  <2>3. ReqOK(r, Mode[p], phase[p], meta[p], dir[p], TRUE, invocation[p])
    BY <1>2, <2>1 DEF ReqOK, PlaceOK, ExportOK, TraceOK, Req
  <2>4. /\ lock' \in [Pods -> Threads \union {Nil}] /\ cacheOn' \in [Pods -> BOOLEAN]
        /\ configured' \in [Pods -> BOOLEAN] /\ configured'[p] = TRUE
        /\ cacheOn'[p] = CacheEnabledForMode(Mode[p])
        /\ \A o \in Pods \ {p} : configured'[o] = configured[o] /\ cacheOn'[o] = cacheOn[o]
        /\ \A o \in Pods : configured[o] => configured'[o]
    <3>1. CacheEnabledForMode(Mode[p]) \in BOOLEAN
      BY DEF CacheEnabledForMode
    <3> QED BY <1>3, <2>1, <3>1
  <2>5. req' \in [Pods -> [Threads -> Req]]
    BY <1>0, <2>1, <2>2, KeepType DEF Keep
  <2>6. TypeOK'
    BY <1>0, <2>1, <2>4, <2>5 DEF TypeOK, files
  <2>7. PodInv'
    BY <1>0, <2>1, <2>4 DEF PodInv, PodOK, files
  <2>8. ReqInv'
    BY <1>0, <1>3, <2>1, <2>3, <2>4, <2>6, ReqStep DEF Keep, files
  <2> QED BY <2>6, <2>7, <2>8 DEF JaxInv
<1> QED BY <1>5, <1>6, <1>7

LEMMA PlanStep ==
    ASSUME JaxInv, NEW p \in Pods, NEW t \in Threads, Plan(p, t)
    PROVE  JaxInv'
<1> DEFINE q == req[p][t]
           seen == IF q.op = "populate" THEN invocation[p] + 1 ELSE invocation[p]
           todo == IF q.op = "populate" THEN PopulateVariants(q.schedule)
                                        ELSE WorkVariants(q.schedule, seen)
           r == [q EXCEPT !.pc = "compile", !.todo = todo, !.left = @ - 1]
<1>0. TypeOK
  BY DEF JaxInv
<1>1. /\ q.pc = "plan" /\ Keep(p, t, r)
      /\ invocation' = [invocation EXCEPT ![p] = seen]
      /\ UNCHANGED <<store, phase, fetched, files, lock, configured, cacheOn, faults>>
  BY DEF Plan
<1>2. /\ q \in Req /\ phase[p] = "serving"
      /\ PlaceOK(q, phase[p], configured[p], invocation[p])
      /\ ExportOK(q, Mode[p], dir[p]) /\ TraceOK(q, meta[p])
      /\ q.op # "none" /\ invocation[p] \in Nat
  BY <1>1, RunningFacts
<1>3. q.op \in {"work", "populate"} /\ q.schedule \in Schedules /\ q.left \in Nat
      /\ q.left >= 1
  BY <1>1, <1>2 DEF PlaceOK, Req
<1>4. seen \in Nat /\ seen >= invocation[p] /\ (q.op = "work" => seen >= 1)
  BY <1>1, <1>2 DEF PlaceOK
<1>5. todo \subseteq PopulateVariants(q.schedule)
  BY <1>3, <1>4, SegmentInSchedule
<1>6. todo \in SUBSET Variants
  BY <1>3, <1>5, PopulateInVariants
<1> HIDE DEF seen, todo
<1>7. q.left - 1 \in Nat
  BY <1>3
<1>8. r \in Req
  BY <1>2, <1>6, <1>7, ZenonT(60) DEF Req, ReqPcs
<1>9. invocation' \in [Pods -> Nat] /\ invocation'[p] = seen
      /\ \A o \in Pods : invocation[o] <= invocation'[o]
  BY <1>0, <1>1, <1>4 DEF TypeOK
<1>10. ReqOK(r, Mode[p], phase[p], meta[p], dir[p], configured[p], seen)
  <2>1. /\ r.pc = "compile" /\ r.todo = todo /\ r.op = q.op /\ r.schedule = q.schedule
        /\ r.compiled = q.compiled /\ r.missed = q.missed /\ r.snap = q.snap
        /\ r.status = q.status /\ r.export = q.export
    BY <1>2 DEF Req
  <2>2. PlaceOK(r, phase[p], configured[p], seen)
    BY <1>1, <1>2, <1>4, <2>1 DEF PlaceOK
  <2>3. ExportOK(r, Mode[p], dir[p])
    BY <1>1, <1>2, <2>1 DEF ExportOK, PlaceOK
  <2>4. TraceOK(r, meta[p])
    BY <1>2, <1>5, <2>1 DEF TraceOK
  <2> QED BY <2>2, <2>3, <2>4 DEF ReqOK
<1>11. /\ store \in (SUBSET Variants) \union {Nil}
       /\ lock \in [Pods -> Threads \union {Nil}] /\ cacheOn \in [Pods -> BOOLEAN]
       /\ faults \in Nat
  BY <1>0 DEF TypeOK
<1> QED BY <1>1, <1>8, <1>9, <1>10, <1>11, MoveStep

\* A compile writes to the directory exactly when the cache is on, and the
\* cache is on wherever an import or an export needs it.
LEMMA CompileStep ==
    ASSUME JaxInv, NEW p \in Pods, NEW t \in Threads, Compile(p, t)
    PROVE  JaxInv'
<1> DEFINE q == req[p][t]
<1>0. TypeOK /\ PodInv /\ ReqInv
  BY DEF JaxInv
<1>1. PICK v \in q.todo :
          /\ Keep(p, t, [q EXCEPT !.todo = @ \ {v}, !.compiled = @ \union {v},
                            !.missed = IF cacheOn[p] /\ v \in dir[p] THEN @
                                       ELSE @ \union {v}])
          /\ dir' = IF cacheOn[p] THEN [dir EXCEPT ![p] = @ \union {v}] ELSE dir
  BY DEF Compile
<1> DEFINE missed == IF cacheOn[p] /\ v \in dir[p] THEN q.missed ELSE q.missed \union {v}
           r == [q EXCEPT !.todo = @ \ {v}, !.compiled = @ \union {v}, !.missed = missed]
<1>2. /\ q.pc = "compile"
      /\ UNCHANGED <<store, phase, fetched, meta, process, faults>>
  BY DEF Compile
<1>3. /\ q \in Req /\ phase[p] = "serving"
      /\ PlaceOK(q, phase[p], configured[p], invocation[p])
      /\ ExportOK(q, Mode[p], dir[p]) /\ TraceOK(q, meta[p])
      /\ q.op # "none"
  BY <1>2, RunningFacts
<1>4. /\ v \in Variants /\ q.todo \in SUBSET Variants /\ q.compiled \in SUBSET Variants
      /\ q.missed \in SUBSET Variants
  BY <1>3 DEF Req
<1>5. cacheOn[p] = CacheEnabledForMode(Mode[p])
  <2>1. configured[p]
    BY <1>2, <1>3 DEF PlaceOK
  <2> QED BY <1>0, <2>1 DEF PodInv, PodOK
<1>6. /\ dir' \in [Pods -> SUBSET Variants]
      /\ \A o \in Pods : dir[o] \subseteq dir'[o]
      /\ cacheOn[p] => v \in dir'[p]
  <2>1. dir \in [Pods -> SUBSET Variants]
    BY <1>0 DEF TypeOK
  <2> QED BY <1>1, <1>4, <2>1
<1>7. missed \in SUBSET Variants
  BY <1>4
<1>8. /\ Keep(p, t, r)
      /\ r.pc = "compile" /\ r.todo = q.todo \ {v} /\ r.compiled = q.compiled \union {v}
      /\ r.missed = missed /\ r.op = q.op /\ r.schedule = q.schedule /\ r.snap = q.snap
      /\ r.status = q.status /\ r.export = q.export /\ r.left = q.left
  BY <1>1, <1>2, <1>3 DEF Req
<1>9. r \in Req
  <2>1. /\ q.todo \ {v} \in SUBSET Variants /\ q.compiled \union {v} \in SUBSET Variants
        /\ missed \in SUBSET Variants
    BY <1>4, <1>7
  <2> HIDE DEF missed
  <2> QED BY <1>3, <2>1, ZenonT(60) DEF Req
<1>10. PlaceOK(r, phase[p], configured[p], invocation[p])
  BY <1>2, <1>3, <1>8 DEF PlaceOK
<1>11. ExportOK(r, Mode[p], dir'[p])
  <2>1. q.status = 0
    BY <1>2, <1>3 DEF PlaceOK
  <2>2. SUFFICES ASSUME r.op = "populate", CacheEnabledForMode(Mode[p])
                 PROVE  r.compiled \subseteq dir'[p]
    BY <1>8, <2>1 DEF ExportOK
  <2>3. q.compiled \subseteq dir[p]
    BY <1>2, <1>3, <1>8, <2>2 DEF ExportOK
  <2> QED BY <1>5, <1>6, <1>8, <2>2, <2>3
<1>12. TraceOK(r, meta[p])
  <2>1. r.todo \subseteq PopulateVariants(r.schedule) /\ v \in PopulateVariants(q.schedule)
    BY <1>2, <1>3, <1>8 DEF TraceOK
  <2>2. SUFFICES ASSUME meta[p].status = "ok",
                        PopulateVariants(r.schedule) \subseteq meta[p].files
                 PROVE  r.missed = {}
    BY <1>8, <2>1 DEF TraceOK
  <2>3. Mode[p] = "redis" /\ meta[p].files \subseteq dir[p]
    BY <1>0, <1>3, <2>2 DEF PodInv, PodOK
  <2>4. cacheOn[p]
    BY <1>5, <2>3 DEF CacheEnabledForMode
  <2>5. v \in dir[p]
    BY <1>8, <2>1, <2>2, <2>3
  <2>6. q.missed = {}
    BY <1>3, <1>8, <2>2 DEF TraceOK
  <2> QED BY <1>8, <2>4, <2>5, <2>6
<1>13. req' \in [Pods -> [Threads -> Req]]
  BY <1>0, <1>8, <1>9, KeepType DEF Keep
<1>14. TypeOK'
  BY <1>0, <1>2, <1>6, <1>13 DEF TypeOK, process
<1>15. PodInv'
  BY <1>0, <1>2, <1>6 DEF PodInv, PodOK, process
<1>16. \A o \in Pods : invocation[o] <= invocation[o]
  BY <1>0 DEF TypeOK
<1>17. ReqInv'
  <2>1. UNCHANGED <<phase, meta, configured, invocation>>
    BY <1>2 DEF process
  <2>2. ReqOK(r, Mode[p], phase[p], meta[p], dir'[p], configured'[p], invocation'[p])
    BY <1>10, <1>11, <1>12, <2>1 DEF ReqOK
  <2>3. req' = [req EXCEPT ![p][t] = r]
    BY <1>8 DEF Keep
  <2> QED BY <1>0, <1>6, <1>9, <1>14, <1>16, <2>1, <2>2, <2>3, ReqStep
<1> QED BY <1>14, <1>15, <1>17 DEF JaxInv

LEMMA ExportStep ==
    ASSUME JaxInv, NEW p \in Pods, NEW t \in Threads,
           \/ Compiled(p, t) \/ ArchiveCache(p, t) \/ PushSet(p, t) \/ PushFails(p, t)
    PROVE  JaxInv'
<1> DEFINE q == req[p][t]
<1>0. TypeOK
  BY DEF JaxInv
<1>1. q.pc \in {"compile", "archive", "set"}
  BY DEF Compiled, ArchiveCache, PushSet, PushFails
<1>2. /\ q \in Req /\ phase[p] = "serving"
      /\ PlaceOK(q, phase[p], configured[p], invocation[p])
      /\ ExportOK(q, Mode[p], dir[p]) /\ TraceOK(q, meta[p])
      /\ q.op # "none" /\ faults + 1 \in Nat
  BY <1>1, RunningFacts
<1>3. /\ store \in (SUBSET Variants) \union {Nil}
      /\ lock \in [Pods -> Threads \union {Nil}] /\ cacheOn \in [Pods -> BOOLEAN]
      /\ invocation \in [Pods -> Nat] /\ faults \in Nat
      /\ dir[p] \in SUBSET Variants
      /\ \A o \in Pods : invocation[o] <= invocation[o]
  BY <1>0 DEF TypeOK
<1>4. q.snap \in SUBSET Variants
  BY <1>2 DEF Req
<1>5. ASSUME NEW st \in {200, 500}, q.op = "populate" /\ st = 200 => q.pc = "set",
             Answer(p, t, st), store' \in (SUBSET Variants) \union {Nil}, faults' \in Nat,
             UNCHANGED <<phase, fetched, files, process>>
      PROVE  JaxInv'
  <2>1. /\ Answered(q, st) \in Req
        /\ ReqOK(Answered(q, st), Mode[p], phase[p], meta[p], dir[p], configured[p],
                 invocation[p])
    BY <1>1, <1>5, AnsweredOK
  <2> QED BY <1>3, <1>5, <2>1, MoveStep DEF Answer, process
<1>6. CASE PushSet(p, t)
  BY <1>3, <1>4, <1>5, <1>6 DEF PushSet
<1>7. CASE PushFails(p, t)
  BY <1>2, <1>3, <1>4, <1>5, <1>7 DEF PushFails, Fault
<1>8. CASE ArchiveCache(p, t)
  <2> DEFINE r == [q EXCEPT !.pc = "set", !.snap = dir[p]]
  <2>1. /\ q.pc = "archive" /\ Keep(p, t, r)
        /\ UNCHANGED <<store, phase, fetched, files, process, faults>>
    BY <1>8 DEF ArchiveCache
  <2>2. r \in Req
    BY <1>2, <1>3, ZenonT(60) DEF Req, ReqPcs
  <2>3. /\ r.pc = "set" /\ r.todo = q.todo /\ r.op = q.op /\ r.schedule = q.schedule
        /\ r.compiled = q.compiled /\ r.missed = q.missed /\ r.snap = dir[p]
        /\ r.status = q.status /\ r.export = q.export /\ r.left = q.left
    BY <1>2 DEF Req
  <2>4. PlaceOK(r, phase[p], configured[p], invocation[p])
    BY <1>2, <2>1, <2>3 DEF PlaceOK
  <2>5. ExportOK(r, Mode[p], dir[p])
    BY <1>2, <2>1, <2>3 DEF ExportOK
  <2>6. TraceOK(r, meta[p])
    BY <1>2, <2>3 DEF TraceOK
  <2> QED BY <1>3, <2>1, <2>2, <2>4, <2>5, <2>6, MoveStep DEF ReqOK, process
<1>9. CASE Compiled(p, t)
  <2>1. /\ q.pc = "compile"
        /\ UNCHANGED <<store, phase, fetched, files, process, faults>>
    BY <1>9 DEF Compiled
  <2>2. ASSUME NEW pc \in {"plan", "archive"}, Keep(p, t, [q EXCEPT !.pc = pc]),
               pc = "plan" => q.left > 0
        PROVE  JaxInv'
    <3> DEFINE r == [q EXCEPT !.pc = pc]
    <3>1. r \in Req
      BY <1>2 DEF Req, ReqPcs
    <3>2. /\ r.pc = pc /\ r.todo = q.todo /\ r.op = q.op /\ r.schedule = q.schedule
          /\ r.compiled = q.compiled /\ r.missed = q.missed /\ r.snap = q.snap
          /\ r.status = q.status /\ r.export = q.export /\ r.left = q.left
          /\ q.left \in Nat
      BY <1>2 DEF Req
    <3>3. PlaceOK(r, phase[p], configured[p], invocation[p])
      BY <1>2, <2>1, <2>2, <3>2 DEF PlaceOK
    <3>4. ExportOK(r, Mode[p], dir[p])
      BY <1>2, <2>1, <3>2 DEF ExportOK
    <3>5. TraceOK(r, meta[p])
      BY <1>2, <3>2 DEF TraceOK
    <3>6. ReqOK(r, Mode[p], phase[p], meta[p], dir[p], configured[p], invocation[p])
      BY <3>3, <3>4, <3>5 DEF ReqOK
    <3> QED BY <1>3, <2>1, <2>2, <3>1, <3>6, MoveStep DEF process
  <2>3. CASE q.left > 0
    BY <1>9, <2>2, <2>3 DEF Compiled
  <2>4. CASE ~(q.left > 0) /\ q.export
    BY <1>9, <2>2, <2>4 DEF Compiled
  <2>5. CASE ~(q.left > 0) /\ ~q.export
    <3>1. q.op # "populate"
      BY <1>2, <2>1, <2>5 DEF PlaceOK
    <3>2. Answer(p, t, 200)
      BY <1>9, <2>5 DEF Compiled
    <3> QED BY <1>3, <1>5, <2>1, <3>1, <3>2
  <2> QED BY <2>3, <2>4, <2>5
<1> QED BY <1>6, <1>7, <1>8, <1>9

------------------------------------------------------------------------------
LEMMA InitInv == Init => JaxInv
<1> SUFFICES ASSUME Init PROVE JaxInv
  OBVIOUS
<1>1. NoMeta \in Meta /\ NoMeta.status = "none"
  BY DEF NoMeta, Meta
<1>2. IdleReq \in Req
  BY IdleOK
<1>3. TypeOK
  BY <1>1, <1>2 DEF Init, TypeOK
<1>4. PodInv
  BY <1>1 DEF Init, PodInv, PodOK
<1>5. ReqInv
  BY IdleOK DEF Init, ReqInv
<1> QED BY <1>3, <1>4, <1>5 DEF JaxInv

LEMMA NextInv == JaxInv /\ [Next]_vars => JaxInv'
<1> SUFFICES ASSUME JaxInv, [Next]_vars PROVE JaxInv'
  OBVIOUS
<1>1. CASE UNCHANGED vars
  BY <1>1 DEF JaxInv, TypeOK, PodInv, PodOK, ReqInv, vars, files, process
<1>2. ASSUME NEW p \in Pods, Boot(p)
      PROVE  JaxInv'
  BY <1>2, BootStep
<1>3. ASSUME NEW p \in Pods, NEW t \in Threads, Step(p, t) \/ Client(p, t)
      PROVE  JaxInv'
  BY <1>3, ConfigStep, PlanStep, CompileStep, ExportStep, ClientStep DEF Step
<1>4. CASE Environment
  BY <1>4, ExitStep, BootStep, ConfigStep, ExportStep, RedisStep DEF Environment
<1> QED BY <1>1, <1>2, <1>3, <1>4 DEF Next

LEMMA Invariance == Spec => []JaxInv
BY InitInv, NextInv, PTL DEF Spec

\* Every variable keeps its type.
THEOREM TypeCorrect == Spec => []TypeOK
BY Invariance, PTL DEF JaxInv

\* What the import metadata of a serving pod lists is in its directory,
\* whatever was killed while the archive was being extracted.
THEOREM ImportSound == Spec => []ImportedIsPresent
<1>1. JaxInv => ImportedIsPresent
  BY DEF JaxInv, PodInv, PodOK, ImportedIsPresent
<1> QED BY <1>1, Invariance, PTL

\* A populate that was answered 200 stored everything it compiled, for any
\* number of concurrent requests, wherever a cache directory is configured.
THEOREM ExportSound == Spec => []PopulateExportsItsVariants
<1>1. JaxInv => PopulateExportsItsVariants
  <2> SUFFICES ASSUME JaxInv, NEW p \in Pods, NEW t \in Threads,
                      req[p][t].op = "populate", req[p][t].status = 200,
                      Mode[p] # "baseline"
               PROVE  req[p][t].compiled \subseteq req[p][t].snap
    BY DEF PopulateExportsItsVariants
  <2>1. ExportOK(req[p][t], Mode[p], dir[p])
    BY DEF JaxInv, ReqInv, ReqOK
  <2>2. CacheEnabledForMode(Mode[p])
    BY DeploymentAssumption DEF CacheEnabledForMode
  <2> QED BY <2>1, <2>2 DEF ExportOK
<1> QED BY <1>1, Invariance, PTL

\* A pod that imported what a populate of the schedule compiles never compiles
\* for that schedule, for every schedule.
THEOREM WarmTraceSound == Spec => []WarmTraceNeverCompiles
<1>1. JaxInv => WarmTraceNeverCompiles
  BY DEF JaxInv, ReqInv, ReqOK, TraceOK, WarmTraceNeverCompiles
<1> QED BY <1>1, Invariance, PTL

\* While a handler serves, its directory only gains entries: the handler's own
\* pull never clears it, because a pod that serves has its metadata.
LEMMA GrowStep ==
    ASSUME JaxInv, [Next]_vars, NEW p \in Pods,
           phase[p] = "serving", phase'[p] = "serving"
    PROVE  dir[p] \subseteq dir'[p]
<1>0. /\ phase \in [Pods -> {"pull", "extract", "serving"}]
      /\ dir \in [Pods -> SUBSET Variants]
      /\ \A o \in Pods : phase[o] = "serving" => meta[o] # NoMeta
  BY DEF JaxInv, TypeOK, PodInv, PodOK, NoMeta
<1>1. CASE UNCHANGED dir
  BY <1>1
<1>2. ASSUME NEW o \in Pods, Boot(o) \/ PullFails(o)
      PROVE  dir[p] \subseteq dir'[p]
  BY <1>0, <1>2 DEF Boot, PullSkipped, PullMissing, PullFound, ExtractEntry, StampImport,
                    PullFails
<1>3. ASSUME NEW o \in Pods, Kill(o) \/ Replace(o)
      PROVE  dir[p] \subseteq dir'[p]
  BY <1>0, <1>3 DEF Kill, Replace, Exit, files
<1>4. ASSUME NEW o \in Pods, NEW t \in Threads, Configure(o, t) \/ ConfigureFails(o, t)
      PROVE  dir[p] \subseteq dir'[p]
  <2>1. req[o][t].pc # "idle" /\ SecondPull(o)
    BY <1>4 DEF Configure, ConfigureFails
  <2>2. meta[o] # NoMeta
    BY <1>0, <2>1, RunningFacts
  <2> QED BY <2>1, <2>2 DEF SecondPull, files
<1>5. ASSUME NEW o \in Pods, NEW t \in Threads, Compile(o, t)
      PROVE  dir[p] \subseteq dir'[p]
  BY <1>0, <1>5 DEF Compile
<1>6. ASSUME NEW o \in Pods, NEW t \in Threads,
             \/ EnterConfig(o, t) \/ Plan(o, t) \/ Compiled(o, t) \/ ArchiveCache(o, t)
             \/ PushSet(o, t) \/ PushFails(o, t)
      PROVE  UNCHANGED dir
  BY <1>6 DEF EnterConfig, Plan, Compiled, ArchiveCache, PushSet, PushFails, files
<1>7. ASSUME NEW o \in Pods, NEW t \in Threads, Client(o, t)
      PROVE  UNCHANGED dir
  BY <1>7 DEF Client, StartWork, StartPopulate, StartPush, files
<1>8. RedisRestart \/ UNCHANGED vars => UNCHANGED dir
  BY DEF RedisRestart, vars, files
<1> QED BY <1>1, <1>2, <1>3, <1>4, <1>5, <1>6, <1>7, <1>8 DEF Next, Step, Environment

\* No step of any process removes an entry under a handler that serves.
THEOREM GrowOnly == Spec => CacheOnlyGrows
<1>1. JaxInv /\ [Next]_vars =>
        [\A p \in Pods : phase[p] = "serving" /\ phase'[p] = "serving"
             => dir[p] \subseteq dir'[p]]_vars
  BY GrowStep
<1> QED BY <1>1, Invariance, PTL DEF Spec, CacheOnlyGrows
------------------------------------------------------------------------------
(* The cache from outside.  An archive travels from the directory of one pod *)
(* through Redis and the entrypoint's pull into the metadata of another: at  *)
(* each stage it is one that a SET has stored.                               *)

PublishedInv ==
    /\ published \subseteq SUBSET Variants
    /\ store # Nil => store \in published
    /\ \A p \in Pods : phase[p] = "extract" => fetched[p] \in published
    /\ \A p \in Pods : Imported(p) # Nil => Imported(p) \in published

ArtifactInv == JaxInv /\ PublishedInv

\* What a step leaves alone is imported as before.
LEMMA ImportKept ==
    ASSUME NEW p \in Pods,
           \/ UNCHANGED <<phase, meta>>
           \/ phase[p] # "serving" /\ phase'[p] # "serving"
           \/ phase[p] # "serving" /\ meta'[p].status # "ok"
           \/ phase'[p] = phase[p] /\ meta'[p] = meta[p]
    PROVE  Imported(p)' = Imported(p)
BY DEF Imported

\* Every step but those of the entrypoint, of a death and of a SET leaves
\* Redis and what the pods imported alone: the handler's own pull, the only
\* other place that stamps metadata, never finds it missing.
LEMMA HandlerStep ==
    ASSUME JaxInv,
           \/ \E p \in Pods, t \in Threads :
                  \/ EnterConfig(p, t) \/ Configure(p, t) \/ ConfigureFails(p, t)
                  \/ Plan(p, t) \/ Compile(p, t) \/ Compiled(p, t)
                  \/ ArchiveCache(p, t) \/ Client(p, t)
    PROVE  UNCHANGED <<store, phase, fetched, meta>>
<1>1. ASSUME NEW p \in Pods, NEW t \in Threads, Configure(p, t) \/ ConfigureFails(p, t)
      PROVE  UNCHANGED <<store, phase, fetched, meta>>
  <2>1. req[p][t].pc # "idle" /\ SecondPull(p)
    BY <1>1 DEF Configure, ConfigureFails
  <2>2. meta[p] # NoMeta
    BY <2>1, RunningFacts DEF NoMeta
  <2> QED BY <1>1, <2>1, <2>2 DEF SecondPull, files, Configure, ConfigureFails
<1>2. ASSUME NEW p \in Pods, NEW t \in Threads, EnterConfig(p, t) \/ Plan(p, t)
      PROVE  UNCHANGED <<store, phase, fetched, meta>>
  BY <1>2 DEF EnterConfig, Plan, files
<1>3. ASSUME NEW p \in Pods, NEW t \in Threads,
             Compile(p, t) \/ Compiled(p, t) \/ ArchiveCache(p, t)
      PROVE  UNCHANGED <<store, phase, fetched, meta>>
  BY <1>3 DEF Compile, Compiled, ArchiveCache, files
<1>4. ASSUME NEW p \in Pods, NEW t \in Threads, Client(p, t)
      PROVE  UNCHANGED <<store, phase, fetched, meta>>
  BY <1>4 DEF Client, StartWork, StartPopulate, StartPush, files
<1> QED BY <1>1, <1>2, <1>3, <1>4

\* A SET stores an archive of the directory; a restart of Redis stores none.
LEMMA StoreStep ==
    ASSUME JaxInv,
           \/ \E p \in Pods, t \in Threads : PushSet(p, t) \/ PushFails(p, t)
           \/ RedisRestart
    PROVE  /\ store' \in (SUBSET Variants) \union {Nil}
           /\ UNCHANGED <<phase, fetched, meta>>
<1>1. ASSUME NEW p \in Pods, NEW t \in Threads, PushSet(p, t) \/ PushFails(p, t)
      PROVE  /\ store' \in (SUBSET Variants) \union {Nil}
             /\ UNCHANGED <<phase, fetched, meta>>
  <2>1. req[p][t].snap \in SUBSET Variants /\ store \in (SUBSET Variants) \union {Nil}
    BY DEF JaxInv, TypeOK, Req
  <2> QED BY <1>1, <2>1 DEF PushSet, PushFails, files
<1>2. CASE RedisRestart
  BY <1>2 DEF RedisRestart, files
<1> QED BY <1>1, <1>2

\* The entrypoint: only StampImport makes a pod work from an archive, and from
\* the one it fetched.
LEMMA EntrypointStep ==
    ASSUME ArtifactInv, NEW p \in Pods, Boot(p) \/ PullFails(p)
    PROVE  /\ store' = store
           /\ \A o \in Pods : phase'[o] = "extract" => fetched'[o] \in published
           /\ \/ \A o \in Pods : Imported(o)' = Imported(o)
              \/ /\ Imported(p) = Nil /\ Imported(p)' \in published
                 /\ \A o \in Pods \ {p} : Imported(o)' = Imported(o)
<1>0. /\ phase \in [Pods -> {"pull", "extract", "serving"}]
      /\ fetched \in [Pods -> SUBSET Variants] /\ meta \in [Pods -> Meta]
      /\ \A o \in Pods : phase[o] = "extract" => fetched[o] \in published
      /\ store # Nil => store \in published
  BY DEF ArtifactInv, JaxInv, TypeOK, PublishedInv
<1>1. CASE PullFound(p)
  BY <1>0, <1>1 DEF PullFound, Advance, Imported
<1>2. CASE ExtractEntry(p)
  BY <1>0, <1>2 DEF ExtractEntry, Imported
<1>3. CASE StampImport(p)
  <2>1. /\ phase[p] = "extract" /\ phase' = [phase EXCEPT ![p] = "serving"]
        /\ meta' = [meta EXCEPT ![p] = [status |-> "ok", files |-> fetched[p]]]
        /\ UNCHANGED <<store, fetched>>
    BY <1>3 DEF StampImport, Advance, Stamp
  <2>2. Imported(p) = Nil /\ Imported(p)' = fetched[p]
    BY <1>0, <2>1 DEF Imported
  <2>3. \A o \in Pods \ {p} : Imported(o)' = Imported(o)
    BY <1>0, <2>1 DEF Imported
  <2> QED BY <1>0, <2>1, <2>2, <2>3
<1>4. CASE PullSkipped(p) \/ PullMissing(p) \/ PullFails(p)
  <2>1. PICK status \in {"skipped", "missing", "error"} :
            /\ phase[p] = "pull" /\ Stamp(p, status, {})
            /\ Advance(p, "serving") \/ UNCHANGED phase
            /\ UNCHANGED <<store, fetched>>
    BY <1>4 DEF PullSkipped, PullMissing, PullFails
  <2>2. \A o \in Pods : Imported(o)' = Imported(o)
    BY <1>0, <2>1 DEF Stamp, Advance, Imported
  <2> QED BY <1>0, <2>1, <2>2 DEF Advance
<1> QED BY <1>1, <1>2, <1>3, <1>4 DEF Boot

\* A container that dies works from nothing.
LEMMA DeathStep ==
    ASSUME ArtifactInv, NEW p \in Pods, Kill(p) \/ Replace(p)
    PROVE  /\ store' = store
           /\ \A o \in Pods : phase'[o] = "extract" => fetched'[o] \in published
           /\ Imported(p)' = Nil
           /\ \A o \in Pods \ {p} : Imported(o)' = Imported(o)
<1>0. /\ phase \in [Pods -> {"pull", "extract", "serving"}]
      /\ fetched \in [Pods -> SUBSET Variants] /\ meta \in [Pods -> Meta]
      /\ \A o \in Pods : phase[o] = "extract" => fetched[o] \in published
  BY DEF ArtifactInv, JaxInv, TypeOK, PublishedInv
<1>1. Exit(p) /\ store' = store
  BY DEF Kill, Replace
<1>2. meta' = meta \/ meta' = [meta EXCEPT ![p] = NoMeta]
  BY DEF Kill, Replace, files
<1>3. /\ phase' = [phase EXCEPT ![p] = "pull"]
      /\ fetched' = [fetched EXCEPT ![p] = {}]
  BY <1>1 DEF Exit
<1>4. \A o \in Pods \ {p} : phase'[o] = phase[o] /\ meta'[o] = meta[o]
                             /\ fetched'[o] = fetched[o]
  BY <1>0, <1>2, <1>3
<1>5. phase'[p] = "pull"
  BY <1>0, <1>3
<1> QED BY <1>0, <1>1, <1>4, <1>5 DEF Imported

\* One step of the pods and of Redis is a step of the abstract cache.
LEMMA ArtifactStep ==
    ASSUME ArtifactInv, [PublishedNext]_<<vars, published>>
    PROVE  PublishedInv' /\ [Cache!Next]_(Cache!cacheVars)
<1>0. JaxInv /\ PublishedInv
  BY DEF ArtifactInv
<1>1. CASE UNCHANGED <<vars, published>>
  <2>1. UNCHANGED <<store, phase, fetched, meta, published>>
    BY <1>1 DEF vars, files
  <2>2. \A p \in Pods : Imported(p)' = Imported(p)
    BY <2>1, ImportKept
  <2> QED BY <1>0, <2>1, <2>2 DEF PublishedInv, Cache!cacheVars
<1>2. CASE PublishedNext
  <2>0. Next /\ published' = published \union ({store'} \ {Nil})
    BY <1>2 DEF PublishedNext
  <2>1. ASSUME store' = store
        PROVE  published' = published
    BY <1>0, <2>0, <2>1 DEF PublishedInv
  <2>2. ASSUME NEW p \in Pods, NEW t \in Threads,
               \/ EnterConfig(p, t) \/ Configure(p, t) \/ ConfigureFails(p, t)
               \/ Plan(p, t) \/ Compile(p, t) \/ Compiled(p, t)
               \/ ArchiveCache(p, t) \/ Client(p, t)
        PROVE  PublishedInv' /\ [Cache!Next]_(Cache!cacheVars)
    <3>1. UNCHANGED <<store, phase, fetched, meta>>
      BY <1>0, <2>2, HandlerStep
    <3>2. \A o \in Pods : Imported(o)' = Imported(o)
      BY <3>1, ImportKept
    <3> QED BY <1>0, <2>1, <3>1, <3>2 DEF PublishedInv, Cache!cacheVars
  <2>3. ASSUME \/ \E p \in Pods, t \in Threads : PushSet(p, t) \/ PushFails(p, t)
               \/ RedisRestart
        PROVE  PublishedInv' /\ [Cache!Next]_(Cache!cacheVars)
    <3>1. store' \in (SUBSET Variants) \union {Nil} /\ UNCHANGED <<phase, fetched, meta>>
      BY <1>0, <2>3, StoreStep
    <3>2. \A o \in Pods : Imported(o)' = Imported(o)
      BY <3>1, ImportKept
    <3>3. PublishedInv'
      BY <1>0, <2>0, <3>1, <3>2 DEF PublishedInv
    <3>4. CASE store' = Nil
      BY <2>0, <3>2, <3>3, <3>4 DEF Cache!cacheVars
    <3>5. CASE store' # Nil
      <4>1. store' \in SUBSET Variants /\ published' = published \union {store'}
        BY <2>0, <3>1, <3>5
      <4>2. Cache!Publish(store')
        BY <3>2, <4>1 DEF Cache!Publish
      <4> QED BY <3>3, <4>1, <4>2 DEF Cache!Next
    <3> QED BY <3>3, <3>4, <3>5
  <2>4. ASSUME NEW p \in Pods, Boot(p) \/ PullFails(p)
        PROVE  PublishedInv' /\ [Cache!Next]_(Cache!cacheVars)
    <3>1. /\ store' = store
          /\ \A o \in Pods : phase'[o] = "extract" => fetched'[o] \in published
      BY <2>4, EntrypointStep
    <3>2. CASE \A o \in Pods : Imported(o)' = Imported(o)
      BY <1>0, <2>1, <3>1, <3>2 DEF PublishedInv, Cache!cacheVars
    <3>3. CASE /\ Imported(p) = Nil /\ Imported(p)' \in published
               /\ \A o \in Pods \ {p} : Imported(o)' = Imported(o)
      <4>1. published' = published /\ published \subseteq SUBSET Variants
        BY <1>0, <2>1, <3>1 DEF PublishedInv
      <4>2. PublishedInv'
        BY <1>0, <3>1, <3>3, <4>1 DEF PublishedInv
      <4>3. Cache!Load(p, Imported(p)')
        BY <3>3, <4>1 DEF Cache!Load
      <4>4. Imported(p)' \in SUBSET Variants
        BY <3>3, <4>1
      <4> QED BY <4>2, <4>3, <4>4 DEF Cache!Next
    <3> QED BY <2>4, <3>2, <3>3, EntrypointStep
  <2>5. ASSUME NEW p \in Pods, Kill(p) \/ Replace(p)
        PROVE  PublishedInv' /\ [Cache!Next]_(Cache!cacheVars)
    <3>1. /\ store' = store
          /\ \A o \in Pods : phase'[o] = "extract" => fetched'[o] \in published
          /\ Imported(p)' = Nil
          /\ \A o \in Pods \ {p} : Imported(o)' = Imported(o)
      BY <2>5, DeathStep
    <3>2. PublishedInv'
      BY <1>0, <2>1, <3>1 DEF PublishedInv
    <3>3. Cache!Unload(p)
      BY <2>1, <3>1 DEF Cache!Unload
    <3> QED BY <3>2, <3>3 DEF Cache!Next
  <2> QED BY <2>0, <2>2, <2>3, <2>4, <2>5 DEF Next, Step, Environment
<1> QED BY <1>1, <1>2

LEMMA ArtifactInvariance ==
    /\ PublishedSpec => Cache!Init
    /\ PublishedSpec => []ArtifactInv
    /\ PublishedSpec => [][Cache!Next]_(Cache!cacheVars)
<1>1. PublishedInit => ArtifactInv /\ Cache!Init
  <2> SUFFICES ASSUME PublishedInit PROVE ArtifactInv /\ Cache!Init
    OBVIOUS
  <2>1. JaxInv /\ published = {} /\ store = Nil /\ \A p \in Pods : phase[p] = "pull"
    BY InitInv DEF PublishedInit, Init
  <2> QED BY <2>1 DEF ArtifactInv, PublishedInv, Imported, Cache!Init
<1>2. ArtifactInv /\ [PublishedNext]_<<vars, published>>
        => ArtifactInv' /\ [Cache!Next]_(Cache!cacheVars)
  <2> SUFFICES ASSUME ArtifactInv, [PublishedNext]_<<vars, published>>
               PROVE  ArtifactInv' /\ [Cache!Next]_(Cache!cacheVars)
    OBVIOUS
  <2>1. [Next]_vars
    BY DEF PublishedNext
  <2>2. JaxInv'
    BY <2>1, NextInv DEF ArtifactInv
  <2> QED BY <2>2, ArtifactStep DEF ArtifactInv
<1> QED BY <1>1, <1>2, PTL DEF PublishedSpec

\* The pods implement the cache: an import is one whole archive that a SET has
\* stored, made by the entrypoint alone, and kept until the container exits,
\* whatever is killed, replaced, restarted or lost on the way.
THEOREM PodsImplementCache == PublishedSpec => ImplementsArtifactCache
BY ArtifactInvariance, PTL DEF ImplementsArtifactCache, Cache!Spec

\* So no pod claims to have imported what was never published.
THEOREM ImportsWerePublished == PublishedSpec => []Cache!WorksFromPublished
<1>1. ArtifactInv => Cache!WorksFromPublished
  BY DEF ArtifactInv, PublishedInv, Cache!WorksFromPublished
<1> QED BY <1>1, ArtifactInvariance, PTL
==============================================================================

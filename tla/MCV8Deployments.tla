--------------------------- MODULE MCV8Deployments ---------------------------
(* Two deployments of V8CacheServer in one instance.  alone: one redis pod,  *)
(* two sources under one key.  Otherwise the redis pod requires an artifact  *)
(* and a populate pod shares its key.                                        *)
EXTENDS MCV8CacheServer

VARIABLE alone

Paired == INSTANCE V8CacheServer WITH
    Sources <- {s1}, Require <- MCRequire, MaxRequests <- 2, MaxFaults <- 1

DeploymentsInit == alone \in BOOLEAN /\ Init

AloneNext ==
    \/ \E r \in Slots :
          \/ StartWork(p1, r)
          \/ \E s \in Sources : StartPopulate(p1, r, s)
          \/ Callback(p1, r)
          \/ RedisGet(p1, r) \/ RedisSet(p1, r) \/ Closed(p1, r)
    \/ Kill(p1)
    \/ LateSet \/ RedisRestart

\* The populate pod has one client.
PairedNext ==
    \/ \E p \in Pods, r \in Slots :
          /\ p = p2 => r = r1
          /\ \/ Paired!StartWork(p, r)
             \/ Paired!StartPopulate(p, r, s1)
             \/ Paired!Callback(p, r)
             \/ Paired!RedisGet(p, r) \/ Paired!RedisSet(p, r) \/ Paired!Closed(p, r)
    \/ \E p \in Pods : Paired!Kill(p)
    \/ Paired!LateSet \/ Paired!RedisRestart

DeploymentsNext ==
    /\ UNCHANGED alone
    /\ (alone /\ AloneNext) \/ (~alone /\ PairedNext)

DeploymentsSpec ==
    /\ DeploymentsInit /\ [][DeploymentsNext]_<<vars, alone>>
    /\ \A r \in Slots : WF_vars(alone /\ Callback(p1, r))

\* AnsweredUnlessClosed of the pod whose callbacks are fair.
AloneAnswered ==
    \A r \in Slots :
        (alone /\ req[p1][r].pc # "idle") ~> (req[p1][r].pc \in {"idle", "closed"})
==============================================================================

-------------------------- MODULE MCJaxDeployments --------------------------
(* Two deployments of JaxCachePod in one instance.  Tracing: a populate pod  *)
(* and a redis pod with one handler thread each.  Racing: the populate pod   *)
(* alone, whose two threads race for CONFIG_LOCK.  racing says which of them *)
(* a behaviour is of; the constants are the larger of the two bounds.        *)
EXTENDS MCJaxCachePod

VARIABLE racing

Tracing == INSTANCE JaxCachePod WITH Schedules <- TwoSegments
Racing == INSTANCE JaxCachePod WITH MaxIterations <- 1, MaxFaults <- 1

\* Bounds of the two: the tracing populate pod is not killed once it serves
\* (the racing one is), so that three faults can hit the redis pod.
OneThread == \A p \in Pods : req'[p][t2] = req[p][t2]
PopulateStays == phase[pop] = "serving" => phase'[pop] = "serving"
OnePod == phase'[red] = phase[red] /\ req'[red] = req[red]

DeploymentsInit == racing \in BOOLEAN /\ Init

DeploymentsNext ==
    /\ UNCHANGED racing
    /\ \/ racing /\ Racing!Next /\ OnePod
       \/ ~racing /\ Tracing!Next /\ OneThread /\ PopulateStays

\* Fairness of the racing threads, as in FairSpec.
DeploymentsSpec ==
    /\ DeploymentsInit /\ [][DeploymentsNext]_<<vars, racing>>
    /\ \A t \in {t1, t2} : WF_vars(racing /\ Racing!Step(pop, t))

\* RequestsAnswered, of the threads that race.
RacersAnswered == racing => RequestsAnswered
=============================================================================

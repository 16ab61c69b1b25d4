------------------------- MODULE MCPySpecDeployments -------------------------
(* Two deployments of PySpecPod in one instance: the one of the constants,   *)
(* and one that requires and preloads its artifact while populates overlap.  *)
EXTENDS MCPySpecPod

CONSTANT Overlapping  \* which of them: {FALSE}, {TRUE} or both

VARIABLE overlapping  \* the one a behaviour is of; never changes

Strict == INSTANCE PySpecPod WITH
    Require <- TRUE, Preload <- TRUE, Overlap <- TRUE,
    PopulateOf <- PopulateDefault, MaxInvocations <- 1

DeploymentsInit ==
    /\ overlapping \in Overlapping
    /\ IF overlapping THEN Strict!Init ELSE Init

DeploymentsNext ==
    /\ UNCHANGED overlapping
    /\ \/ ~overlapping /\ Next
       \/ overlapping /\ Strict!Next

DeploymentsSpec == DeploymentsInit /\ [][DeploymentsNext]_<<vars, overlapping>>

\* FairSpec of the strict deployment, whose threads need not be fair here.
FairDeploymentsSpec ==
    /\ DeploymentsSpec
    /\ \A p \in Pods : WF_vars(overlapping /\ Strict!Entrypoint(p))

\* SavedPodComesUp, of the deployment whose pods crash-loop.
StrictComesUp == overlapping => Strict!SavedPodComesUp
==============================================================================

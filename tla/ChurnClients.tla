----------------------------- MODULE ChurnClients -----------------------------
(* The ten measurement clients, each the churn loop with the options it has   *)
(* and one plan for them.  The constants of the loop itself are the plan of   *)
(* the Julia client, the only one that exports.                               *)
EXTENDS ProgressiveChain

VARIABLE client \* which client runs; never changes

Clients == {"julia", "node", "go", "jvm", "dotnet", "jax", "openwhisk",
            "cold", "warmup", "progressive"}

-----------------------------------------------------------------------------
\* OPENWHISK_POINTS, the churn points of a run of 2000 invocations.
OpenWhiskPoints == {1, 112, 478, 800, 1044, 1283, 1679, 1790}

\* Python's round of n / 2000: to the nearest, ties to even.
Rounded(n) ==
  LET q == n \div 2000
      r == n % 2000
  IN IF r < 1000 \/ (r = 1000 /\ q % 2 = 0) THEN q ELSE q + 1

\* The points scaled to a run of n invocations.
ScaledPoints(n) ==
  ({1} \union {IF Rounded(p * n) = 0 THEN 1 ELSE Rounded(p * n) : p \in OpenWhiskPoints})
    \cap 1..n

-----------------------------------------------------------------------------
(* What of a pod's counter is among the CSV_FIELDS of each client's table.   *)

\* The churn harnesses and the client of the OpenWhisk plan.
CounterColumns == {"request_in_pod"}

\* The cold-start client keeps whether the pod called the work its first.
ColdColumns == {"first_work"}

WarmupColumns == {}
ProgressiveColumns == {}

-----------------------------------------------------------------------------
(* The clients.                                                              *)

Node == INSTANCE ChurnHarness WITH
  Invocations <- 3, SegmentLength <- 2, ChurnAt <- {},
  NoInitialChurn <- FALSE, ExportAt <- 0,
  Columns <- CounterColumns

Go == INSTANCE ChurnHarness WITH
  Invocations <- 2, SegmentLength <- 1, ChurnAt <- {},
  NoInitialChurn <- FALSE, ExportAt <- 0,
  Columns <- CounterColumns

Jvm == INSTANCE ChurnHarness WITH
  Invocations <- 2, SegmentLength <- 0, ChurnAt <- {2},
  NoInitialChurn <- FALSE, ExportAt <- 0,
  Columns <- CounterColumns

Dotnet == INSTANCE ChurnHarness WITH
  Invocations <- 2, SegmentLength <- 2, ChurnAt <- {2, 4},
  NoInitialChurn <- FALSE, ExportAt <- 0,
  Columns <- CounterColumns

Jax == INSTANCE ChurnHarness WITH
  Invocations <- 2, SegmentLength <- 2, ChurnAt <- {},
  NoInitialChurn <- FALSE, ExportAt <- 0,
  Columns <- CounterColumns

OpenWhisk == INSTANCE ChurnHarness WITH
  Invocations <- 2, SegmentLength <- 0, ChurnAt <- ScaledPoints(2),
  NoInitialChurn <- FALSE, ExportAt <- 0,
  Columns <- CounterColumns

\* A trial is an invocation with a restart of its own.
Cold == INSTANCE ChurnHarness WITH
  Invocations <- 2, SegmentLength <- 1, ChurnAt <- {},
  NoInitialChurn <- FALSE, ExportAt <- 0,
  Columns <- ColdColumns

\* One restart, before the first invocation.
Warmup == INSTANCE ChurnHarness WITH
  Invocations <- 2, SegmentLength <- 0, ChurnAt <- {},
  NoInitialChurn <- FALSE, ExportAt <- 0,
  Columns <- WarmupColumns

Progressive == INSTANCE ProgressiveChain WITH
  Invocations <- 2, SegmentLength <- 1, ChurnAt <- {},
  NoInitialChurn <- FALSE, ExportAt <- 0,
  Columns <- ProgressiveColumns

-----------------------------------------------------------------------------
ClientsInit ==
  /\ client \in Clients
  /\ ChainInit
  /\ client = "progressive" => phase[2] = "gone" /\ served = [p \in Pods |-> 0]

\* A step of each client's main.
JuliaLoop == client = "julia" /\ Harness /\ UNCHANGED chainVars
NodeLoop == client = "node" /\ Node!Harness /\ UNCHANGED chainVars
GoLoop == client = "go" /\ Go!Harness /\ UNCHANGED chainVars
JvmLoop == client = "jvm" /\ Jvm!Harness /\ UNCHANGED chainVars
DotnetLoop == client = "dotnet" /\ Dotnet!Harness /\ UNCHANGED chainVars
JaxLoop == client = "jax" /\ Jax!Harness /\ UNCHANGED chainVars
OpenWhiskLoop == client = "openwhisk" /\ OpenWhisk!Harness /\ UNCHANGED chainVars
ColdLoop == client = "cold" /\ Cold!Harness /\ UNCHANGED chainVars
WarmupLoop == client = "warmup" /\ Warmup!Harness /\ UNCHANGED chainVars
ProgressiveLoop == client = "progressive" /\ Progressive!ChainClient

Loop ==
  \/ JuliaLoop \/ NodeLoop \/ GoLoop \/ JvmLoop \/ DotnetLoop \/ JaxLoop
  \/ OpenWhiskLoop \/ ColdLoop \/ WarmupLoop \/ ProgressiveLoop

\* Around it the same cluster; the pods of the JAX function exchange archives.
Around ==
  \/ client = "progressive" /\ Progressive!ChainEnvironment
  \/ client # "progressive" /\ Environment /\ UNCHANGED chainVars
  \/ Finished /\ UNCHANGED chainVars

ClientsNext == (Loop \/ Around) /\ UNCHANGED client

clientsVars == <<vars, chainVars, client>>

ClientsSpec ==
  ClientsInit /\ [][ClientsNext]_clientsVars /\ WF_clientsVars(Loop /\ UNCHANGED client)

=============================================================================

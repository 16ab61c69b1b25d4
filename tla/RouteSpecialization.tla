------------------------- MODULE RouteSpecialization -------------------------
(***************************************************************************)
(* prototypes/python-profile-specialization: generic runs count routes     *)
(* (handler.run_generic), profile_codegen turns the counts of the written  *)
(* profiles into an if/elif chain with the hottest route first, and the    *)
(* generated run() must follow choose_route on every request.  In "run"    *)
(* the two loops are stepped side by side, as the comparison of --profile- *)
(* out and the tests do.  What a route does to the state is a parameter    *)
(* (RouteBlocks.tla compares the two renderings of the routes themselves). *)
(***************************************************************************)
EXTENDS Naturals, FiniteSets

CONSTANTS Benchmarks, States,
          ProfileSeeds,   \* bound: states the profiled runs start from
          N,              \* routes per benchmark
          Percent,        \* tickets are mix64(...) % Percent
          GenericTable,   \* thresholds of handler.ROUTES
          SpecTable,      \* thresholds of profile_codegen.ROUTE_SPECS
          Mix(_, _),      \* ticket of a request index and a state
          Block(_, _, _, _), \* what a route does: benchmark, route, index, state
          MaxProfiles, Requests    \* bounds: profiles written, requests of a run

Routes == 1..N
Indices == 0..Requests
Tables == [Benchmarks -> [Routes -> 1..Percent]]

ASSUME SizesAssumption ==
    /\ N \in Nat \ {0}
    /\ Percent \in Nat \ {0}
    /\ MaxProfiles \in Nat
    /\ Requests \in Nat
    /\ ProfileSeeds \subseteq States

ASSUME WorkAssumption ==
    /\ \A i \in Indices, s \in States : Mix(i, s) \in 0..(Percent - 1)
    /\ \A b \in Benchmarks, r \in Routes, i \in Indices, s \in States :
          Block(b, r, i, s) \in States

\* The two modules hold their own copies of the table; thresholds increase up
\* to 100.
ASSUME TablesAssumption ==
    /\ GenericTable \in Tables
    /\ SpecTable = GenericTable
    /\ \A b \in Benchmarks :
          /\ GenericTable[b][N] = Percent
          /\ \A i, j \in Routes : i < j => GenericTable[b][i] < GenericTable[b][j]

VARIABLES phase,      \* "idle", "profile", "ready", "run", "stop"
          bench,      \* the benchmark of the current run
          profiled,   \* benchmarks of the profiles written
          profiles,   \* how many were written
          counts,     \* routeCounts, summed over the profiles
          order,      \* specializedOrder of the artifact
          artifact,   \* BENCHMARK of the artifact
          index,      \* request index of the loops
          gstate, sstate, \* state of the generic and of the generated loop
          choice,     \* position of choose_route in its table, 0 between requests
          chosen,     \* the route it returned, 0 before it does
          arm         \* position in the generated chain, 0 before it is tried

loop == <<index, gstate, sstate, choice, chosen, arm>>
files == <<profiled, profiles, counts, order, artifact>>
vars == <<phase, bench, files, loop>>

TypeOK ==
    /\ phase \in {"idle", "profile", "ready", "run", "stop"}
    /\ bench \in Benchmarks /\ artifact \in Benchmarks
    /\ profiled \subseteq Benchmarks
    /\ profiles \in 0..MaxProfiles
    /\ counts \in [Routes -> Nat]
    /\ order \in [Routes -> Routes]
    /\ index \in Indices
    /\ gstate \in States /\ sstate \in States
    /\ choice \in 0..N /\ chosen \in 0..N /\ arm \in 0..(N + 1)

Init ==
    /\ phase = "idle"
    /\ bench \in Benchmarks /\ artifact = bench
    /\ profiled = {} /\ profiles = 0
    /\ counts = [r \in Routes |-> 0]
    /\ order = [r \in Routes |-> r]
    /\ index = 0
    /\ gstate \in ProfileSeeds /\ sstate = gstate
    /\ choice = 0 /\ chosen = 0 /\ arm = 0

------------------------------------------------------------------------------
(* The generic loop: run_generic and choose_route. *)
Ticket(state) == Mix(index, state)

StartRequest ==
    /\ phase \in {"profile", "run"} /\ choice = 0 /\ index < Requests
    /\ choice' = 1
    /\ UNCHANGED <<phase, bench, files, index, gstate, sstate, chosen, arm>>

\* The first route whose threshold exceeds the ticket, else the last one.
TryRoute ==
    /\ choice > 0 /\ chosen = 0
    /\ IF Ticket(gstate) < GenericTable[bench][choice] \/ choice = N
       THEN chosen' = choice /\ UNCHANGED choice
       ELSE choice' = choice + 1 /\ UNCHANGED chosen
    /\ UNCHANGED <<phase, bench, files, index, gstate, sstate, arm>>

\* handler.py --benchmark b --seed s --profile-out.
StartProfile(b, s) ==
    /\ phase = "idle" /\ profiles < MaxProfiles
    /\ phase' = "profile"
    /\ bench' = b /\ gstate' = s /\ sstate' = s /\ index' = 0
    /\ UNCHANGED <<files, choice, chosen, arm>>

CountRequest ==
    /\ phase = "profile" /\ chosen > 0
    /\ counts' = [counts EXCEPT ![chosen] = @ + 1]
    /\ gstate' = Block(bench, chosen, index, gstate)
    /\ index' = index + 1
    /\ choice' = 0 /\ chosen' = 0
    /\ UNCHANGED <<phase, bench, profiled, profiles, order, artifact, sstate, arm>>

WriteProfile ==
    /\ phase = "profile" /\ choice = 0 /\ index >= Requests
    /\ phase' = "idle"
    /\ profiled' = profiled \union {bench}
    /\ profiles' = profiles + 1
    /\ UNCHANGED <<bench, counts, order, artifact, loop>>

------------------------------------------------------------------------------
(* profile_codegen.py *)

\* sorted(..., reverse=True) by count: hottest first, ties in table order.
HotOrders ==
    {f \in [Routes -> Routes] :
        /\ \A r \in Routes : \E k \in Routes : f[k] = r
        /\ \A j, k \in Routes : j < k =>
              \/ counts[f[j]] > counts[f[k]]
              \/ counts[f[j]] = counts[f[k]] /\ f[j] < f[k]}

\* Mutant of GenerateArtifact: only routes the profile has seen are rendered.
GenerateArtifactSeenOnly ==
    /\ phase = "idle" /\ Cardinality(profiled) = 1
    /\ phase' = "ready"
    /\ artifact' \in profiled
    /\ \E f \in HotOrders :
          order' = [k \in Routes |-> IF counts[f[k]] > 0 THEN f[k] ELSE f[1]]
    /\ UNCHANGED <<bench, profiled, profiles, counts, loop>>

\* load_profiles accepts profiles of one benchmark; generate_artifact.
GenerateArtifact ==
    /\ phase = "idle" /\ Cardinality(profiled) = 1
    /\ phase' = "ready"
    /\ artifact' \in profiled
    /\ order' \in HotOrders
    /\ UNCHANGED <<bench, profiled, profiles, counts, loop>>

\* ValueError: no profiles loaded, or profiles of several benchmarks.
RefuseProfiles ==
    /\ phase = "idle" /\ Cardinality(profiled) # 1
    /\ phase' = "stop"
    /\ UNCHANGED <<bench, files, loop>>

PreviousThreshold(r) == IF r = 1 THEN 0 ELSE SpecTable[artifact][r - 1]

\* Mutant of RouteExpression: only the upper bound is rendered.
RouteExpressionUpperOnly(r, ticket) == ticket < SpecTable[artifact][r]

RouteExpression(r, ticket) ==
    /\ PreviousThreshold(r) # 0 => PreviousThreshold(r) <= ticket
    /\ ticket < SpecTable[artifact][r]

------------------------------------------------------------------------------
(* handler.py --artifact: the generated run() beside the generic one. *)

StartRun(b, s) ==
    /\ phase = "ready"
    /\ phase' = IF b = artifact THEN "run" ELSE "stop"   \* does not match
    /\ bench' = b /\ gstate' = s /\ sstate' = s /\ index' = 0
    /\ UNCHANGED <<files, choice, chosen, arm>>

EnterChain ==
    /\ phase = "run" /\ chosen > 0 /\ arm = 0
    /\ arm' = 1
    /\ UNCHANGED <<phase, bench, files, index, gstate, sstate, choice, chosen>>

NextArm ==
    /\ arm \in Routes /\ ~RouteExpression(order[arm], Ticket(sstate))
    /\ arm' = arm + 1
    /\ UNCHANGED <<phase, bench, files, index, gstate, sstate, choice, chosen>>

TakeArm ==
    /\ arm \in Routes /\ RouteExpression(order[arm], Ticket(sstate))
    /\ gstate' = Block(bench, chosen, index, gstate)
    /\ sstate' = Block(artifact, order[arm], index, sstate)
    /\ index' = index + 1
    /\ choice' = 0 /\ chosen' = 0 /\ arm' = 0
    /\ UNCHANGED <<phase, bench, files>>

FinishRun ==
    /\ phase = "run" /\ choice = 0 /\ index >= Requests
    /\ phase' = "ready"
    /\ UNCHANGED <<bench, files, loop>>

Next ==
    \/ StartRequest \/ TryRoute
    \/ \E b \in Benchmarks, s \in ProfileSeeds : StartProfile(b, s)
    \/ \E b \in Benchmarks, s \in States : StartRun(b, s)
    \/ CountRequest \/ WriteProfile
    \/ GenerateArtifact \/ RefuseProfiles
    \/ EnterChain \/ NextArm \/ TakeArm \/ FinishRun

Spec == Init /\ [][Next]_vars

------------------------------------------------------------------------------
(* Properties. *)

\* Between requests the generated loop is where the generic loop is, so the
\* checksums agree for every seed and every order profiles can produce
\* (test_generated_artifacts_match_generic_handler samples six seeds).
SameChecksum == phase = "run" /\ choice = 0 => sstate = gstate

\* No ticket falls through the generated chain, whatever its order: the
\* AssertionError that generate_artifact renders after it is never raised.
NeverUnreachable == arm # N + 1
==============================================================================

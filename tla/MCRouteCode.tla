----------------------------- MODULE MCRouteCode -----------------------------
(* The generated code in one instance: its chain against choose_route        *)
(* (RouteSpecialization) or one of its routes against the interpreter        *)
(* (RouteBlocks).  The variables of the other part stand still.              *)
EXTENDS MCRouteSpecialization, RouteBlocks

VARIABLE chain  \* is the behaviour about the chain?

ChainInit ==
    /\ Init
    /\ steps = <<>> /\ round = 0 /\ blockIndex = 0 /\ blockState = 0
    /\ salt = 61 /\ iacc = 0 /\ gacc = 0

BlockInit ==
    /\ StartBlock
    /\ phase = "stop" /\ bench = "lusearch" /\ artifact = bench
    /\ profiled = {} /\ profiles = 0
    /\ counts = [r \in Routes |-> 0] /\ order = [r \in Routes |-> r]
    /\ index = 0 /\ gstate = 3 /\ sstate = 3
    /\ choice = 0 /\ chosen = 0 /\ arm = 0

CodeInit == chain \in BOOLEAN /\ (IF chain THEN ChainInit ELSE BlockInit)

CodeNext ==
    \/ chain /\ Next /\ UNCHANGED <<chain, blockVars>>
    \/ ~chain /\ BlockNext /\ UNCHANGED <<chain, vars>>

CodeSpec == CodeInit /\ [][CodeNext]_<<chain, vars, blockVars>>
==============================================================================

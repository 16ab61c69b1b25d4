----------------------------- MODULE MCPySpecPod -----------------------------
(* Instances of PySpecPod: one populate pod and one saved pod. *)
EXTENDS PySpecPod, TLC

CONSTANTS pop, sav, lus, h2, t1, t2

WorkOfDeployment == [p \in Pods |-> IF p = sav THEN {lus} ELSE {h2}]
PopulateThroughPop == [p \in Pods |-> IF p = pop THEN {lus, h2} ELSE {}]
PopulateEverywhere == [p \in Pods |-> {lus, h2}]
PopulateDefault == [p \in Pods |-> IF p = pop THEN {lus} ELSE {}]
WorkAny == [p \in Pods |-> IF p = sav THEN {lus, h2} ELSE {}]
WorkSaved == [p \in Pods |-> IF p = sav THEN {lus} ELSE {}]
PopulateDefaultEverywhere == [p \in Pods |-> {lus}]
ThreadSymmetry == Permutations(Threads)
==============================================================================

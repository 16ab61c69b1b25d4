------------------------ MODULE MCRouteSpecialization ------------------------
(* The five benchmarks with the thresholds of the two source tables. *)
EXTENDS RouteSpecialization, Sequences

HandlerRoutes ==
    [lusearch |-> <<78, 91, 97, 100>>,  h2 |-> <<70, 88, 97, 100>>,
     eclipse |-> <<58, 80, 94, 100>>,   jython |-> <<44, 69, 88, 100>>,
     fop |-> <<45, 76, 92, 100>>]

CodegenRouteSpecs ==
    [lusearch |-> <<78, 91, 97, 100>>,  h2 |-> <<70, 88, 97, 100>>,
     eclipse |-> <<58, 80, 94, 100>>,   jython |-> <<44, 69, 88, 100>>,
     fop |-> <<45, 76, 92, 100>>]

BenchmarkNames == {"lusearch", "h2", "eclipse", "jython", "fop"}

\* Profiled runs start from a few seeds, specialised runs from every state.
Seeds == {3, 60, 85}

\* Every ticket is some state's ticket; routes move states apart.
Tickets == 0..99
MixAll(i, s) == (s + 37 * i) % 100
BlockApart(b, r, i, s) == (s + 41 * r + i) % 100
==============================================================================

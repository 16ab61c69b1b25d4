--------------------------- MODULE MCChurnHarness ---------------------------
(* Instances of ChurnHarness for TLC.                                        *)
EXTENDS ChurnHarness

\* One ready pod, one left over, and a uid for each restart and each fault.
FivePods == 1..5
ChurnAtNone == {}

\* run_churn_bench.py of the Julia prototype, CSV_FIELDS.
JuliaColumns == {"request_in_pod"}
=============================================================================

---------------------------- MODULE MCChurnClients ----------------------------
(* Instances of ChurnClients for TLC.                                        *)
EXTENDS ChurnClients

\* One ready pod, one left over, and a uid for each restart and each fault.
FourPods == 1..4

ChurnAtNone == {}

\* run_churn_bench.py of the Julia prototype, CSV_FIELDS.
JuliaColumns == {"request_in_pod"}
=============================================================================

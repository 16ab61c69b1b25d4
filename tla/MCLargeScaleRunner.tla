-------------------------- MODULE MCLargeScaleRunner --------------------------
(* Instances of LargeScaleRunner for TLC.                                    *)
EXTENDS LargeScaleRunner

TwoShards == 1..2
OneBenchmark == <<"lusearch">>
=============================================================================

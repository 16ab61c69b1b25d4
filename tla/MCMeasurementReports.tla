------------------------- MODULE MCMeasurementReports -------------------------
(* The reports over all tables within the bounds: a table of SeriesLength     *)
(* rows alone, or a baseline and a saved table of PairLength rows.            *)
EXTENDS ReportProperties, TLC

CONSTANTS c1, c2

\* Checksums only have to be told apart.
AnswerChecksums == {c1, c2}
Symmetry == Permutations(AnswerChecksums)
=============================================================================

------------------------- MODULE MCExperimentRunner -------------------------
(***************************************************************************)
(* Instances of ExperimentRunner for TLC.                                  *)
(***************************************************************************)
EXTENDS ExperimentRunner

CONSTANTS a, b

\* Two configurations, the second of which is given twice, as when a group
\* is named twice.
MCTwice == <<a, b, b>>

MCTwo == <<a, b>>

=============================================================================

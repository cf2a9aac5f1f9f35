--------------------------- MODULE MCTurnPipeline ---------------------------
(* Model values and symmetry for TLC.                                      *)
EXTENDS TurnPipelineProps, TLC
Symmetry == Permutations(Connections) \cup Permutations(Sessions)
=============================================================================

--------------------------- MODULE MCMitraChannels ---------------------------
(* The runs give the constants model values; liveness is checked, so no     *)
(* symmetry is used.                                                       *)
EXTENDS MitraChannels
=============================================================================

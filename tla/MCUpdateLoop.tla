----------------------------- MODULE MCUpdateLoop -----------------------------
(* Nothing but the model: the constants are in the configurations.          *)
EXTENDS UpdateLoop, TLC
=============================================================================

------------------------------ MODULE MCStream ------------------------------
(* The constants of Stream are plain values: see the configurations. *)
EXTENDS StreamProps
=============================================================================

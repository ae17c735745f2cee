----------------------------- MODULE MCMachine -----------------------------
(***************************************************************************)
(* An instance of Machine for TLC: the constants are in the configuration. *)
(***************************************************************************)
EXTENDS Machine
=============================================================================

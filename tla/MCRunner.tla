------------------------------ MODULE MCRunner ------------------------------
(***************************************************************************)
(* Runner for TLC; the numbers are in the configurations.                  *)
(***************************************************************************)
EXTENDS Runner
=============================================================================

------------------------------ MODULE MCFrontend ------------------------------
(* Instances of Frontend for TLC. *)
EXTENDS Frontend
=============================================================================

------------------------------ MODULE MCNetplay ------------------------------
(* Instances of Netplay for TLC. *)
EXTENDS Netplay, TLC

CONSTANTS A, B

(* One player on the first console; the second is a spectator. *)
OneAndSpectator == (A :> {1}) @@ (B :> {})

(* The second console reads less. *)
TwoAndOne == (A :> 2) @@ (B :> 1)
=============================================================================

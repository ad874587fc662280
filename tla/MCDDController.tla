---------------------------- MODULE MCDDController ----------------------------
(* Instances of DDController for TLC. *)
EXTENDS DDController

(* The first sectors of the two blocks. *)
BlockStarts == {<<0, 0>>, <<1, 0>>}
=============================================================================

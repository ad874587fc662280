------------------------------- MODULE Lockstep -------------------------------
(***************************************************************************)
(* What netplay promises: consoles that run the same game are given the    *)
(* same inputs.  For each player there is one sequence of inputs, which    *)
(* only grows; each console reads it from the beginning, one input at a    *)
(* time, at its own pace, and never ahead of it.                           *)
(***************************************************************************)
EXTENDS Naturals, Sequences

CONSTANTS Clients, Players, Keys

VARIABLES
    inputs,     \* inputs[p]: the inputs of player p, in the order of the game's reads
    got         \* got[c][p]: those that the game on console c has been given

Init ==
    /\ inputs = [p \in Players |-> << >>]
    /\ got = [c \in Clients |-> [p \in Players |-> << >>]]

(* The next input of a player is fixed, once and for all consoles. *)
Agree(p, keys) ==
    /\ inputs' = [inputs EXCEPT ![p] = Append(@, keys)]
    /\ UNCHANGED got

(* A game reads a controller. *)
Read(c, p) ==
    /\ Len(got[c][p]) < Len(inputs[p])
    /\ got' = [got EXCEPT ![c][p] = Append(@, inputs[p][Len(@) + 1])]
    /\ UNCHANGED inputs

Next ==
    \/ \E p \in Players, keys \in Keys : Agree(p, keys)
    \/ \E c \in Clients, p \in Players : Read(c, p)

Spec == Init /\ [][Next]_<<inputs, got>>
=============================================================================

----------------------------- MODULE MCScheduler -----------------------------
(* Instances of Scheduler for TLC. *)
EXTENDS Scheduler

(* Interrupts on; on with the error level set, from which ERET stops the   *)
(* core; and off.                                                          *)
On  == [ie |-> TRUE,  exl |-> FALSE, erl |-> FALSE, im |-> {"IP2", "IP3", "IP7"}]
ERL == [ie |-> TRUE,  exl |-> FALSE, erl |-> TRUE,  im |-> {"IP2", "IP3", "IP7"}]
Off == [ie |-> FALSE, exl |-> FALSE, erl |-> FALSE, im |-> {}]

OnOff == {On, Off}
OnERL == {On, ERL}
OnOnly == {On}

(* The machine once the game has programmed the VI and Compare: from then  *)
(* on a VI_INT is always queued.                                           *)
InitVI == /\ LET c == add_interrupt_event(PowerOn, "VI", VIDelay)
                 d == add_compare_event(remove_event(c, "COMPARE"), 9 % W)
             IN  r4300 = [d EXCEPT !.compare = 9 % W]
          /\ phase = "no"

(* A bound: the frontend saves once, and may load that state many times. *)
OneSave == r4300.job = "save" => r4300.file.q = << >>

SpecVI == InitVI /\ [][Next]_vars
=============================================================================

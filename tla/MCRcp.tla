------------------------------- MODULE MCRcp --------------------------------
(* Instances of Rcp for TLC. *)
EXTENDS Rcp

(* Stores to SP_STATUS_REG: start a task with an interrupt on BREAK, as    *)
(* the operating system does; acknowledge its interrupt; ask for one; and  *)
(* halt the RSP.                                                           *)
Start == [halt |-> "clear", clear_broke |-> TRUE,  intr |-> "keep",  intr_break |-> "set"]
Ack   == [halt |-> "keep",  clear_broke |-> FALSE, intr |-> "clear", intr_break |-> "keep"]
Ask   == [halt |-> "keep",  clear_broke |-> FALSE, intr |-> "set",   intr_break |-> "keep"]
Stop  == [halt |-> "set",   clear_broke |-> FALSE, intr |-> "keep",  intr_break |-> "keep"]

AllWrites == {Start, Ack, Ask, Stop}
StartAck  == {Start, Ack}
NoWrites  == {}
=============================================================================

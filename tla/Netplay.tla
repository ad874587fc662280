------------------------------- MODULE Netplay -------------------------------
(***************************************************************************)
(* Netplay: consoles that run the same game exchange the state of their    *)
(* controllers through a server, over UDP.  A console sends the keys of    *)
(* the players that it controls, asks the server for the event of every    *)
(* player, and gives the event, not its own keys, to the game.  It keeps   *)
(* the events that it has received in a list per player.  When the one it  *)
(* needs is missing, a second thread asks for it again and again, until    *)
(* the first has received it or ten seconds have passed.                   *)
(*                                                                         *)
(* The network loses, duplicates, delays and reorders datagrams: what has  *)
(* been sent and not been lost may arrive at any time and any number of    *)
(* times, or never.  The server is not part of the repository: all that is *)
(* assumed of it is that it fixes the event of a player's count once, when *)
(* it is first asked for it, and sends what it has fixed.                  *)
(*                                                                         *)
(*   pc, player   where netplay_update_input is, and for which control_id  *)
(*   thread       the thread of netplay_require_response: none, about to   *)
(*                check_valid, about to look at the time, or its result    *)
(*   channel      is l_udpChannel open, that is, not -1?                   *)
(*   running      has the emulation not been stopped?                      *)
(*   inbox        the events of the datagram that netplay_process is       *)
(*                going through                                            *)
(*   event_first  the list of events of each player                        *)
(*   count        netplay_count of each player                             *)
(*   net          the datagrams that the consoles have sent, without the   *)
(*                lost ones                                                *)
(*   inputs       the events that the server has fixed                     *)
(*   slow         may ten seconds pass without an answer?                  *)
(*   got          history: what the games were given (read by no action)   *)
(*                                                                         *)
(* Definitions named Faulty_... are seeded faults, as in EventQueue.       *)
(***************************************************************************)
EXTENDS Naturals, Sequences

CONSTANTS
    Clients,      \* the consoles
    NPlayers,     \* the players are 1..NPlayers
    Controls,     \* Controls[c]: the players that console c controls
    Keys,         \* the states of a controller
    Released,     \* the one in which no key is pressed
    Word,         \* the modulus of the 32-bit counts
    PerPacket,    \* a bound on the events of a datagram
    MaxCount,     \* a bound on the reads of a controller
    Reads         \* and one for each console

Players == 1..NPlayers
Counts == 0..(MaxCount - 1)

ASSUME NetplayAssumption ==
    /\ NPlayers \in Nat \ {0}
    /\ Released \in Keys
    /\ Controls \in [Clients -> SUBSET Players]
    /\ MaxCount \in Nat /\ PerPacket \in Nat \ {0}
    /\ Word \in Nat /\ Word > 2 * MaxCount
    /\ Reads \in [Clients -> 0..MaxCount]

VARIABLES pc, player, thread, channel, running, inbox, event_first, count,
          net, inputs, slow, got

vars == <<pc, player, thread, channel, running, inbox, event_first, count,
          net, inputs, slow, got>>

-----------------------------------------------------------------------------
(* Datagrams. *)

KeyInfo(p, n, keys) == [type |-> "send", player |-> p, count |-> n, keys |-> keys]
KeyRequest(c, p, n) == [type |-> "request", from |-> c, player |-> p, count |-> n]

(* A datagram is sent, and perhaps lost; certainly, once the channel is -1. *)
Send(c, m) == net' \in IF channel[c] THEN {net, net \cup {m}} ELSE {net}

-----------------------------------------------------------------------------
(* A console. *)

check_valid(c, p, n) == \E i \in DOMAIN event_first[c][p] : event_first[c][p][i].count = n

Valid(c) == check_valid(c, player[c], count[c][player[c]])

(* The request for the event that is needed next. *)
Wanted(c) == KeyRequest(c, player[c], count[c][player[c]])

(* netplay_update_input, as far as the first netplay_get_input: the keys   *)
(* of each player that this console controls are sent, once.  The server   *)
(* has no use for keys that come after it has fixed the event.             *)
(*                                                                         *)
(* A bound on the games: every update reads every controller.  The code    *)
(* sends and gets keys for a channel whose command is JCMD_CONTROLLER_READ *)
(* and, when it gets them, whose controller is present.                    *)
netplay_send_raw_input(c) ==
    /\ pc[c] = "idle" /\ running[c]
    /\ \A p \in Players : count[c][p] < Reads[c]
    /\ \E keys \in [Controls[c] -> Keys] :
           net' = net \cup {KeyInfo(p, count[c][p], keys[p]) :
                               p \in {q \in Controls[c] : count[c][q] = Len(inputs[q])}}
    /\ pc' = [pc EXCEPT ![c] = "process"]
    /\ player' = [player EXCEPT ![c] = 1]
    /\ UNCHANGED <<thread, channel, running, inbox, event_first, count, inputs, slow, got>>

(* The datagrams of the server to console c: the answers to its requests,  *)
(* and the newest event, for which nobody has asked.                       *)
SentTo(c, p, n) == KeyRequest(c, p, n) \in net \/ n = Len(inputs[p]) - 1

(* netplay_process receives a datagram: k events of player p, from count n *)
(* on.                                                                     *)
Receive(c, p, n, k) ==
    /\ pc[c] \in {"process", "wait"} /\ inbox[c].events = << >>
    /\ SentTo(c, p, n) /\ n + k <= Len(inputs[p])
    /\ inbox' = [inbox EXCEPT ![c] =
                    [player |-> p,
                     events |-> [i \in 1..k |-> [count |-> n + i - 1, keys |-> inputs[p][n + i]]]]]
    /\ UNCHANGED <<pc, player, thread, channel, running, event_first, count, net, inputs, slow,
                   got>>

Faulty_Recorded(c, p, n) == check_valid(c, p, n)

(* An event is not wanted when it is in the list already or has happened.  *)
Recorded(c, p, n) ==
    (n + Word - count[c][p]) % Word > (Word - 1) \div 2 \/ check_valid(c, p, n)

(* netplay_process takes one event of the datagram into the list, at its   *)
(* front.                                                                  *)
netplay_process(c) ==
    /\ inbox[c].events # << >>
    /\ LET p == inbox[c].player
           e == Head(inbox[c].events)
       IN  event_first' = IF Recorded(c, p, e.count) THEN event_first
                          ELSE [event_first EXCEPT ![c][p] = <<e>> \o @]
    /\ inbox' = [inbox EXCEPT ![c].events = Tail(@)]
    /\ UNCHANGED <<pc, player, thread, channel, running, count, net, inputs, slow, got>>

(* netplay_get_raw_input goes on to the next player. *)
NextPlayer(c) ==
    /\ pc' = [pc EXCEPT ![c] = IF player[c] < NPlayers THEN "process" ELSE "idle"]
    /\ player' = [player EXCEPT ![c] = IF @ < NPlayers THEN @ + 1 ELSE @]

Faulty_IsCurrent(c, i) == i = 1

(* The first event of the list that has the current count. *)
IsCurrent(c, i) ==
    LET l == event_first[c][player[c]]
        n == count[c][player[c]]
    IN  l[i].count = n /\ \A j \in 1..(i - 1) : l[j].count # n

netplay_delete_event(l, i) == [j \in 1..(Len(l) - 1) |-> IF j < i THEN l[j] ELSE l[j + 1]]

(* The end of netplay_get_input: the event is given to the game and        *)
(* deleted...                                                              *)
Use(c) ==
    /\ \E i \in DOMAIN event_first[c][player[c]] :
           /\ IsCurrent(c, i)
           /\ got' = [got EXCEPT ![c][player[c]] = Append(@, event_first[c][player[c]][i].keys)]
           /\ event_first' = [event_first EXCEPT ![c][player[c]] = netplay_delete_event(@, i)]
    /\ count' = [count EXCEPT ![c][player[c]] = @ + 1]
    /\ NextPlayer(c)
    /\ UNCHANGED running

(* ... or the emulation is stopped, and the keys are 0 in the meantime;    *)
(* the other players are still asked.                                      *)
GiveUp(c) ==
    /\ running' = [running EXCEPT ![c] = FALSE]
    /\ NextPlayer(c)
    /\ UNCHANGED <<event_first, count, got>>

(* netplay_get_input, after netplay_process: the event is asked for,       *)
(* whether or not it is there, and netplay_ensure_valid looks for it.      *)
netplay_get_input(c) ==
    /\ pc[c] = "process" /\ inbox[c].events = << >>
    /\ Send(c, Wanted(c))
    /\ \/ Valid(c) /\ Use(c) /\ UNCHANGED thread
       \/ ~Valid(c) /\ ~channel[c] /\ GiveUp(c) /\ UNCHANGED thread
       \/ /\ ~Valid(c) /\ channel[c]
          /\ pc' = [pc EXCEPT ![c] = "wait"]
          /\ thread' = [thread EXCEPT ![c] = "check"]
          /\ UNCHANGED <<player, running, event_first, count, got>>
    /\ UNCHANGED <<channel, inbox, inputs, slow>>

(* The loop of netplay_ensure_valid ends. *)
StopWaiting(c) ==
    /\ pc[c] = "wait" /\ inbox[c].events = << >>
    /\ Valid(c) \/ ~channel[c]
    /\ pc' = [pc EXCEPT ![c] = "join"]
    /\ UNCHANGED <<player, thread, channel, running, inbox, event_first, count, net, inputs,
                   slow, got>>

(* SDL_WaitThread.  A thread that has given up is believed, even when the  *)
(* event has come in the meantime.                                         *)
Join(c) ==
    /\ pc[c] = "join"
    /\ \/ thread[c] = "ok" /\ Use(c)
       \/ thread[c] = "failed" /\ GiveUp(c)
    /\ thread' = [thread EXCEPT ![c] = "none"]
    /\ UNCHANGED <<channel, inbox, net, inputs, slow>>

-----------------------------------------------------------------------------
(* The thread of netplay_require_response. *)

CheckInThread(c) ==
    /\ thread[c] = "check"
    /\ thread' = [thread EXCEPT ![c] = IF Valid(c) THEN "ok" ELSE "time"]
    /\ UNCHANGED <<pc, player, channel, running, inbox, event_first, count, net, inputs, slow,
                   got>>

TimeOut(c) ==
    /\ thread[c] = "time" /\ slow
    /\ channel' = [channel EXCEPT ![c] = FALSE]
    /\ thread' = [thread EXCEPT ![c] = "failed"]
    /\ UNCHANGED <<pc, player, running, inbox, event_first, count, net, inputs, slow, got>>

Faulty_RequestAgain(c) ==
    /\ thread[c] = "time"
    /\ thread' = [thread EXCEPT ![c] = "check"]
    /\ UNCHANGED <<pc, player, channel, running, inbox, event_first, count, net, inputs, slow,
                   got>>

RequestAgain(c) ==
    /\ thread[c] = "time"
    /\ Send(c, Wanted(c))
    /\ thread' = [thread EXCEPT ![c] = "check"]
    /\ UNCHANGED <<pc, player, channel, running, inbox, event_first, count, inputs, slow, got>>

-----------------------------------------------------------------------------
(* The server. *)

(* What the server may fix as a player's next event: the keys that it was  *)
(* sent or, when they are late or lost, those of the event before.         *)
Fixable(p) ==
    LET n == Len(inputs[p])
    IN  {keys \in Keys : KeyInfo(p, n, keys) \in net}
            \cup {IF n > 0 THEN inputs[p][n] ELSE Released}

(* The first request for an event arrives. *)
Fix(p) ==
    /\ \E c \in Clients : KeyRequest(c, p, Len(inputs[p])) \in net
    /\ \E keys \in Fixable(p) : inputs' = [inputs EXCEPT ![p] = Append(@, keys)]
    /\ net' = net \ {KeyInfo(p, Len(inputs[p]), keys) : keys \in Keys}
    /\ UNCHANGED <<pc, player, thread, channel, running, inbox, event_first, count, slow, got>>

-----------------------------------------------------------------------------
Init ==
    /\ pc = [c \in Clients |-> "idle"]
    /\ player = [c \in Clients |-> 1]
    /\ thread = [c \in Clients |-> "none"]
    /\ channel = [c \in Clients |-> TRUE]
    /\ running = [c \in Clients |-> TRUE]
    /\ inbox = [c \in Clients |-> [player |-> 1, events |-> << >>]]
    /\ event_first = [c \in Clients |-> [p \in Players |-> << >>]]
    /\ count = [c \in Clients |-> [p \in Players |-> 0]]
    /\ net = {}
    /\ inputs = [p \in Players |-> << >>]
    /\ slow \in BOOLEAN
    /\ got = [c \in Clients |-> [p \in Players |-> << >>]]

(* The game has read as often as the bound allows, or was stopped. *)
Finished ==
    /\ \A c \in Clients : pc[c] = "idle" /\ (~running[c] \/ \E p \in Players : count[c][p] = Reads[c])
    /\ UNCHANGED vars

RequireResponse(c) == CheckInThread(c) \/ TimeOut(c) \/ RequestAgain(c)

Next ==
    \/ \E c \in Clients :
           \/ netplay_send_raw_input(c)
           \/ \E p \in Players, n \in Counts, k \in 1..PerPacket : Receive(c, p, n, k)
           \/ netplay_process(c)
           \/ netplay_get_input(c)
           \/ StopWaiting(c)
           \/ Join(c)
           \/ RequireResponse(c)
    \/ \E p \in Players : Fix(p)
    \/ Finished

Spec == Init /\ [][Next]_vars

(* The answer that console c waits for arrives. *)
ReceiveWanted(c) == Receive(c, player[c], count[c][player[c]], 1)

(* Threads run; datagrams do not arrive for ever faster than a console     *)
(* takes them; ten seconds pass.  Only when no answer takes ten seconds:   *)
(* of the requests that are sent again and again one arrives at last, and  *)
(* so does the answer.                                                     *)
Fairness ==
    /\ \A p \in Players : WF_vars(~slow /\ Fix(p))
    /\ \A c \in Clients :
           /\ WF_vars(netplay_process(c) \/ Join(c))
           /\ WF_vars(RequireResponse(c))
           /\ SF_vars(netplay_get_input(c) \/ StopWaiting(c))
           /\ SF_vars(TimeOut(c) \/ (~slow /\ RequestAgain(c) /\ Wanted(c) \in net'))
           /\ SF_vars(~slow /\ ReceiveWanted(c))

FairSpec == Spec /\ Fairness

-----------------------------------------------------------------------------
Events == [count : Counts, keys : Keys]

Datagrams ==
    [type : {"send"}, player : Players, count : Counts, keys : Keys]
        \cup [type : {"request"}, from : Clients, player : Players, count : Counts]

TypeOK ==
    /\ pc \in [Clients -> {"idle", "process", "wait", "join"}]
    /\ player \in [Clients -> Players]
    /\ thread \in [Clients -> {"none", "check", "time", "ok", "failed"}]
    /\ channel \in [Clients -> BOOLEAN] /\ running \in [Clients -> BOOLEAN]
    /\ inbox \in [Clients -> [player : Players, events : Seq(Events)]]
    /\ event_first \in [Clients -> [Players -> Seq(Events)]]
    /\ count \in [Clients -> [Players -> 0..MaxCount]]
    /\ net \subseteq Datagrams
    /\ inputs \in [Players -> Seq(Keys)]
    /\ slow \in BOOLEAN
    /\ got \in [Clients -> [Players -> Seq(Keys)]]

(* However datagrams are delayed and repeated, a console's list holds each *)
(* event at most once and none that has happened: nothing stays in it for  *)
(* ever.                                                                   *)
NothingStale ==
    \A c \in Clients, p \in Players :
        LET l == event_first[c][p]
        IN  /\ \A i \in DOMAIN l : l[i].count >= count[c][p]
            /\ \A i, j \in DOMAIN l : l[i].count = l[j].count => i = j

(* Every game is given the same inputs: netplay implements Lockstep, with  *)
(* the events that the server has fixed and those that the games were      *)
(* given.                                                                  *)
Agreed == INSTANCE Lockstep WITH Clients <- Clients, Players <- Players, Keys <- Keys,
                                 inputs <- inputs, got <- got

SameInputs == Agreed!Spec

(* netplay_get_input always returns: when answers come in time, or when    *)
(* the thread gives up and no datagram comes any more.                     *)
GetInputReturns == \A c \in Clients : pc[c] # "idle" ~> pc[c] = "idle"
=============================================================================

---------------------------- MODULE NetplayProofs ----------------------------
(***************************************************************************)
(* Proofs about Netplay, for any number of consoles and players: the lists *)
(* of events hold nothing stale, and netplay implements Lockstep.          *)
(***************************************************************************)
EXTENDS Netplay, TLAPS, SequenceTheorems

-----------------------------------------------------------------------------
(* The inductive invariant. *)

(* Event e is the one that the server has fixed. *)
Right(p, e) == e.count < Len(inputs[p]) /\ e.keys = inputs[p][e.count + 1]

ListsRight ==
    \A c \in Clients, p \in Players :
        \A i \in DOMAIN event_first[c][p] : Right(p, event_first[c][p][i])

InboxRight ==
    \A c \in Clients :
        \A i \in DOMAIN inbox[c].events : Right(inbox[c].player, inbox[c].events[i])

Counted == \A c \in Clients, p \in Players : Len(got[c][p]) = count[c][p]

Bounded == \A p \in Players : Len(inputs[p]) <= MaxCount

(* The players that are still to be read in this round. *)
ToRead ==
    \A c \in Clients :
        pc[c] # "idle" => \A p \in Players : p >= player[c] => count[c][p] < Reads[c]

ThreadOnlyInWait == \A c \in Clients : thread[c] # "none" => pc[c] \in {"wait", "join"}

IInv ==
    /\ TypeOK /\ Bounded /\ ToRead /\ ThreadOnlyInWait
    /\ ListsRight /\ InboxRight /\ Counted /\ NothingStale

-----------------------------------------------------------------------------
(* Sequences and counts. *)

LEMMA PrependType ==
    ASSUME NEW S, NEW s \in Seq(S), NEW e \in S
    PROVE  /\ <<e>> \o s \in Seq(S)
           /\ DOMAIN (<<e>> \o s) = 1..(Len(s) + 1)
           /\ \A i \in DOMAIN (<<e>> \o s) :
                  IF i = 1 THEN (<<e>> \o s)[i] = e
                  ELSE i - 1 \in DOMAIN s /\ (<<e>> \o s)[i] = s[i - 1]
  OBVIOUS

LEMMA DeleteType ==
    ASSUME NEW S, NEW s \in Seq(S), NEW i \in DOMAIN s
    PROVE  /\ netplay_delete_event(s, i) \in Seq(S)
           /\ DOMAIN netplay_delete_event(s, i) = 1..(Len(s) - 1)
           /\ \A j \in DOMAIN netplay_delete_event(s, i) :
                  IF j < i THEN j \in DOMAIN s /\ netplay_delete_event(s, i)[j] = s[j]
                  ELSE j + 1 \in DOMAIN s /\ netplay_delete_event(s, i)[j] = s[j + 1]
  BY DEF netplay_delete_event

(* An event that happened is told by the sign of a 32-bit difference. *)
LEMMA PastCount ==
    ASSUME NetplayAssumption, NEW n \in 0..MaxCount, NEW m \in 0..MaxCount, n < m
    PROVE  (n + Word - m) % Word > (Word - 1) \div 2
  <1>1. n + Word - m \in 0..(Word - 1)
    BY DEF NetplayAssumption
  <1>2. (n + Word - m) % Word = n + Word - m
    BY <1>1 DEF NetplayAssumption
  <1> QED
    BY <1>2 DEF NetplayAssumption


-----------------------------------------------------------------------------
LEMMA InitIInv == ASSUME NetplayAssumption, Init PROVE IInv
  BY DEF NetplayAssumption, Init, IInv, TypeOK, ToRead, ThreadOnlyInWait, ListsRight,
         InboxRight, Counted, NothingStale, Players, Bounded

(* What NextPlayer keeps. *)
LEMMA NextPlayerKeeps ==
    ASSUME NetplayAssumption, TypeOK, NEW c \in Clients, NextPlayer(c)
    PROVE  /\ pc' \in [Clients -> {"idle", "process", "wait", "join"}]
           /\ player' \in [Clients -> Players]
           /\ pc'[c] \in {"idle", "process"}
           /\ pc'[c] = "process" => player'[c] = player[c] + 1
           /\ \A d \in Clients : d # c => pc'[d] = pc[d] /\ player'[d] = player[d]
  <1>1. /\ player \in [Clients -> Players] /\ pc \in [Clients -> {"idle", "process", "wait", "join"}]
        /\ player[c] \in Nat
    <2>1. /\ player \in [Clients -> Players]
          /\ pc \in [Clients -> {"idle", "process", "wait", "join"}]
      BY DEF TypeOK
    <2>2. player[c] \in 1..NPlayers
      BY <2>1 DEF Players
    <2> QED BY <2>1, <2>2 DEF NetplayAssumption
  <1>2. CASE player[c] < NPlayers
    <2>1. player[c] + 1 \in Players
      BY <1>1, <1>2 DEF NetplayAssumption, Players
    <2>2. pc' = [pc EXCEPT ![c] = "process"] /\ player' = [player EXCEPT ![c] = player[c] + 1]
      BY <1>1, <1>2 DEF NextPlayer
    <2> QED BY <1>1, <2>1, <2>2
  <1>3. CASE ~(player[c] < NPlayers)
    <2>1. pc' = [pc EXCEPT ![c] = "idle"] /\ player' = player
      BY <1>1, <1>3 DEF NextPlayer
    <2> QED BY <1>1, <2>1
  <1> QED BY <1>2, <1>3

(* An event is used: it is the one that the server has fixed for the next  *)
(* read.                                                                   *)
LEMMA UseKeeps ==
    ASSUME NetplayAssumption, IInv, NEW c \in Clients, Use(c), pc[c] # "idle",
           UNCHANGED inputs
    PROVE  /\ event_first' \in [Clients -> [Players -> Seq(Events)]]
           /\ count' \in [Clients -> [Players -> 0..MaxCount]]
           /\ got' \in [Clients -> [Players -> Seq(Keys)]]
           /\ ListsRight' /\ Counted' /\ NothingStale' /\ ToRead'
           /\ Agreed!Read(c, player[c])
  <1> DEFINE p == player[c]
             l == event_first[c][p]
             n == count[c][p]
  <1>0. /\ p \in Players /\ l \in Seq(Events) /\ n \in 0..MaxCount /\ n < MaxCount
        /\ got[c][p] \in Seq(Keys) /\ inputs[p] \in Seq(Keys) /\ Len(got[c][p]) = n
    <2>1. p \in Players
      BY DEF IInv, TypeOK
    <2> HIDE DEF p
    <2>2. /\ l \in Seq(Events) /\ n \in 0..MaxCount
          /\ got[c][p] \in Seq(Keys) /\ inputs[p] \in Seq(Keys) /\ Len(got[c][p]) = n
      BY <2>1 DEF IInv, TypeOK, Counted
    <2>3. n < Reads[c]
      BY <2>1 DEF IInv, ToRead, p, Players
    <2>4. Reads[c] \in 0..MaxCount
      BY DEF NetplayAssumption
    <2> QED BY <2>1, <2>2, <2>3, <2>4 DEF NetplayAssumption
  <1>1. PICK i \in DOMAIN l :
            /\ IsCurrent(c, i)
            /\ got' = [got EXCEPT ![c][p] = Append(@, l[i].keys)]
            /\ event_first' = [event_first EXCEPT ![c][p] = netplay_delete_event(@, i)]
    BY DEF Use
  <1>2. count' = [count EXCEPT ![c][p] = @ + 1] /\ NextPlayer(c)
    BY DEF Use
  <1>3. l[i] \in Events /\ l[i].count = n /\ n < Len(inputs[p]) /\ l[i].keys = inputs[p][n + 1]
    <2>1. l[i] \in Events
      BY <1>0
    <2>2. l[i].count = n
      BY <1>1 DEF IsCurrent
    <2>3. Right(p, l[i])
      BY <1>0 DEF IInv, ListsRight
    <2> QED BY <2>1, <2>2, <2>3 DEF Right
  <1> DEFINE m == netplay_delete_event(l, i)
  <1>4. /\ m \in Seq(Events) /\ DOMAIN m = 1..(Len(l) - 1)
        /\ \A j \in DOMAIN m : IF j < i THEN j \in DOMAIN l /\ m[j] = l[j]
                               ELSE j + 1 \in DOMAIN l /\ m[j] = l[j + 1]
    <2> HIDE DEF l
    <2> QED BY <1>0, DeleteType
  <1>5. event_first'[c][p] = m /\ count'[c][p] = n + 1
        /\ got'[c][p] = Append(got[c][p], l[i].keys)
    BY <1>0, <1>1, <1>2, Zenon DEF IInv, TypeOK
  <1>6. \A d \in Clients, q \in Players : (d # c \/ q # p) =>
            /\ event_first'[d][q] = event_first[d][q]
            /\ count'[d][q] = count[d][q] /\ got'[d][q] = got[d][q]
    BY <1>1, <1>2, Zenon DEF IInv, TypeOK
  <1>7. event_first' \in [Clients -> [Players -> Seq(Events)]]
    BY <1>0, <1>1, <1>4, Zenon DEF IInv, TypeOK
  <1>8. count' \in [Clients -> [Players -> 0..MaxCount]]
    <2>1. n + 1 \in 0..MaxCount
      BY <1>0 DEF NetplayAssumption
    <2> QED
      BY <1>0, <1>2, <2>1, Zenon DEF IInv, TypeOK
  <1>9. got' \in [Clients -> [Players -> Seq(Keys)]]
    <2>1. Append(got[c][p], l[i].keys) \in Seq(Keys)
      BY <1>0, <1>3 DEF Events
    <2> QED
      BY <1>0, <1>1, <2>1, Zenon DEF IInv, TypeOK
  <1> HIDE DEF m
  <1>10. ListsRight'
    <2> SUFFICES ASSUME NEW d \in Clients, NEW q \in Players, NEW j \in DOMAIN event_first'[d][q]
                 PROVE  Right(q, event_first'[d][q][j])
      BY DEF ListsRight, Right
    <2>1. CASE d = c /\ q = p
      <3>1. \E k \in DOMAIN l : m[j] = l[k]
        BY <1>4, <1>5, <2>1
      <3>2. \A k \in DOMAIN l : Right(p, l[k])
        BY <1>0 DEF IInv, ListsRight
      <3> QED
        BY <1>5, <2>1, <3>1, <3>2
    <2>2. CASE ~(d = c /\ q = p)
      BY <1>6, <2>2 DEF IInv, ListsRight
    <2> QED BY <2>1, <2>2
  <1>11. Counted'
    <2> SUFFICES ASSUME NEW d \in Clients, NEW q \in Players
                 PROVE  Len(got'[d][q]) = count'[d][q]
      BY DEF Counted
    <2>1. CASE d = c /\ q = p
      <3>1. Len(Append(got[c][p], l[i].keys)) = n + 1
        BY <1>0, <1>3, SMTT(30) DEF Events
      <3> QED BY <1>5, <2>1, <3>1
    <2>2. CASE ~(d = c /\ q = p)
      BY <1>6, <2>2 DEF IInv, Counted
    <2> QED BY <2>1, <2>2
  <1>12. NothingStale'
    <2> SUFFICES ASSUME NEW d \in Clients, NEW q \in Players
                 PROVE  /\ \A j \in DOMAIN event_first'[d][q] :
                               event_first'[d][q][j].count >= count'[d][q]
                        /\ \A j, k \in DOMAIN event_first'[d][q] :
                               event_first'[d][q][j].count = event_first'[d][q][k].count => j = k
      BY DEF NothingStale
    <2>1. CASE d = c /\ q = p
      <3>1. /\ \A j \in DOMAIN l : l[j].count >= n /\ l[j].count \in Nat
            /\ \A j, k \in DOMAIN l : l[j].count = l[k].count => j = k
        <4>1. \A j \in DOMAIN l : l[j] \in Events
          BY <1>0
        <4>2. \A j \in DOMAIN l : l[j].count \in Nat
          BY <4>1 DEF Events, Counts, NetplayAssumption
        <4> QED BY <1>0, <4>2, Zenon DEF IInv, NothingStale
      <3> DEFINE K(j) == IF j < i THEN j ELSE j + 1
      <3>2. i \in Nat /\ n \in Nat /\ \A j \in DOMAIN m : j \in Nat
        BY <1>0, <1>4, LenProperties DEF NetplayAssumption
      <3>3. \A j \in DOMAIN m : K(j) \in DOMAIN l /\ K(j) # i /\ m[j] = l[K(j)]
        BY <1>4, <3>2
      <3>4. \A j, k \in DOMAIN m : K(j) = K(k) => j = k
        BY <3>2
      <3>5. l[i].count = n
        BY <1>3
      <3> HIDE DEF K, l, n
      <3>6. \A j \in DOMAIN m : m[j].count >= n /\ m[j].count # n /\ m[j].count \in Nat
        BY <3>1, <3>3, <3>5
      <3>7. \A j \in DOMAIN m : m[j].count >= n + 1
        BY <3>2, <3>6
      <3>8. \A j, k \in DOMAIN m : m[j].count = m[k].count => j = k
        BY <3>1, <3>3, <3>4
      <3> QED BY <1>5, <2>1, <3>7, <3>8
    <2>2. CASE ~(d = c /\ q = p)
      BY <1>6, <2>2 DEF IInv, NothingStale
    <2> QED BY <2>1, <2>2
  <1>13. ToRead'
    <2> SUFFICES ASSUME NEW d \in Clients, pc'[d] # "idle", NEW q \in Players, q >= player'[d]
                 PROVE  count'[d][q] < Reads[d]
      BY DEF ToRead
    <2>1. CASE d = c
      <3>1. player'[c] = p + 1
        BY <1>2, <2>1, NextPlayerKeeps DEF IInv
      <3>2. q # p /\ q >= p
        BY <1>0, <2>1, <3>1 DEF Players, NetplayAssumption
      <3> QED BY <1>6, <2>1, <3>2 DEF IInv, ToRead
    <2>2. CASE d # c
      <3>1. pc'[d] = pc[d] /\ player'[d] = player[d]
        BY <1>2, <2>2, NextPlayerKeeps DEF IInv
      <3> QED BY <1>6, <2>2, <3>1 DEF IInv, ToRead
    <2> QED BY <2>1, <2>2
  <1>14. Agreed!Read(c, p)
    BY <1>0, <1>1, <1>3 DEF Agreed!Read
  <1> QED
    BY <1>7, <1>8, <1>9, <1>10, <1>11, <1>12, <1>13, <1>14

-----------------------------------------------------------------------------
(* One lemma per action. *)

(* What changes only where a console or its thread is. *)
LEMMA SendRawKeeps ==
    ASSUME NetplayAssumption, IInv, NEW c \in Clients, netplay_send_raw_input(c)
    PROVE  IInv'
  <1> USE DEF netplay_send_raw_input
  <1>1. 1 \in Players
    BY DEF Players, NetplayAssumption
  <1>2. /\ pc' \in [Clients -> {"idle", "process", "wait", "join"}]
        /\ player' \in [Clients -> Players]
    BY <1>1 DEF IInv, TypeOK
  <1>3. net' \subseteq Datagrams
    <2>1. PICK keys \in [Controls[c] -> Keys] :
              net' = net \cup {KeyInfo(p, count[c][p], keys[p]) :
                                  p \in {q \in Controls[c] : count[c][q] = Len(inputs[q])}}
      OBVIOUS
    <2>2. \A p \in Controls[c] : p \in Players /\ keys[p] \in Keys
      BY DEF NetplayAssumption
    <2>3. \A p \in Players : count[c][p] \in Counts
      BY SMTT(30) DEF IInv, TypeOK, Counts, NetplayAssumption
    <2>4. \A p \in Controls[c] : KeyInfo(p, count[c][p], keys[p]) \in Datagrams
      BY <2>2, <2>3 DEF KeyInfo, Datagrams
    <2>5. net \subseteq Datagrams
      BY DEF IInv, TypeOK
    <2> QED BY <2>1, <2>4, <2>5, Zenon
  <1>4. TypeOK'
    BY <1>2, <1>3 DEF IInv, TypeOK
  <1>5. ToRead'
    BY DEF IInv, TypeOK, ToRead
  <1>6. ThreadOnlyInWait'
    BY DEF IInv, TypeOK, ThreadOnlyInWait
  <1>7. ListsRight' /\ InboxRight' /\ Counted' /\ NothingStale' /\ Bounded'
    BY SMTT(30) DEF IInv, ListsRight, InboxRight, Counted, NothingStale, Right, Bounded
  <1> QED BY <1>4, <1>5, <1>6, <1>7 DEF IInv

LEMMA ReceiveKeeps ==
    ASSUME NetplayAssumption, IInv, NEW c \in Clients, NEW p \in Players, NEW n \in Counts,
           NEW k \in 1..PerPacket, Receive(c, p, n, k)
    PROVE  IInv'
  <1>0. inputs' = inputs
    BY DEF Receive
  <1> DEFINE es == [i \in 1..k |-> [count |-> n + i - 1, keys |-> inputs[p][n + i]]]
  <1>1. PICK d : d = [player |-> p, events |-> es]
    OBVIOUS
  <1>2. inbox' = [inbox EXCEPT ![c] = d]
    BY <1>1 DEF Receive
  <1>3. /\ inputs[p] \in Seq(Keys) /\ n \in Nat /\ k \in Nat /\ k >= 1 /\ n + k <= Len(inputs[p])
    BY DEF IInv, TypeOK, Counts, NetplayAssumption, Receive
  <1>4. \A i \in 1..k : es[i] \in Events /\ Right(p, es[i])
    <2> SUFFICES ASSUME NEW i \in 1..k PROVE es[i] \in Events /\ Right(p, es[i])
      OBVIOUS
    <2>1. /\ n + i - 1 \in Counts /\ n + i \in 1..Len(inputs[p])
      BY <1>3 DEF Counts, IInv, Bounded, NetplayAssumption
    <2>2. inputs[p][n + i] \in Keys
      BY <1>3, <2>1
    <2>3. es[i] = [count |-> n + i - 1, keys |-> inputs[p][n + i]]
      OBVIOUS
    <2>4. (n + i - 1) + 1 = n + i /\ n + i - 1 < Len(inputs[p])
      BY <1>3, <2>1
    <2> QED BY <2>1, <2>2, <2>3, <2>4 DEF Events, Right
  <1>5. es \in Seq(Events) /\ DOMAIN es = 1..k
    <2>1. es \in [1..k -> Events]
      BY <1>4
    <2> HIDE DEF es
    <2>2. es \in Seq(Events)
      BY <1>3, <2>1
    <2> QED BY <2>1, <2>2
  <1> HIDE DEF es
  <1>6. d \in [player : Players, events : Seq(Events)] /\ d.player = p /\ d.events = es
    BY <1>1, <1>5
  <1>7. inbox' \in [Clients -> [player : Players, events : Seq(Events)]]
    BY <1>2, <1>6, Zenon DEF IInv, TypeOK
  <1>8. TypeOK'
    BY <1>7 DEF IInv, TypeOK, Receive
  <1>9. InboxRight'
    <2> SUFFICES ASSUME NEW b \in Clients, NEW i \in DOMAIN inbox'[b].events
                 PROVE  Right(inbox'[b].player, inbox'[b].events[i])
      BY <1>0 DEF InboxRight, Right
    <2>1. CASE b = c
      <3>1. inbox'[b] = d
        BY <1>2, <2>1 DEF IInv, TypeOK
      <3> QED BY <1>4, <1>5, <1>6, <3>1
    <2>2. CASE b # c
      <3>1. inbox'[b] = inbox[b]
        BY <1>2, <2>2 DEF IInv, TypeOK
      <3> QED BY <3>1 DEF IInv, InboxRight
    <2> QED BY <2>1, <2>2
  <1>10. ListsRight' /\ Counted' /\ NothingStale' /\ Bounded' /\ ToRead' /\ ThreadOnlyInWait'
    BY DEF IInv, ListsRight, Counted, NothingStale, Right, Bounded, ToRead, ThreadOnlyInWait,
           Receive
  <1> QED BY <1>8, <1>9, <1>10 DEF IInv

LEMMA ProcessKeeps ==
    ASSUME NetplayAssumption, IInv, NEW c \in Clients, netplay_process(c)
    PROVE  IInv'
  <1>0. inputs' = inputs
    BY DEF netplay_process
  <1> DEFINE p == inbox[c].player
             es == inbox[c].events
             e == Head(es)
             l == event_first[c][p]
  <1>1. /\ inbox[c] \in [player : Players, events : Seq(Events)]
        /\ p \in Players /\ es \in Seq(Events) /\ es # << >>
    BY DEF IInv, TypeOK, netplay_process
  <1>2. /\ e \in Events /\ Right(p, e)
        /\ Tail(es) \in Seq(Events) /\ DOMAIN Tail(es) = 1..(Len(es) - 1)
        /\ \A i \in DOMAIN Tail(es) : i + 1 \in DOMAIN es /\ Tail(es)[i] = es[i + 1]
    <2>1. \A i \in DOMAIN es : Right(p, es[i])
      BY DEF IInv, InboxRight
    <2> HIDE DEF es
    <2>2. 1 \in DOMAIN es /\ e = es[1]
      BY <1>1
    <2> QED BY <1>1, <2>1, <2>2
  <1>3. PICK d : d = [inbox[c] EXCEPT !.events = Tail(es)]
    OBVIOUS
  <1>4. inbox' = [inbox EXCEPT ![c] = d]
    BY <1>3 DEF netplay_process
  <1>5. d \in [player : Players, events : Seq(Events)] /\ d.player = p /\ d.events = Tail(es)
    BY <1>1, <1>2, <1>3
  <1>6. inbox' \in [Clients -> [player : Players, events : Seq(Events)]]
    BY <1>4, <1>5, Zenon DEF IInv, TypeOK
  <1>7. InboxRight'
    <2> SUFFICES ASSUME NEW b \in Clients, NEW i \in DOMAIN inbox'[b].events
                 PROVE  Right(inbox'[b].player, inbox'[b].events[i])
      BY <1>0 DEF InboxRight, Right
    <2>1. CASE b = c
      <3>1. inbox'[b] = d
        BY <1>4, <2>1 DEF IInv, TypeOK
      <3>2. \A j \in DOMAIN es : Right(p, es[j])
        BY DEF IInv, InboxRight
      <3> QED BY <1>2, <1>5, <3>1, <3>2
    <2>2. CASE b # c
      <3>1. inbox'[b] = inbox[b]
        BY <1>4, <2>2 DEF IInv, TypeOK
      <3> QED BY <3>1 DEF IInv, InboxRight
    <2> QED BY <2>1, <2>2
  <1>8. /\ event_first' \in [Clients -> [Players -> Seq(Events)]]
        /\ ListsRight' /\ NothingStale'
    <2>1. CASE Recorded(c, p, e.count)
      <3>1. UNCHANGED <<event_first, count, inputs>>
        BY <2>1 DEF netplay_process
      <3>2. event_first' \in [Clients -> [Players -> Seq(Events)]]
        BY <3>1 DEF IInv, TypeOK
      <3>3. ListsRight'
        BY <3>1, Zenon DEF IInv, ListsRight, Right
      <3>4. NothingStale'
        BY <3>1, Zenon DEF IInv, NothingStale
      <3> QED BY <3>2, <3>3, <3>4
    <2>2. CASE ~Recorded(c, p, e.count)
      <3> DEFINE m == <<e>> \o l
      <3>1. event_first' = [event_first EXCEPT ![c][p] = m]
        BY <2>2 DEF netplay_process
      <3>2. l \in Seq(Events)
        BY <1>1, ZenonT(30) DEF IInv, TypeOK
      <3>3. /\ m \in Seq(Events) /\ DOMAIN m = 1..(Len(l) + 1)
            /\ \A i \in DOMAIN m : IF i = 1 THEN m[i] = e
                                   ELSE i - 1 \in DOMAIN l /\ m[i] = l[i - 1]
        <4> HIDE DEF l, e
        <4> QED BY <1>2, <3>2, PrependType
      <3> HIDE DEF m
      <3>4. event_first' \in [Clients -> [Players -> Seq(Events)]]
        BY <1>1, <3>1, <3>3, Zenon DEF IInv, TypeOK
      <3>5. event_first'[c][p] = m
        BY <1>1, <3>1, Zenon DEF IInv, TypeOK
      <3>6. \A b \in Clients, q \in Players : (b # c \/ q # p) =>
                event_first'[b][q] = event_first[b][q]
        BY <3>1, Zenon DEF IInv, TypeOK
      <3>7. ListsRight'
        <4> SUFFICES ASSUME NEW b \in Clients, NEW q \in Players,
                            NEW j \in DOMAIN event_first'[b][q]
                     PROVE  Right(q, event_first'[b][q][j])
          BY <1>0 DEF ListsRight, Right
        <4>1. CASE b = c /\ q = p
          <5>1. \A k \in DOMAIN l : Right(p, l[k])
            BY <1>1 DEF IInv, ListsRight
          <5> QED BY <1>2, <3>3, <3>5, <4>1, <5>1
        <4>2. CASE ~(b = c /\ q = p)
          BY <3>6, <4>2 DEF IInv, ListsRight
        <4> QED BY <4>1, <4>2
      <3>8. /\ \A k \in DOMAIN l : l[k].count >= count[c][p] /\ l[k].count # e.count
            /\ \A j, k \in DOMAIN l : l[j].count = l[k].count => j = k
        BY <1>1, <2>2, Zenon DEF IInv, NothingStale, Recorded, check_valid
      <3>9. e.count >= count[c][p]
        <4>1. count[c][p] \in 0..MaxCount /\ e.count \in 0..MaxCount
          BY <1>1, <1>2, SMTT(30) DEF IInv, TypeOK, Events, Counts, NetplayAssumption
        <4> HIDE DEF e, p
        <4> QED BY <2>2, <4>1, PastCount, SMTT(30) DEF Recorded, NetplayAssumption
      <3>10. \A j, k \in DOMAIN m : m[j].count = m[k].count => j = k
        <4> HIDE DEF l, e
        <4>1. \A j \in DOMAIN m : j \in Nat
          BY <3>2, <3>3
        <4> SUFFICES ASSUME NEW j \in DOMAIN m, NEW k \in DOMAIN m, m[j].count = m[k].count
                     PROVE  j = k
          OBVIOUS
        <4>2. CASE j = 1
          BY <3>3, <3>8, <4>2
        <4>3. CASE k = 1
          BY <3>3, <3>8, <4>3
        <4>4. CASE j # 1 /\ k # 1
          <5>1. j - 1 = k - 1
            BY <3>3, <3>8, <4>4
          <5> QED BY <4>1, <5>1
        <4> QED BY <4>2, <4>3, <4>4
      <3>11. \A j \in DOMAIN m : m[j].count >= count[c][p]
        <4> HIDE DEF l, e
        <4> QED BY <3>3, <3>8, <3>9
      <3>12. NothingStale'
        <4> SUFFICES ASSUME NEW b \in Clients, NEW q \in Players
                     PROVE  /\ \A j \in DOMAIN event_first'[b][q] :
                                   event_first'[b][q][j].count >= count[b][q]
                            /\ \A j, k \in DOMAIN event_first'[b][q] :
                                   event_first'[b][q][j].count = event_first'[b][q][k].count
                                       => j = k
          BY DEF NothingStale, netplay_process
        <4>1. CASE b = c /\ q = p
          BY <3>5, <3>10, <3>11, <4>1
        <4>2. CASE ~(b = c /\ q = p)
          BY <3>6, <4>2 DEF IInv, NothingStale
        <4> QED BY <4>1, <4>2
      <3> QED BY <3>4, <3>7, <3>12
    <2> QED BY <2>1, <2>2
  <1>9. TypeOK'
    BY <1>6, <1>8 DEF IInv, TypeOK, netplay_process
  <1>10. Counted' /\ Bounded' /\ ToRead' /\ ThreadOnlyInWait'
    BY DEF IInv, Counted, Bounded, ToRead, ThreadOnlyInWait, netplay_process
  <1> QED BY <1>7, <1>8, <1>9, <1>10 DEF IInv

(* The request for the event of a read that is still to be done. *)
LEMMA SendKeeps ==
    ASSUME NetplayAssumption, IInv, NEW c \in Clients, pc[c] # "idle", Send(c, Wanted(c))
    PROVE  net' \subseteq Datagrams
  <1>1. player[c] \in Players
    BY DEF IInv, TypeOK
  <1>2. count[c][player[c]] \in Counts
    <2>0. count[c] \in [Players -> 0..MaxCount]
      BY DEF IInv, TypeOK
    <2>1. player[c] >= player[c]
      BY <1>1 DEF Players, NetplayAssumption
    <2>2. count[c][player[c]] \in 0..MaxCount /\ count[c][player[c]] < Reads[c]
      BY <1>1, <2>0, <2>1 DEF IInv, ToRead
    <2> QED BY <2>2 DEF NetplayAssumption, Counts
  <1>3. Wanted(c) \in Datagrams
    BY <1>1, <1>2 DEF Wanted, KeyRequest, Datagrams
  <1> QED BY <1>3 DEF Send, IInv, TypeOK

(* The console gives up. *)
LEMMA GiveUpKeeps ==
    ASSUME NetplayAssumption, IInv, NEW c \in Clients, GiveUp(c), pc[c] # "idle",
           UNCHANGED inputs
    PROVE  /\ running' \in [Clients -> BOOLEAN]
           /\ ListsRight' /\ Counted' /\ NothingStale' /\ ToRead'
  <1>0. UNCHANGED <<event_first, count, got>> /\ NextPlayer(c)
    BY DEF GiveUp
  <1>1. running' \in [Clients -> BOOLEAN]
    BY DEF GiveUp, IInv, TypeOK
  <1>2. ListsRight'
    BY <1>0, Zenon DEF IInv, ListsRight, Right
  <1>3. Counted'
    BY <1>0, Zenon DEF IInv, Counted
  <1>4. NothingStale'
    BY <1>0, Zenon DEF IInv, NothingStale
  <1>5. ToRead'
    <2> SUFFICES ASSUME NEW d \in Clients, pc'[d] # "idle", NEW q \in Players, q >= player'[d]
                 PROVE  count[d][q] < Reads[d]
      BY <1>0 DEF ToRead
    <2>1. CASE d = c
      <3>1. player'[c] = player[c] + 1
        BY <1>0, <2>1, NextPlayerKeeps DEF IInv
      <3>2. player[c] \in 1..NPlayers
        BY DEF IInv, TypeOK, Players
      <3>3. q >= player[c]
        BY <2>1, <3>1, <3>2 DEF Players, NetplayAssumption
      <3> QED BY <2>1, <3>3 DEF IInv, ToRead
    <2>2. CASE d # c
      <3>1. pc'[d] = pc[d] /\ player'[d] = player[d]
        BY <1>0, <2>2, NextPlayerKeeps DEF IInv
      <3> QED BY <3>1 DEF IInv, ToRead
    <2> QED BY <2>1, <2>2
  <1> QED BY <1>1, <1>2, <1>3, <1>4, <1>5

(* Steps of which the lists and the games see nothing. *)
LEMMA QuietKeeps ==
    ASSUME IInv, UNCHANGED <<event_first, count, inputs, got, inbox>>
    PROVE  ListsRight' /\ InboxRight' /\ Counted' /\ NothingStale' /\ Bounded'
  <1>1. ListsRight' /\ InboxRight'
    BY Zenon DEF IInv, ListsRight, InboxRight, Right
  <1>2. Counted' /\ NothingStale' /\ Bounded'
    BY Zenon DEF IInv, Counted, NothingStale, Bounded
  <1> QED BY <1>1, <1>2

(* A step of netplay_get_input: nothing is read, or an input is. *)
LEMMA GetInputKeeps ==
    ASSUME NetplayAssumption, IInv, NEW c \in Clients, netplay_get_input(c)
    PROVE  IInv' /\ (UNCHANGED got \/ Agreed!Read(c, player[c]))
  <1>1. pc[c] # "idle" /\ UNCHANGED <<channel, inbox, inputs, slow>>
    BY DEF netplay_get_input
  <1>2. net' \subseteq Datagrams
    BY <1>1, SendKeeps DEF netplay_get_input
  <1>3. Bounded' /\ InboxRight'
    BY <1>1, Zenon DEF IInv, Bounded, InboxRight, Right
  <1>4. CASE Use(c) /\ UNCHANGED thread
    <2>1. /\ event_first' \in [Clients -> [Players -> Seq(Events)]]
          /\ count' \in [Clients -> [Players -> 0..MaxCount]]
          /\ got' \in [Clients -> [Players -> Seq(Keys)]]
          /\ ListsRight' /\ Counted' /\ NothingStale' /\ ToRead'
          /\ Agreed!Read(c, player[c])
      BY <1>1, <1>4, UseKeeps
    <2>2. NextPlayer(c) /\ UNCHANGED running
      BY <1>4 DEF Use
    <2>3. TypeOK'
      BY <1>1, <1>2, <1>4, <2>1, <2>2, NextPlayerKeeps DEF IInv, TypeOK
    <2>4. ThreadOnlyInWait'
      BY <1>4, <2>2, NextPlayerKeeps DEF IInv, ThreadOnlyInWait, netplay_get_input
    <2> QED BY <1>3, <2>1, <2>3, <2>4 DEF IInv
  <1>5. CASE GiveUp(c) /\ UNCHANGED thread
    <2>1. /\ running' \in [Clients -> BOOLEAN]
          /\ ListsRight' /\ Counted' /\ NothingStale' /\ ToRead'
      BY <1>1, <1>5, GiveUpKeeps
    <2>2. NextPlayer(c) /\ UNCHANGED <<event_first, count, got>>
      BY <1>5 DEF GiveUp
    <2>3. TypeOK'
      BY <1>1, <1>2, <1>5, <2>1, <2>2, NextPlayerKeeps DEF IInv, TypeOK
    <2>4. ThreadOnlyInWait'
      BY <1>5, <2>2, NextPlayerKeeps DEF IInv, ThreadOnlyInWait, netplay_get_input
    <2> QED BY <1>3, <2>1, <2>2, <2>3, <2>4 DEF IInv
  <1>6. CASE /\ pc' = [pc EXCEPT ![c] = "wait"]
             /\ thread' = [thread EXCEPT ![c] = "check"]
             /\ UNCHANGED <<player, running, event_first, count, got>>
    <2>1. ListsRight' /\ Counted' /\ NothingStale'
      BY <1>1, <1>6, QuietKeeps
    <2>2. TypeOK'
      BY <1>1, <1>2, <1>6 DEF IInv, TypeOK
    <2>3. ThreadOnlyInWait' /\ ToRead'
      BY <1>1, <1>6 DEF IInv, TypeOK, ThreadOnlyInWait, ToRead
    <2> QED BY <1>3, <1>6, <2>1, <2>2, <2>3 DEF IInv
  <1> QED BY <1>4, <1>5, <1>6 DEF netplay_get_input

LEMMA StopWaitingKeeps ==
    ASSUME NetplayAssumption, IInv, NEW c \in Clients, StopWaiting(c)
    PROVE  IInv'
  <1>1. TypeOK'
    BY DEF StopWaiting, IInv, TypeOK
  <1>2. ThreadOnlyInWait' /\ ToRead'
    BY DEF StopWaiting, IInv, TypeOK, ThreadOnlyInWait, ToRead
  <1> QED BY <1>1, <1>2, QuietKeeps DEF IInv, StopWaiting

LEMMA JoinKeeps ==
    ASSUME NetplayAssumption, IInv, NEW c \in Clients, Join(c)
    PROVE  IInv' /\ (UNCHANGED got \/ Agreed!Read(c, player[c]))
  <1>1. /\ pc[c] # "idle" /\ UNCHANGED <<channel, inbox, net, inputs, slow>>
        /\ thread' = [thread EXCEPT ![c] = "none"]
    BY DEF Join
  <1>2. thread' \in [Clients -> {"none", "check", "time", "ok", "failed"}]
    BY <1>1 DEF IInv, TypeOK
  <1>3. Bounded' /\ InboxRight'
    BY <1>1, Zenon DEF IInv, Bounded, InboxRight, Right
  <1>4. ASSUME NextPlayer(c) PROVE ThreadOnlyInWait'
    <2>1. \A d \in Clients : d # c => thread'[d] = thread[d] /\ pc'[d] = pc[d]
      BY <1>1, <1>4, NextPlayerKeeps DEF IInv, TypeOK
    <2>2. thread'[c] = "none"
      BY <1>1 DEF IInv, TypeOK
    <2> QED BY <2>1, <2>2 DEF IInv, ThreadOnlyInWait
  <1>5. CASE Use(c)
    <2>1. /\ event_first' \in [Clients -> [Players -> Seq(Events)]]
          /\ count' \in [Clients -> [Players -> 0..MaxCount]]
          /\ got' \in [Clients -> [Players -> Seq(Keys)]]
          /\ ListsRight' /\ Counted' /\ NothingStale' /\ ToRead'
          /\ Agreed!Read(c, player[c])
      BY <1>1, <1>5, UseKeeps
    <2>2. NextPlayer(c) /\ UNCHANGED running
      BY <1>5 DEF Use
    <2>3. TypeOK'
      BY <1>1, <1>2, <2>1, <2>2, NextPlayerKeeps DEF IInv, TypeOK
    <2> QED BY <1>3, <1>4, <2>1, <2>2, <2>3 DEF IInv
  <1>6. CASE GiveUp(c)
    <2>1. /\ running' \in [Clients -> BOOLEAN]
          /\ ListsRight' /\ Counted' /\ NothingStale' /\ ToRead'
      BY <1>1, <1>6, GiveUpKeeps
    <2>2. NextPlayer(c) /\ UNCHANGED <<event_first, count, got>>
      BY <1>6 DEF GiveUp
    <2>3. TypeOK'
      BY <1>1, <1>2, <2>1, <2>2, NextPlayerKeeps DEF IInv, TypeOK
    <2> QED BY <1>3, <1>4, <2>1, <2>2, <2>3 DEF IInv
  <1> QED BY <1>5, <1>6 DEF Join

LEMMA RequireResponseKeeps ==
    ASSUME NetplayAssumption, IInv, NEW c \in Clients, RequireResponse(c)
    PROVE  IInv'
  <1>0. /\ thread[c] # "none" /\ UNCHANGED <<pc, player, event_first, count, inputs, got, inbox,
                                             running, slow>>
        /\ thread' \in [Clients -> {"none", "check", "time", "ok", "failed"}]
        /\ \A d \in Clients : d # c => thread'[d] = thread[d]
    BY DEF RequireResponse, CheckInThread, TimeOut, RequestAgain, IInv, TypeOK
  <1>1. pc[c] \in {"wait", "join"}
    BY <1>0 DEF IInv, ThreadOnlyInWait
  <1>2. net' \subseteq Datagrams /\ channel' \in [Clients -> BOOLEAN]
    <2>1. CASE RequestAgain(c)
      BY <1>1, <2>1, SendKeeps DEF RequestAgain, IInv, TypeOK
    <2>2. CASE CheckInThread(c) \/ TimeOut(c)
      BY <2>2 DEF CheckInThread, TimeOut, IInv, TypeOK
    <2> QED BY <2>1, <2>2 DEF RequireResponse
  <1>3. TypeOK'
    BY <1>0, <1>2 DEF IInv, TypeOK
  <1>4. ToRead'
    BY <1>0, Zenon DEF IInv, ToRead
  <1>5. ThreadOnlyInWait'
    BY <1>0, <1>1 DEF IInv, ThreadOnlyInWait
  <1> QED BY <1>0, <1>3, <1>4, <1>5, QuietKeeps DEF IInv

(* The server fixes one more event. *)
LEMMA FixKeeps ==
    ASSUME NetplayAssumption, IInv, NEW p \in Players, Fix(p)
    PROVE  IInv' /\ \E keys \in Keys : Agreed!Agree(p, keys)
  <1> DEFINE s == inputs[p]
  <1>0. UNCHANGED <<pc, player, thread, channel, running, inbox, event_first, count, slow, got>>
    BY DEF Fix
  <1>1. s \in Seq(Keys) /\ Len(s) \in Nat
    BY DEF IInv, TypeOK
  <1>2. Len(s) \in Counts
    <2>1. PICK c \in Clients : KeyRequest(c, p, Len(s)) \in Datagrams
      BY DEF Fix, IInv, TypeOK
    <2> QED BY <2>1 DEF KeyRequest, Datagrams
  <1>3. PICK keys \in Fixable(p) : inputs' = [inputs EXCEPT ![p] = Append(s, keys)]
    BY DEF Fix
  <1>4. keys \in Keys
    <2>1. CASE Len(s) > 0
      <3>1. s[Len(s)] \in Keys
        BY <1>1, <2>1
      <3> QED BY <1>3, <2>1, <3>1 DEF Fixable
    <2>2. CASE ~(Len(s) > 0)
      BY <1>3, <2>2 DEF Fixable, NetplayAssumption
    <2> QED BY <2>1, <2>2
  <1> DEFINE t == Append(s, keys)
  <1>5. /\ t \in Seq(Keys) /\ Len(t) = Len(s) + 1 /\ \A i \in 1..Len(s) : t[i] = s[i]
    BY <1>1, <1>4
  <1> HIDE DEF t
  <1>6. /\ inputs' \in [Players -> Seq(Keys)] /\ inputs'[p] = t
        /\ \A q \in Players : q # p => inputs'[q] = inputs[q]
    BY <1>3, <1>5 DEF IInv, TypeOK, t
  <1>7. TypeOK'
    BY <1>0, <1>6 DEF IInv, TypeOK, Fix
  <1>8. Bounded'
    <2> SUFFICES ASSUME NEW q \in Players PROVE Len(inputs'[q]) <= MaxCount
      BY DEF Bounded
    <2>1. Len(s) + 1 <= MaxCount
      BY <1>1, <1>2 DEF Counts, NetplayAssumption
    <2>2. CASE q = p
      BY <1>5, <1>6, <2>1, <2>2
    <2>3. CASE q # p
      BY <1>6, <2>3 DEF IInv, Bounded
    <2> QED BY <2>2, <2>3
  <1>9. \A q \in Players, e \in Events : Right(q, e) => Right(q, e)'
    <2> SUFFICES ASSUME NEW q \in Players, NEW e \in Events, Right(q, e)
                 PROVE  e.count < Len(inputs'[q]) /\ e.keys = inputs'[q][e.count + 1]
      BY DEF Right
    <2>1. CASE q = p
      <3>1. e.count \in Nat
        BY DEF Events, Counts, NetplayAssumption
      <3>2. e.count < Len(s) /\ e.keys = s[e.count + 1]
        BY <2>1 DEF Right
      <3> HIDE DEF s
      <3>3. e.count + 1 \in 1..Len(s) /\ e.count < Len(t)
        BY <1>1, <1>5, <3>1, <3>2
      <3> QED BY <1>5, <1>6, <2>1, <3>2, <3>3
    <2>2. CASE q # p
      BY <1>6, <2>2 DEF Right
    <2> QED BY <2>1, <2>2
  <1>10. ListsRight'
    <2> SUFFICES ASSUME NEW d \in Clients, NEW q \in Players, NEW j \in DOMAIN event_first[d][q]
                 PROVE  Right(q, event_first[d][q][j])'
      BY <1>0, Zenon DEF ListsRight
    <2>0. event_first[d][q] \in Seq(Events)
      BY DEF IInv, TypeOK
    <2>1. event_first[d][q][j] \in Events
      BY <2>0
    <2> QED BY <1>0, <1>9, <2>1 DEF IInv, ListsRight
  <1>11. InboxRight'
    <2> SUFFICES ASSUME NEW d \in Clients, NEW j \in DOMAIN inbox[d].events
                 PROVE  Right(inbox[d].player, inbox[d].events[j])'
      BY <1>0, Zenon DEF InboxRight
    <2>1. inbox[d].events[j] \in Events /\ inbox[d].player \in Players
      BY SMTT(30) DEF IInv, TypeOK
    <2> QED BY <1>0, <1>9, <2>1 DEF IInv, InboxRight
  <1>12. ToRead' /\ ThreadOnlyInWait' /\ Counted' /\ NothingStale'
    BY <1>0, Zenon DEF IInv, ToRead, ThreadOnlyInWait, Counted, NothingStale
  <1>13. Agreed!Agree(p, keys)
    BY <1>0, <1>3 DEF Agreed!Agree
  <1> QED BY <1>4, <1>7, <1>8, <1>10, <1>11, <1>12, <1>13 DEF IInv

-----------------------------------------------------------------------------
(* A step keeps the invariant and is a step of Lockstep. *)
LEMMA NextKeeps ==
    ASSUME NetplayAssumption, IInv, [Next]_vars
    PROVE  IInv' /\ [Agreed!Next]_<<inputs, got>>
  <1> USE NetplayAssumption
  <1>1. ASSUME NEW c \in Clients, netplay_send_raw_input(c)
        PROVE  IInv' /\ UNCHANGED <<inputs, got>>
    BY <1>1, SendRawKeeps DEF netplay_send_raw_input
  <1>2. ASSUME NEW c \in Clients, NEW p \in Players, NEW n \in Counts, NEW k \in 1..PerPacket,
               Receive(c, p, n, k)
        PROVE  IInv' /\ UNCHANGED <<inputs, got>>
    BY <1>2, ReceiveKeeps DEF Receive
  <1>3. ASSUME NEW c \in Clients, netplay_process(c)
        PROVE  IInv' /\ UNCHANGED <<inputs, got>>
    BY <1>3, ProcessKeeps DEF netplay_process
  <1>4. ASSUME NEW c \in Clients, netplay_get_input(c) \/ Join(c)
        PROVE  IInv' /\ [Agreed!Next]_<<inputs, got>>
    <2>1. IInv' /\ (UNCHANGED got \/ Agreed!Read(c, player[c])) /\ UNCHANGED inputs
      BY <1>4, GetInputKeeps, JoinKeeps DEF netplay_get_input, Join
    <2>2. player[c] \in Players
      BY DEF IInv, TypeOK
    <2> QED BY <2>1, <2>2 DEF Agreed!Next
  <1>5. ASSUME NEW c \in Clients, StopWaiting(c)
        PROVE  IInv' /\ UNCHANGED <<inputs, got>>
    BY <1>5, StopWaitingKeeps DEF StopWaiting
  <1>6. ASSUME NEW c \in Clients, RequireResponse(c)
        PROVE  IInv' /\ UNCHANGED <<inputs, got>>
    BY <1>6, RequireResponseKeeps DEF RequireResponse, CheckInThread, TimeOut, RequestAgain
  <1>7. ASSUME NEW p \in Players, Fix(p)
        PROVE  IInv' /\ [Agreed!Next]_<<inputs, got>>
    BY <1>7, FixKeeps DEF Agreed!Next
  <1>8. CASE UNCHANGED vars
    <2> USE <1>8 DEF vars
    <2>1. TypeOK'
      BY DEF IInv, TypeOK
    <2>2. ToRead' /\ ThreadOnlyInWait'
      BY Zenon DEF IInv, ToRead, ThreadOnlyInWait
    <2> QED BY <2>1, <2>2, QuietKeeps DEF IInv
  <1> QED BY <1>1, <1>2, <1>3, <1>4, <1>5, <1>6, <1>7, <1>8 DEF Next, Finished

LEMMA Inductive == Spec => []IInv
  <1>1. Init => IInv
    BY InitIInv, NetplayAssumption
  <1>2. IInv /\ [Next]_vars => IInv'
    BY NextKeeps, NetplayAssumption
  <1> QED BY <1>1, <1>2, PTL DEF Spec

(* However datagrams are lost, delayed and repeated, and for any number of *)
(* consoles and players, netplay_process leaves nothing stale in the lists *)
(* of events.                                                              *)
THEOREM NoStaleEvents == Spec => [](TypeOK /\ NothingStale)
  <1>1. IInv => TypeOK /\ NothingStale
    BY DEF IInv
  <1> QED BY <1>1, Inductive, PTL

(* Netplay implements Lockstep: netplay_get_input gives every game the     *)
(* inputs that the server has fixed, in their order and without a gap.     *)
THEOREM EveryGameIsGivenTheSame == Spec => SameInputs
  <1>1. Init => Agreed!Init
    BY DEF Init, Agreed!Init
  <1>2. IInv /\ [Next]_vars => [Agreed!Next]_<<inputs, got>>
    BY NextKeeps, NetplayAssumption
  <1> QED BY <1>1, <1>2, Inductive, PTL DEF Spec, SameInputs, Agreed!Spec
=============================================================================

------------------------- MODULE ListenQueueProofs -------------------------
(***************************************************************************)
(* Proofs about the listen queue, for every backlog, every number of        *)
(* clients and any amount of memory.                                       *)
(***************************************************************************)
EXTENDS ListenQueue, TLAPS

(* Outside accept() its pointer is not used. *)
NoPointerOutside == acc.pc = "out" => acc.sk = Nil

(* A TCB with an owner has a peer unless it listens, and the TCB of an      *)
(* accepted socket is no server's.                                         *)
Peered ==
  /\ \A t \in Owned : tcb[t].his = Nil => tcb[t].state = "LISTEN"
  /\ \A t \in sockets : ~tcb[t].is_server /\ tcb[t].state # "LISTEN"

(* The inductive invariant. *)
IInv == /\ TypeOK /\ OwnedOnce /\ PointerIsFresh /\ OnePerPeer
        /\ NoPointerOutside /\ Peered
-----------------------------------------------------------------------------
(* accept() stays within the queue. *)
LEMMA NextIdxInSlots == ASSUME NEW i \in Slots PROVE NextIdx(i) \in Slots
  BY ListenQueueAssumption, SMTT(30) DEF Slots, NextIdx

(* What the operators on TCBs return is a TCB. *)
LEMMA TcbUpdates ==
  ASSUME NEW s \in Tcb
  PROVE  /\ \A v \in States : [s EXCEPT !.state = v] \in Tcb
         /\ \A v \in Clients : [s EXCEPT !.state = "SYNREC", !.his = v,
                                         !.answered = FALSE] \in Tcb
         /\ \A v \in BOOLEAN : /\ [s EXCEPT !.rx = v] \in Tcb
                                /\ [s EXCEPT !.proto = v] \in Tcb
                                /\ [s EXCEPT !.answered = v] \in Tcb
  <1>1. ASSUME NEW v \in States PROVE [s EXCEPT !.state = v] \in Tcb
    BY DEF Tcb
  <1>2. ASSUME NEW v \in Clients
        PROVE  [s EXCEPT !.state = "SYNREC", !.his = v, !.answered = FALSE] \in Tcb
    BY DEF Tcb, States
  <1>3. ASSUME NEW v \in BOOLEAN
        PROVE  /\ [s EXCEPT !.rx = v] \in Tcb
               /\ [s EXCEPT !.proto = v] \in Tcb
               /\ [s EXCEPT !.answered = v] \in Tcb
    BY DEF Tcb
  <1> QED
    BY <1>1, <1>2, <1>3

LEMMA ResetFields ==
  ASSUME NEW s \in Tcb
  PROVE  IF s.is_server
         THEN ResetTcb(s).his = Nil /\ ResetTcb(s).state = "LISTEN"
         ELSE /\ ResetTcb(s).his = s.his /\ ResetTcb(s).state = "CLOSED"
              /\ ResetTcb(s).is_server = s.is_server
  <1>1. CASE s.is_server
    BY <1>1 DEF ResetTcb, Tcb
  <1>2. CASE ~s.is_server
    <2>1. ResetTcb(s) = [s EXCEPT !.state = "CLOSED", !.proto = FALSE, !.rx = Unread(s)]
      BY <1>2 DEF ResetTcb
    <2> QED
      BY <1>2, <2>1 DEF Tcb
  <1> QED
    BY <1>1, <1>2

LEMMA TcbValues ==
  /\ Freed \in Tcb
  /\ \A c \in Clients : Clone(c) \in Tcb
  /\ \A s \in Tcb : ResetTcb(s) \in Tcb
  /\ \A s \in Tcb : Aborted(s) \in Tcb
  /\ \A s \in Tcb : Handed(s) \in Tcb
  <1>1. Freed \in Tcb
    BY DEF Freed, Tcb, States
  <1>2. \A c \in Clients : Clone(c) \in Tcb
    BY DEF Clone, Tcb, States
  <1>3. \A s \in Tcb : ResetTcb(s) \in Tcb
    BY DEF ResetTcb, Unread, Tcb, States
  <1>4. \A s \in Tcb : Aborted(s) \in Tcb
    BY DEF Aborted, Tcb, States
  <1>5. \A s \in Tcb : Handed(s) \in Tcb
    BY DEF Handed, Tcb
  <1> QED
    BY <1>1, <1>2, <1>3, <1>4, <1>5
-----------------------------------------------------------------------------
(* Every variable keeps its type, one step per action. *)
LEMMA TypeStep == TypeOK /\ [Next]_vars => TypeOK'
  <1> SUFFICES ASSUME TypeOK, [Next]_vars PROVE TypeOK'
    OBVIOUS
  <1> USE DEF TypeOK
  <1>1. ASSUME NEW c \in Clients, SynToListener(c) PROVE TypeOK'
    <2>1. CASE Append(c)
      <3>1. PICK i \in Slots, t \in Tcbs :
              /\ listen_queue' = [listen_queue EXCEPT ![i] = t]
              /\ tcb' = [tcb EXCEPT ![t] = Clone(c)]
              /\ allsocs' = allsocs \cup {t} /\ his' = Nil
        BY <2>1 DEF Append, Undone
      <3> QED
        BY <1>1, <3>1, TcbValues DEF SynToListener
    <2>2. CASE AppendFails(c)
      BY <1>1, <2>2 DEF SynToListener, AppendFails
    <2> QED
      BY <1>1, <2>1, <2>2 DEF SynToListener
  <1>2. ASSUME NEW c \in Clients, SynToClone(c) PROVE TypeOK'
    <2>1. PICK t \in allsocs :
            tcb' = [tcb EXCEPT ![t].state = "SYNREC", ![t].his = c,
                               ![t].answered = FALSE]
      BY <1>2 DEF SynToClone, Relistening
    <2>2. [tcb[t] EXCEPT !.state = "SYNREC", !.his = c, !.answered = FALSE] \in Tcb
      BY TcbUpdates
    <2>3. tcb' \in [Tcbs -> Tcb]
      BY <2>1, <2>2
    <2> QED
      BY <1>2, <2>3 DEF SynToClone, server
  <1>3. ASSUME NEW c \in Clients, SynRefused(c) PROVE TypeOK'
    BY <1>3 DEF SynRefused, server, Phases
  <1>4. ASSUME NEW c \in Clients, Ack(c) PROVE TypeOK'
    <2>1. PICK t \in allsocs : tcb' = [tcb EXCEPT ![t].state = "ESTAB"]
      BY <1>4 DEF Ack, Active
    <2> QED
      BY <1>4, <2>1, TcbUpdates DEF Ack, server, States
  <1>5. ASSUME NEW c \in Clients, Data(c) PROVE TypeOK'
    <2>1. PICK t \in allsocs : tcb' = [tcb EXCEPT ![t].rx = TRUE]
      BY <1>5 DEF Data, Active
    <2> QED
      BY <1>5, <2>1, TcbUpdates DEF Data, server, States
  <1>6. ASSUME NEW c \in Clients, Fin(c) PROVE TypeOK'
    <2>1. PICK t \in allsocs : tcb' = [tcb EXCEPT ![t].state = "LASTACK"]
      BY <1>6 DEF Fin, Active
    <2> QED
      BY <1>6, <2>1, TcbUpdates DEF Fin, server, States
  <1>7. ASSUME NEW c \in Clients, LastAck(c) PROVE TypeOK'
    <2>1. PICK t \in allsocs : tcb' = [tcb EXCEPT ![t].state = "CLOSED"]
      BY <1>7 DEF LastAck, Active
    <2> QED
      BY <1>7, <2>1, TcbUpdates DEF LastAck, server, States, Phases
  <1>8. ASSUME NEW c \in Clients, Rst(c) PROVE TypeOK'
    <2>1. PICK t \in Active(c) :
            /\ tcb' = [tcb EXCEPT ![t] = ResetTcb(tcb[t])]
            /\ allsocs' = IF tcb[t].is_server THEN allsocs ELSE allsocs \ {t}
      BY <1>8 DEF Rst
    <2>2. t \in Tcbs
      BY <2>1 DEF Active
    <2> QED
      BY <1>8, <2>1, <2>2, TcbValues DEF Rst, server
  <1>9. ASSUME NEW c \in Clients, RstToListener(c) PROVE TypeOK'
    BY <1>9 DEF RstToListener
  <1>10. ASSUME NEW c \in Clients, NoTcb(c) PROVE TypeOK'
    BY <1>10 DEF NoTcb, server, Phases
  <1>11. ASSUME NEW t \in Tcbs, Timeout(t) PROVE TypeOK'
    BY <1>11, TcbValues DEF Timeout, server
  <1>12. ASSUME NEW t \in Tcbs, Reap(t) PROVE TypeOK'
    BY <1>12, TcbUpdates DEF Reap, server
  <1>13. CASE AcceptCall
    <2>1. 1 \in Slots
      BY ListenQueueAssumption DEF Slots
    <2> QED
      BY <1>13, <2>1 DEF AcceptCall
  <1>14. CASE AcceptFree
    <2>1. listen_queue' \in [Slots -> Tcbs \cup {Nil}]
      BY <1>14 DEF AcceptFree, EmptySlot
    <2>2. acc' \in [pc : {"out", "tick"}, que_idx : Slots, sk : Tcbs \cup {Nil}]
      BY <1>14, <2>1, NextIdxInSlots DEF AcceptFree, Turn
    <2> QED
      BY <1>14, <2>1, <2>2, TcbValues DEF AcceptFree, Forget
  <1>15. Outside \in [pc : {"out", "tick"}, que_idx : Slots, sk : Tcbs \cup {Nil}]
    BY ListenQueueAssumption DEF Outside, Slots
  <1>16. CASE AcceptTake
    BY <1>15, <1>16, TcbValues DEF AcceptTake, EmptySlot
  <1>17. CASE AcceptNoMemory
    BY <1>15, <1>17, TcbValues DEF AcceptNoMemory, EmptySlot, Forget
  <1>18. CASE AcceptNoSocket
    BY <1>15, <1>18 DEF AcceptNoSocket
  <1>19. CASE AcceptNext
    BY <1>15, <1>19, NextIdxInSlots DEF AcceptNext, Turn
  <1>20. ASSUME NEW t \in Tcbs, Read(t) PROVE TypeOK'
    BY <1>20, TcbUpdates DEF Read, server
  <1>21. ASSUME NEW t \in Tcbs, CloseAccepted(t) PROVE TypeOK'
    BY <1>21, TcbValues DEF CloseAccepted, Forget
  <1>22. CASE CloseListener
    BY <1>22, TcbValues DEF CloseListener, Drained
  <1>23. CASE Listen
    BY <1>23 DEF Listen
  <1>24. ASSUME NEW c \in Clients, Client(c) PROVE TypeOK'
    <2>1. CASE ClientOpen(c)
      BY <2>1 DEF ClientOpen, server, Phases
    <2>2. CASE ClientAnswers(c)
      <3>1. tcb' \in [Tcbs -> Tcb]
        <4>1. PICK t \in allsocs : tcb' = [tcb EXCEPT ![t].answered = TRUE]
          BY <2>2 DEF ClientAnswers, Active
        <4> QED
          BY <4>1, TcbUpdates
      <3>2. phase' \in [Clients -> Phases]
        BY <2>2 DEF ClientAnswers, Phases
      <3> QED
        BY <2>2, <3>1, <3>2 DEF ClientAnswers, server
    <2>3. CASE ClientCloses(c)
      BY <2>3 DEF ClientCloses, server, Phases
    <2>4. CASE ClientGivesUp(c)
      BY <2>4 DEF ClientGivesUp, server, Phases
    <2> QED
      BY <1>24, <2>1, <2>2, <2>3, <2>4 DEF Client
  <1>25. CASE UNCHANGED vars
    BY <1>25 DEF vars
  <1> QED
    BY <1>1, <1>2, <1>3, <1>4, <1>5, <1>6, <1>7, <1>8, <1>9, <1>10, <1>11,
       <1>12, <1>13, <1>14, <1>16, <1>17, <1>18, <1>19, <1>20, <1>21, <1>22,
       <1>23, <1>24, <1>25
       DEF Next, Segment, Timer, Accept
-----------------------------------------------------------------------------
(* Ownership: which TCB is where. *)
Ownership == OwnedOnce /\ PointerIsFresh /\ NoPointerOutside

(* What only works on TCBs moves none of them. *)
Quiet == /\ UNCHANGED <<listen_queue, sockets, acc>>
         /\ allsocs' \subseteq allsocs

LEMMA QuietKeepsOwnership == Ownership /\ Quiet => Ownership'
  BY DEF Ownership, Quiet, OwnedOnce, PointerIsFresh, NoPointerOutside, Owned, Queued

LEMMA SegmentsAreQuiet ==
  ASSUME NEW c \in Clients, Segment(c) \/ Client(c), ~SynToListener(c)
  PROVE  Quiet
  <1>1. ASSUME Rst(c) PROVE Quiet
    BY <1>1 DEF Rst, Quiet, server
  <1>2. ASSUME \/ SynToClone(c) \/ SynRefused(c) \/ Ack(c) \/ Data(c)
               \/ Fin(c) \/ LastAck(c) \/ RstToListener(c) \/ NoTcb(c)
        PROVE  Quiet
    BY <1>2 DEF SynToClone, SynRefused, Ack, Data, Fin, LastAck,
                RstToListener, NoTcb, Quiet, server
  <1>3. ASSUME Client(c) PROVE Quiet
    BY <1>3 DEF Client, ClientOpen, ClientAnswers, ClientCloses,
                ClientGivesUp, Quiet, server
  <1> QED
    BY <1>1, <1>2, <1>3 DEF Segment

(* The slot that accept() looks at is emptied, and no other has its TCB. *)
LEMMA EmptySlotQueued ==
  ASSUME TypeOK, OwnedOnce, PointerIsFresh, acc.sk # Nil, EmptySlot
  PROVE  /\ acc.sk \in Tcbs /\ acc.sk \in Queued /\ acc.sk \notin sockets
         /\ acc.que_idx \in Slots
         /\ Queued' = Queued \ {acc.sk}
         /\ \A i, j \in Slots :
              i # j /\ listen_queue'[i] # Nil => listen_queue'[i] # listen_queue'[j]
  <1>1. /\ acc.que_idx \in Slots /\ acc.sk \in Tcbs
        /\ listen_queue[acc.que_idx] = acc.sk
    BY DEF TypeOK, PointerIsFresh
  <1>2. \A i \in Slots : listen_queue'[i] = IF i = acc.que_idx THEN Nil
                                            ELSE listen_queue[i]
    BY DEF TypeOK, EmptySlot
  <1> QED
    BY <1>1, <1>2 DEF Queued, OwnedOnce

LEMMA OwnershipStep == TypeOK /\ Ownership /\ [Next]_vars => Ownership'
  <1> SUFFICES ASSUME TypeOK, Ownership, [Next]_vars PROVE Ownership'
    OBVIOUS
  <1>1. ASSUME NEW c \in Clients, SynToListener(c) PROVE Ownership'
    <2>1. CASE Append(c)
      <3>1. PICK i \in Slots, t \in Tcbs \ Owned :
              /\ listen_queue[i] = Nil
              /\ listen_queue' = [listen_queue EXCEPT ![i] = t]
              /\ allsocs' = allsocs \cup {t}
        BY <2>1 DEF Append, FirstVacant, Vacant
      <3>2. \A k \in Slots : listen_queue'[k] = IF k = i THEN t ELSE listen_queue[k]
        BY <3>1 DEF TypeOK
      <3>3. t # Nil /\ \A k \in Slots : listen_queue[k] # t
        BY <3>1, ListenQueueAssumption DEF Owned, Queued
      <3>4. Queued' = Queued \cup {t}
        BY <3>1, <3>2, <3>3 DEF Queued
      <3>5. OwnedOnce'
        BY <1>1, <3>1, <3>2, <3>3, <3>4
           DEF SynToListener, Ownership, OwnedOnce, Owned
      <3>6. acc.que_idx \in Slots
        BY DEF TypeOK
      <3> QED
        BY <1>1, <3>1, <3>2, <3>5, <3>6
           DEF SynToListener, Ownership, PointerIsFresh, NoPointerOutside
    <2>2. CASE AppendFails(c)
      BY <1>1, <2>2, QuietKeepsOwnership DEF SynToListener, AppendFails, Quiet
    <2> QED
      BY <1>1, <2>1, <2>2 DEF SynToListener
  <1>2. ASSUME NEW t \in Tcbs, Timer(t) \/ Read(t) PROVE Ownership'
    BY <1>2, QuietKeepsOwnership DEF Timer, Timeout, Reap, Read, Quiet, server
  <1>3. CASE AcceptCall
    BY <1>3 DEF AcceptCall, Ownership, OwnedOnce, Owned, Queued,
                PointerIsFresh, NoPointerOutside
  <1>4. CASE AcceptFree
    <2>1. acc.sk # Nil /\ EmptySlot
      BY <1>4 DEF AcceptFree
    <2>2. OwnedOnce'
      BY <1>4, <2>1, EmptySlotQueued
         DEF AcceptFree, Forget, Ownership, OwnedOnce, Owned
    <2> QED
      BY <1>4, <2>2 DEF AcceptFree, Turn, Ownership, PointerIsFresh, NoPointerOutside
  <1>5. CASE AcceptTake
    <2>1. acc.sk # Nil /\ EmptySlot
      BY <1>5 DEF AcceptTake
    <2>2. OwnedOnce'
      BY <1>5, <2>1, EmptySlotQueued DEF AcceptTake, Ownership, OwnedOnce, Owned
    <2> QED
      BY <1>5, <2>2 DEF AcceptTake, Outside, Ownership, PointerIsFresh, NoPointerOutside
  <1>6. CASE AcceptNoMemory
    <2>1. acc.sk # Nil /\ EmptySlot
      BY <1>6 DEF AcceptNoMemory
    <2>2. OwnedOnce'
      BY <1>6, <2>1, EmptySlotQueued
         DEF AcceptNoMemory, Forget, Ownership, OwnedOnce, Owned
    <2> QED
      BY <1>6, <2>2 DEF AcceptNoMemory, Outside, Ownership, PointerIsFresh, NoPointerOutside
  <1>7. CASE AcceptNoSocket \/ AcceptNext
    BY <1>7 DEF AcceptNoSocket, AcceptNext, Turn, Outside, Ownership, OwnedOnce,
                Owned, Queued, PointerIsFresh, NoPointerOutside
  <1>8. ASSUME NEW t \in Tcbs, CloseAccepted(t) PROVE Ownership'
    BY <1>8 DEF CloseAccepted, Forget, Ownership, OwnedOnce, Owned, Queued,
                PointerIsFresh, NoPointerOutside
  <1>9. CASE CloseListener
    <2>1. Queued' = {}
      BY <1>9 DEF CloseListener, Queued
    <2> QED
      BY <1>9, <2>1 DEF CloseListener, Drained, Ownership, OwnedOnce, Owned,
                        PointerIsFresh, NoPointerOutside
  <1>10. CASE Listen \/ UNCHANGED vars
    BY <1>10, QuietKeepsOwnership DEF Listen, vars, Quiet
  <1>11. ASSUME NEW c \in Clients, Segment(c) \/ Client(c) PROVE Ownership'
    BY <1>1, <1>11, SegmentsAreQuiet, QuietKeepsOwnership
  <1> QED
    BY <1>2, <1>3, <1>4, <1>5, <1>6, <1>7, <1>8, <1>9, <1>10, <1>11
       DEF Next, Accept
-----------------------------------------------------------------------------
(* Peers: which TCB answers whom. *)
Peering == OnePerPeer /\ Peered

(* No TCB gets another peer, becomes a listener or goes to a socket. *)
Calm == /\ allsocs' \subseteq allsocs /\ Owned' \subseteq Owned
        /\ sockets' \subseteq sockets
        /\ open' /\ his' # Nil => open /\ his' = his
        /\ \A t \in Owned' :
             /\ tcb'[t].his = tcb[t].his
             /\ tcb'[t].is_server => tcb[t].is_server
             /\ tcb'[t].state # tcb[t].state
                => tcb'[t].state # "LISTEN" /\ tcb[t].his # Nil

LEMMA SameTcbsAreCalm ==
  ASSUME allsocs' \subseteq allsocs, Owned' \subseteq Owned,
         sockets' \subseteq sockets,
         open' /\ his' # Nil => open /\ his' = his,
         \A t \in Owned' : tcb'[t] = tcb[t]
  PROVE  Calm
  <1>1. ASSUME NEW t \in Owned'
        PROVE  /\ tcb'[t].his = tcb[t].his
               /\ tcb'[t].is_server => tcb[t].is_server
               /\ tcb'[t].state = tcb[t].state
    BY <1>1, Zenon
  <1> QED
    BY <1>1, Zenon DEF Calm

LEMMA CalmKeepsPeers == Ownership' /\ Peering /\ Calm => Peering'
  <1> SUFFICES ASSUME Ownership', Peering, Calm PROVE Peering'
    OBVIOUS
  <1>1. allsocs' \subseteq Owned' /\ sockets' \subseteq Owned'
    BY DEF Ownership, OwnedOnce, Owned
  <1>2. OnePerPeer'
    BY <1>1 DEF Peering, OnePerPeer, Calm, Active
  <1>3. Peered'
    BY <1>1 DEF Peering, Peered, Calm
  <1> QED
    BY <1>2, <1>3 DEF Peering

(* The steps that may give a TCB a peer, take one away or accept it. *)
Stir == \/ \E c \in Clients : SynToListener(c) \/ SynToClone(c) \/ Rst(c)
        \/ AcceptTake

LEMMA CalmStep ==
  TypeOK /\ Ownership /\ Peering /\ [Next]_vars => Calm \/ Stir
  <1> SUFFICES ASSUME TypeOK, Ownership, Peering, [Next]_vars PROVE Calm \/ Stir
    OBVIOUS
  <1>0. /\ allsocs \subseteq Owned /\ sockets \subseteq Owned
        /\ Owned \subseteq Tcbs
        /\ \A t \in Owned : tcb[t].his = Nil => tcb[t].state = "LISTEN"
    BY DEF Ownership, OwnedOnce, Owned, Queued, TypeOK, Peering, Peered
  <1>1. ASSUME NEW t \in Tcbs, Timer(t) PROVE Calm
    <2>1. CASE Timeout(t)
      <3>1. t \in Owned /\ tcb[t].his # Nil
        BY <1>0, <2>1 DEF Timeout
      <3>2. /\ tcb'[t] = Aborted(tcb[t])
            /\ \A u \in Owned : u # t => tcb'[u] = tcb[u]
        BY <1>0, <2>1 DEF Timeout, TypeOK
      <3>3. /\ tcb'[t].his = tcb[t].his /\ tcb'[t].state = "CLOSED"
            /\ tcb'[t].is_server = tcb[t].is_server
        BY <3>2 DEF Aborted, TypeOK, Tcb
      <3> QED
        BY <2>1, <3>1, <3>2, <3>3 DEF Timeout, server, Calm, Owned, Queued
    <2>2. CASE Reap(t)
      <3>1. \A u \in Owned : /\ tcb'[u].his = tcb[u].his
                             /\ tcb'[u].state = tcb[u].state
                             /\ tcb'[u].is_server = tcb[u].is_server
        BY <1>0, <2>2 DEF Reap, TypeOK, Tcb
      <3> QED
        BY <2>2, <3>1 DEF Reap, server, Calm, Owned, Queued
    <2> QED
      BY <1>1, <2>1, <2>2 DEF Timer
  <1>2. ASSUME NEW t \in Tcbs, Read(t) PROVE Calm
    <2>1. \A u \in Owned : /\ tcb'[u].his = tcb[u].his
                           /\ tcb'[u].state = tcb[u].state
                           /\ tcb'[u].is_server = tcb[u].is_server
      BY <1>0, <1>2 DEF Read, TypeOK, Tcb
    <2> QED
      BY <1>2, <2>1 DEF Read, server, Calm, Owned, Queued
  <1>3. ASSUME AcceptFree \/ AcceptNoMemory PROVE Calm
    <2>1. acc.sk # Nil /\ EmptySlot /\ Forget(acc.sk)
      BY <1>3 DEF AcceptFree, AcceptNoMemory
    <2>2. UNCHANGED <<open, his, sockets>>
      BY <1>3 DEF AcceptFree, AcceptNoMemory
    <2>3. acc.sk \in Tcbs /\ Owned' = Owned \ {acc.sk}
      BY <2>1, <2>2, EmptySlotQueued DEF Ownership, Owned
    <2>4. \A u \in Owned' : tcb'[u] = tcb[u]
      BY <1>0, <2>1, <2>3 DEF Forget, TypeOK
    <2> QED
      <3>1. allsocs' \subseteq allsocs
        BY <2>1 DEF Forget
      <3> QED
        BY <2>2, <2>3, <2>4, <3>1, SameTcbsAreCalm
  <1>4. ASSUME NEW t \in Tcbs, CloseAccepted(t) PROVE Calm
    <2>1. t \notin Queued /\ UNCHANGED <<open, his, listen_queue>>
      BY <1>4 DEF CloseAccepted, Ownership, OwnedOnce
    <2>2. Owned' = Owned \ {t}
      BY <1>4, <2>1 DEF CloseAccepted, Owned, Queued
    <2>3. \A u \in Owned' : tcb'[u] = tcb[u]
      BY <1>0, <1>4, <2>2 DEF CloseAccepted, Forget, TypeOK
    <2> QED
      BY <1>4, <2>1, <2>2, <2>3, SameTcbsAreCalm DEF CloseAccepted, Forget
  <1>5. ASSUME CloseListener PROVE Calm
    <2>1. Owned' = sockets /\ sockets' = sockets /\ sockets \cap Queued = {}
      BY <1>5 DEF CloseListener, Owned, Queued, Ownership, OwnedOnce
    <2>2. \A u \in Owned' : tcb'[u] = tcb[u]
      BY <1>0, <1>5, <2>1 DEF CloseListener
    <2> QED
      <3>1. allsocs' \subseteq allsocs /\ his' = Nil
        BY <1>5 DEF CloseListener, Drained
      <3>2. Owned' \subseteq Owned
        BY <1>0, <2>1
      <3> QED
        BY <2>1, <2>2, <3>1, <3>2, SameTcbsAreCalm
  <1>6. ASSUME \/ Listen \/ AcceptCall \/ AcceptNoSocket \/ AcceptNext
                \/ UNCHANGED vars
         PROVE  Calm
    <2>1. UNCHANGED <<listen_queue, sockets, allsocs, tcb>>
      BY <1>6 DEF Listen, AcceptCall, AcceptNoSocket, AcceptNext, vars
    <2>2. open' /\ his' # Nil => open /\ his' = his
      BY <1>6 DEF Listen, AcceptCall, AcceptNoSocket, AcceptNext, vars
    <2>3. Owned' = Owned
      BY <2>1 DEF Owned, Queued
    <2> QED
      BY <2>1, <2>2, <2>3, SameTcbsAreCalm
  <1>7. ASSUME NEW c \in Clients,
                \/ Ack(c) \/ Data(c) \/ Fin(c) \/ LastAck(c) \/ ClientAnswers(c)
         PROVE  Calm
    <2>1. PICK t \in allsocs :
            /\ tcb[t].his = c
            /\ \/ \E v \in States \ {"LISTEN"} : tcb' = [tcb EXCEPT ![t].state = v]
               \/ tcb' = [tcb EXCEPT ![t].rx = TRUE]
               \/ tcb' = [tcb EXCEPT ![t].answered = TRUE]
      BY <1>7 DEF Ack, Data, Fin, LastAck, ClientAnswers, Active, States
    <2>2. \A u \in Owned : /\ tcb'[u].his = tcb[u].his
                           /\ tcb'[u].is_server = tcb[u].is_server
                           /\ \/ tcb'[u].state = tcb[u].state
                              \/ u = t /\ tcb'[u].state # "LISTEN"
      BY <1>0, <2>1 DEF TypeOK, Tcb
    <2>3. UNCHANGED <<server, allsocs>>
      BY <1>7 DEF Ack, Data, Fin, LastAck, ClientAnswers
    <2> QED
      BY <2>1, <2>2, <2>3, ListenQueueAssumption DEF server, Calm, Owned, Queued
  <1>8. ASSUME NEW c \in Clients,
                \/ SynRefused(c) \/ RstToListener(c) \/ NoTcb(c)
                \/ ClientOpen(c) \/ ClientCloses(c) \/ ClientGivesUp(c)
         PROVE  Calm
    BY <1>8, SameTcbsAreCalm
       DEF SynRefused, RstToListener, NoTcb, ClientOpen, ClientCloses,
           ClientGivesUp, server, Owned, Queued
  <1> QED
    BY <1>1, <1>2, <1>3, <1>4, <1>5, <1>6, <1>7, <1>8
       DEF Next, Segment, Client, Accept, Stir

LEMMA PeersStep ==
  TypeOK /\ Ownership /\ Ownership' /\ Peering /\ [Next]_vars => Peering'
  <1> SUFFICES ASSUME TypeOK, Ownership, Ownership', Peering, [Next]_vars
               PROVE  Peering'
    OBVIOUS
  <1>0. /\ allsocs \subseteq Owned /\ sockets \subseteq Owned
        /\ Owned \subseteq Tcbs
        /\ \A t \in Owned : tcb[t].his = Nil => tcb[t].state = "LISTEN"
    BY DEF Ownership, OwnedOnce, Owned, Queued, TypeOK, Peering, Peered
  <1>1. ASSUME NEW c \in Clients, SynToListener(c) PROVE Peering'
    <2>1. CASE Append(c)
      <3>1. PICK i \in Slots, t \in Tcbs \ Owned :
              /\ listen_queue' = [listen_queue EXCEPT ![i] = t]
              /\ tcb' = [tcb EXCEPT ![t] = Clone(c)]
              /\ allsocs' = allsocs \cup {t} /\ his' = Nil
        BY <2>1 DEF Append, Undone
      <3>2. tcb'[t] = Clone(c) /\ \A u \in Owned : tcb'[u] = tcb[u]
        BY <3>1, <1>0 DEF TypeOK
      <3>3. Owned' \subseteq Owned \cup {t} /\ sockets' = sockets
        BY <1>1, <3>1 DEF SynToListener, Owned, Queued, TypeOK
      <3>4. Clone(c).his = c /\ Clone(c).state # "LISTEN" /\ c # Nil
        BY ListenQueueAssumption DEF Clone
      <3>5. \A u \in allsocs : tcb[u].his # c
        BY <1>1 DEF SynToListener, Active
      <3>6. OnePerPeer'
        BY <1>0, <3>1, <3>2, <3>4, <3>5 DEF Peering, OnePerPeer
      <3>7. Peered'
        BY <1>0, <3>2, <3>3, <3>4 DEF Peering, Peered
      <3> QED
        BY <3>6, <3>7 DEF Peering
    <2>2. CASE AppendFails(c)
      BY <1>1, <2>2 DEF SynToListener, AppendFails, Peering, OnePerPeer, Peered,
                        Active, Owned, Queued
    <2> QED
      BY <1>1, <2>1, <2>2 DEF SynToListener
  <1>2. ASSUME NEW c \in Clients, SynToClone(c) PROVE Peering'
    <2>1. PICK t \in allsocs :
            /\ tcb[t].his = Nil
            /\ tcb' = [tcb EXCEPT ![t].state = "SYNREC", ![t].his = c,
                                  ![t].answered = FALSE]
      BY <1>2 DEF SynToClone, Relistening
    <2>2. t \in Tcbs /\ tcb[t].state = "LISTEN"
      BY <1>0, <2>1
    <2>3. /\ tcb'[t].his = c /\ tcb'[t].state = "SYNREC" /\ c # Nil
          /\ \A u \in Owned : u # t => tcb'[u] = tcb[u]
      BY <1>0, <2>1, <2>2, ListenQueueAssumption DEF TypeOK, Tcb
    <2>4. UNCHANGED <<open, his, sockets, allsocs>> /\ Owned' = Owned
      BY <1>2 DEF SynToClone, server, Owned, Queued
    <2>5. /\ \A u \in allsocs : tcb[u].his # c
          /\ ~(open /\ his = c)
      BY <1>2 DEF SynToClone, Active
    <2>6. OnePerPeer'
      <3>1. \A u \in allsocs : tcb'[u].his = IF u = t THEN c ELSE tcb[u].his
        BY <1>0, <2>3
      <3>2. ASSUME NEW u \in allsocs, NEW w \in allsocs, u # w, tcb'[u].his # Nil
            PROVE  tcb'[u].his # tcb'[w].his
        BY <2>5, <3>1, <3>2 DEF Peering, OnePerPeer
      <3>3. ASSUME open, his # Nil PROVE \A u \in allsocs : tcb'[u].his # his
        BY <2>5, <3>1, <3>3 DEF Peering, OnePerPeer, Active
      <3> QED
        BY <2>4, <3>2, <3>3 DEF OnePerPeer, Active
    <2>7. t \notin sockets
      BY <2>2 DEF Peering, Peered
    <2>8. Peered'
      BY <1>0, <2>3, <2>4, <2>7 DEF Peering, Peered
    <2> QED
      BY <2>6, <2>8 DEF Peering
  <1>3. ASSUME NEW c \in Clients, Rst(c) PROVE Peering'
    <2>1. PICK t \in allsocs :
            /\ tcb[t].his = c
            /\ tcb' = [tcb EXCEPT ![t] = ResetTcb(tcb[t])]
            /\ allsocs' = IF tcb[t].is_server THEN allsocs ELSE allsocs \ {t}
      BY <1>3 DEF Rst, Active
    <2>2. /\ tcb'[t] = ResetTcb(tcb[t])
          /\ \A u \in Owned : u # t => tcb'[u] = tcb[u]
      BY <1>0, <2>1 DEF TypeOK
    <2>3. UNCHANGED <<open, his, sockets>> /\ Owned' = Owned
      BY <1>3 DEF Rst, server, Owned, Queued
    <2>4. tcb[t] \in Tcb /\ c # Nil
      BY <1>0, <2>1, ListenQueueAssumption DEF TypeOK
    <2>5. CASE tcb[t].is_server
      <3>1. tcb'[t].his = Nil /\ tcb'[t].state = "LISTEN"
        BY <2>2, <2>4, <2>5, ResetFields
      <3>2. t \notin sockets
        BY <2>5 DEF Peering, Peered
      <3>3. OnePerPeer'
        BY <1>0, <2>1, <2>2, <2>3, <2>5, <3>1 DEF Peering, OnePerPeer, Active
      <3>4. Peered'
        BY <1>0, <2>2, <2>3, <3>1, <3>2 DEF Peering, Peered
      <3> QED
        BY <3>3, <3>4 DEF Peering
    <2>6. CASE ~tcb[t].is_server
      <3>1. /\ tcb'[t].his = c /\ tcb'[t].state = "CLOSED"
            /\ tcb'[t].is_server = tcb[t].is_server
        BY <2>1, <2>2, <2>4, <2>6, ResetFields
      <3>2. Calm
        BY <1>0, <2>1, <2>2, <2>3, <2>4, <2>6, <3>1 DEF Calm
      <3> QED
        BY <3>2, CalmKeepsPeers
    <2> QED
      BY <2>5, <2>6
  <1>4. CASE AcceptTake
    <2>1. acc.sk # Nil /\ EmptySlot /\ Connected(tcb[acc.sk])
      BY <1>4 DEF AcceptTake
    <2>2. acc.sk \in Tcbs /\ acc.sk \in Queued /\ acc.sk \in Owned
      BY <2>1, EmptySlotQueued DEF Ownership, Owned
    <2>3. /\ tcb'[acc.sk] = Handed(tcb[acc.sk])
          /\ \A u \in Owned : u # acc.sk => tcb'[u] = tcb[u]
      BY <1>0, <1>4, <2>2 DEF AcceptTake, TypeOK
    <2>4. /\ tcb'[acc.sk].his = tcb[acc.sk].his
          /\ tcb'[acc.sk].state = tcb[acc.sk].state
          /\ tcb[acc.sk].state # "LISTEN"
          /\ ~tcb'[acc.sk].is_server
      BY <2>1, <2>2, <2>3 DEF Handed, Connected, TypeOK, Tcb
    <2>5. /\ sockets' = sockets \cup {acc.sk} /\ UNCHANGED <<open, his, allsocs>>
          /\ Owned' \subseteq Owned
      BY <1>4, <2>1, <2>2, EmptySlotQueued DEF AcceptTake, Ownership, Owned
    <2>6. OnePerPeer'
      BY <1>0, <2>2, <2>3, <2>4, <2>5 DEF Peering, OnePerPeer, Active
    <2>7. Peered'
      BY <1>0, <2>2, <2>3, <2>4, <2>5 DEF Peering, Peered
    <2> QED
      BY <2>6, <2>7 DEF Peering
  <1> QED
    BY <1>1, <1>2, <1>3, <1>4, CalmStep, CalmKeepsPeers DEF Stir
-----------------------------------------------------------------------------
LEMMA InitIInv == Init => IInv
  <1> SUFFICES ASSUME Init PROVE IInv
    OBVIOUS
  <1>1. 1 \in Slots
    BY ListenQueueAssumption DEF Slots
  <1>2. TypeOK
    BY <1>1, TcbValues DEF Init, TypeOK, Outside, Phases
  <1>3. Owned = {}
    BY DEF Init, Owned, Queued
  <1>4. OwnedOnce /\ PointerIsFresh /\ NoPointerOutside
    BY <1>3 DEF Init, OwnedOnce, Owned, PointerIsFresh, NoPointerOutside, Outside
  <1>5. OnePerPeer /\ Peered
    BY <1>3 DEF Init, OnePerPeer, Peered
  <1> QED
    BY <1>2, <1>4, <1>5 DEF IInv

LEMMA StepIInv == IInv /\ [Next]_vars => IInv'
  BY TypeStep, OwnershipStep, PeersStep DEF IInv, Ownership, Peering

(* The inductive invariant holds in every state of every instance. *)
THEOREM Invariance == Spec => []IInv
  BY InitIInv, StepIInv, PTL DEF Spec

(* The types of the variables of listen.c, accept.c and the TCBs. *)
THEOREM TypeCorrect == Spec => []TypeOK
  <1>1. IInv => TypeOK
    BY DEF IInv
  <1> QED
    BY <1>1, Invariance, PTL

(* A cloned TCB is in one slot or in one socket, and a freed one is not in  *)
(* the list that tcp_Retransmitter() and _tcp_handler() walk.              *)
THEOREM OwnedOnceHolds == Spec => []OwnedOnce
  <1>1. IInv => OwnedOnce
    BY DEF IInv
  <1> QED
    BY <1>1, Invariance, PTL

(* The pointer that accept() read before tcp_tick() is the slot's. *)
THEOREM PointerIsFreshHolds == Spec => []PointerIsFresh
  <1>1. IInv => PointerIsFresh
    BY DEF IInv
  <1> QED
    BY <1>1, Invariance, PTL

(* The search of _tcp_handler() has at most one answer for each peer. *)
THEOREM OnePerPeerHolds == Spec => []OnePerPeer
  <1>1. IInv => OnePerPeer
    BY DEF IInv
  <1> QED
    BY <1>1, Invariance, PTL
-----------------------------------------------------------------------------
(* The accepted sockets: no step gives one of their TCBs another peer.      *)
KeepsPeer(t) == tcb[t].his # Nil /\ tcb'[t].his = tcb[t].his

LEMMA SocketStep ==
  ASSUME IInv, IInv', [Next]_vars, NEW t \in sockets \cap sockets'
  PROVE  KeepsPeer(t)
  <1> USE DEF IInv
  <1>1. /\ t \in Owned /\ t \in Tcbs /\ t \in Owned'
        /\ tcb[t].his # Nil /\ ~tcb[t].is_server
    BY DEF Owned, Peered, TypeOK
  <1>2. CASE Calm
    BY <1>1, <1>2 DEF Calm, KeepsPeer
  <1>3. ASSUME NEW c \in Clients, SynToListener(c) PROVE KeepsPeer(t)
    <2>1. CASE Append(c)
      BY <1>1, <2>1 DEF Append, KeepsPeer, TypeOK
    <2>2. CASE AppendFails(c)
      BY <1>1, <2>2 DEF AppendFails, KeepsPeer
    <2> QED
      BY <1>3, <2>1, <2>2 DEF SynToListener
  <1>4. ASSUME NEW c \in Clients, SynToClone(c) PROVE KeepsPeer(t)
    <2>1. PICK u \in Tcbs :
            /\ u # t
            /\ tcb' = [tcb EXCEPT ![u].state = "SYNREC", ![u].his = c,
                                  ![u].answered = FALSE]
      BY <1>1, <1>4 DEF SynToClone, Relistening, TypeOK
    <2>2. tcb'[t] = tcb[t]
      BY <1>1, <2>1 DEF TypeOK
    <2> QED
      BY <1>1, <2>2 DEF KeepsPeer
  <1>5. ASSUME NEW c \in Clients, Rst(c) PROVE KeepsPeer(t)
    <2>1. PICK u \in Tcbs : tcb' = [tcb EXCEPT ![u] = ResetTcb(tcb[u])]
      BY <1>5 DEF Rst, Active, TypeOK
    <2>2. tcb'[t] = tcb[t] \/ tcb'[t] = ResetTcb(tcb[t])
      BY <1>1, <2>1 DEF TypeOK
    <2>3. tcb[t] \in Tcb
      BY <1>1 DEF TypeOK
    <2> QED
      BY <1>1, <2>2, <2>3, ResetFields DEF KeepsPeer
  <1>6. CASE AcceptTake
    <2>1. acc.sk # Nil /\ EmptySlot
      BY <1>6 DEF AcceptTake
    <2>2. acc.sk \in Tcbs /\ acc.sk # t
      BY <2>1, EmptySlotQueued
    <2>3. tcb'[t] = tcb[t]
      BY <1>1, <1>6, <2>2 DEF AcceptTake, TypeOK
    <2> QED
      BY <1>1, <2>3 DEF KeepsPeer
  <1> QED
    BY <1>2, <1>3, <1>4, <1>5, <1>6, CalmStep DEF Stir, Ownership, Peering

(* AcceptedKeepsPeer, for every instance: dup_bind() takes LF_IS_SERVER     *)
(* away, so tcp_sockreset() closes an accepted TCB instead of reusing it.   *)
THEOREM AcceptedKeepsPeerHolds == Spec => AcceptedKeepsPeer
  <1>1. IInv /\ IInv' /\ [Next]_vars
        => [\A t \in sockets \cap sockets' :
              tcb[t].his # Nil /\ tcb'[t].his = tcb[t].his]_vars
    BY SocketStep DEF KeepsPeer
  <1> QED
    BY <1>1, Invariance, PTL DEF Spec, AcceptedKeepsPeer
=============================================================================

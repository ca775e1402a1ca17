---------------------------- MODULE ListenQueue ----------------------------
(***************************************************************************)
(* The listen queue of a BSD socket: listen.c, accept.c, the SYN callback   *)
(* of tcp_fsm.c and the parts of close.c, socket.c and pctcp.c that touch a *)
(* queued connection.                                                      *)
(*                                                                         *)
(* A SYN for a listening socket is answered by a clone of its TCB, which    *)
(* waits in a slot of the queue until accept() makes a socket of it.  The   *)
(* slots, the list of all TCBs and accept()'s own pointer hold the clone at *)
(* the same time, and all of them change inside tcp_tick().                *)
(*                                                                         *)
(* A client is one remote port, and opens one connection.  What it has sent *)
(* may arrive at any later time, more than once, or not at all.            *)
(***************************************************************************)
EXTENDS Naturals, FiniteSets

CONSTANTS
  Tcbs,                    \* memory for cloned TCBs
  Clients,
  Nil,                     \* NULL, and the peer of a TCB that has none
  Backlog,                 \* socket->backlog
  MaxSockets,              \* descriptors for accepted connections
  NonBlocking              \* SS_NBIO is set for the listening socket

ASSUME ListenQueueAssumption ==
  /\ Nil \notin Tcbs \cup Clients
  /\ Backlog \in Nat \ {0} /\ MaxSockets \in Nat
  /\ NonBlocking \in BOOLEAN

VARIABLES
  open,                    \* the listening socket exists
  his,                     \* hisaddr and hisport in its own TCB
  listen_queue,
  tcb,
  allsocs,                 \* _tcp_allsocs, without the listening TCB
  sockets,                 \* sk_list: the TCBs of accepted sockets
  acc,                     \* accept()
  phase                    \* the clients

vars == <<open, his, listen_queue, tcb, allsocs, sockets, acc, phase>>

server == <<open, his, listen_queue, sockets, acc>>

Slots  == 1 .. Backlog
States == {"LISTEN", "SYNREC", "ESTAB", "LASTACK", "CLOSED"}
Phases == {"idle", "syn", "estab", "fin", "done", "gone"}

(* proto: ip_type is TCP_PROTO; is_server: LF_IS_SERVER; rx: there is data   *)
(* in the receive buffer; answered: the client acknowledges this TCB's      *)
(* sequence number, since its SYN+ACK has arrived.                         *)
Tcb == [state : States, his : Clients \cup {Nil}, proto : BOOLEAN,
        is_server : BOOLEAN, rx : BOOLEAN, answered : BOOLEAN]

Freed == [state |-> "CLOSED", his |-> Nil, proto |-> FALSE,
          is_server |-> FALSE, rx |-> FALSE, answered |-> FALSE]

SlotZero == [pc |-> "out", que_idx |-> 0, sk |-> Nil]  \* mutant: C's index
Outside == [pc |-> "out", que_idx |-> 1, sk |-> Nil]

Queued == {listen_queue[i] : i \in Slots} \ {Nil}
Owned  == Queued \cup sockets

Init ==
  /\ open = TRUE /\ his = Nil
  /\ listen_queue = [i \in Slots |-> Nil]
  /\ tcb = [t \in Tcbs |-> Freed]
  /\ allsocs = {} /\ sockets = {}
  /\ acc = Outside
  /\ phase = [c \in Clients |-> "idle"]
-----------------------------------------------------------------------------
(* _tcp_handler(): the TCB of a segment of c, and those a SYN may take. *)
Active(c) == {t \in allsocs : tcb[t].his = c}
Relistening == {t \in allsocs : tcb[t].his = Nil}

Vacant0 == Slots             \* mutant: a full queue drops its oldest entry
Vacant == {i \in Slots : listen_queue[i] = Nil}
FirstVacant(i) == i \in Vacant /\ \A j \in Vacant : i <= j

(* _sock_append(): the clone of the listening TCB that has c's SYN. *)
Clone(c) == [state |-> "SYNREC", his |-> c, proto |-> TRUE,
             is_server |-> TRUE, rx |-> FALSE, answered |-> FALSE]

NotUndone(c) == c                     \* mutant: hisport is not cleared
Undone(c) == Nil                      \* "undo what tcp_handler() did"

Append(c) ==
  \E i \in Slots, t \in Tcbs \ Owned :
    /\ FirstVacant(i)
    /\ listen_queue' = [listen_queue EXCEPT ![i] = t]
    /\ tcb' = [tcb EXCEPT ![t] = Clone(c)]
    /\ allsocs' = allsocs \cup {t}
    /\ his' = Undone(c)

(* No slot, or no memory.  By now _tcp_handler() has given the listening    *)
(* TCB the peer, and nobody takes it away again.                           *)
AppendFails(c) ==
  /\ Vacant = {} \/ Tcbs \subseteq Owned
  /\ his' = c
  /\ UNCHANGED <<listen_queue, tcb, allsocs>>

SynToListener(c) ==
  /\ phase[c] # "idle" /\ Active(c) = {} /\ open
  /\ his = c \/ (his = Nil /\ Relistening = {})
  /\ Append(c) \/ AppendFails(c)
  /\ UNCHANGED <<open, sockets, acc, phase>>

(* A clone that went back to LISTEN is no socket's TCB, so _sock_append()   *)
(* lets it take the connection itself.  It is before the listening TCB in   *)
(* the list; which of several comes first is left open.                    *)
SynToClone(c) ==
  /\ phase[c] # "idle" /\ Active(c) = {} /\ ~(open /\ his = c)
  /\ \E t \in Relistening :
       tcb' = [tcb EXCEPT ![t].state = "SYNREC", ![t].his = c,
                          ![t].answered = FALSE]
  /\ UNCHANGED <<server, allsocs, phase>>

(* Nobody listens: c is told by a reset. *)
SynRefused(c) ==
  /\ phase[c] = "syn" /\ Active(c) = {} /\ Relistening = {}
  /\ ~open \/ his \notin {c, Nil}
  /\ phase' = [phase EXCEPT ![c] = "gone"]
  /\ UNCHANGED <<server, tcb, allsocs>>
-----------------------------------------------------------------------------
(* Segments for a connection that has a TCB. *)
Talks(c, t) == t \in Active(c) /\ tcb[t].answered

Ack(c) ==
  /\ phase[c] \in {"estab", "fin"}
  /\ \E t \in Active(c) :
       /\ Talks(c, t) /\ tcb[t].state = "SYNREC"
       /\ tcb' = [tcb EXCEPT ![t].state = "ESTAB"]
  /\ UNCHANGED <<server, allsocs, phase>>

Data(c) ==
  /\ phase[c] \in {"estab", "fin"}
  /\ \E t \in Active(c) :
       /\ Talks(c, t) /\ tcb[t].state = "ESTAB"
       /\ tcb' = [tcb EXCEPT ![t].rx = TRUE]
  /\ UNCHANGED <<server, allsocs, phase>>

Fin(c) ==
  /\ phase[c] = "fin"
  /\ \E t \in Active(c) :
       /\ Talks(c, t) /\ tcb[t].state = "ESTAB"
       /\ tcb' = [tcb EXCEPT ![t].state = "LASTACK"]
  /\ UNCHANGED <<server, allsocs, phase>>

(* The acknowledgement of the server's own FIN. *)
LastAck(c) ==
  /\ phase[c] = "fin"
  /\ \E t \in Active(c) :
       /\ Talks(c, t) /\ tcb[t].state = "LASTACK"
       /\ tcb' = [tcb EXCEPT ![t].state = "CLOSED"]
  /\ phase' = [phase EXCEPT ![c] = "done"]
  /\ UNCHANGED <<server, allsocs>>

(* tcp_sockreset(): a server's TCB listens again, with what was received if *)
(* its state was LASTACK or CLOSED.                                        *)
Unread(s) == s.rx /\ s.state \in {"LASTACK", "CLOSED"}

ResetTcb(s) ==
  IF s.is_server
  THEN [s EXCEPT !.state = "LISTEN", !.his = Nil, !.rx = Unread(s)]
  ELSE [s EXCEPT !.state = "CLOSED", !.proto = FALSE, !.rx = Unread(s)]

(* A client that is done with it answers only the SYN+ACK of a late SYN. *)
Rst(c) ==
  /\ \E t \in Active(c) :
       /\ phase[c] = "gone" \/ (phase[c] = "done" /\ tcb[t].state = "SYNREC")
       /\ tcb' = [tcb EXCEPT ![t] = ResetTcb(tcb[t])]
       /\ allsocs' = IF tcb[t].is_server THEN allsocs ELSE allsocs \ {t}
  /\ UNCHANGED <<server, phase>>

(* The listening TCB, too, takes a reset from the peer it was left with, if *)
(* the sequence number happens to fit.                                     *)
RstToListener(c) ==
  /\ open /\ his = c /\ phase[c] \in {"done", "gone"}
  /\ his' = Nil
  /\ UNCHANGED <<open, listen_queue, sockets, acc, tcb, allsocs, phase>>

(* A segment without a TCB is answered by a reset. *)
NoTcb(c) ==
  /\ phase[c] \in {"estab", "fin"} /\ Active(c) = {}
  /\ phase' = [phase EXCEPT ![c] = "gone"]
  /\ UNCHANGED <<server, tcb, allsocs>>
-----------------------------------------------------------------------------
(* tcp_Retransmitter() *)
Aborted(s) == [s EXCEPT !.state = "CLOSED", !.proto = FALSE]

Timeout(t) ==
  /\ t \in allsocs /\ tcb[t].state \in {"SYNREC", "LASTACK"}
  /\ tcb' = [tcb EXCEPT ![t] = Aborted(tcb[t])]
  /\ allsocs' = allsocs \ {t}
  /\ UNCHANGED <<server, phase>>

Reap(t) ==
  /\ t \in allsocs /\ tcb[t].state = "CLOSED" /\ ~tcb[t].rx
  /\ tcb' = [tcb EXCEPT ![t].proto = FALSE]
  /\ allsocs' = allsocs \ {t}
  /\ UNCHANGED <<server, phase>>
-----------------------------------------------------------------------------
(* accept(): the slot is read before tcp_tick(), and what it pointed to is  *)
(* judged after it.  All other actions can happen in between.              *)
AcceptCall ==
  /\ open /\ acc.pc = "out"
  /\ acc' = [pc |-> "tick", que_idx |-> 1, sk |-> listen_queue[1]]
  /\ UNCHANGED <<open, his, listen_queue, tcb, allsocs, sockets, phase>>

FirstIdx(i) == 1                                 \* mutant: one slot only
NextIdx(i) == (i % Backlog) + 1                  \* (que_idx + 1) % maxconn
Turn == acc' = [pc |-> "tick", que_idx |-> NextIdx(acc.que_idx),
                sk |-> listen_queue'[NextIdx(acc.que_idx)]]

Dead(s)      == s.state \in {"LASTACK", "CLOSED"} /\ ~s.proto
Connected(s) == s.state \in {"ESTAB", "LASTACK"} /\ s.proto

ForgetThreaded(t) ==                  \* mutant: freed but still in the list
  /\ allsocs' = allsocs
  /\ tcb' = [tcb EXCEPT ![t] = Freed]
Forget(t) ==
  /\ allsocs' = allsocs \ {t}
  /\ tcb' = [tcb EXCEPT ![t] = Freed]

EmptySlot == listen_queue' = [listen_queue EXCEPT ![acc.que_idx] = Nil]

(* listen_free() *)
AcceptFree ==
  /\ acc.pc = "tick" /\ acc.sk # Nil /\ Dead(tcb[acc.sk])
  /\ Forget(acc.sk) /\ EmptySlot /\ Turn
  /\ UNCHANGED <<open, his, sockets, phase>>

(* dup_bind() *)
HandedAsServer(s) == s                \* mutant: LF_IS_SERVER is left set
Handed(s) == [s EXCEPT !.is_server = FALSE]

AcceptTake ==
  /\ acc.pc = "tick" /\ acc.sk # Nil /\ Connected(tcb[acc.sk])
  /\ Cardinality(sockets) < MaxSockets
  /\ sockets' = sockets \cup {acc.sk}
  /\ tcb' = [tcb EXCEPT ![acc.sk] = Handed(tcb[acc.sk])]
  /\ EmptySlot /\ acc' = Outside
  /\ UNCHANGED <<open, his, allsocs, phase>>

(* alloc_addr() fails: the new socket is deleted with its TCB. *)
AcceptNoMemory ==
  /\ acc.pc = "tick" /\ acc.sk # Nil /\ Connected(tcb[acc.sk])
  /\ Cardinality(sockets) < MaxSockets
  /\ Forget(acc.sk) /\ EmptySlot /\ acc' = Outside
  /\ UNCHANGED <<open, his, sockets, phase>>

AcceptNoSocket ==
  /\ acc.pc = "tick" /\ acc.sk # Nil /\ Connected(tcb[acc.sk])
  /\ Cardinality(sockets) >= MaxSockets
  /\ acc' = Outside
  /\ UNCHANGED <<open, his, listen_queue, tcb, allsocs, sockets, phase>>

(* Neither: the next slot, or EWOULDBLOCK after the last one. *)
AcceptNext ==
  /\ acc.pc = "tick"
  /\ acc.sk # Nil => ~Dead(tcb[acc.sk]) /\ ~Connected(tcb[acc.sk])
  /\ UNCHANGED listen_queue
  /\ IF acc.que_idx = Backlog /\ NonBlocking THEN acc' = Outside ELSE Turn
  /\ UNCHANGED <<open, his, tcb, allsocs, sockets, phase>>

Accept == AcceptFree \/ AcceptTake \/ AcceptNoMemory \/ AcceptNoSocket \/ AcceptNext
-----------------------------------------------------------------------------
(* The application. *)
Read(t) ==
  /\ t \in sockets /\ tcb[t].rx
  /\ tcb' = [tcb EXCEPT ![t].rx = FALSE]
  /\ UNCHANGED <<server, allsocs, phase>>

(* _sock_del_fd() of an accepted socket: by close_s() at once with a linger *)
(* time of 0, by the socket daemon otherwise.                              *)
CloseAccepted(t) ==
  /\ t \in sockets
  /\ sockets' = sockets \ {t}
  /\ Forget(t)
  /\ UNCHANGED <<open, his, listen_queue, acc, phase>>

(* close_s() of the listening socket: the queue is aborted and freed. *)
Drained == allsocs \ Queued

CloseListener ==
  /\ open /\ acc.pc = "out"
  /\ open' = FALSE /\ his' = Nil
  /\ listen_queue' = [i \in Slots |-> Nil]
  /\ allsocs' = Drained
  /\ tcb' = [t \in Tcbs |-> IF t \in Queued THEN Freed ELSE tcb[t]]
  /\ UNCHANGED <<sockets, acc, phase>>

Listen ==
  /\ ~open
  /\ open' = TRUE /\ his' = Nil
  /\ UNCHANGED <<listen_queue, tcb, allsocs, sockets, acc, phase>>

(* The clients: open, the SYN+ACK arrives, close, give up. *)
ClientOpen(c) ==
  /\ phase[c] = "idle"
  /\ phase' = [phase EXCEPT ![c] = "syn"]
  /\ UNCHANGED <<server, tcb, allsocs>>

ClientAnswers(c) ==
  /\ phase[c] = "syn"
  /\ \E t \in Active(c) :
       /\ tcb[t].state = "SYNREC"
       /\ tcb' = [tcb EXCEPT ![t].answered = TRUE]
  /\ phase' = [phase EXCEPT ![c] = "estab"]
  /\ UNCHANGED <<server, allsocs>>

ClientCloses(c) ==
  /\ phase[c] = "estab"
  /\ phase' = [phase EXCEPT ![c] = "fin"]
  /\ UNCHANGED <<server, tcb, allsocs>>

ClientGivesUp(c) ==
  /\ phase[c] \in {"syn", "estab", "fin"}
  /\ phase' = [phase EXCEPT ![c] = "gone"]
  /\ UNCHANGED <<server, tcb, allsocs>>
-----------------------------------------------------------------------------
Segment(c) ==
  \/ SynToListener(c) \/ SynToClone(c) \/ SynRefused(c)
  \/ Ack(c) \/ Data(c) \/ Fin(c) \/ LastAck(c) \/ Rst(c)
  \/ RstToListener(c) \/ NoTcb(c)

Client(c) ==
  ClientOpen(c) \/ ClientAnswers(c) \/ ClientCloses(c) \/ ClientGivesUp(c)

Timer(t) == Timeout(t) \/ Reap(t)

Next ==
  \/ \E c \in Clients : Segment(c) \/ Client(c)
  \/ \E t \in Tcbs : Timer(t) \/ Read(t) \/ CloseAccepted(t)
  \/ AcceptCall \/ Accept \/ CloseListener \/ Listen

Spec == Init /\ [][Next]_vars

(* The application calls accept() again and again, which runs tcp_tick(),   *)
(* and is done with an accepted socket some day.                           *)
Fairness ==
  /\ WF_vars(AcceptCall) /\ WF_vars(Accept)
  /\ \A t \in Tcbs : WF_vars(Timer(t)) /\ WF_vars(CloseAccepted(t))

FairSpec == Spec /\ Fairness
-----------------------------------------------------------------------------
TypeOK ==
  /\ open \in BOOLEAN /\ his \in Clients \cup {Nil}
  /\ listen_queue \in [Slots -> Tcbs \cup {Nil}]
  /\ tcb \in [Tcbs -> Tcb]
  /\ allsocs \subseteq Tcbs /\ sockets \subseteq Tcbs
  /\ acc \in [pc : {"out", "tick"}, que_idx : Slots, sk : Tcbs \cup {Nil}]
  /\ phase \in [Clients -> Phases]

(* Every cloned TCB has one owner, a slot or a socket, and one without an   *)
(* owner (free() was called) is not in the list of TCBs: _sock_append(),    *)
(* dup_bind(), listen_free(), close_stream() and _sock_del_fd() move it.    *)
OwnedOnce ==
  /\ \A i, j \in Slots :
       i # j /\ listen_queue[i] # Nil => listen_queue[i] # listen_queue[j]
  /\ Queued \cap sockets = {}
  /\ allsocs \subseteq Owned

(* accept() reads the slot before it calls tcp_tick(): what it then judges, *)
(* takes or frees is still the TCB of that slot.                           *)
PointerIsFresh == acc.sk # Nil => listen_queue[acc.que_idx] = acc.sk

(* No two TCBs have the same peer, the listening one included: a segment    *)
(* belongs to one connection, whatever their order in _tcp_allsocs.         *)
OnePerPeer ==
  /\ \A t, u \in allsocs : t # u => tcb[t].his # tcb[u].his \/ tcb[t].his = Nil
  /\ open /\ his # Nil => Active(his) = {}

(* The peer that accept() returned is the socket's peer as long as the      *)
(* socket exists: no reset makes it a listener that another client takes.   *)
AcceptedKeepsPeer ==
  [][\A t \in sockets \cap sockets' :
       tcb[t].his # Nil /\ tcb'[t].his = tcb[t].his]_vars

(* A queued connection is taken, or its slot freed, in the end, unless it   *)
(* went back to LISTEN or was closed with unread data: those two accept()   *)
(* passes over, and only the end of the listening socket frees the slot.   *)
PassedOver(s) == s.state = "LISTEN" \/ (s.state = "CLOSED" /\ s.proto /\ s.rx)
SlotComesFree ==
  \A i \in Slots, t \in Tcbs :
    listen_queue[i] = t ~> listen_queue[i] # t \/ PassedOver(tcb[t])
=============================================================================

------------------------------- MODULE TcpConn -------------------------------
(***************************************************************************)
(* A TCP connection between two hosts that both run this stack: the active  *)
(* side "A" (tcp_open) and the passive side "B" (tcp_listen), the input     *)
(* state machine of tcp_fsm.c, and the open, close, abort, send and         *)
(* retransmission code of pctcp.c.  The network loses, duplicates, delays   *)
(* and reorders segments.                                                  *)
(*                                                                         *)
(* send_next is the first sequence number not yet acknowledged, send_una    *)
(* the bytes sent beyond it; the FIN is not counted in either.  Sequence    *)
(* numbers do not wrap here (TcpReasm has the wrap), a segment carries all  *)
(* that may be sent, and the receive window never closes.                   *)
(***************************************************************************)
EXTENDS Integers, FiniteSets

CONSTANTS
  Linger,                  \* [Sides -> BOOLEAN]: LF_LINGER of each socket
  MaxWrite,                \* bound: bytes each application writes
  MaxOpen,                 \* bound: [Sides -> Nat], calls of tcp_open(), tcp_listen()
  MaxNet,                  \* bound: segments under way
  Window,                  \* adv_win
  Duplicates               \* bound: the network duplicates segments

Sides == {"A", "B"}
Peer(p) == IF p = "A" THEN "B" ELSE "A"

ASSUME TcpConnAssumption ==
  /\ Linger \in [Sides -> BOOLEAN]
  /\ MaxWrite \in Nat /\ MaxOpen \in [Sides -> Nat] /\ MaxNet \in Nat /\ Window \in Nat \ {0}
  /\ Duplicates \in BOOLEAN

VARIABLES
  sock,                    \* the two sockets
  net,                     \* net[p]: segments on their way to p
  opens,                   \* history: calls of tcp_open(), tcp_listen()
  wrote,                   \* history: bytes each application wrote
  finSent,                 \* history: connections on which each side sent a FIN
  relisten                 \* history: a reset took the server back to LISTEN

vars == <<sock, net, opens, wrote, finSent, relisten>>

States == {"LISTEN", "RESOLVE", "SYNSENT", "SYNREC", "ESTAB", "ESTCL",
           "FINWT1", "FINWT2", "CLOSING", "LASTACK", "TIMEWT", "CLOSED"}

(* Initial sequence numbers, far enough apart to tell the sides and the     *)
(* incarnations from each other.                                            *)
Iss(p, k) == IF p = "A" THEN 10 * k ELSE 100 * k

Segment(s, flags, seq, len) ==
  [port |-> s.port, seq |-> seq, ack |-> s.recv_next, flags |-> flags, len |-> len]

ClosedSock ==
  [state |-> "CLOSED", threaded |-> FALSE, port |-> 0, send_next |-> 0,
   send_una |-> 0, tx_datalen |-> 0, recv_next |-> 0, missed |-> {},
   flags |-> {}, unhappy |-> FALSE, timeout |-> FALSE, rtt |-> FALSE,
   karn |-> 0, got_fin |-> FALSE, out |-> {}, again |-> FALSE]
-----------------------------------------------------------------------------
(* Sending.  out collects what a handler sends. *)

Minus(a, b) == IF a > b THEN a - b ELSE 0

(* _tcp_send(): after a retransmission timeout from the first byte that is  *)
(* not acknowledged, otherwise from the first one that was not sent.        *)
Send(s) ==
  LET start == IF s.karn = 2 THEN 0 ELSE s.send_una
      len   == IF "SYN" \in s.flags THEN 0 ELSE Minus(s.tx_datalen, start)
  IN  [s EXCEPT !.out = @ \cup {Segment(s, s.flags, s.send_next + start, len)},
                !.send_una = start + len,
                !.karn = IF @ = 2 THEN 2 ELSE 0,
                !.rtt = TRUE]

(* _tcp_sendsoon(): send at once, restart the timer, or keep a timer that   *)
(* fires soon enough.                                                       *)
Soons == {"now", "later", "keep"}

SendSoon(s, soon) ==
  IF soon = "now" THEN Send([s EXCEPT !.karn = 0])
  ELSE IF soon = "keep" /\ s.rtt /\ (s.unhappy \/ s.tx_datalen > 0 \/ s.karn = 1)
       THEN s
       ELSE [s EXCEPT !.rtt = TRUE, !.karn = 1]

Unthread(s) == [s EXCEPT !.state = "CLOSED", !.threaded = FALSE, !.tx_datalen = 0]

(* _tcp_send_reset(): answers a segment that has no socket, never a RST. *)
ResetFor(g) ==
  IF "RST" \in g.flags THEN {}
  ELSE IF "ACK" \notin g.flags
       THEN {[port |-> g.port, seq |-> 0, ack |-> g.seq + 1, flags |-> {"RST", "ACK"},
              len |-> 0]}
       ELSE {[port |-> g.port, seq |-> g.ack, ack |-> 0, flags |-> {"RST"}, len |-> 0]}

(* _tcp_abort() *)
Abort(s) ==
  LET reset == [s EXCEPT !.flags = {"RST", "ACK"}, !.tx_datalen = 0]
  IN  Unthread(IF s.state \in States \ {"LISTEN", "RESOLVE", "TIMEWT", "CLOSED"}
               THEN [Send(reset) EXCEPT !.unhappy = FALSE]
               ELSE [s EXCEPT !.unhappy = FALSE, !.tx_datalen = 0])

(* mutant: data that was not acknowledged is dropped *)
CloseDiscards(s, soon) ==
  IF s.state \in {"ESTAB", "ESTCL", "SYNREC"}
  THEN [Send([s EXCEPT !.flags = {"ACK", "FIN"}, !.state = "FINWT1", !.timeout = TRUE,
                       !.tx_datalen = 0])
          EXCEPT !.unhappy = TRUE]
  ELSE IF s.state \in {"RESOLVE", "SYNSENT"} THEN Unthread(s) ELSE s

(* _tcp_close() *)
Close(s, soon) ==
  IF s.state \in {"ESTAB", "ESTCL", "SYNREC"}
  THEN IF s.tx_datalen > 0
       THEN LET t == [s EXCEPT !.flags = @ \cup {"ACK"}, !.state = "ESTCL"]
            IN  [(IF s.state = "ESTCL" THEN t ELSE SendSoon(t, soon))
                   EXCEPT !.unhappy = TRUE]
       ELSE [Send([s EXCEPT !.flags = {"ACK", "FIN"}, !.state = "FINWT1",
                            !.timeout = TRUE])
               EXCEPT !.unhappy = TRUE]
  ELSE IF s.state \in {"RESOLVE", "SYNSENT"} THEN Unthread(s)
  ELSE s
-----------------------------------------------------------------------------
(* The input state machine.  g is the segment, again says that the handler  *)
(* asks for a retransmission (the return value 1).                          *)

Again(s) == [s EXCEPT !.again = TRUE]
Has(g, f) == f \in g.flags

(* tcp_process_ACK() *)
AckOkFin(s, g) ==                      \* mutant: the FIN counts as data
  s.send_next <= g.ack /\ g.ack <= s.send_next + s.tx_datalen + 1

AckOk(s, g) == s.send_next <= g.ack /\ g.ack <= s.send_next + s.tx_datalen

ProcessAck(s, g) ==
  LET d == g.ack - s.send_next
  IN  [s EXCEPT !.tx_datalen = @ - d, !.send_una = @ - d, !.send_next = g.ack,
                !.rtt = @ /\ ~(s.send_una = d /\ s.tx_datalen = d)]

(* tcp_process_data(), its buffers reduced to sets of sequence numbers: a   *)
(* run of out-of-order bytes is kept if it is the first one or touches the  *)
(* one that is kept (TcpReasm has the bytes).                               *)
HasData(g)      == g.len > 0 /\ ~Has(g, "SYN") /\ ~Has(g, "RST")
OutOfOrder(s, g) == HasData(g) /\ g.seq > s.recv_next

(* mutant: bytes that were received before count again *)
ProcessDataTwice(s, g) ==
  IF HasData(g) /\ g.seq <= s.recv_next THEN [s EXCEPT !.recv_next = @ + g.len] ELSE s

ProcessData(s, g) ==
  LET new     == g.seq .. g.seq + g.len - 1
      have    == s.missed \cup new
      filled  == CHOOSE n \in s.recv_next .. s.recv_next + Cardinality(have) :
                   s.recv_next .. n - 1 \subseteq have /\ n \notin have
      touches == s.missed = {} \/ \E n \in s.missed : n + 1 \in new \/ n - 1 \in new
  IN  IF ~HasData(g) \/ g.seq + g.len < s.recv_next THEN s
      ELSE IF OutOfOrder(s, g)
           THEN [s EXCEPT !.missed = IF touches THEN have ELSE @, !.unhappy = TRUE]
           ELSE [s EXCEPT !.recv_next = filled,
                          !.missed = {n \in @ : n > filled},
                          !.unhappy = s.tx_datalen > 0]

FinOfAck(s, g) == Has(g, "ACK")        \* mutant: another flag is tested

(* The FIN flag of out-of-order data is cleared. *)
FinOf(s, g) == Has(g, "FIN") /\ ~OutOfOrder(s, g)

(* tcp_listen_state() *)
ListenState(s, g) ==
  IF Has(g, "SYN")
  THEN [Send([s EXCEPT !.recv_next = g.seq + 1, !.flags = {"SYN", "ACK"},
                       !.state = "SYNREC", !.unhappy = TRUE])
          EXCEPT !.timeout = TRUE]
  ELSE [s EXCEPT !.out = @ \cup ResetFor(g)]

(* tcp_synsent_state() *)
SynsentState(s, g, soon, iss) ==
  LET t == [s EXCEPT !.flags = {"ACK"}, !.timeout = TRUE]
  IN  CASE ~Has(g, "SYN") -> [s EXCEPT !.out = @ \cup ResetFor(g)]
        [] Has(g, "SYN") /\ Has(g, "ACK") /\ g.ack = s.send_next + 1 ->
             Again(Send([t EXCEPT !.state = "ESTAB", !.send_next = @ + 1,
                                  !.recv_next = g.seq + 1,
                                  !.unhappy = s.tx_datalen > 0]))
        [] Has(g, "SYN") /\ Has(g, "ACK") /\ g.ack # s.send_next + 1 ->
             Again(SendSoon([Send([t EXCEPT !.flags = {"RST"}, !.unhappy = TRUE])
                               EXCEPT !.send_next = iss, !.flags = {"SYN"}], soon))
        [] OTHER -> Again([t EXCEPT !.recv_next = @ + 1, !.state = "SYNREC"])

(* tcp_synrec_state() *)
SynrecState(s, g) ==
  CASE Has(g, "SYN") ->
         [Send([s EXCEPT !.flags = {"SYN", "ACK"}, !.unhappy = TRUE])
            EXCEPT !.timeout = TRUE]
    [] ~Has(g, "SYN") /\ Has(g, "ACK") /\ g.ack = s.send_next + 1 ->
         [s EXCEPT !.send_next = @ + 1, !.flags = {"ACK"}, !.state = "ESTAB",
                   !.timeout = FALSE, !.unhappy = FALSE]
    [] OTHER -> Again(s)

(* tcp_estab_state() after the acknowledgement and the data: the FIN, and   *)
(* more of our data or an acknowledgement of theirs.                        *)
FinInWindow(s, g) == g.seq <= s.recv_next /\ s.recv_next < g.seq + Window

(* mutant: as it was before "Added AGW 6 Jan 2001", without a timer *)
ToLastAckUntimed(s) ==
  [s EXCEPT !.got_fin = TRUE, !.flags = @ \cup {"FIN"}, !.unhappy = TRUE,
            !.state = "LASTACK"]

ToLastAck(s) ==
  [s EXCEPT !.got_fin = TRUE, !.flags = @ \cup {"FIN"}, !.unhappy = TRUE,
            !.timeout = TRUE, !.state = "LASTACK"]

EstabFin(s, g, fin) ==
  IF ~fin \/ ~FinInWindow(s, g) THEN s
  ELSE IF s.missed = {}
       THEN ToLastAck(Send([s EXCEPT !.recv_next = @ + 1]))
       ELSE Send([s EXCEPT !.unhappy = TRUE])

EstabReply(s, g, acked, soon) ==
  IF acked > 0 /\ s.tx_datalen > s.send_una THEN Send([s EXCEPT !.karn = 0])
  ELSE IF g.len > 0 THEN SendSoon(s, soon)
  ELSE IF s.out = {} /\ g.seq = s.recv_next - 1 /\ s.state = "ESTAB" THEN Send(s)
  ELSE s

EstabState(s, g, soon) ==
  LET acked == g.ack - s.send_next
      a == IF AckOk(s, g) THEN ProcessAck(s, g) ELSE [s EXCEPT !.send_una = 0]
      b == [a EXCEPT !.send_una = Minus(@, 0), !.flags = {"ACK"}, !.timeout = FALSE]
      d == ProcessData(b, g)
  IN  CASE Has(g, "SYN") /\ Has(g, "ACK") -> Send(s)
        [] ~Has(g, "ACK") -> s
        [] OTHER -> IF OutOfOrder(b, g) THEN Again(Send(d))
                    ELSE EstabReply(EstabFin(d, g, FinOf(b, g)), g, acked, soon)

(* tcp_estcl_state() *)
EstclState(s, g, soon) == [Close(EstabState(s, g, soon), soon) EXCEPT !.again = FALSE]

(* tcp_finwt1_state() *)
Finwt1State(s, g, p) ==
  LET acked == g.ack - s.send_next
      a == IF AckOk(s, g)
           THEN [ProcessAck(s, g) EXCEPT !.send_una = IF acked = 0 THEN 0 ELSE Minus(@, 0)]
           ELSE s
      d == ProcessData(a, g)
      fin == FinOf(a, g) /\ Has(g, "ACK")
      last == [d EXCEPT !.recv_next = @ + 1, !.flags = {"ACK"}, !.unhappy = FALSE,
                        !.timeout = TRUE]
  IN  CASE d.missed = {} /\ fin /\ g.seq = d.recv_next ->
             IF g.ack >= d.send_next + 1
             THEN Again(Send([last EXCEPT !.send_next = @ + 1, !.state = "TIMEWT"]))
             ELSE Again(Send([last EXCEPT !.state = "CLOSING"]))
        [] ~(d.missed = {} /\ fin) /\ Has(g, "ACK") /\ g.ack = d.send_next + 1 ->
             CASE g.seq = d.recv_next /\ d.tx_datalen = 0 ->
                    IF ~Linger[p] THEN Unthread(d)
                    ELSE Again([d EXCEPT !.send_next = @ + 1, !.state = "FINWT2",
                                         !.unhappy = FALSE, !.timeout = TRUE])
               [] g.seq = d.recv_next + 1 ->
                    Unthread(Send([d EXCEPT !.send_next = @ + 1, !.recv_next = @ + 1,
                                            !.flags = {"RST"}, !.unhappy = FALSE,
                                            !.karn = 0, !.tx_datalen = 0]))
               [] OTHER -> Again(d)
        [] OTHER -> Again(d)

(* tcp_finwt2_state() *)
Finwt2State(s, g) ==
  LET d == ProcessData(s, g)
      f == IF FinOf(s, g) THEN [d EXCEPT !.got_fin = TRUE] ELSE d
  IN  CASE d.missed # {} -> Again(d)
        [] d.missed = {} /\ Has(g, "ACK") /\ g.ack = d.send_next /\ g.seq = d.recv_next ->
             Send([f EXCEPT !.recv_next = @ + 1, !.flags = {"ACK"}, !.unhappy = FALSE,
                            !.state = "TIMEWT", !.timeout = TRUE])
        [] OTHER -> Again(f)

(* tcp_closing_state() *)
ClosingState(s, g) ==
  IF Has(g, "ACK") /\ ~Has(g, "FIN") /\ g.ack > s.send_next /\ g.seq = s.recv_next
  THEN Again([s EXCEPT !.send_next = @ + 1, !.state = "TIMEWT", !.unhappy = FALSE,
                       !.timeout = TRUE])
  ELSE Again(s)

(* tcp_lastack_state() *)
LastackState(s, g) ==
  CASE Has(g, "FIN") ->
         [Send([s EXCEPT !.got_fin = TRUE, !.flags = {"ACK", "FIN"}])
            EXCEPT !.unhappy = TRUE]
    [] ~Has(g, "FIN") /\ g.ack > s.send_next /\ g.seq = s.recv_next ->
         [s EXCEPT !.state = "CLOSED", !.unhappy = FALSE]
    [] OTHER -> Again(s)

(* tcp_timewt_state() *)
TimewtState(s, g) ==
  IF Has(g, "ACK")
  THEN Again(Send([s EXCEPT !.flags = {"ACK"}, !.unhappy = FALSE, !.state = "CLOSED"]))
  ELSE Again(s)

(* _tcp_fsm() *)
Fsm(s, g, p, soon, iss) ==
  CASE s.state = "LISTEN"  -> ListenState(s, g)
    [] s.state = "RESOLVE" -> Again(s)
    [] s.state = "SYNSENT" -> SynsentState(s, g, soon, iss)
    [] s.state = "SYNREC"  -> SynrecState(s, g)
    [] s.state = "ESTAB"   -> EstabState(s, g, soon)
    [] s.state = "ESTCL"   -> EstclState(s, g, soon)
    [] s.state = "FINWT1"  -> Finwt1State(s, g, p)
    [] s.state = "FINWT2"  -> Finwt2State(s, g)
    [] s.state = "CLOSING" -> ClosingState(s, g)
    [] s.state = "LASTACK" -> LastackState(s, g)
    [] s.state = "TIMEWT"  -> TimewtState(s, g)
    [] s.state = "CLOSED"  -> s

(* tcp_sockreset(): a server goes back to listening, a client is closed. *)
SockReset(s, p) ==
  LET t == [s EXCEPT !.missed = {}, !.tx_datalen = 0]
  IN  IF p = "B"
      THEN [t EXCEPT !.state = "LISTEN", !.port = 0, !.unhappy = FALSE, !.rtt = FALSE,
                     !.timeout = FALSE, !.karn = 0, !.got_fin = FALSE]
      ELSE Unthread(t)

(* _tcp_handler() for a segment that belongs to a socket: tcp_rtt_win()     *)
(* restarts the retransmission timer before the state machine runs.         *)
InWindowReset(s, g) ==
  Has(g, "RST") /\ s.recv_next <= g.seq /\ g.seq <= s.recv_next + Window + 1

Handle(s, g, p, soon, iss) ==
  IF InWindowReset(s, g) THEN SockReset(s, p)
  ELSE LET r == Fsm([s EXCEPT !.karn = 0, !.rtt = TRUE], g, p, soon, iss)
       IN  IF r.again /\ r.unhappy THEN SendSoon(r, soon) ELSE r
-----------------------------------------------------------------------------
(* The socket of p becomes s; what s sends is lost or put on the network.   *)
Step(p, s) ==
  /\ sock' = [sock EXCEPT ![p] = [s EXCEPT !.out = {}, !.again = FALSE]]
  /\ finSent' = [finSent EXCEPT ![p] = @ \cup {g.port : g \in {x \in s.out : Has(x, "FIN")}}]

Transmit(base, p, out) ==
  \E kept \in SUBSET out :
    /\ Cardinality(base[Peer(p)] \cup kept) + Cardinality(base[p]) <= MaxNet
    /\ net' = [base EXCEPT ![Peer(p)] = @ \cup kept]

Do(p, s) == Step(p, s) /\ Transmit(net, p, s.out)

Init ==
  /\ sock = [p \in Sides |-> ClosedSock]
  /\ net = [p \in Sides |-> {}]
  /\ opens = [p \in Sides |-> 0]
  /\ wrote = [p \in Sides |-> 0]
  /\ finSent = [p \in Sides |-> {}]
  /\ relisten = FALSE

Renew(p) == wrote' = [wrote EXCEPT ![p] = 0] /\ UNCHANGED finSent

Open ==                    \* tcp_open(), each time from another local port
  /\ ~sock["A"].threaded /\ opens["A"] < MaxOpen["A"]
  /\ opens' = [opens EXCEPT !["A"] = @ + 1]
  /\ sock' = [sock EXCEPT !["A"] =
                [ClosedSock EXCEPT !.state = "RESOLVE", !.threaded = TRUE,
                                   !.port = opens'["A"],
                                   !.send_next = Iss("A", opens'["A"]),
                                   !.flags = {"SYN"}, !.unhappy = TRUE]]
  /\ Renew("A")
  /\ UNCHANGED <<net, relisten>>

Listen ==                  \* tcp_listen()
  /\ ~sock["B"].threaded /\ opens["B"] < MaxOpen["B"]
  /\ opens' = [opens EXCEPT !["B"] = @ + 1]
  /\ sock' = [sock EXCEPT !["B"] =
                [ClosedSock EXCEPT !.state = "LISTEN", !.threaded = TRUE,
                                   !.send_next = Iss("B", opens'["B"])]]
  /\ Renew("B")
  /\ relisten' = FALSE
  /\ UNCHANGED net

WriteByte(p) ==            \* tcp_write(), after sock_noflush() or with Nagle
  /\ sock[p].state = "ESTAB" /\ wrote[p] < MaxWrite
  /\ wrote' = [wrote EXCEPT ![p] = @ + 1]
  /\ LET s == [sock[p] EXCEPT !.tx_datalen = @ + 1, !.unhappy = TRUE]
     IN  \/ Do(p, s)
         \/ s.tx_datalen = 1 /\ Do(p, Send(s))
         \/ s.tx_datalen > 1 /\ \E soon \in Soons : Do(p, SendSoon(s, soon))
  /\ UNCHANGED <<opens, relisten>>

Flush(p) ==                \* sock_flush()
  /\ sock[p].threaded /\ sock[p].send_una = 0 /\ sock[p].tx_datalen > 0
  /\ Do(p, Send(sock[p]))
  /\ UNCHANGED <<opens, wrote, relisten>>

CloseSock(p) ==            \* sock_close()
  /\ sock[p].state \in {"RESOLVE", "SYNSENT", "SYNREC", "ESTAB", "ESTCL"}
  /\ \E soon \in Soons : Do(p, Close(sock[p], soon))
  /\ UNCHANGED <<opens, wrote, relisten>>

AbortSock(p) ==            \* sock_abort()
  /\ sock[p].threaded /\ sock[p].state # "CLOSED"
  /\ Do(p, Abort(sock[p]))
  /\ UNCHANGED <<opens, wrote, relisten>>

(* tcp_Retransmitter(), for one socket. *)
Resolved ==                \* the ARP reply came
  /\ sock["A"].state = "RESOLVE"
  /\ Do("A", Send([sock["A"] EXCEPT !.state = "SYNSENT", !.timeout = TRUE]))
  /\ UNCHANGED <<opens, wrote, relisten>>

Unresolved ==              \* the ARP lookup timed out
  /\ sock["A"].state = "RESOLVE"
  /\ Do("A", Abort(sock["A"]))
  /\ UNCHANGED <<opens, wrote, relisten>>

Retransmit(p) ==
  /\ LET s == sock[p] IN
     /\ s.threaded /\ s.state \notin {"RESOLVE", "CLOSED"}
     /\ s.rtt /\ (s.tx_datalen > 0 \/ s.unhappy \/ s.karn = 1)
     /\ LET t == IF s.karn = 0 THEN [s EXCEPT !.karn = 2, !.send_una = 0] ELSE s
        IN  Do(p, Send(IF s.tx_datalen > 0 THEN [t EXCEPT !.flags = @ \cup {"ACK"}]
                                           ELSE t))
  /\ UNCHANGED <<opens, wrote, relisten>>

TimerRuns(p) ==
  /\ sock[p].threaded /\ sock[p].timeout
  /\ sock[p].state \notin {"RESOLVE", "CLOSED", "ESTAB", "ESTCL"}

Timeout(p) ==
  /\ TimerRuns(p)
  /\ LET s == sock[p] IN
     IF s.state = "TIMEWT" THEN Do(p, [s EXCEPT !.state = "CLOSED"])
                           ELSE Do(p, Abort(s))
  /\ UNCHANGED <<opens, wrote, relisten>>

Reap(p) ==                 \* a closed socket leaves _tcp_allsocs
  /\ sock[p].threaded /\ sock[p].state = "CLOSED"
  /\ Do(p, Unthread(sock[p]))
  /\ UNCHANGED <<opens, wrote, relisten>>

(* _tcp_handler(): find the socket of the segment, or a listening one for a *)
(* SYN.  Without one the answer is a RST; a RST+ACK that answers our SYN    *)
(* from another port resets the socket (only the server's local port is in  *)
(* several connections).                                                    *)
Demux(p, g) ==
  LET s == sock[p] IN
  IF s.threaded /\ s.port = g.port THEN {s}
  ELSE IF s.threaded /\ s.port = 0 /\ Has(g, "SYN") THEN {[s EXCEPT !.port = g.port]}
  ELSE {}

FindSeq(p, g) ==           \* tcp_findseq()
  {s \in {sock[p]} : /\ s.threaded /\ s.port # 0 /\ p = "B"
                     /\ Has(g, "RST") /\ Has(g, "ACK") /\ g.ack = s.send_next + 1}

Become(p, s) ==
  IF s.state = "LISTEN"
  THEN /\ sock' = [sock EXCEPT ![p] = [s EXCEPT !.out = {}]]
       /\ Renew(p)
       /\ relisten' = TRUE
  ELSE Step(p, s) /\ UNCHANGED <<wrote, relisten>>

Deliver(p) ==
  \E g \in net[p] :
    LET left    == {[net EXCEPT ![p] = @ \ {g}]} \cup (IF Duplicates THEN {net} ELSE {})
        results == {Handle(x[1], g, p, x[2], Iss(p, opens[p]) + 5) :
                      x \in Demux(p, g) \X Soons}
    IN /\ \/ \E r \in results :
               Become(p, r) /\ \E base \in left : Transmit(base, p, r.out)
          \/ \E s \in FindSeq(p, g) :
               /\ Demux(p, g) = {}
               /\ Become(p, SockReset(s, p)) /\ \E base \in left : Transmit(base, p, {})
          \/ /\ Demux(p, g) = {} /\ FindSeq(p, g) = {}
             /\ \E base \in left : Transmit(base, p, ResetFor(g))
             /\ UNCHANGED <<sock, wrote, finSent, relisten>>
       /\ UNCHANGED opens

Next ==
  \/ Open \/ Listen \/ Resolved \/ Unresolved
  \/ \E p \in Sides : \/ WriteByte(p) \/ Flush(p) \/ CloseSock(p) \/ AbortSock(p) \/ Retransmit(p)
                      \/ Timeout(p) \/ Reap(p) \/ Deliver(p)

(* The application keeps calling tcp_tick(), and timers expire: no timer    *)
(* runs for ever.  Timeout(p) is enabled while the timer runs, and ends it, *)
(* so that this says the same as WF_vars(Timeout(p)).                       *)
Fairness == WF_vars(Resolved \/ Unresolved) /\ \A p \in Sides : []<>~TimerRuns(p)

Spec     == Init /\ [][Next]_vars
FairSpec == Spec /\ Fairness
-----------------------------------------------------------------------------
(* Types. *)
TypeOK ==
  /\ \A p \in Sides :
       LET s == sock[p] IN
       /\ s.state \in States /\ s.threaded \in BOOLEAN
       /\ s.port \in 0 .. MaxOpen["A"]
       /\ s.send_next \in Nat /\ s.send_una \in Nat /\ s.tx_datalen \in 0 .. MaxWrite
       /\ s.recv_next \in Nat /\ s.missed \subseteq Nat
       /\ s.flags \subseteq {"SYN", "ACK", "FIN", "RST"}
       /\ s.karn \in 0 .. 2
       /\ Cardinality(net[p]) <= MaxNet
  /\ \A p \in Sides : opens[p] \in 0 .. MaxOpen[p]

(* Every state but LISTEN, ESTAB, ESTCL and CLOSED has a timer: no socket   *)
(* stays half open or half closed, whatever the network loses.              *)
Transient == States \ {"LISTEN", "ESTAB", "ESTCL", "CLOSED"}

TransientIsTimed ==
  \A p \in Sides : sock[p].state \in Transient \ {"RESOLVE"} => TimerRuns(p)

TransientEnds ==
  \A p \in Sides : (sock[p].state \in Transient) ~> (sock[p].state \notin Transient)

Paired == sock["A"].port = sock["B"].port /\ sock["A"].port # 0

(* Nothing leaves a sender's buffer before the receiver has it, and nothing *)
(* is received that was not sent.  A FIN counts as one more, and the SYN if  *)
(* the server closes before it is acknowledged.                             *)
Sending == {"ESTAB", "ESTCL", "FINWT1", "LASTACK"}

AckedIsReceived ==
  \A p \in Sides :
    LET s == sock[p]
        r == sock[Peer(p)]
        fin == IF s.port \in finSent[p] THEN 1 ELSE 0
        syn == IF s.send_next = Iss(p, opens[p]) THEN 1 ELSE 0
    IN  Paired /\ ~relisten /\ s.state \in Sending /\ r.state \in Sending =>
          /\ s.send_next <= r.recv_next
          /\ r.recv_next <= s.send_next + s.tx_datalen + fin + syn

(* A side that has seen the end of the peer's data is right: the peer has   *)
(* closed this very connection.                                             *)
GotFinWasSent ==
  \A p \in Sides : sock[p].got_fin => sock[p].port \in finSent[Peer(p)]

(* ... and it has all that the peer wrote before, and its FIN unless a FIN  *)
(* is seen again in FINWT2.  (After a reset the server listens with its old *)
(* sequence numbers; then a FIN of the earlier connection is taken for one  *)
(* of the next.)  Left out is a lingering server that was closed before its *)
(* SYN was acknowledged: it takes that acknowledgement for the one of its   *)
(* FIN, and in FINWT2 any FIN counts, one behind missing bytes as well.     *)
TookSynForFin(p) ==
  sock[p].state # "LASTACK" /\ sock[p].send_next = Iss(p, opens[p]) + 1

EofIsComplete ==
  \A p \in Sides :
    sock[p].got_fin /\ Paired /\ ~relisten /\ ~TookSynForFin(p) =>
      sock[p].recv_next >= Iss(Peer(p), opens[Peer(p)]) + 1 + wrote[Peer(p)]
                           + (IF sock[p].state = "LASTACK" THEN 1 ELSE 0)

(* pctcp.c: after a reset a server shall "go back to listening".  Then a    *)
(* client that believes its next connection is open expects the sequence    *)
(* number after the one that the server waits to see acknowledged.          *)
RelistenedServerAccepts ==
  sock["B"].state = "SYNREC" /\ sock["A"].state = "ESTAB" /\ Paired =>
    sock["A"].recv_next = sock["B"].send_next + 1
=============================================================================

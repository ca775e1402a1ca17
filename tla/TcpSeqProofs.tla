---------------------------- MODULE TcpSeqProofs ----------------------------
(***************************************************************************)
(* Proofs about the sequence numbers of TcpConn: what is acknowledged has   *)
(* been received, and an end of stream is reported behind all the data.     *)
(* They hold for any number of connections of the client, bytes and         *)
(* segments under way, whatever is lost, repeated and reordered.            *)
(*                                                                         *)
(* Both relate the two sockets of a connection, and depend on everything    *)
(* that is under way between them.  The inductive invariant SeqInv has      *)
(* three parts.  PortsOk: whose port it is.  Before: until the server takes *)
(* its first SYN there is nothing but SYNs and resets.  ConnOk, from then   *)
(* on: each socket (SocketOk) and each segment (SegmentOk) is as the peer's *)
(* sequence numbers allow.  These say no more of the peer than its Context, *)
(* so that a handler is looked at once, with the context left alone: the    *)
(* lemmas on the state functions conclude Goes.  What the step does to the  *)
(* peer is that its context's recv_next grows (ReceivedMore), or that it is *)
(* sent a segment that is right (SentOk).                                   *)
(*                                                                         *)
(* The theorems take one server socket (OneServer).  A second one can take  *)
(* a SYN that is repeated from the connection of the first; then the ports  *)
(* agree although the two sockets are in no connection with each other.     *)
(* The client may open as often as it likes.                                *)
(***************************************************************************)
EXTENDS TcpConnProofs

(* There is one call of tcp_listen(). *)
OneServer == MaxOpen["B"] <= 1

(* What the peer of a socket may have done: whose socket it is (p), the     *)
(* initial sequence number of its connection (i) and the number behind its  *)
(* last byte (t), the same of the peer (j and u), and the peer's recv_next. *)
Context(p) ==
  LET q == Peer(p) IN
  [p |-> p, i |-> Iss(p, opens[p]), t |-> Iss(p, opens[p]) + 1 + wrote[p],
   j |-> Iss(q, opens[q]), u |-> Iss(q, opens[q]) + 1 + wrote[q],
   m |-> sock[q].recv_next]

End(s) == s.send_next + s.tx_datalen

Opening == {"RESOLVE", "SYNSENT", "SYNREC"}
Closing == {"FINWT1", "FINWT2", "CLOSING", "LASTACK", "TIMEWT", "CLOSED"}

(* The flags that a socket sends in each of its states. *)
FlagsOk(s) ==
  /\ s.state \in {"RESOLVE", "SYNSENT"} => s.flags = {"SYN"}
  /\ s.state = "SYNREC" => s.flags = {"SYN", "ACK"}
  /\ s.state \in {"ESTAB", "ESTCL", "CLOSING", "TIMEWT"} => s.flags = {"ACK"}
  /\ s.state \in {"FINWT1", "FINWT2", "LASTACK"} => s.flags = {"ACK", "FIN"}
  /\ s.state = "CLOSED" => s.flags \in {{"ACK"}, {"ACK", "FIN"}}

(* What it has sent, and what was acknowledged.  A server that closes in    *)
(* SYNREC takes the acknowledgement of its SYN for the one of its FIN.      *)
SendOk(s, c) ==
  /\ s.send_una <= s.tx_datalen
  /\ s.state \in Opening => s.send_next = c.i /\ c.t = c.i + 1
  /\ s.state \in {"ESTAB", "ESTCL", "LASTACK"} => c.i + 1 <= s.send_next /\ End(s) = c.t
  /\ s.state = "FINWT1" => \/ s.send_next = c.t
                           \/ s.send_next = c.i /\ c.t = c.i + 1 /\ c.p = "B"
  /\ s.state = "FINWT2" => \/ s.send_next = c.t + 1
                           \/ s.send_next = c.t /\ c.t = c.i + 1
  /\ s.state = "CLOSING" => s.send_next = c.t
  /\ s.state = "TIMEWT" => s.send_next \in {c.t, c.t + 1}
  /\ s.state = "CLOSED" =>
       /\ c.i + 1 <= s.send_next
       /\ End(s) = c.t \/ (s.send_next = c.t + 1 /\ s.tx_datalen = 0)
  /\ s.state \notin {"ESTAB", "ESTCL", "LASTACK", "CLOSED"} => s.tx_datalen = 0

(* What it has received. *)
ReceiveOk(s, c) ==
  /\ s.state \in {"RESOLVE", "SYNSENT"} => s.recv_next = 0
  /\ s.state = "SYNREC" => s.recv_next = c.j + 1
  /\ s.state \in Opening => s.missed = {}
  /\ s.state \notin {"RESOLVE", "SYNSENT"} => c.j + 1 <= s.recv_next
  /\ s.state \in {"ESTAB", "ESTCL", "FINWT1", "FINWT2"} =>
       s.recv_next <= c.u /\ \A n \in s.missed : n < c.u
  /\ s.state = "LASTACK" => s.recv_next = c.u + 1 /\ s.got_fin

(* Its peer has what was acknowledged, and it has all if it saw the end. *)
AckedOk(s, c) == s.send_next = c.i \/ s.send_next <= c.m

EofOk(s, c) ==
  /\ s.state = "FINWT2" /\ s.send_next # c.i + 1 => c.u <= s.recv_next
  /\ s.got_fin /\ s.state # "LASTACK" /\ s.send_next # c.i + 1 => c.u <= s.recv_next
  /\ s.state \in Opening \cup {"ESTAB", "ESTCL", "FINWT1", "CLOSING"} => ~s.got_fin

SocketOk(s, c) ==
  /\ s.state # "LISTEN"
  /\ IF c.p = "A" THEN s.state # "SYNREC" ELSE s.state \notin {"RESOLVE", "SYNSENT"}
  /\ s.threaded => FlagsOk(s) /\ SendOk(s, c) /\ ReceiveOk(s, c) /\ AckedOk(s, c)
  /\ EofOk(s, c)

(* A segment from the peer. *)
FinOk(g, c) ==
  /\ ~Has(g, "RST") /\ ~Has(g, "SYN") /\ c.i + 1 <= g.ack
  /\ \/ g.seq + g.len = c.u
     \/ g.seq = c.u + 1 /\ g.len = 0
     \/ g.seq = c.j /\ g.len = 0 /\ c.u = c.j + 1

SegmentOk(g, c) ==
  /\ g.ack <= c.m \/ (Has(g, "RST") /\ c.p = "A" /\ g.ack <= c.i + 1)
  /\ Has(g, "ACK") \/ Has(g, "RST") \/ (g.flags = {"SYN"} /\ c.p = "B")
  /\ Has(g, "SYN") => /\ g.flags = (IF c.p = "A" THEN {"SYN", "ACK"} ELSE {"SYN"})
                      /\ g.seq = c.j /\ g.len = 0
                      /\ c.p = "A" => g.ack = c.i + 1
  /\ HasData(g) => c.j + 1 <= g.seq /\ g.seq + g.len <= c.u
  /\ Has(g, "FIN") => FinOk(g, c)
  /\ ~Has(g, "RST") /\ g.ack > c.t => c.u <= g.seq + g.len

(* The context of the peer of a socket. *)
Toward(c, s) ==
  [p |-> Peer(c.p), i |-> c.j, t |-> c.u, j |-> c.i, u |-> c.t, m |-> s.recv_next]

ContextOk(c) ==
  /\ c \in [p : Sides, i : Nat, t : Nat, j : Nat, u : Nat, m : Nat]
  /\ c.i + 1 <= c.t /\ c.j + 1 <= c.u

(* A socket and what it has sent are as they should be, *)
SentOk(s, c) ==
  \A g \in s.out : /\ g.port = s.port
                   /\ SegmentOk(g, Toward(c, s))
                   /\ Has(g, "FIN") => s.state \in Closing

Fine(s, c) == s \in SockType /\ SocketOk(s, c) /\ SentOk(s, c)

(* and a handler keeps them so. *)
Goes(s, c, r) ==
  /\ Fine(r, c)
  /\ r.port = s.port
  /\ s.recv_next <= r.recv_next
  /\ s.state \in Closing => r.state \in Closing
-----------------------------------------------------------------------------
(* Segments and sockets when the peer has received or acknowledged more. *)
LEMMA ReceivedMore ==
  ASSUME NEW c, NEW d, ContextOk(c), ContextOk(d), d = [c EXCEPT !.m = d.m], c.m <= d.m
  PROVE  /\ \A g \in SegType : SegmentOk(g, c) => SegmentOk(g, d)
         /\ \A s \in SockType : SocketOk(s, c) => SocketOk(s, d)
<1>1. d.p = c.p /\ d.i = c.i /\ d.t = c.t /\ d.j = c.j /\ d.u = c.u
  BY DEF ContextOk
<1>2. c.m \in Nat /\ d.m \in Nat
  BY DEF ContextOk
<1>3. ASSUME NEW g \in SegType, SegmentOk(g, c) PROVE SegmentOk(g, d)
  <2>1. g.ack \in Nat
    BY DEF SegType
  <2>2. QED
    BY <1>1, <1>2, <1>3, <2>1 DEF SegmentOk, FinOk
<1>4. ASSUME NEW s \in SockType, SocketOk(s, c) PROVE SocketOk(s, d)
  <2>1. AckedOk(s, c) => AckedOk(s, d)
    BY <1>1, <1>2, FieldsLemma DEF AckedOk
  <2>2. (SendOk(s, c) <=> SendOk(s, d)) /\ (ReceiveOk(s, c) <=> ReceiveOk(s, d))
        /\ (EofOk(s, c) <=> EofOk(s, d))
    BY <1>1 DEF SendOk, ReceiveOk, EofOk
  <2>3. QED
    BY <1>1, <1>4, <2>1, <2>2 DEF SocketOk
<1>5. QED
  BY <1>3, <1>4

LEMMA TowardLemma ==
  ASSUME NEW c, ContextOk(c), NEW s \in SockType
  PROVE  /\ ContextOk(Toward(c, s))
         /\ Toward(c, s).p = Peer(c.p) /\ Toward(c, s).i = c.j /\ Toward(c, s).t = c.u
         /\ Toward(c, s).j = c.i /\ Toward(c, s).u = c.t /\ Toward(c, s).m = s.recv_next
BY FieldsLemma, PeerLemma DEF Toward, ContextOk

(* The peer is told of more that was received, whatever was sent before. *)
LEMMA SentLemma ==
  ASSUME NEW c, ContextOk(c), NEW s \in SockType, NEW r \in SockType, SentOk(s, c),
         r.out = s.out, r.port = s.port, s.recv_next <= r.recv_next,
         s.state \in Closing => r.state \in Closing
  PROVE  SentOk(r, c)
<1>1. ContextOk(Toward(c, s)) /\ ContextOk(Toward(c, r))
  BY TowardLemma
<1>2. Toward(c, r) = [Toward(c, s) EXCEPT !.m = Toward(c, r).m]
  BY DEF Toward
<1>3. Toward(c, s).m <= Toward(c, r).m
  BY DEF Toward
<1>4. \A g \in s.out : g \in SegType
  BY FieldsLemma DEF Finite
<1>5. QED
  BY <1>1, <1>2, <1>3, <1>4, ReceivedMore DEF SentOk

(* Fields that the invariants do not speak of may change. *)
Alike(s, r) ==
  /\ r.state = s.state /\ r.threaded = s.threaded /\ r.port = s.port /\ r.flags = s.flags
  /\ r.send_next = s.send_next /\ r.tx_datalen = s.tx_datalen
  /\ r.recv_next = s.recv_next /\ r.missed = s.missed /\ r.got_fin = s.got_fin

LEMMA AlikeLemma ==
  ASSUME NEW c, NEW s \in SockType, NEW r \in SockType, SocketOk(s, c), Alike(s, r),
         s.threaded => r.send_una <= r.tx_datalen
  PROVE  SocketOk(r, c)
<1>1. s.threaded => FlagsOk(r) /\ SendOk(r, c) /\ ReceiveOk(r, c) /\ AckedOk(r, c)
  BY DEF SocketOk, Alike, FlagsOk, SendOk, End, ReceiveOk, AckedOk
<1>2. EofOk(r, c)
  BY DEF SocketOk, Alike, EofOk
<1>3. QED
  BY <1>1, <1>2 DEF SocketOk, Alike

LEMMA AlikeGoes ==
  ASSUME NEW c, ContextOk(c), NEW s, Fine(s, c), NEW r \in SockType, Alike(s, r),
         r.out = s.out, s.threaded => r.send_una <= r.tx_datalen
  PROVE  Goes(s, c, r)
<1>1. s.recv_next <= r.recv_next
  BY FieldsLemma DEF Alike, Fine
<1>2. SentOk(r, c)
  BY <1>1, SentLemma DEF Alike, Fine
<1>3. SocketOk(r, c)
  BY AlikeLemma DEF Fine
<1>4. QED
  BY <1>1, <1>2, <1>3 DEF Goes, Fine, Alike

LEMMA GoesOn ==
  ASSUME NEW c, NEW s \in SockType, NEW r, Goes(s, c, r), NEW q, Goes(r, c, q)
  PROVE  Goes(s, c, q)
BY FieldsLemma DEF Goes, Fine
-----------------------------------------------------------------------------
(* Sending.  What is sent ends where the socket's data ends. *)
LEMMA SendFields ==
  ASSUME NEW s \in SockType, s.send_una <= s.tx_datalen,
         Has(s, "SYN") => s.tx_datalen = 0
  PROVE  /\ Send(s) \in SockType /\ Alike(s, Send(s))
         /\ Send(s).send_una <= Send(s).tx_datalen
         /\ \E g \in SegType :
              /\ Send(s).out = s.out \cup {g}
              /\ g.port = s.port /\ g.ack = s.recv_next /\ g.flags = s.flags
              /\ g.seq + g.len = End(s) /\ s.send_next <= g.seq /\ g.len <= s.tx_datalen
<1> DEFINE start == IF s.karn = 2 THEN 0 ELSE s.send_una
           len   == IF "SYN" \in s.flags THEN 0 ELSE Minus(s.tx_datalen, start)
           g     == Segment(s, s.flags, s.send_next + start, len)
           una   == start + len
           karn  == IF s.karn = 2 THEN 2 ELSE 0
           out   == s.out \cup {g}
           r     == [s EXCEPT !.out = out, !.send_una = una, !.karn = karn, !.rtt = TRUE]
<1>1. start \in Nat /\ start <= s.tx_datalen
  BY DEF SockType, SockOf
<1>2. len = s.tx_datalen - start /\ len \in Nat
  <2>1. CASE "SYN" \in s.flags
    BY <1>1, <2>1 DEF Has
  <2>2. CASE "SYN" \notin s.flags
    BY <1>1, <2>2, FieldsLemma DEF Minus
  <2>3. QED
    BY <2>1, <2>2
<1> HIDE DEF start, len
<1>3. una = s.tx_datalen
  BY <1>1, <1>2, FieldsLemma
<1>4. g.port = s.port /\ g.ack = s.recv_next /\ g.flags = s.flags
      /\ g.seq = s.send_next + start /\ g.len = len
  BY DEF Segment
<1>5. g \in SegType
  <2>1. s \in SockOf(Int, Ports) /\ s.flags \in SUBSET Flags /\ s.send_next + start \in Nat
    BY <1>1 DEF SockType, SockOf
  <2>2. QED
    BY <1>2, <2>1, SegmentLemma
<1>6. g.seq + g.len = End(s) /\ s.send_next <= g.seq /\ g.len <= s.tx_datalen
  BY <1>1, <1>2, <1>4, FieldsLemma DEF End
<1>7. Send(s) = r
  BY Zenon DEF Send, r, out, una, karn, g, start, len
<1> HIDE DEF g, una, karn, out
<1>8. Alike(s, r) /\ r.out = out /\ r.send_una = una /\ r.tx_datalen = s.tx_datalen
  BY DEF Alike, SockType, SockOf
<1>9. Send(s) \in SockType
  BY SendLemma
<1>10. QED
  BY <1>3, <1>4, <1>5, <1>6, <1>7, <1>8, <1>9, FieldsLemma DEF out

(* A socket may send if what it sends is right for the peer. *)
MaySend(s, c) ==
  /\ s.send_una <= s.tx_datalen
  /\ "RST" \notin s.flags
  /\ "ACK" \in s.flags \/ (s.flags = {"SYN"} /\ c.p = "A")
  /\ "SYN" \in s.flags => /\ s.tx_datalen = 0 /\ s.send_next = c.i
                          /\ s.flags = (IF c.p = "A" THEN {"SYN"} ELSE {"SYN", "ACK"})
                          /\ c.p = "B" => s.recv_next = c.j + 1
  /\ s.tx_datalen > 0 => c.i + 1 <= s.send_next /\ End(s) = c.t
  /\ "FIN" \in s.flags =>
       /\ "SYN" \notin s.flags
       /\ c.j + 1 <= s.recv_next
       /\ \/ End(s) = c.t
          \/ End(s) = c.t + 1 /\ s.tx_datalen = 0
          \/ End(s) = c.i /\ s.tx_datalen = 0 /\ c.t = c.i + 1
       /\ s.state \in Closing
  /\ s.recv_next > c.u => c.t <= End(s)

LEMMA SendSent ==
  ASSUME NEW c, ContextOk(c), NEW s \in SockType, SentOk(s, c), MaySend(s, c)
  PROVE  /\ SentOk(Send(s), c) /\ Send(s) \in SockType /\ Alike(s, Send(s))
         /\ Send(s).send_una <= Send(s).tx_datalen
<1> DEFINE r == Send(s)
           d == Toward(c, s)
<1>1. PICK g \in SegType :
        /\ r.out = s.out \cup {g}
        /\ g.port = s.port /\ g.ack = s.recv_next /\ g.flags = s.flags
        /\ g.seq + g.len = End(s) /\ s.send_next <= g.seq /\ g.len <= s.tx_datalen
  BY SendFields DEF MaySend, Has
<1>2. r \in SockType /\ Alike(s, r) /\ r.send_una <= r.tx_datalen
  BY SendFields DEF MaySend, Has
<1> HIDE DEF r
<1>3. Toward(c, r) = d
  BY <1>2 DEF Toward, Alike
<1>4. d.p = Peer(c.p) /\ d.i = c.j /\ d.t = c.u /\ d.j = c.i /\ d.u = c.t
      /\ d.m = s.recv_next
  BY TowardLemma
<1> HIDE DEF d
<1>5. g.seq \in Nat /\ g.len \in Nat /\ g.ack \in Nat /\ s.send_next \in Nat
      /\ s.tx_datalen \in Nat /\ s.recv_next \in Nat /\ End(s) \in Nat
  BY FieldsLemma DEF SegType, End
<1>6. c.i \in Nat /\ c.t \in Nat /\ c.j \in Nat /\ c.u \in Nat /\ c.p \in {"A", "B"}
  BY DEF ContextOk, Sides
<1>7. SegmentOk(g, d)
  <2>1. g.ack <= d.m
    BY <1>1, <1>4, <1>5
  <2>2. Has(g, "ACK") \/ Has(g, "RST") \/ (g.flags = {"SYN"} /\ d.p = "B")
    BY <1>1, <1>4 DEF MaySend, Has, Peer
  <2>3. ASSUME Has(g, "SYN")
        PROVE  /\ g.flags = (IF d.p = "A" THEN {"SYN", "ACK"} ELSE {"SYN"})
               /\ g.seq = d.j /\ g.len = 0
               /\ d.p = "A" => g.ack = d.i + 1
    <3>1. /\ s.tx_datalen = 0 /\ s.send_next = c.i
          /\ s.flags = (IF c.p = "A" THEN {"SYN"} ELSE {"SYN", "ACK"})
          /\ c.p = "B" => s.recv_next = c.j + 1
      BY <1>1, <2>3 DEF MaySend, Has
    <3>2. g.len = 0 /\ g.seq = c.i
      BY <1>1, <1>5, <3>1 DEF End
    <3>3. QED
      BY <1>1, <1>4, <1>6, <3>1, <3>2 DEF Peer
  <2>4. HasData(g) => d.j + 1 <= g.seq /\ g.seq + g.len <= d.u
    <3>1. HasData(g) => s.tx_datalen > 0
      BY <1>1, <1>5 DEF HasData
    <3>2. QED
      BY <1>1, <1>4, <1>5, <1>6, <3>1 DEF MaySend
  <2>5. Has(g, "FIN") => FinOk(g, d)
    <3> SUFFICES ASSUME Has(g, "FIN") PROVE FinOk(g, d)
      OBVIOUS
    <3>1. /\ "RST" \notin s.flags /\ "SYN" \notin s.flags
          /\ c.j + 1 <= s.recv_next
          /\ \/ End(s) = c.t
             \/ End(s) = c.t + 1 /\ s.tx_datalen = 0
             \/ End(s) = c.i /\ s.tx_datalen = 0 /\ c.t = c.i + 1
      BY <1>1 DEF MaySend, Has
    <3>2. s.tx_datalen = 0 => g.len = 0 /\ g.seq = End(s)
      BY <1>1, <1>5
    <3>3. \/ g.seq + g.len = d.u
          \/ g.seq = d.u + 1 /\ g.len = 0
          \/ g.seq = d.j /\ g.len = 0 /\ d.u = d.j + 1
      BY <1>1, <1>4, <3>1, <3>2
    <3>4. QED
      BY <1>1, <1>4, <3>1, <3>3 DEF FinOk, Has
  <2>6. ~Has(g, "RST") /\ g.ack > d.t => d.u <= g.seq + g.len
    BY <1>1, <1>4, <1>5, <1>6 DEF MaySend, Has
  <2>7. QED
    BY <2>1, <2>2, <2>3, <2>4, <2>5, <2>6 DEF SegmentOk
<1>8. Has(g, "FIN") => s.state \in Closing
  BY <1>1 DEF MaySend, Has
<1>9. SentOk(r, c)
  BY <1>1, <1>2, <1>3, <1>7, <1>8 DEF SentOk, Alike, d
<1>10. QED
  BY <1>2, <1>9 DEF r

LEMMA SocketSends ==
  ASSUME NEW c, ContextOk(c), NEW s \in SockType, SocketOk(s, c), s.threaded
  PROVE  MaySend(s, c)
<1> DEFINE st == s.state
<1>1. FlagsOk(s) /\ SendOk(s, c) /\ ReceiveOk(s, c) /\ st # "LISTEN" /\ st \in States
      /\ (IF c.p = "A" THEN st # "SYNREC" ELSE st \notin {"RESOLVE", "SYNSENT"})
  BY FieldsLemma DEF SocketOk
<1>2. s.send_next \in Nat /\ s.tx_datalen \in Nat /\ s.recv_next \in Nat
  BY FieldsLemma
<1>3. c.i \in Nat /\ c.t \in Nat /\ c.j \in Nat /\ c.u \in Nat /\ c.p \in {"A", "B"}
      /\ c.i + 1 <= c.t /\ c.j + 1 <= c.u
  BY DEF ContextOk, Sides
<1>4. CASE st \in {"RESOLVE", "SYNSENT"}
  <2>1. c.p = "A" /\ s.flags = {"SYN"}
    BY <1>1, <1>3, <1>4 DEF FlagsOk
  <2>2. s.send_next = c.i /\ s.tx_datalen = 0 /\ s.send_una <= 0 /\ s.recv_next = 0
    BY <1>1, <1>4 DEF SendOk, ReceiveOk, Opening
  <2>3. "ACK" \notin s.flags /\ "FIN" \notin s.flags
    BY <2>1
  <2>4. QED
    BY <1>2, <1>3, <2>1, <2>2, <2>3 DEF MaySend
<1>5. CASE st = "SYNREC"
  <2>1. c.p = "B" /\ s.flags = {"SYN", "ACK"}
    BY <1>1, <1>3, <1>5 DEF FlagsOk
  <2>2. s.send_next = c.i /\ s.tx_datalen = 0 /\ s.send_una <= 0 /\ s.recv_next = c.j + 1
    BY <1>1, <1>5 DEF SendOk, ReceiveOk, Opening
  <2>3. "ACK" \in s.flags /\ "FIN" \notin s.flags
    BY <2>1
  <2>4. QED
    BY <1>2, <1>3, <2>1, <2>2, <2>3 DEF MaySend
<1>6. CASE st \in {"ESTAB", "ESTCL"}
  BY <1>1, <1>2, <1>3, <1>6 DEF FlagsOk, SendOk, ReceiveOk, MaySend, Opening, End
<1>7. CASE st \in {"FINWT1", "FINWT2"}
  BY <1>1, <1>2, <1>3, <1>7 DEF FlagsOk, SendOk, ReceiveOk, MaySend, Opening, End, Closing
<1>8. CASE st \in {"CLOSING", "TIMEWT"}
  BY <1>1, <1>2, <1>3, <1>8 DEF FlagsOk, SendOk, ReceiveOk, MaySend, Opening, End, Closing
<1>9. CASE st = "LASTACK"
  BY <1>1, <1>2, <1>3, <1>9 DEF FlagsOk, SendOk, ReceiveOk, MaySend, Opening, End, Closing
<1>10. CASE st = "CLOSED"
  BY <1>1, <1>2, <1>3, <1>10 DEF FlagsOk, SendOk, ReceiveOk, MaySend, Opening, End, Closing
<1>11. QED
  BY <1>1, <1>4, <1>5, <1>6, <1>7, <1>8, <1>9, <1>10 DEF States

LEMMA SendGoes ==
  ASSUME NEW c, ContextOk(c), NEW s, Fine(s, c), s.threaded
  PROVE  Goes(s, c, Send(s)) /\ Alike(s, Send(s))
<1>1. MaySend(s, c)
  BY SocketSends DEF Fine
<1>2. /\ SentOk(Send(s), c) /\ Send(s) \in SockType /\ Alike(s, Send(s))
      /\ Send(s).send_una <= Send(s).tx_datalen
  BY <1>1, SendSent DEF Fine
<1>3. SocketOk(Send(s), c)
  BY <1>2, AlikeLemma DEF Fine
<1>4. QED
  BY <1>2, <1>3, FieldsLemma DEF Goes, Fine, Alike

LEMMA UpdateGoes ==
  ASSUME NEW c, ContextOk(c), NEW s, Fine(s, c), NEW r \in SockType, SocketOk(r, c),
         r.out = s.out, r.port = s.port, s.recv_next <= r.recv_next,
         s.state \in Closing => r.state \in Closing
  PROVE  Goes(s, c, r)
BY SentLemma DEF Goes, Fine

(* A socket that sends before it is what it becomes. *)
LEMMA SendUpdateGoes ==
  ASSUME NEW c, ContextOk(c), NEW s, Fine(s, c),
         NEW t \in SockType, t.out = s.out, t.port = s.port, s.recv_next <= t.recv_next,
         s.state \in Closing => t.state \in Closing, MaySend(t, c),
         NEW r \in SockType, SocketOk(r, c), r.out = Send(t).out, r.port = t.port,
         t.recv_next <= r.recv_next, t.state \in Closing => r.state \in Closing
  PROVE  Goes(s, c, r)
<1>1. SentOk(t, c)
  BY SentLemma DEF Fine
<1>2. SentOk(Send(t), c) /\ Send(t) \in SockType /\ Alike(t, Send(t))
  BY <1>1, SendSent
<1>3. SentOk(r, c)
  <2>1. r.port = Send(t).port /\ Send(t).recv_next <= r.recv_next
    BY <1>2 DEF Alike
  <2>2. Send(t).state \in Closing => r.state \in Closing
    BY <1>2 DEF Alike
  <2>3. QED
    BY <1>2, <2>1, <2>2, SentLemma
<1>4. s.recv_next <= r.recv_next
  BY FieldsLemma DEF Fine
<1>5. QED
  BY <1>3, <1>4 DEF Goes, Fine

LEMMA SendSoonGoes ==
  ASSUME NEW c, ContextOk(c), NEW s, Fine(s, c), s.threaded, NEW soon
  PROVE  Goes(s, c, SendSoon(s, soon)) /\ Alike(s, SendSoon(s, soon))
<1> DEFINE t == [s EXCEPT !.karn = 0]
           u == [s EXCEPT !.rtt = TRUE, !.karn = 1]
<1>1. s \in SockType /\ s.send_una <= s.tx_datalen
  BY DEF Fine, SocketOk, SendOk
<1>2. t \in SockType /\ Alike(s, t) /\ t.out = s.out /\ t.send_una = s.send_una
  <2>1. t \in SockType
    BY <1>1, KarnZeroLemma
  <2>2. QED
    BY <1>1, <2>1 DEF SockType, SockOf, Alike
<1>3. u \in SockType /\ Alike(s, u) /\ u.out = s.out /\ u.send_una = s.send_una
  <2>1. 1 \in 0 .. 2
    OBVIOUS
  <2>2. u \in SockType
    BY <1>1, <2>1, KarnLemma, Zenon
  <2>3. QED
    BY <1>1, <2>2 DEF SockType, SockOf, Alike
<1> HIDE DEF t, u
<1>4. t.send_una <= t.tx_datalen /\ u.send_una <= u.tx_datalen
  BY <1>1, <1>2, <1>3 DEF Alike
<1>5. Goes(s, c, t)
  BY <1>2, <1>4, AlikeGoes DEF Alike
<1>6. Goes(s, c, u)
  BY <1>3, <1>4, AlikeGoes DEF Alike
<1>7. Goes(t, c, Send(t)) /\ Alike(t, Send(t))
  BY <1>2, <1>5, SendGoes DEF Goes, Alike
<1>8. Goes(s, c, Send(t)) /\ Alike(s, Send(t))
  BY <1>1, <1>2, <1>5, <1>7, GoesOn DEF Alike
<1>9. Goes(s, c, s) /\ Alike(s, s)
  BY <1>1, FieldsLemma DEF Goes, Alike
<1>10. SendSoon(s, soon) \in {Send(t), s, u}
  BY Zenon DEF SendSoon, t, u
<1>11. QED
  BY <1>3, <1>6, <1>8, <1>9, <1>10

LEMMA UnhappyGoes ==
  ASSUME NEW c, ContextOk(c), NEW s, Fine(s, c), NEW b \in BOOLEAN
  PROVE  Goes(s, c, [s EXCEPT !.unhappy = b])
<1> DEFINE r == [s EXCEPT !.unhappy = b]
<1>1. s \in SockType
  BY DEF Fine
<1>2. r \in SockType
  BY <1>1, UnhappyLemma
<1>3. Alike(s, r) /\ r.out = s.out /\ r.send_una = s.send_una
  BY <1>1 DEF Alike, SockType, SockOf
<1> HIDE DEF r
<1>4. s.threaded => r.send_una <= r.tx_datalen
  BY <1>3 DEF Fine, SocketOk, SendOk, Alike
<1>5. Goes(s, c, r)
  BY <1>2, <1>3, <1>4, AlikeGoes
<1>6. QED
  BY <1>5 DEF r

(* A socket that is closed and off the list. *)
LEMMA UnthreadGoes ==
  ASSUME NEW c, ContextOk(c), NEW s, s \in SockType, SentOk(s, c), EofOk(s, c),
         s.state = "LASTACK" /\ s.got_fin => c.u <= s.recv_next
  PROVE  Fine(Unthread(s), c) /\ Goes(s, c, Unthread(s)) /\ Unthread(s).out = s.out
<1> DEFINE r == Unthread(s)
<1>1. r \in SockType
  BY UnthreadLemma DEF Result
<1>2. /\ r.state = "CLOSED" /\ r.threaded = FALSE /\ r.port = s.port /\ r.out = s.out
      /\ r.got_fin = s.got_fin /\ r.recv_next = s.recv_next /\ r.send_next = s.send_next
  BY DEF Unthread, SockType, SockOf
<1> HIDE DEF r
<1>3. SocketOk(r, c)
  BY <1>2 DEF SocketOk, EofOk, Opening
<1>4. SentOk(r, c)
  BY <1>1, <1>2, SentLemma, FieldsLemma DEF Closing
<1>5. s.recv_next <= r.recv_next
  BY <1>2, FieldsLemma
<1>6. QED
  BY <1>1, <1>2, <1>3, <1>4, <1>5 DEF Goes, Fine, Closing, r

LEMMA LastAckEof ==
  ASSUME NEW c, ContextOk(c), NEW s \in SockType, SocketOk(s, c), s.threaded, s.state = "LASTACK"
  PROVE  c.u <= s.recv_next
BY DEF SocketOk, ReceiveOk, ContextOk

(* A reset carries nothing. *)
LEMMA ResetSent ==
  ASSUME NEW c, ContextOk(c), NEW s \in SockType, SentOk(s, c), s.tx_datalen = 0,
         "RST" \in s.flags, "SYN" \notin s.flags, "FIN" \notin s.flags
  PROVE  /\ SentOk(Send(s), c) /\ Send(s) \in SockType /\ Same(s, Send(s))
         /\ Send(s).recv_next = s.recv_next /\ Send(s).send_next = s.send_next
<1> DEFINE start == IF s.karn = 2 THEN 0 ELSE s.send_una
           len   == IF "SYN" \in s.flags THEN 0 ELSE Minus(s.tx_datalen, start)
           g     == Segment(s, s.flags, s.send_next + start, len)
           una   == start + len
           karn  == IF s.karn = 2 THEN 2 ELSE 0
           out   == s.out \cup {g}
           r     == [s EXCEPT !.out = out, !.send_una = una, !.karn = karn, !.rtt = TRUE]
           d     == Toward(c, s)
<1>1. start \in Nat
  BY DEF SockType, SockOf
<1>2. len = 0
  BY <1>1 DEF Minus
<1> HIDE DEF start, len
<1>3. g.port = s.port /\ g.ack = s.recv_next /\ g.flags = s.flags /\ g.len = 0
  BY <1>2 DEF Segment
<1>4. Send(s) = r
  BY Zenon DEF Send, r, out, una, karn, g, start, len
<1> HIDE DEF g, una, karn, out
<1>5. r.out = out /\ r.port = s.port /\ r.recv_next = s.recv_next /\ r.state = s.state
      /\ r.send_next = s.send_next
  BY DEF SockType, SockOf
<1>6. Send(s) \in SockType /\ Same(s, Send(s))
  BY SendLemma
<1>7. SegmentOk(g, d)
  <2>1. d.m = s.recv_next /\ s.recv_next \in Nat
    BY FieldsLemma, TowardLemma
  <2>2. Has(g, "RST") /\ ~Has(g, "SYN") /\ ~Has(g, "FIN") /\ ~HasData(g) /\ g.ack <= d.m
    BY <1>3, <2>1 DEF Has, HasData
  <2>3. QED
    BY <2>2 DEF SegmentOk
<1> HIDE DEF r, d
<1>8. Toward(c, r) = d
  BY <1>5 DEF Toward, d
<1>9. SentOk(r, c)
  BY <1>3, <1>5, <1>7, <1>8 DEF SentOk, Has, out, d
<1>10. QED
  BY <1>4, <1>5, <1>6, <1>9

LEMMA AbortGoes ==
  ASSUME NEW c, ContextOk(c), NEW s, Fine(s, c), s.threaded
  PROVE  Goes(s, c, Abort(s))
<1> DEFINE reset == [s EXCEPT !.flags = {"RST", "ACK"}, !.tx_datalen = 0]
           t == [Send(reset) EXCEPT !.unhappy = FALSE]
           u == [s EXCEPT !.unhappy = FALSE, !.tx_datalen = 0]
<1>1. s \in SockType /\ SentOk(s, c) /\ EofOk(s, c)
      /\ (s.state = "LASTACK" => c.u <= s.recv_next)
  BY LastAckEof DEF Fine, SocketOk
<1>2. ASSUME NEW r \in SockType, SentOk(r, c), r.state = s.state, r.port = s.port,
             r.got_fin = s.got_fin, r.recv_next = s.recv_next, r.send_next = s.send_next
      PROVE  Goes(s, c, Unthread(r))
  <2>1. EofOk(r, c) /\ (r.state = "LASTACK" => c.u <= r.recv_next)
    BY <1>1, <1>2 DEF EofOk
  <2>2. Goes(r, c, Unthread(r))
    BY <1>2, <2>1, UnthreadGoes
  <2>3. QED
    BY <1>2, <2>2 DEF Goes
<1>3. Goes(s, c, Unthread(t))
  <2>1. /\ reset \in SockType /\ reset.flags = {"RST", "ACK"} /\ reset.tx_datalen = 0
        /\ reset.out = s.out /\ reset.port = s.port /\ reset.recv_next = s.recv_next
        /\ reset.state = s.state /\ reset.got_fin = s.got_fin
        /\ reset.send_next = s.send_next
    BY <1>1 DEF SockType, SockOf, Flags
  <2> HIDE DEF reset
  <2>2. SentOk(reset, c)
    BY <1>1, <2>1, SentLemma, FieldsLemma
  <2> DEFINE x == Send(reset)
  <2>3. /\ SentOk(x, c) /\ x \in SockType /\ Same(reset, x)
        /\ x.recv_next = s.recv_next /\ x.send_next = s.send_next
    BY <2>1, <2>2, ResetSent
  <2> HIDE DEF x
  <2>4. t = [x EXCEPT !.unhappy = FALSE]
    BY DEF x
  <2> HIDE DEF t
  <2>5. t \in SockType /\ Same(x, t)
    BY <2>3, <2>4, UnhappyLemma
  <2>6. t.recv_next = x.recv_next /\ t.send_next = x.send_next /\ t.out = x.out
    BY <2>3, <2>4 DEF SockType, SockOf
  <2>7. SentOk(t, c)
    BY <2>3, <2>5, <2>6, SentLemma, FieldsLemma DEF Same
  <2>8. QED
    BY <1>2, <2>1, <2>3, <2>5, <2>6, <2>7 DEF Same
<1>4. Goes(s, c, Unthread(u))
  <2>1. u \in SockType /\ u.state = s.state /\ u.port = s.port /\ u.out = s.out
        /\ u.got_fin = s.got_fin /\ u.recv_next = s.recv_next /\ u.send_next = s.send_next
    BY <1>1 DEF SockType, SockOf
  <2> HIDE DEF u
  <2>2. SentOk(u, c)
    BY <1>1, <2>1, SentLemma, FieldsLemma
  <2>3. QED
    BY <1>2, <2>1, <2>2
<1>5. Abort(s) \in {Unthread(t), Unthread(u)}
  BY Zenon DEF Abort, t, u, reset
<1>6. QED
  BY <1>3, <1>4, <1>5

LEMMA CloseGoes ==
  ASSUME NEW c, ContextOk(c), NEW s, Fine(s, c), s.threaded, NEW soon
  PROVE  Goes(s, c, Close(s, soon))
<1> DEFINE t == [s EXCEPT !.flags = @ \cup {"ACK"}, !.state = "ESTCL"]
           w == IF s.state = "ESTCL" THEN t ELSE SendSoon(t, soon)
           u == [w EXCEPT !.unhappy = TRUE]
           f == [s EXCEPT !.flags = {"ACK", "FIN"}, !.state = "FINWT1", !.timeout = TRUE]
           v == [Send(f) EXCEPT !.unhappy = TRUE]
<1>1. s \in SockType /\ SocketOk(s, c) /\ SentOk(s, c) /\ s.send_una <= s.tx_datalen
  BY DEF Fine, SocketOk, SendOk
<1>2. /\ FlagsOk(s) /\ SendOk(s, c) /\ ReceiveOk(s, c) /\ AckedOk(s, c) /\ EofOk(s, c)
      /\ (IF c.p = "A" THEN s.state # "SYNREC" ELSE s.state \notin {"RESOLVE", "SYNSENT"})
  BY <1>1 DEF SocketOk
<1>3. CASE s.state \in {"ESTAB", "ESTCL", "SYNREC"} /\ s.tx_datalen > 0
  <2>1. s.state \in {"ESTAB", "ESTCL"}
    BY <1>2, <1>3 DEF SendOk, Opening
  <2>2. s.flags = {"ACK"}
    BY <1>2, <2>1 DEF FlagsOk
  <2>3. /\ t \in SockType /\ t.state = "ESTCL" /\ t.flags = {"ACK"}
        /\ t.threaded = s.threaded /\ t.port = s.port /\ t.send_next = s.send_next
        /\ t.tx_datalen = s.tx_datalen /\ t.recv_next = s.recv_next /\ t.missed = s.missed
        /\ t.got_fin = s.got_fin /\ t.send_una = s.send_una /\ t.out = s.out
    BY <1>1, <2>2 DEF SockType, SockOf, Flags, States
  <2> HIDE DEF t
  <2>4. SocketOk(t, c)
    <3>1. FlagsOk(t) /\ AckedOk(t, c)
      BY <1>2, <2>3 DEF FlagsOk, AckedOk
    <3>2. SendOk(t, c)
      BY <1>2, <2>1, <2>3 DEF SendOk, End, Opening
    <3>3. ReceiveOk(t, c) /\ EofOk(t, c)
      BY <1>2, <2>1, <2>3 DEF ReceiveOk, EofOk, Opening
    <3>4. QED
      BY <2>3, <3>1, <3>2, <3>3 DEF SocketOk
  <2>5. Goes(s, c, t)
    BY <1>1, <2>1, <2>3, <2>4, UpdateGoes, FieldsLemma DEF Closing
  <2>6. Goes(t, c, w)
    <3>1. Goes(t, c, SendSoon(t, soon))
      BY <2>3, <2>5, SendSoonGoes DEF Goes
    <3>2. Goes(t, c, t)
      BY <2>3, <2>5, FieldsLemma DEF Goes
    <3>3. QED
      BY <3>1, <3>2
  <2>7. w.threaded /\ w \in SockType
    <3>1. Same(t, w) /\ w \in SockType
      BY <2>3, SendSoonLemma DEF Same
    <3>2. QED
      BY <2>3, <3>1 DEF Same
  <2> HIDE DEF w
  <2>8. Goes(w, c, u)
    BY <2>6, UnhappyGoes DEF Goes
  <2>9. Close(s, soon) = u
    BY <1>3, Zenon DEF Close, u, w, t
  <2> HIDE DEF u
  <2>10. QED
    BY <1>1, <2>3, <2>5, <2>6, <2>8, <2>9, <2>7, GoesOn
<1>4. CASE s.state \in {"ESTAB", "ESTCL", "SYNREC"} /\ ~(s.tx_datalen > 0)
  <2>1. s.tx_datalen = 0 /\ s.send_una = 0
    BY <1>1, <1>4, FieldsLemma
  <2>2. /\ f \in SockType /\ f.state = "FINWT1" /\ f.flags = {"ACK", "FIN"}
        /\ f.threaded = s.threaded /\ f.port = s.port /\ f.send_next = s.send_next
        /\ f.tx_datalen = 0 /\ f.recv_next = s.recv_next /\ f.missed = s.missed
        /\ f.got_fin = s.got_fin /\ f.send_una = 0 /\ f.out = s.out
    BY <1>1, <2>1 DEF SockType, SockOf, Flags, States
  <2> HIDE DEF f
  <2>3. SocketOk(f, c)
    <3>1. FlagsOk(f) /\ AckedOk(f, c)
      BY <1>2, <2>2 DEF FlagsOk, AckedOk
    <3>2. SendOk(f, c)
      <4>1. CASE s.state = "SYNREC"
        <5>1. c.p # "A" /\ c.p \in Sides /\ s.send_next = c.i /\ c.t = c.i + 1
          BY <1>2, <4>1 DEF SendOk, Opening, ContextOk
        <5>2. QED
          BY <2>2, <5>1 DEF SendOk, Opening, Sides
      <4>2. CASE s.state \in {"ESTAB", "ESTCL"}
        <5>1. s.send_next = c.t
          BY <1>1, <1>2, <2>1, <4>2, FieldsLemma DEF SendOk, End
        <5>2. QED
          BY <2>2, <5>1 DEF SendOk, Opening
      <4>3. QED
        BY <1>4, <4>1, <4>2
    <3>3. ReceiveOk(f, c)
      <4>1. s.state = "SYNREC" => s.missed = {} /\ s.recv_next <= c.u
        BY <1>2 DEF ReceiveOk, Opening, ContextOk
      <4>2. QED
        BY <1>2, <1>4, <2>2, <4>1 DEF ReceiveOk, Opening
    <3>4. EofOk(f, c)
      BY <1>2, <1>4, <2>2 DEF EofOk, Opening
    <3>5. QED
      BY <2>2, <3>1, <3>2, <3>3, <3>4 DEF SocketOk
  <2>4. Goes(s, c, f)
    BY <1>1, <2>2, <2>3, UpdateGoes, FieldsLemma DEF Closing
  <2>5. Goes(f, c, Send(f))
    BY <2>2, <2>4, SendGoes DEF Goes
  <2>6. Goes(Send(f), c, v)
    BY <2>5, UnhappyGoes DEF Goes
  <2>7. Close(s, soon) = v
    BY <1>4, Zenon DEF Close, v, f
  <2>8. Send(f) \in SockType
    BY <2>2, SendLemma
  <2> HIDE DEF v
  <2>9. QED
    BY <1>1, <2>2, <2>4, <2>5, <2>6, <2>7, <2>8, GoesOn
<1>5. CASE s.state \in {"RESOLVE", "SYNSENT"}
  <2>1. Close(s, soon) = Unthread(s)
    BY <1>5 DEF Close
  <2>2. QED
    BY <1>1, <1>2, <1>5, <2>1, UnthreadGoes
<1>6. CASE s.state \notin {"ESTAB", "ESTCL", "SYNREC"} /\ s.state \notin {"RESOLVE", "SYNSENT"}
  <2>1. Close(s, soon) = s
    BY <1>6 DEF Close
  <2>2. QED
    BY <1>1, <2>1, FieldsLemma DEF Goes, Fine
<1>7. QED
  BY <1>3, <1>4, <1>5, <1>6
-----------------------------------------------------------------------------
(* The input state machine. *)
LEMMA SegLemma ==
  ASSUME NEW g \in SegType
  PROVE  g.seq \in Nat /\ g.len \in Nat /\ g.ack \in Nat /\ g.flags \in SUBSET Flags
BY DEF SegType

LEMMA ContextLemma ==
  ASSUME NEW c, ContextOk(c)
  PROVE  /\ c.i \in Nat /\ c.t \in Nat /\ c.j \in Nat /\ c.u \in Nat /\ c.m \in Nat
         /\ c.p \in Sides /\ c.i + 1 <= c.t /\ c.j + 1 <= c.u
BY DEF ContextOk

(* What was acknowledged leaves the buffer; the end of the data stays.  A   *)
(* reset acknowledges no more than the SYN.                                 *)
LEMMA AckLemma ==
  ASSUME NEW c, ContextOk(c), NEW s \in SockType, NEW g \in SegType, AckOk(s, g),
         s.send_una <= s.tx_datalen, c.i + 1 <= s.send_next, AckedOk(s, c), SegmentOk(g, c)
  PROVE  LET a == ProcessAck(s, g) IN
         /\ End(a) = End(s) /\ c.i + 1 <= a.send_next /\ AckedOk(a, c)
         /\ a.send_una <= a.tx_datalen
         /\ a.recv_next = s.recv_next /\ a.missed = s.missed /\ a.out = s.out
         /\ a.flags = s.flags
<1> DEFINE d == g.ack - s.send_next
           tx == s.tx_datalen - d
           una == s.send_una - d
           rtt == s.rtt /\ ~(s.send_una = d /\ s.tx_datalen = d)
           r == [s EXCEPT !.tx_datalen = tx, !.send_una = una, !.send_next = g.ack,
                          !.rtt = rtt]
<1>1. ProcessAck(s, g) = r
  BY Zenon DEF ProcessAck, r, d, tx, una, rtt, SockType, SockOf
<1>2. s.send_next + s.tx_datalen = g.ack + tx /\ una <= tx
  BY FieldsLemma, SegLemma
<1>3. \/ c.i + 1 <= g.ack /\ g.ack <= c.m
      \/ g.ack = c.i + 1 /\ s.send_next = g.ack
  BY FieldsLemma, SegLemma, ContextLemma DEF AckOk, SegmentOk
<1> HIDE DEF d, tx, una, rtt
<1>4. /\ r.send_next = g.ack /\ r.tx_datalen = tx /\ r.send_una = una
      /\ r.recv_next = s.recv_next /\ r.missed = s.missed /\ r.out = s.out
      /\ r.flags = s.flags
  BY DEF SockType, SockOf
<1> HIDE DEF r
<1>5. End(r) = End(s) /\ r.send_una <= r.tx_datalen
  BY <1>2, <1>4 DEF End
<1>6. c.i + 1 <= r.send_next /\ AckedOk(r, c)
  BY <1>3, <1>4, ContextLemma, FieldsLemma DEF AckedOk
<1>7. QED
  BY <1>1, <1>4, <1>5, <1>6

(* tcp_process_data() counts no further than the peer's data goes, and past *)
(* a segment that is in order.                                              *)
DataTaken(s, g, r) ==
  /\ r \in SockType /\ Same(s, r)
  /\ r.out = s.out /\ r.flags = s.flags /\ r.send_next = s.send_next
  /\ r.send_una = s.send_una
  /\ s.recv_next <= r.recv_next
  /\ HasData(g) /\ ~OutOfOrder(s, g) => g.seq + g.len <= r.recv_next
  /\ ~HasData(g) \/ OutOfOrder(s, g) => r.recv_next = s.recv_next

LEMMA DataLemma ==
  ASSUME NEW s \in SockType, NEW g \in SegType, NEW u \in Nat,
         s.recv_next <= u, \A n \in s.missed : n < u, HasData(g) => g.seq + g.len <= u
  PROVE  LET r == ProcessData(s, g) IN
         DataTaken(s, g, r) /\ r.recv_next <= u /\ \A n \in r.missed : n < u
<1> DEFINE new    == g.seq .. g.seq + g.len - 1
           have   == s.missed \cup new
           filled == CHOOSE n \in s.recv_next .. s.recv_next + Cardinality(have) :
                       s.recv_next .. n - 1 \subseteq have /\ n \notin have
           touches == s.missed = {} \/ \E n \in s.missed : n + 1 \in new \/ n - 1 \in new
           kept   == IF touches THEN have ELSE s.missed
           left   == {n \in s.missed : n > filled}
           more   == s.tx_datalen > 0
           x == [s EXCEPT !.missed = kept, !.unhappy = TRUE]
           y == [s EXCEPT !.recv_next = filled, !.missed = left, !.unhappy = more]
           r == ProcessData(s, g)
<1>1. r \in SockType /\ Same(s, r)
  BY ProcessDataLemma
<1>2. g.seq \in Nat /\ g.len \in Nat /\ s.recv_next \in Nat
  BY SegLemma, FieldsLemma
<1>3. have \in Finite(Nat)
  <2>1. g.seq \in Int /\ g.seq + g.len - 1 \in Int
    BY <1>2
  <2>2. IsFiniteSet(new)
    BY <2>1, FS_Interval
  <2>3. new \in Finite(Nat)
    BY <1>2, <2>2 DEF Finite
  <2>4. QED
    BY <2>3, FieldsLemma, AddLemma
<1>4. HasData(g) => \A n \in have : n < u
  BY <1>2
<1>5. \A n : n \in new <=> n \in Int /\ g.seq <= n /\ n < g.seq + g.len
  BY <1>2
<1> HIDE DEF new
<1>6. /\ filled \in Nat /\ s.recv_next <= filled
      /\ s.recv_next .. filled - 1 \subseteq have /\ filled \notin have
  <2>1. Cardinality(have) \in Nat
    BY <1>3, FS_CardinalityType DEF Finite
  <2> HIDE DEF have
  <2>2. \E n \in s.recv_next .. s.recv_next + Cardinality(have) :
          s.recv_next .. n - 1 \subseteq have /\ n \notin have
    BY <1>2, <1>3, FillLemma
  <2>3. /\ filled \in s.recv_next .. s.recv_next + Cardinality(have)
        /\ s.recv_next .. filled - 1 \subseteq have /\ filled \notin have
    BY <2>2
  <2>4. QED
    BY <1>2, <2>1, <2>3
<1>7. s.missed \subseteq have /\ new \subseteq have
  OBVIOUS
<1> HIDE DEF have, filled
<1>8. HasData(g) => filled <= u
  <2>1. CASE filled = s.recv_next
    BY <2>1
  <2>2. CASE filled # s.recv_next
    <3>1. filled - 1 \in s.recv_next .. filled - 1
      BY <1>2, <1>6, <2>2
    <3>2. filled - 1 \in have
      BY <1>6, <3>1
    <3>3. QED
      BY <1>4, <1>6, <3>2
  <2>3. QED
    BY <2>1, <2>2
<1>9. g.seq <= s.recv_next => g.seq + g.len <= filled
  BY <1>2, <1>5, <1>6, <1>7
<1>10. CASE ~HasData(g) \/ g.seq + g.len < s.recv_next
  <2>1. r = s
    BY <1>10 DEF ProcessData
  <2>2. QED
    BY <1>1, <1>2, <1>10, <2>1 DEF DataTaken, OutOfOrder
<1>11. CASE HasData(g) /\ ~(g.seq + g.len < s.recv_next) /\ OutOfOrder(s, g)
  <2>1. r = x
    BY <1>11, Zenon DEF ProcessData, x, kept, touches, have, new
  <2>2. \A n \in kept : n < u
    BY <1>4, <1>11
  <2> HIDE DEF kept
  <2>3. x.recv_next = s.recv_next /\ x.missed = kept /\ x.out = s.out /\ x.flags = s.flags
        /\ x.send_next = s.send_next /\ x.send_una = s.send_una
    BY DEF SockType, SockOf
  <2> HIDE DEF x, r
  <2>4. QED
    BY <1>1, <1>2, <1>11, <2>1, <2>2, <2>3 DEF DataTaken, r
<1>12. CASE HasData(g) /\ ~(g.seq + g.len < s.recv_next) /\ ~OutOfOrder(s, g)
  <2>1. r = y
    BY <1>12, Zenon DEF ProcessData, y, left, more, filled, have, new
  <2>2. \A n \in left : n < u
    OBVIOUS
  <2> HIDE DEF left, more
  <2>3. y.recv_next = filled /\ y.missed = left /\ y.out = s.out /\ y.flags = s.flags
        /\ y.send_next = s.send_next /\ y.send_una = s.send_una
    BY DEF SockType, SockOf
  <2>4. g.seq + g.len <= filled
    BY <1>2, <1>9, <1>12 DEF OutOfOrder
  <2> HIDE DEF y, r
  <2>5. QED
    BY <1>1, <1>2, <1>6, <1>8, <1>12, <2>1, <2>2, <2>3, <2>4 DEF DataTaken, r
<1>13. QED
  BY <1>10, <1>11, <1>12

LEMMA DataGoes ==
  ASSUME NEW c, ContextOk(c), NEW s, Fine(s, c), s.threaded,
         s.state \in {"ESTAB", "ESTCL", "FINWT1", "FINWT2"},
         NEW g \in SegType, SegmentOk(g, c)
  PROVE  LET r == ProcessData(s, g) IN
         Goes(s, c, r) /\ DataTaken(s, g, r) /\ r.recv_next <= c.u
<1> DEFINE r == ProcessData(s, g)
<1>1. /\ s \in SockType /\ SocketOk(s, c)
      /\ FlagsOk(s) /\ SendOk(s, c) /\ ReceiveOk(s, c) /\ AckedOk(s, c) /\ EofOk(s, c)
  BY DEF Fine, SocketOk
<1>2. DataTaken(s, g, r) /\ r.recv_next <= c.u /\ \A n \in r.missed : n < c.u
  <2>1. s.recv_next <= c.u /\ (\A n \in s.missed : n < c.u) /\ c.u \in Nat
    BY <1>1, ContextLemma DEF ReceiveOk
  <2>2. HasData(g) => g.seq + g.len <= c.u
    BY DEF SegmentOk
  <2>3. QED
    BY <1>1, <2>1, <2>2, DataLemma
<1> HIDE DEF r
<1>3. /\ r.state = s.state /\ r.threaded = s.threaded /\ r.port = s.port /\ r.flags = s.flags
      /\ r.send_next = s.send_next /\ r.tx_datalen = s.tx_datalen
      /\ r.send_una = s.send_una /\ r.got_fin = s.got_fin /\ r.out = s.out
      /\ r \in SockType /\ s.recv_next <= r.recv_next
      /\ r.recv_next \in Nat /\ s.recv_next \in Nat
  BY <1>1, <1>2, FieldsLemma DEF DataTaken, Same
<1>4. SocketOk(r, c)
  <2>1. FlagsOk(r) /\ AckedOk(r, c)
    BY <1>1, <1>3 DEF FlagsOk, AckedOk
  <2>2. SendOk(r, c)
    BY <1>1, <1>3 DEF SendOk, End
  <2>3. ReceiveOk(r, c)
    BY <1>1, <1>2, <1>3, ContextLemma DEF ReceiveOk, Opening
  <2>4. EofOk(r, c)
    BY <1>1, <1>3, ContextLemma DEF EofOk
  <2>5. QED
    BY <1>1, <1>3, <2>1, <2>2, <2>3, <2>4 DEF SocketOk
<1>5. Goes(s, c, r)
  BY <1>3, <1>4, UpdateGoes
<1>6. QED
  BY <1>2, <1>5 DEF r

(* A FIN that is in order comes after all of the peer's data. *)
LEMMA FinLemma ==
  ASSUME NEW c, ContextOk(c), NEW s \in SockType, NEW g \in SegType, SegmentOk(g, c),
         NEW r, DataTaken(s, g, r), r.recv_next <= c.u, c.j + 1 <= s.recv_next,
         FinOf(s, g), g.seq <= r.recv_next
  PROVE  r.recv_next = c.u /\ ~Has(g, "RST") /\ c.i + 1 <= g.ack
<1>1. Has(g, "FIN") /\ ~OutOfOrder(s, g) /\ FinOk(g, c)
  BY DEF FinOf, SegmentOk
<1>2. r.recv_next \in Nat /\ s.recv_next \in Nat /\ s.recv_next <= r.recv_next
  BY FieldsLemma DEF DataTaken
<1>3. CASE HasData(g)
  <2>1. g.seq + g.len <= r.recv_next /\ g.len > 0
    BY <1>1, <1>3 DEF DataTaken, HasData
  <2>2. g.seq + g.len = c.u
    BY <1>1, <2>1, SegLemma DEF FinOk
  <2>3. QED
    BY <1>1, <1>2, <2>1, <2>2, ContextLemma DEF FinOk
<1>4. CASE ~HasData(g)
  <2>1. g.len = 0
    BY <1>1, <1>4, SegLemma DEF FinOk, HasData
  <2>2. c.u <= r.recv_next
    <3>1. CASE g.seq + g.len = c.u
      BY <2>1, <3>1, SegLemma
    <3>2. CASE g.seq = c.u + 1
      BY <3>2, SegLemma, ContextLemma, <1>2
    <3>3. CASE g.seq = c.j /\ c.u = c.j + 1
      BY <1>2, <3>3, ContextLemma
    <3>4. QED
      BY <1>1, <3>1, <3>2, <3>3 DEF FinOk
  <2>3. QED
    BY <1>1, <1>2, <2>2, ContextLemma DEF FinOk
<1>5. QED
  BY <1>3, <1>4

(* The acknowledgement of ESTAB and ESTCL. *)
Acking(s, g) ==
  LET a == IF AckOk(s, g) THEN ProcessAck(s, g) ELSE [s EXCEPT !.send_una = 0]
  IN  [a EXCEPT !.send_una = Minus(@, 0), !.flags = {"ACK"}, !.timeout = FALSE]

LEMMA AckGoes ==
  ASSUME NEW c, ContextOk(c), NEW s, Fine(s, c), s.threaded, s.state \in {"ESTAB", "ESTCL"},
         NEW g \in SegType, SegmentOk(g, c)
  PROVE  LET b == Acking(s, g) IN
         /\ Goes(s, c, b) /\ b.state = s.state /\ b.threaded /\ b.recv_next = s.recv_next
         /\ b.out = s.out
<1> DEFINE a == IF AckOk(s, g) THEN ProcessAck(s, g) ELSE [s EXCEPT !.send_una = 0]
           una == Minus(a.send_una, 0)
           b == [a EXCEPT !.send_una = una, !.flags = {"ACK"}, !.timeout = FALSE]
<1>1. /\ s \in SockType /\ SocketOk(s, c)
      /\ FlagsOk(s) /\ SendOk(s, c) /\ ReceiveOk(s, c) /\ AckedOk(s, c) /\ EofOk(s, c)
  BY DEF Fine, SocketOk
<1>2. c.i + 1 <= s.send_next /\ End(s) = c.t /\ s.send_una <= s.tx_datalen
  BY <1>1 DEF SendOk
<1>3. /\ a \in SockOf(Int, Ports) /\ Acked(s, a)
      /\ End(a) = c.t /\ c.i + 1 <= a.send_next /\ AckedOk(a, c) /\ a.send_una <= a.tx_datalen
      /\ a.recv_next = s.recv_next /\ a.missed = s.missed /\ a.out = s.out
  <2>1. CASE AckOk(s, g)
    <3>1. a = ProcessAck(s, g)
      BY <2>1
    <3>2. ProcessAck(s, g) \in SockOf(Int, Ports) /\ Acked(s, ProcessAck(s, g))
      BY <1>1, <2>1, ProcessAckLemma
    <3> HIDE DEF a
    <3>3. QED
      BY <1>1, <1>2, <2>1, <3>1, <3>2, AckLemma
  <2>2. CASE ~AckOk(s, g)
    <3>1. a = [s EXCEPT !.send_una = 0]
      BY <2>2
    <3> HIDE DEF a
    <3>2. a \in SockOf(Int, Ports)
      BY <1>1, <3>1 DEF SockType, SockOf
    <3>3. /\ a.send_next = s.send_next /\ a.tx_datalen = s.tx_datalen /\ a.send_una = 0
          /\ a.recv_next = s.recv_next /\ a.missed = s.missed /\ a.out = s.out
          /\ a.state = s.state /\ a.threaded = s.threaded /\ a.port = s.port
          /\ a.timeout = s.timeout /\ a.got_fin = s.got_fin
      BY <1>1, <3>1 DEF SockType, SockOf
    <3>4. QED
      BY <1>1, <1>2, <3>2, <3>3, FieldsLemma DEF Acked, End, AckedOk
  <2>3. QED
    BY <2>1, <2>2
<1> HIDE DEF a
<1>4. una \in Nat /\ una <= a.tx_datalen
  BY <1>3 DEF Minus, SockOf
<1> HIDE DEF una
<1>5. b \in SockType
  BY <1>3, <1>4 DEF SockType, SockOf, Flags
<1>6. /\ b.send_next = a.send_next /\ b.tx_datalen = a.tx_datalen /\ b.send_una = una
      /\ b.recv_next = s.recv_next /\ b.missed = s.missed /\ b.out = s.out
      /\ b.state = s.state /\ b.threaded = s.threaded /\ b.port = s.port
      /\ b.got_fin = s.got_fin /\ b.flags = {"ACK"}
  BY <1>3 DEF SockOf, Acked
<1>7. Acking(s, g) = b
  BY Zenon DEF Acking, b, una, a
<1> HIDE DEF b
<1>8. SocketOk(b, c)
  <2>1. FlagsOk(b) /\ AckedOk(b, c)
    BY <1>3, <1>6 DEF FlagsOk, AckedOk
  <2>2. SendOk(b, c)
    BY <1>3, <1>4, <1>6 DEF SendOk, End, Opening
  <2>3. ReceiveOk(b, c)
    BY <1>1, <1>6 DEF ReceiveOk
  <2>4. EofOk(b, c)
    BY <1>1, <1>6 DEF EofOk, Opening
  <2>5. QED
    BY <1>1, <1>6, <2>1, <2>2, <2>3, <2>4 DEF SocketOk
<1>9. Goes(s, c, b)
  BY <1>1, <1>5, <1>6, <1>8, UpdateGoes, FieldsLemma
<1>10. QED
  BY <1>6, <1>7, <1>9

LEMMA AgainGoes ==
  ASSUME NEW c, ContextOk(c), NEW s, Fine(s, c), NEW b \in BOOLEAN
  PROVE  Goes(s, c, [s EXCEPT !.again = b])
<1> DEFINE r == [s EXCEPT !.again = b]
<1>1. s \in SockType
  BY DEF Fine
<1>2. r \in SockType
  BY <1>1 DEF SockType, SockOf
<1>3. Alike(s, r) /\ r.out = s.out /\ r.send_una = s.send_una
  BY <1>1 DEF Alike, SockType, SockOf
<1> HIDE DEF r
<1>4. s.threaded => r.send_una <= r.tx_datalen
  BY <1>3 DEF Fine, SocketOk, SendOk, Alike
<1>5. Goes(s, c, r)
  BY <1>2, <1>3, <1>4, AlikeGoes
<1>6. QED
  BY <1>5 DEF r

LEMMA AsksAgain ==
  ASSUME NEW c, ContextOk(c), NEW s, Fine(s, c), s.threaded
  PROVE  Goes(s, c, Again(s)) /\ Again(s).threaded
<1>1. s \in SockType
  BY DEF Fine
<1>2. Goes(s, c, Again(s))
  BY AgainGoes DEF Again
<1>3. QED
  BY <1>1, <1>2, AgainLemma DEF Same

LEMMA GoesSelf == ASSUME NEW c, NEW s, Fine(s, c) PROVE Goes(s, c, s)
BY FieldsLemma DEF Goes, Fine

LEMMA EstabFinGoes ==
  ASSUME NEW c, ContextOk(c), NEW s, Fine(s, c), s.threaded, s.state \in {"ESTAB", "ESTCL"},
         NEW g, NEW fin \in BOOLEAN,
         fin /\ g.seq <= s.recv_next => s.recv_next = c.u
  PROVE  Goes(s, c, EstabFin(s, g, fin)) /\ EstabFin(s, g, fin).threaded
<1> DEFINE t == [s EXCEPT !.recv_next = @ + 1]
           u == Send(t)
           v == ToLastAck(u)
           x == [s EXCEPT !.unhappy = TRUE]
<1>1. /\ s \in SockType /\ SocketOk(s, c)
      /\ FlagsOk(s) /\ SendOk(s, c) /\ ReceiveOk(s, c) /\ AckedOk(s, c) /\ EofOk(s, c)
  BY DEF Fine, SocketOk
<1>2. CASE fin /\ FinInWindow(s, g) /\ s.missed = {}
  <2>1. s.recv_next = c.u
    BY <1>2 DEF FinInWindow
  <2>2. t \in SockType
    <3>1. s.recv_next + 1 \in Nat
      BY <1>1, FieldsLemma
    <3>2. QED
      BY <1>1, <3>1 DEF SockType, SockOf
  <2>3. /\ t.recv_next = c.u + 1 /\ t.out = s.out /\ t.port = s.port /\ t.state = s.state
        /\ t.threaded = s.threaded /\ t.send_una = s.send_una /\ t.tx_datalen = s.tx_datalen
        /\ t.send_next = s.send_next /\ t.flags = s.flags /\ t.got_fin = s.got_fin
        /\ t.missed = s.missed
    BY <1>1, <2>1 DEF SockType, SockOf
  <2> HIDE DEF t
  <2>4. s.flags = {"ACK"} /\ End(s) = c.t /\ c.i + 1 <= s.send_next /\ s.send_una <= s.tx_datalen
    BY <1>1 DEF FlagsOk, SendOk
  <2>5. End(t) = c.t /\ c.t \in Nat
    BY <2>3, <2>4, ContextLemma DEF End
  <2>6. MaySend(t, c)
    <3>1. t.flags = {"ACK"} /\ t.send_una <= t.tx_datalen /\ c.i + 1 <= t.send_next
      BY <2>3, <2>4
    <3>2. "RST" \notin t.flags /\ "ACK" \in t.flags /\ "SYN" \notin t.flags
          /\ "FIN" \notin t.flags
      BY <3>1
    <3>3. c.t <= End(t)
      BY <2>5
    <3>4. QED
      BY <2>5, <3>1, <3>2, <3>3 DEF MaySend
  <2>7. u \in SockType /\ Alike(t, u) /\ u.send_una <= u.tx_datalen
    <3>1. u \in SockType
      BY <2>2, SendLemma
    <3>2. t.send_una <= t.tx_datalen /\ (Has(t, "SYN") => t.tx_datalen = 0)
      BY <2>3, <2>4, <2>6 DEF MaySend, Has
    <3>3. QED
      BY <2>2, <3>1, <3>2, SendFields
  <2> HIDE DEF u
  <2>8. v \in SockType
    BY <2>7 DEF ToLastAck, SockType, SockOf, Flags, States
  <2>9. /\ v.state = "LASTACK" /\ v.flags = u.flags \cup {"FIN"} /\ v.got_fin = TRUE
        /\ v.threaded = u.threaded /\ v.port = u.port /\ v.send_next = u.send_next
        /\ v.tx_datalen = u.tx_datalen /\ v.send_una = u.send_una
        /\ v.recv_next = u.recv_next /\ v.missed = u.missed /\ v.out = u.out
    BY <2>7 DEF ToLastAck, SockType, SockOf
  <2>10. /\ v.flags = {"ACK", "FIN"} /\ v.threaded /\ v.port = t.port
         /\ v.send_next = s.send_next /\ v.tx_datalen = s.tx_datalen
         /\ v.recv_next = c.u + 1 /\ v.missed = s.missed /\ v.out = u.out
         /\ v.send_una <= v.tx_datalen
    BY <2>3, <2>4, <2>7, <2>9 DEF Alike
  <2>11. EstabFin(s, g, fin) = v
    BY <1>2, Zenon DEF EstabFin, v, u, t
  <2> HIDE DEF v
  <2>12. SocketOk(v, c)
    <3>1. FlagsOk(v) /\ AckedOk(v, c)
      BY <1>1, <2>9, <2>10 DEF FlagsOk, AckedOk
    <3>2. SendOk(v, c)
      BY <2>4, <2>9, <2>10 DEF SendOk, End, Opening
    <3>3. ReceiveOk(v, c)
      BY <2>9, <2>10, ContextLemma DEF ReceiveOk, Opening
    <3>4. EofOk(v, c)
      BY <2>9 DEF EofOk, Opening
    <3>5. QED
      BY <1>1, <2>9, <3>1, <3>2, <3>3, <3>4 DEF SocketOk
  <2>13. s.recv_next <= t.recv_next /\ t.recv_next <= v.recv_next
    BY <2>1, <2>3, <2>10, ContextLemma
  <2>14. Goes(s, c, v)
    BY <1>1, <2>2, <2>3, <2>6, <2>8, <2>9, <2>10, <2>12, <2>13, SendUpdateGoes DEF u, Closing
  <2>15. QED
    BY <2>10, <2>11, <2>14
<1>3. Goes(s, c, Send(x)) /\ Send(x).threaded
  <2>1. Goes(s, c, x)
    BY UnhappyGoes
  <2>2. x.threaded = s.threaded
    BY <1>1 DEF SockType, SockOf
  <2> HIDE DEF x
  <2>3. Goes(x, c, Send(x)) /\ Alike(x, Send(x))
    BY <2>1, <2>2, SendGoes DEF Goes
  <2>4. QED
    BY <1>1, <2>1, <2>2, <2>3, GoesOn DEF Alike
<1>4. Goes(s, c, s)
  BY GoesSelf
<1>5. CASE ~(fin /\ FinInWindow(s, g) /\ s.missed = {})
  <2>1. EstabFin(s, g, fin) \in {s, Send(x)}
    BY <1>5, Zenon DEF EstabFin, x
  <2>2. QED
    BY <1>3, <1>4, <2>1
<1>6. QED
  BY <1>2, <1>5

LEMMA EstabReplyGoes ==
  ASSUME NEW c, ContextOk(c), NEW s, Fine(s, c), s.threaded, NEW g, NEW acked, NEW soon
  PROVE  LET r == EstabReply(s, g, acked, soon) IN Goes(s, c, r) /\ r.threaded
<1> DEFINE t == [s EXCEPT !.karn = 0]
           r == EstabReply(s, g, acked, soon)
<1>1. s \in SockType /\ s.send_una <= s.tx_datalen
  BY DEF Fine, SocketOk, SendOk
<1>2. t \in SockType
  BY <1>1, KarnZeroLemma
<1>3. Alike(s, t) /\ t.out = s.out /\ t.send_una = s.send_una /\ t.tx_datalen = s.tx_datalen
  BY <1>1 DEF SockType, SockOf, Alike
<1> HIDE DEF t
<1>4. Goes(s, c, t)
  BY <1>1, <1>2, <1>3, AlikeGoes
<1>5. Goes(t, c, Send(t))
  BY <1>3, <1>4, SendGoes DEF Goes, Alike
<1>6. Goes(s, c, Send(t)) /\ Goes(s, c, Send(s)) /\ Goes(s, c, SendSoon(s, soon))
      /\ Goes(s, c, s)
  BY <1>1, <1>4, <1>5, GoesOn, SendGoes, SendSoonGoes, GoesSelf
<1>7. r \in {Send(t), SendSoon(s, soon), Send(s), s}
  BY Zenon DEF EstabReply, t, r
<1>8. r.threaded
  BY <1>1, EstabReplyLemma DEF Same
<1>9. QED
  BY <1>6, <1>7, <1>8

LEMMA EstabGoes ==
  ASSUME NEW c, ContextOk(c), NEW s, Fine(s, c), s.threaded, s.state \in {"ESTAB", "ESTCL"},
         NEW g \in SegType, SegmentOk(g, c), NEW soon
  PROVE  LET r == EstabState(s, g, soon) IN Goes(s, c, r) /\ r.threaded
<1> DEFINE acked == g.ack - s.send_next
           b == Acking(s, g)
           d == ProcessData(b, g)
           fin == FinOf(b, g)
           e == EstabFin(d, g, fin)
           r == EstabReply(e, g, acked, soon)
           q == Again(Send(d))
<1>1. s \in SockType
  BY DEF Fine
<1>2. /\ Goes(s, c, b) /\ b.state = s.state /\ b.threaded /\ Fine(b, c) /\ b \in SockType
      /\ b.recv_next = s.recv_next
  BY AckGoes DEF Goes, Fine
<1> HIDE DEF b
<1>3. /\ Goes(b, c, d) /\ DataTaken(b, g, d) /\ d.recv_next <= c.u
      /\ Fine(d, c) /\ d \in SockType /\ d.state = s.state /\ d.threaded
  <2>1. Goes(b, c, d) /\ DataTaken(b, g, d) /\ d.recv_next <= c.u
    BY <1>2, DataGoes
  <2>2. QED
    BY <1>2, <2>1 DEF Goes, DataTaken, Same
<1> HIDE DEF d
<1>4. fin \in BOOLEAN
  BY DEF FinOf, Has, OutOfOrder, HasData
<1>5. fin /\ g.seq <= d.recv_next => d.recv_next = c.u
  <2>1. c.j + 1 <= b.recv_next
    BY <1>2 DEF Fine, SocketOk, ReceiveOk
  <2>2. QED
    BY <1>2, <1>3, <2>1, FinLemma
<1> HIDE DEF fin
<1>6. Goes(d, c, e) /\ e.threaded
  BY <1>3, <1>4, <1>5, EstabFinGoes
<1> HIDE DEF e
<1>7. Goes(e, c, r) /\ r.threaded
  BY <1>6, EstabReplyGoes DEF Goes
<1> HIDE DEF r
<1>8. Goes(s, c, d)
  BY <1>1, <1>2, <1>3, GoesOn
<1>9. Goes(s, c, r)
  BY <1>1, <1>3, <1>6, <1>7, <1>8, GoesOn DEF Goes, Fine
<1>10. Goes(s, c, q) /\ q.threaded
  <2>1. Goes(d, c, Send(d)) /\ Send(d).threaded /\ Send(d) \in SockType
    BY <1>3, SendGoes DEF Goes, Fine, Alike
  <2>2. Goes(Send(d), c, q)
    BY <2>1, AgainGoes DEF Again, Goes
  <2>3. q.threaded
    BY <2>1, AgainLemma DEF Same
  <2>4. QED
    BY <1>1, <1>3, <1>8, <2>1, <2>2, <2>3, GoesOn
<1> HIDE DEF q
<1>11. Goes(s, c, s) /\ Goes(s, c, Send(s)) /\ Send(s).threaded
  BY GoesSelf, SendGoes DEF Alike
<1>12. EstabState(s, g, soon) \in {Send(s), s, q, r}
  BY Zenon DEF EstabState, q, r, e, fin, d, b, acked, Acking
<1>13. QED
  BY <1>7, <1>9, <1>10, <1>11, <1>12

LEMMA EstclGoes ==
  ASSUME NEW c, ContextOk(c), NEW s, Fine(s, c), s.threaded, s.state = "ESTCL",
         NEW g \in SegType, SegmentOk(g, c), NEW soon
  PROVE  LET r == EstclState(s, g, soon) IN Goes(s, c, r) /\ r.again = FALSE
<1> DEFINE x == EstabState(s, g, soon)
           y == Close(x, soon)
           r == [y EXCEPT !.again = FALSE]
<1>1. s \in SockType
  BY DEF Fine
<1>2. Goes(s, c, x) /\ x.threaded
  BY EstabGoes
<1> HIDE DEF x
<1>3. Goes(x, c, y)
  BY <1>2, CloseGoes DEF Goes
<1> HIDE DEF y
<1>4. Goes(y, c, r)
  BY <1>3, AgainGoes DEF Goes
<1>5. r.again = FALSE
  BY <1>3 DEF Goes, Fine, SockType, SockOf
<1>6. EstclState(s, g, soon) = r
  BY DEF EstclState, r, y, x
<1> HIDE DEF r
<1>7. Goes(s, c, y)
  BY <1>1, <1>2, <1>3, GoesOn
<1>8. Goes(s, c, r)
  BY <1>1, <1>4, <1>7, GoesOn
<1>9. QED
  BY <1>5, <1>6, <1>8

(* In FINWT1 nothing is left to acknowledge but the FIN. *)
LEMMA Finwt1AckGoes ==
  ASSUME NEW c, ContextOk(c), NEW s, Fine(s, c), s.threaded, s.state = "FINWT1",
         NEW g \in SegType
  PROVE  LET una == IF g.ack - s.send_next = 0 THEN 0 ELSE Minus(ProcessAck(s, g).send_una, 0)
             a   == IF AckOk(s, g) THEN [ProcessAck(s, g) EXCEPT !.send_una = una] ELSE s
         IN  Goes(s, c, a) /\ Alike(s, a) /\ a.again = s.again
<1> DEFINE d == g.ack - s.send_next
           tx == s.tx_datalen - d
           una0 == s.send_una - d
           rtt == s.rtt /\ ~(s.send_una = d /\ s.tx_datalen = d)
           p == [s EXCEPT !.tx_datalen = tx, !.send_una = una0, !.send_next = g.ack,
                          !.rtt = rtt]
           una == IF g.ack - s.send_next = 0 THEN 0 ELSE Minus(ProcessAck(s, g).send_una, 0)
           a == IF AckOk(s, g) THEN [ProcessAck(s, g) EXCEPT !.send_una = una] ELSE s
<1>1. s \in SockType /\ SendOk(s, c)
  BY DEF Fine, SocketOk
<1>2. CASE AckOk(s, g)
  <2>1. s.tx_datalen = 0 /\ g.ack = s.send_next
    BY <1>1, <1>2, FieldsLemma, SegLemma DEF SendOk, AckOk
  <2>2. d = 0 /\ tx = 0 /\ una = 0
    BY <1>1, <2>1, FieldsLemma
  <2>3. rtt \in BOOLEAN
    BY <1>1 DEF SockType, SockOf
  <2>4. ProcessAck(s, g) = p
    BY <1>1, Zenon DEF ProcessAck, p, d, tx, una0, rtt, SockType, SockOf
  <2> HIDE DEF d, tx, una0, rtt, una
  <2>5. a = [p EXCEPT !.send_una = 0]
    BY <1>2, <2>2, <2>4
  <2>6. a = [s EXCEPT !.tx_datalen = 0, !.send_una = 0, !.send_next = s.send_next, !.rtt = rtt]
    BY <1>1, <2>1, <2>2, <2>5 DEF SockType, SockOf
  <2> HIDE DEF a, p
  <2>7. a \in SockType
    BY <1>1, <2>3, <2>6, FieldsLemma DEF SockType, SockOf
  <2>8. Alike(s, a) /\ a.out = s.out /\ a.again = s.again /\ a.send_una = 0 /\ a.tx_datalen = 0
    BY <1>1, <2>1, <2>6 DEF SockType, SockOf, Alike
  <2>9. Goes(s, c, a)
    BY <2>7, <2>8, AlikeGoes
  <2>10. QED
    BY <2>8, <2>9 DEF a, una
<1>3. CASE ~AckOk(s, g)
  <2>1. Goes(s, c, s) /\ Alike(s, s)
    BY GoesSelf DEF Alike
  <2>2. QED
    BY <1>3, <2>1
<1>4. QED
  BY <1>2, <1>3

(* What tcp_finwt1_state() does when the FIN is received, ... *)
LEMMA Finwt1FinGoes ==
  ASSUME NEW c, ContextOk(c), NEW s, Fine(s, c), s.threaded, s.state = "FINWT1",
         s.recv_next = c.u, NEW g \in SegType, SegmentOk(g, c), ~Has(g, "RST"),
         c.i + 1 <= g.ack
  PROVE  LET last == [s EXCEPT !.recv_next = @ + 1, !.flags = {"ACK"}, !.unhappy = FALSE,
                               !.timeout = TRUE]
             t == [last EXCEPT !.send_next = @ + 1, !.state = "TIMEWT"]
             u == [last EXCEPT !.state = "CLOSING"]
         IN  /\ g.ack >= s.send_next + 1 =>
                  Goes(s, c, Again(Send(t))) /\ Again(Send(t)).threaded
             /\ ~(g.ack >= s.send_next + 1) =>
                  Goes(s, c, Again(Send(u))) /\ Again(Send(u)).threaded
<1> DEFINE last == [s EXCEPT !.recv_next = @ + 1, !.flags = {"ACK"}, !.unhappy = FALSE,
                             !.timeout = TRUE]
           t == [last EXCEPT !.send_next = @ + 1, !.state = "TIMEWT"]
           u == [last EXCEPT !.state = "CLOSING"]
<1>1. /\ s \in SockType /\ SocketOk(s, c)
      /\ SendOk(s, c) /\ ReceiveOk(s, c) /\ AckedOk(s, c) /\ EofOk(s, c)
  BY DEF Fine, SocketOk
<1>2. s.recv_next \in Nat /\ s.send_next \in Nat /\ g.ack \in Nat /\ g.ack <= c.m
      /\ s.tx_datalen = 0 /\ s.send_una = 0 /\ ~s.got_fin
  BY <1>1, FieldsLemma, SegLemma DEF SendOk, SegmentOk, EofOk
<1>3. /\ c.i \in Nat /\ c.t \in Nat /\ c.j \in Nat /\ c.u \in Nat /\ c.m \in Nat
      /\ c.i + 1 <= c.t /\ c.j + 1 <= c.u
  BY ContextLemma
<1>4. \/ s.send_next = c.t
      \/ s.send_next = c.i /\ c.t = c.i + 1
  BY <1>1 DEF SendOk
<1>5. ASSUME NEW r \in SockType, r.out = s.out, r.port = s.port, r.threaded = s.threaded,
             r.recv_next = c.u + 1, r.flags = {"ACK"}, r.got_fin = s.got_fin,
             r.tx_datalen = 0, r.send_una = 0, r.state \in {"TIMEWT", "CLOSING"},
             SendOk(r, c), AckedOk(r, c), c.t <= r.send_next, c.i + 1 <= r.send_next
      PROVE  Goes(s, c, Again(Send(r))) /\ Again(Send(r)).threaded
  <2>1. SocketOk(r, c)
    <3>1. FlagsOk(r) /\ ReceiveOk(r, c) /\ EofOk(r, c)
      BY <1>2, <1>3, <1>5 DEF FlagsOk, ReceiveOk, EofOk, Opening
    <3>2. QED
      BY <1>1, <1>5, <3>1 DEF SocketOk
  <2>2. Goes(s, c, r)
    <3>1. s.recv_next <= r.recv_next
      BY <1>3, <1>5
    <3>2. r.state \in Closing
      BY <1>5 DEF Closing
    <3>3. QED
      BY <1>5, <2>1, <3>1, <3>2, UpdateGoes
  <2>3. Goes(r, c, Send(r)) /\ Alike(r, Send(r)) /\ Send(r) \in SockType
    BY <1>5, <2>2, SendGoes DEF Goes, Fine
  <2>4. Goes(Send(r), c, Again(Send(r)))
    BY <2>3, AgainGoes DEF Again, Goes
  <2>5. Again(Send(r)).threaded
    BY <1>5, <2>3, AgainLemma DEF Alike, Same
  <2>6. QED
    BY <1>1, <1>5, <2>2, <2>3, <2>4, <2>5, GoesOn
<1>6. /\ last \in SockType /\ last.recv_next = c.u + 1 /\ last.flags = {"ACK"}
      /\ last.out = s.out /\ last.port = s.port /\ last.threaded = s.threaded
      /\ last.got_fin = s.got_fin /\ last.tx_datalen = 0 /\ last.send_una = 0
      /\ last.send_next = s.send_next
  <2>1. s.recv_next + 1 \in Nat
    BY <1>2
  <2>2. last \in SockType
    BY <1>1, <2>1 DEF SockType, SockOf, Flags
  <2>3. QED
    BY <1>1, <1>2, <2>2 DEF SockType, SockOf
<1> HIDE DEF last
<1>7. ASSUME g.ack >= s.send_next + 1
      PROVE  Goes(s, c, Again(Send(t))) /\ Again(Send(t)).threaded
  <2>1. s.send_next + 1 \in Nat
    BY <1>2
  <2>2. t \in SockType
    BY <1>6, <2>1 DEF SockType, SockOf, States
  <2>3. /\ t.recv_next = c.u + 1 /\ t.flags = {"ACK"} /\ t.state = "TIMEWT"
        /\ t.out = s.out /\ t.port = s.port /\ t.threaded = s.threaded
        /\ t.got_fin = s.got_fin /\ t.tx_datalen = 0 /\ t.send_una = 0
        /\ t.send_next = s.send_next + 1
    BY <1>6 DEF SockType, SockOf
  <2> HIDE DEF t
  <2>4. SendOk(t, c)
    BY <1>3, <1>4, <2>3 DEF SendOk, Opening
  <2>5. AckedOk(t, c)
    BY <1>2, <1>3, <1>7, <2>3 DEF AckedOk
  <2>6. c.t <= t.send_next /\ c.i + 1 <= t.send_next
    BY <1>3, <1>4, <2>3
  <2>7. QED
    BY <1>5, <2>2, <2>3, <2>4, <2>5, <2>6
<1>8. ASSUME ~(g.ack >= s.send_next + 1)
      PROVE  Goes(s, c, Again(Send(u))) /\ Again(Send(u)).threaded
  <2>1. u \in SockType
    BY <1>6 DEF SockType, SockOf, States
  <2>2. /\ u.recv_next = c.u + 1 /\ u.flags = {"ACK"} /\ u.state = "CLOSING"
        /\ u.out = s.out /\ u.port = s.port /\ u.threaded = s.threaded
        /\ u.got_fin = s.got_fin /\ u.tx_datalen = 0 /\ u.send_una = 0
        /\ u.send_next = s.send_next
    BY <1>6 DEF SockType, SockOf
  <2> HIDE DEF u
  <2>3. s.send_next = c.t
    BY <1>2, <1>3, <1>4, <1>8
  <2>4. SendOk(u, c) /\ AckedOk(u, c)
    BY <1>1, <1>3, <2>2, <2>3 DEF SendOk, AckedOk, Opening
  <2>5. c.t <= u.send_next /\ c.i + 1 <= u.send_next
    BY <1>3, <2>2, <2>3
  <2>6. QED
    BY <1>5, <2>1, <2>2, <2>4, <2>5
<1>9. QED
  BY <1>7, <1>8 DEF last

(* ... and when its own FIN is acknowledged.  A segment that acknowledges   *)
(* it comes after all of the peer's data (the last conjunct of SegmentOk),  *)
(* unless the FIN was sent before the SYN was acknowledged.                 *)
LEMMA Finwt1AckedGoes ==
  ASSUME NEW c, ContextOk(c), NEW s, Fine(s, c), s.threaded, s.state = "FINWT1",
         NEW g \in SegType, g.ack <= c.m, g.ack = s.send_next + 1,
         g.ack > c.t => c.u <= s.recv_next
  PROVE  LET v == [s EXCEPT !.send_next = @ + 1, !.state = "FINWT2", !.unhappy = FALSE,
                            !.timeout = TRUE]
         IN  Goes(s, c, Again(v)) /\ Again(v).threaded
<1> DEFINE v == [s EXCEPT !.send_next = @ + 1, !.state = "FINWT2", !.unhappy = FALSE,
                          !.timeout = TRUE]
<1>1. /\ s \in SockType /\ SocketOk(s, c) /\ FlagsOk(s)
      /\ SendOk(s, c) /\ ReceiveOk(s, c) /\ AckedOk(s, c) /\ EofOk(s, c)
  BY DEF Fine, SocketOk
<1>2. s.recv_next \in Nat /\ s.send_next \in Nat /\ s.tx_datalen = 0 /\ s.send_una <= 0
  BY <1>1, FieldsLemma DEF SendOk
<1>3. /\ c.i \in Nat /\ c.t \in Nat /\ c.j \in Nat /\ c.u \in Nat /\ c.m \in Nat
      /\ c.i + 1 <= c.t /\ c.j + 1 <= c.u
  BY ContextLemma
<1>4. \/ s.send_next = c.t
      \/ s.send_next = c.i /\ c.t = c.i + 1
  BY <1>1 DEF SendOk
<1>5. v \in SockType
  <2>1. s.send_next + 1 \in Nat
    BY <1>2
  <2>2. QED
    BY <1>1, <2>1 DEF SockType, SockOf, States
<1>6. /\ v.state = "FINWT2" /\ v.send_next = s.send_next + 1 /\ v.flags = s.flags
      /\ v.out = s.out /\ v.port = s.port /\ v.threaded = s.threaded
      /\ v.got_fin = s.got_fin /\ v.tx_datalen = s.tx_datalen /\ v.send_una = s.send_una
      /\ v.recv_next = s.recv_next /\ v.missed = s.missed
  BY <1>1 DEF SockType, SockOf
<1> HIDE DEF v
<1>7. SocketOk(v, c)
  <2>1. FlagsOk(v)
    BY <1>1, <1>6 DEF FlagsOk
  <2>2. SendOk(v, c)
    BY <1>2, <1>3, <1>4, <1>6 DEF SendOk, Opening
  <2>3. ReceiveOk(v, c)
    BY <1>1, <1>6 DEF ReceiveOk, Opening
  <2>4. AckedOk(v, c)
    BY <1>6 DEF AckedOk
  <2>5. EofOk(v, c)
    <3>1. v.send_next # c.i + 1 => g.ack > c.t
      BY <1>2, <1>3, <1>4, <1>6
    <3>2. ~v.got_fin
      BY <1>1, <1>6 DEF EofOk
    <3>3. QED
      BY <1>6, <3>1, <3>2 DEF EofOk, Opening
  <2>6. QED
    BY <1>1, <1>6, <2>1, <2>2, <2>3, <2>4, <2>5 DEF SocketOk
<1>8. Goes(s, c, v)
  BY <1>2, <1>5, <1>6, <1>7, UpdateGoes DEF Closing
<1>9. Goes(v, c, Again(v)) /\ Again(v).threaded
  BY <1>5, <1>6, <1>8, AgainGoes, AgainLemma DEF Again, Goes, Same
<1>10. QED
  BY <1>1, <1>5, <1>8, <1>9, GoesOn DEF v

LEMMA Finwt1ResetGoes ==
  ASSUME NEW c, ContextOk(c), NEW s, Fine(s, c), s.threaded, s.state = "FINWT1"
  PROVE  LET w == [s EXCEPT !.send_next = @ + 1, !.recv_next = @ + 1, !.flags = {"RST"},
                            !.unhappy = FALSE, !.karn = 0, !.tx_datalen = 0]
         IN  Goes(s, c, Unthread(Send(w))) /\ Send(w).again = s.again /\ Send(w) \in SockType
<1> DEFINE w == [s EXCEPT !.send_next = @ + 1, !.recv_next = @ + 1, !.flags = {"RST"},
                          !.unhappy = FALSE, !.karn = 0, !.tx_datalen = 0]
           x == Send(w)
           q == Unthread(x)
<1>1. s \in SockType /\ EofOk(s, c) /\ SentOk(s, c)
  BY DEF Fine, SocketOk
<1>2. w \in SockType
  <2>1. s.send_next + 1 \in Nat /\ s.recv_next + 1 \in Nat /\ 0 \in 0 .. 2
    BY <1>1, FieldsLemma
  <2>2. QED
    BY <1>1, <2>1 DEF SockType, SockOf, Flags
<1>3. /\ w.state = "FINWT1" /\ w.flags = {"RST"} /\ w.tx_datalen = 0
      /\ w.out = s.out /\ w.port = s.port /\ w.got_fin = s.got_fin
      /\ w.recv_next = s.recv_next + 1 /\ w.again = s.again
  BY <1>1 DEF SockType, SockOf
<1> HIDE DEF w
<1>4. SentOk(w, c) /\ s.recv_next <= w.recv_next
  BY <1>1, <1>2, <1>3, SentLemma, FieldsLemma
<1>5. SentOk(x, c) /\ x \in SockType /\ Same(w, x) /\ x.recv_next = w.recv_next
  BY <1>2, <1>3, <1>4, ResetSent
<1>6. x.again = w.again
  BY <1>2 DEF Send, SockType, SockOf
<1> HIDE DEF x
<1>7. x.state = "FINWT1" /\ ~x.got_fin
  BY <1>1, <1>3, <1>5 DEF Same, EofOk
<1>8. EofOk(x, c)
  BY <1>7 DEF EofOk
<1>9. Goes(x, c, q) /\ Fine(q, c)
  BY <1>5, <1>7, <1>8, UnthreadGoes
<1> HIDE DEF q
<1>10. Goes(s, c, q)
  <2>1. q.port = s.port /\ q.state \in Closing
    BY <1>3, <1>5, <1>7, <1>9 DEF Goes, Same, Closing
  <2>2. q \in SockType /\ x.recv_next <= q.recv_next
    BY <1>9 DEF Goes, Fine
  <2>3. s.recv_next <= q.recv_next
    BY <1>1, <1>2, <1>4, <1>5, <2>2, FieldsLemma
  <2>4. QED
    BY <1>9, <2>1, <2>3 DEF Goes
<1>11. QED
  BY <1>3, <1>5, <1>6, <1>10 DEF q, x, w

LEMMA Finwt1Goes ==
  ASSUME NEW c, ContextOk(c), NEW s, Fine(s, c), s.threaded, s.state = "FINWT1", ~s.again,
         NEW g \in SegType, SegmentOk(g, c), ~InWindowReset(s, g), NEW p
  PROVE  LET r == Finwt1State(s, g, p) IN Goes(s, c, r) /\ (r.again => r.threaded)
<1> DEFINE una == IF g.ack - s.send_next = 0 THEN 0 ELSE Minus(ProcessAck(s, g).send_una, 0)
           a == IF AckOk(s, g) THEN [ProcessAck(s, g) EXCEPT !.send_una = una] ELSE s
           d == ProcessData(a, g)
           fin == FinOf(a, g) /\ Has(g, "ACK")
           last == [d EXCEPT !.recv_next = @ + 1, !.flags = {"ACK"}, !.unhappy = FALSE,
                             !.timeout = TRUE]
           t == [last EXCEPT !.send_next = @ + 1, !.state = "TIMEWT"]
           u == [last EXCEPT !.state = "CLOSING"]
           v == [d EXCEPT !.send_next = @ + 1, !.state = "FINWT2", !.unhappy = FALSE,
                          !.timeout = TRUE]
           w == [d EXCEPT !.send_next = @ + 1, !.recv_next = @ + 1, !.flags = {"RST"},
                          !.unhappy = FALSE, !.karn = 0, !.tx_datalen = 0]
           R == Again(Send(t))
           S == Again(Send(u))
           T == Unthread(Send(w))
           U == Again(v)
           V == Again(d)
           W == Unthread(d)
           r == Finwt1State(s, g, p)
<1>1. s \in SockType
  BY DEF Fine
<1>2. Goes(s, c, a) /\ Alike(s, a) /\ a.again = s.again
  BY Finwt1AckGoes
<1> HIDE DEF a
<1>3. Fine(a, c) /\ a \in SockType /\ a.threaded /\ a.state = "FINWT1"
      /\ a.recv_next = s.recv_next /\ a.send_next = s.send_next
  BY <1>2 DEF Goes, Fine, Alike
<1>4. Goes(a, c, d) /\ DataTaken(a, g, d) /\ d.recv_next <= c.u
  BY <1>3, DataGoes
<1>5. d.again = a.again
  BY <1>3 DEF ProcessData, SockType, SockOf
<1> HIDE DEF d
<1>6. Fine(d, c) /\ d \in SockType /\ d.threaded /\ d.state = "FINWT1"
      /\ d.send_next = s.send_next /\ ~d.again
  BY <1>2, <1>3, <1>4, <1>5 DEF Goes, Fine, DataTaken, Same
<1>7. Goes(s, c, d)
  BY <1>1, <1>2, <1>4, GoesOn
<1>8. ASSUME NEW q, Goes(d, c, q)
      PROVE  Goes(s, c, q)
  BY <1>1, <1>7, <1>8, GoesOn
<1>9. CASE d.missed = {} /\ fin /\ g.seq = d.recv_next
  <2>1. d.recv_next = c.u /\ ~Has(g, "RST") /\ c.i + 1 <= g.ack
    <3>1. c.j + 1 <= a.recv_next
      BY <1>3 DEF Fine, SocketOk, ReceiveOk
    <3>2. g.seq <= d.recv_next
      BY <1>9, SegLemma
    <3>3. QED
      BY <1>3, <1>4, <1>9, <3>1, <3>2, FinLemma
  <2>2. /\ g.ack >= d.send_next + 1 => Goes(d, c, R) /\ R.threaded
        /\ ~(g.ack >= d.send_next + 1) => Goes(d, c, S) /\ S.threaded
    BY <1>6, <2>1, Finwt1FinGoes
  <2>3. r = IF g.ack >= d.send_next + 1 THEN R ELSE S
    BY <1>9, Zenon DEF Finwt1State, r, R, S, t, u, last, fin, d, a, una
  <2>4. QED
    BY <1>8, <2>2, <2>3
<1>10. Goes(s, c, V) /\ V.threaded
  BY <1>6, <1>8, AgainGoes, AgainLemma DEF Again, Same
<1>11. Goes(s, c, W) /\ W.again = FALSE
  <2>1. SentOk(d, c) /\ EofOk(d, c)
    BY <1>6 DEF Fine, SocketOk
  <2>2. Goes(d, c, W)
    BY <1>6, <2>1, UnthreadGoes
  <2>3. W.again = FALSE
    BY <1>6 DEF Unthread, SockType, SockOf
  <2>4. QED
    BY <1>8, <2>2, <2>3
<1>12. Goes(s, c, T) /\ T.again = FALSE
  <2>1. Goes(d, c, T) /\ Send(w).again = d.again /\ Send(w) \in SockType
    BY <1>6, Finwt1ResetGoes
  <2> DEFINE x == Send(w)
  <2> HIDE DEF x
  <2>2. x.again = FALSE /\ x \in SockType
    BY <1>6, <2>1 DEF x, SockType, SockOf
  <2>3. Unthread(x).again = FALSE
    BY <2>2 DEF Unthread, SockType, SockOf
  <2>4. QED
    BY <1>8, <2>1, <2>3 DEF x
<1>13. ASSUME Has(g, "ACK"), g.ack = d.send_next + 1, g.seq = d.recv_next,
              ~(d.missed = {} /\ fin /\ g.seq = d.recv_next)
       PROVE  Goes(s, c, U) /\ U.threaded
  <2>1. /\ g.seq \in Nat /\ g.len \in Nat /\ g.ack \in Nat /\ d.recv_next \in Nat
        /\ s.recv_next \in Nat /\ Window \in Nat
    BY <1>1, <1>6, SegLemma, FieldsLemma, TcpConnAssumption
  <2>2. ~Has(g, "RST")
    <3> SUFFICES ASSUME Has(g, "RST") PROVE FALSE
      OBVIOUS
    <3>1. ~HasData(g)
      BY DEF HasData
    <3>2. g.seq = s.recv_next
      BY <1>3, <1>4, <1>13, <3>1 DEF DataTaken
    <3>3. QED
      BY <2>1, <3>2 DEF InWindowReset
  <2>3. g.ack <= c.m
    BY <2>2 DEF SegmentOk
  <2>4. g.ack > c.t => c.u <= d.recv_next
    <3> SUFFICES ASSUME g.ack > c.t PROVE c.u <= d.recv_next
      OBVIOUS
    <3>1. c.u <= g.seq + g.len
      BY <2>2 DEF SegmentOk
    <3>2. CASE g.len = 0
      BY <1>13, <2>1, <3>1, <3>2, ContextLemma
    <3>3. CASE g.len # 0
      <4>1. HasData(g)
        BY <2>1, <2>2, <3>3 DEF HasData, SegmentOk
      <4>2. CASE OutOfOrder(a, g)
        BY <1>3, <1>4, <1>13, <2>1, <4>2, FieldsLemma DEF DataTaken, OutOfOrder
      <4>3. CASE ~OutOfOrder(a, g)
        BY <1>4, <2>1, <3>1, <4>1, <4>3, ContextLemma DEF DataTaken
      <4>4. QED
        BY <4>2, <4>3
    <3>4. QED
      BY <3>2, <3>3
  <2>5. Goes(d, c, U) /\ U.threaded
    BY <1>6, <1>13, <2>3, <2>4, Finwt1AckedGoes
  <2>6. QED
    BY <1>8, <2>5
<1>14. CASE ~(d.missed = {} /\ fin /\ g.seq = d.recv_next)
  <2>1. \/ r \in {T, V, W}
        \/ Has(g, "ACK") /\ g.ack = d.send_next + 1 /\ g.seq = d.recv_next /\ r = U
    <3> USE <1>14 DEF r, T, U, V, W, w, v, fin
    <3>1. CASE ~(d.missed = {} /\ fin) /\ Has(g, "ACK") /\ g.ack = d.send_next + 1
      <4>1. CASE g.seq = d.recv_next /\ d.tx_datalen = 0
        BY <3>1, <4>1 DEF Finwt1State, una, a, d
      <4>2. CASE ~(g.seq = d.recv_next /\ d.tx_datalen = 0) /\ g.seq = d.recv_next + 1
        BY <3>1, <4>2 DEF Finwt1State, una, a, d
      <4>3. CASE ~(g.seq = d.recv_next /\ d.tx_datalen = 0) /\ g.seq # d.recv_next + 1
        BY <3>1, <4>3 DEF Finwt1State, una, a, d
      <4>4. QED
        BY <4>1, <4>2, <4>3
    <3>2. CASE ~(~(d.missed = {} /\ fin) /\ Has(g, "ACK") /\ g.ack = d.send_next + 1)
      BY <3>2 DEF Finwt1State, una, a, d
    <3>3. QED
      BY <3>1, <3>2
  <2> HIDE DEF T, U, V, W
  <2>2. QED
    BY <1>10, <1>11, <1>12, <1>13, <1>14, <2>1
<1>15. QED
  BY <1>9, <1>14

LEMMA Finwt2Goes ==
  ASSUME NEW c, ContextOk(c), NEW s, Fine(s, c), s.threaded, s.state = "FINWT2",
         NEW g \in SegType, SegmentOk(g, c)
  PROVE  LET r == Finwt2State(s, g) IN Goes(s, c, r) /\ r.threaded
<1> DEFINE d == ProcessData(s, g)
           x == [d EXCEPT !.got_fin = TRUE]
           f == IF FinOf(s, g) THEN x ELSE d
           t == [f EXCEPT !.recv_next = @ + 1, !.flags = {"ACK"}, !.unhappy = FALSE,
                          !.state = "TIMEWT", !.timeout = TRUE]
           r == Finwt2State(s, g)
<1>1. s \in SockType
  BY DEF Fine
<1>2. Goes(s, c, d) /\ DataTaken(s, g, d) /\ d.recv_next <= c.u
  BY DataGoes
<1> HIDE DEF d
<1>3. Fine(d, c) /\ d \in SockType /\ d.threaded /\ d.state = "FINWT2"
  BY <1>2 DEF Goes, DataTaken, Same
<1>4. /\ SocketOk(d, c) /\ FlagsOk(d)
      /\ SendOk(d, c) /\ ReceiveOk(d, c) /\ AckedOk(d, c) /\ EofOk(d, c)
  BY <1>3 DEF Fine, SocketOk
<1>5. Goes(d, c, x) /\ x.threaded /\ x.state = "FINWT2"
  <2>1. x \in SockType
    BY <1>3 DEF SockType, SockOf
  <2>2. /\ x.state = d.state /\ x.threaded = d.threaded /\ x.port = d.port
        /\ x.flags = d.flags /\ x.send_next = d.send_next /\ x.send_una = d.send_una
        /\ x.tx_datalen = d.tx_datalen /\ x.recv_next = d.recv_next
        /\ x.missed = d.missed /\ x.out = d.out
    BY <1>3 DEF SockType, SockOf
  <2> HIDE DEF x
  <2>3. SocketOk(x, c)
    <3>1. FlagsOk(x) /\ SendOk(x, c) /\ AckedOk(x, c)
      BY <1>3, <1>4, <2>2 DEF FlagsOk, SendOk, AckedOk, Opening
    <3>2. ReceiveOk(x, c) /\ EofOk(x, c)
      BY <1>3, <1>4, <2>2 DEF ReceiveOk, EofOk, Opening
    <3>3. QED
      BY <1>3, <1>4, <2>2, <3>1, <3>2 DEF SocketOk
  <2>4. QED
    BY <1>3, <2>1, <2>2, <2>3, UpdateGoes, FieldsLemma
<1>6. Goes(d, c, f) /\ f.threaded /\ f.state = "FINWT2" /\ f \in SockType /\ Fine(f, c)
  <2>1. Goes(d, c, d)
    BY <1>3, GoesSelf
  <2>2. f \in {d, x}
    OBVIOUS
  <2> HIDE DEF x, f
  <2>3. Goes(d, c, f) /\ f.threaded /\ f.state = "FINWT2"
    BY <1>3, <1>5, <2>1, <2>2
  <2>4. QED
    BY <2>3 DEF Goes, Fine
<1> HIDE DEF f, x
<1>7. /\ SocketOk(f, c)
      /\ SendOk(f, c) /\ ReceiveOk(f, c) /\ AckedOk(f, c) /\ EofOk(f, c)
  BY <1>6 DEF Fine, SocketOk
<1>8. Goes(f, c, Send(t)) /\ Send(t).threaded
  <2>1. f.recv_next + 1 \in Nat /\ f.recv_next \in Nat /\ f.send_next \in Nat
    BY <1>6, FieldsLemma
  <2>2. t \in SockType
    BY <1>6, <2>1 DEF SockType, SockOf, States, Flags
  <2>3. /\ t.state = "TIMEWT" /\ t.threaded = f.threaded /\ t.port = f.port
        /\ t.flags = {"ACK"} /\ t.send_next = f.send_next /\ t.send_una = f.send_una
        /\ t.tx_datalen = f.tx_datalen /\ t.recv_next = f.recv_next + 1
        /\ t.got_fin = f.got_fin /\ t.out = f.out
    BY <1>6 DEF SockType, SockOf
  <2> HIDE DEF t
  <2>4. FlagsOk(t)
    BY <2>3 DEF FlagsOk
  <2>5. SendOk(t, c)
    BY <1>6, <1>7, <2>3 DEF SendOk, Opening
  <2>6. ReceiveOk(t, c) /\ EofOk(t, c)
    BY <1>6, <1>7, <2>1, <2>3, ContextLemma DEF ReceiveOk, EofOk, Opening
  <2>7. SocketOk(t, c)
    BY <1>6, <1>7, <2>3, <2>4, <2>5, <2>6 DEF SocketOk, AckedOk
  <2>8. Goes(f, c, t)
    BY <1>6, <2>1, <2>2, <2>3, <2>7, UpdateGoes DEF Closing
  <2>9. Goes(t, c, Send(t)) /\ Send(t).threaded
    BY <1>6, <2>3, <2>8, SendGoes DEF Goes, Alike
  <2>10. QED
    BY <1>6, <2>2, <2>8, <2>9, GoesOn
<1> HIDE DEF t
<1>9. ASSUME NEW q, Fine(q, c), q.threaded
      PROVE  Goes(q, c, Again(q)) /\ Again(q).threaded
  BY <1>9, AgainGoes, AgainLemma DEF Again, Same, Fine
<1>10. r \in {Again(d), Send(t), Again(f)}
  BY Zenon DEF Finwt2State, r, t, f, x, d
<1> HIDE DEF r
<1>11. Goes(s, c, f)
  BY <1>1, <1>2, <1>6, GoesOn
<1>12. Goes(s, c, Again(d)) /\ Goes(s, c, Again(f)) /\ Goes(s, c, Send(t))
  BY <1>1, <1>2, <1>3, <1>6, <1>8, <1>9, <1>11, GoesOn
<1>13. r.threaded /\ Goes(s, c, r)
  BY <1>3, <1>6, <1>8, <1>9, <1>10, <1>12
<1>14. QED
  BY <1>13 DEF r

LEMMA ClosingGoes ==
  ASSUME NEW c, ContextOk(c), NEW s, Fine(s, c), s.threaded, s.state = "CLOSING",
         NEW g \in SegType, SegmentOk(g, c), ~InWindowReset(s, g)
  PROVE  LET r == ClosingState(s, g) IN Goes(s, c, r) /\ r.threaded
<1> DEFINE t == [s EXCEPT !.send_next = @ + 1, !.state = "TIMEWT", !.unhappy = FALSE,
                          !.timeout = TRUE]
<1>1. /\ s \in SockType /\ SocketOk(s, c) /\ FlagsOk(s)
      /\ SendOk(s, c) /\ ReceiveOk(s, c) /\ AckedOk(s, c) /\ EofOk(s, c)
  BY DEF Fine, SocketOk
<1>2. ASSUME NEW q, Fine(q, c), q.threaded
      PROVE  Goes(q, c, Again(q)) /\ Again(q).threaded
  BY <1>2, AgainGoes, AgainLemma DEF Again, Same, Fine
<1>3. CASE Has(g, "ACK") /\ ~Has(g, "FIN") /\ g.ack > s.send_next /\ g.seq = s.recv_next
  <2>1. s.send_next \in Nat /\ s.recv_next \in Nat /\ g.ack \in Nat /\ s.tx_datalen = 0
        /\ s.send_next = c.t
    BY <1>1, FieldsLemma, SegLemma DEF SendOk
  <2>2. g.ack <= c.m
    BY <1>3, <2>1, TcpConnAssumption DEF SegmentOk, InWindowReset
  <2>3. t \in SockType
    <3>1. s.send_next + 1 \in Nat
      BY <2>1
    <3>2. QED
      BY <1>1, <3>1 DEF SockType, SockOf, States
  <2>4. /\ t.state = "TIMEWT" /\ t.threaded = s.threaded /\ t.port = s.port
        /\ t.flags = s.flags /\ t.send_next = s.send_next + 1 /\ t.send_una = s.send_una
        /\ t.tx_datalen = s.tx_datalen /\ t.recv_next = s.recv_next
        /\ t.got_fin = s.got_fin /\ t.out = s.out
    BY <1>1 DEF SockType, SockOf
  <2>5. ClosingState(s, g) = Again(t)
    BY <1>3 DEF ClosingState
  <2> HIDE DEF t
  <2>6. FlagsOk(t)
    BY <1>1, <2>4 DEF FlagsOk
  <2>7. SendOk(t, c)
    BY <1>1, <2>1, <2>4 DEF SendOk, Opening
  <2>8. ReceiveOk(t, c)
    BY <1>1, <2>4 DEF ReceiveOk, Opening
  <2>9. AckedOk(t, c)
    BY <2>1, <2>2, <2>4, <1>3, ContextLemma DEF AckedOk
  <2>10. EofOk(t, c)
    BY <1>1, <2>1, <2>4, ContextLemma DEF EofOk, Opening
  <2>11. SocketOk(t, c)
    BY <1>1, <2>4, <2>6, <2>7, <2>8, <2>9, <2>10 DEF SocketOk
  <2>12. Goes(s, c, t)
    BY <2>1, <2>3, <2>4, <2>11, UpdateGoes DEF Closing
  <2>13. Goes(t, c, Again(t)) /\ Again(t).threaded
    BY <1>2, <2>4, <2>12 DEF Goes
  <2>14. QED
    BY <1>1, <2>3, <2>5, <2>12, <2>13, GoesOn
<1>4. CASE ~(Has(g, "ACK") /\ ~Has(g, "FIN") /\ g.ack > s.send_next /\ g.seq = s.recv_next)
  <2>1. ClosingState(s, g) = Again(s)
    BY <1>4 DEF ClosingState
  <2>2. QED
    BY <1>2, <2>1
<1>5. QED
  BY <1>3, <1>4

LEMMA LastackGoes ==
  ASSUME NEW c, ContextOk(c), NEW s, Fine(s, c), s.threaded, s.state = "LASTACK", ~s.again,
         NEW g \in SegType
  PROVE  LET r == LastackState(s, g) IN Goes(s, c, r) /\ (r.again => r.threaded)
<1> DEFINE t == [s EXCEPT !.got_fin = TRUE, !.flags = {"ACK", "FIN"}]
           u == [Send(t) EXCEPT !.unhappy = TRUE]
           v == [s EXCEPT !.state = "CLOSED", !.unhappy = FALSE]
           r == LastackState(s, g)
<1>1. /\ s \in SockType /\ SocketOk(s, c) /\ FlagsOk(s)
      /\ SendOk(s, c) /\ ReceiveOk(s, c) /\ AckedOk(s, c) /\ EofOk(s, c)
  BY DEF Fine, SocketOk
<1>2. s.flags = {"ACK", "FIN"} /\ s.got_fin = TRUE
  BY <1>1 DEF FlagsOk, ReceiveOk, SockType, SockOf
<1>3. t = s
  BY <1>1, <1>2 DEF SockType, SockOf
<1> HIDE DEF t
<1>4. Goes(s, c, u) /\ u.threaded
  <2> DEFINE x == Send(s)
  <2>1. Goes(s, c, x) /\ x.threaded /\ x \in SockType
    BY <1>1, SendGoes, SendLemma DEF Alike
  <2> HIDE DEF x
  <2>2. Goes(x, c, [x EXCEPT !.unhappy = TRUE])
    BY <2>1, UnhappyGoes DEF Goes
  <2>3. [x EXCEPT !.unhappy = TRUE].threaded
    BY <2>1, UnhappyLemma DEF Same
  <2>4. u = [x EXCEPT !.unhappy = TRUE]
    BY <1>3 DEF x
  <2>5. QED
    BY <1>1, <2>1, <2>2, <2>3, <2>4, GoesOn
<1>5. Goes(s, c, v) /\ v.threaded
  <2>1. v \in SockType
    BY <1>1 DEF SockType, SockOf, States
  <2>2. /\ v.state = "CLOSED" /\ v.threaded = s.threaded /\ v.port = s.port
        /\ v.flags = s.flags /\ v.send_next = s.send_next /\ v.send_una = s.send_una
        /\ v.tx_datalen = s.tx_datalen /\ v.recv_next = s.recv_next
        /\ v.got_fin = s.got_fin /\ v.out = s.out
    BY <1>1 DEF SockType, SockOf
  <2> HIDE DEF v
  <2>3. FlagsOk(v) /\ AckedOk(v, c)
    BY <1>1, <1>2, <2>2 DEF FlagsOk, AckedOk
  <2>4. SendOk(v, c)
    BY <1>1, <2>2 DEF SendOk, End, Opening
  <2>5. ReceiveOk(v, c)
    BY <1>1, <2>2 DEF ReceiveOk, Opening
  <2>6. EofOk(v, c)
    BY <1>1, <2>2, LastAckEof DEF EofOk, Opening
  <2>7. SocketOk(v, c)
    BY <1>1, <2>2, <2>3, <2>4, <2>5, <2>6 DEF SocketOk
  <2>8. QED
    BY <1>1, <2>1, <2>2, <2>7, UpdateGoes, FieldsLemma DEF Closing
<1>6. Goes(s, c, Again(s)) /\ Again(s).threaded
  BY <1>1, AgainGoes, AgainLemma DEF Again, Same
<1>7. r \in {u, v, Again(s)}
  BY Zenon DEF LastackState, r, u, t, v
<1> HIDE DEF u, v
<1>8. QED
  BY <1>4, <1>5, <1>6, <1>7

LEMMA TimewtGoes ==
  ASSUME NEW c, ContextOk(c), NEW s, Fine(s, c), s.threaded, s.state = "TIMEWT", NEW g
  PROVE  LET r == TimewtState(s, g) IN Goes(s, c, r) /\ r.threaded
<1> DEFINE t == [s EXCEPT !.flags = {"ACK"}, !.unhappy = FALSE, !.state = "CLOSED"]
           r == TimewtState(s, g)
<1>1. /\ s \in SockType /\ SocketOk(s, c) /\ FlagsOk(s)
      /\ SendOk(s, c) /\ ReceiveOk(s, c) /\ AckedOk(s, c) /\ EofOk(s, c)
  BY DEF Fine, SocketOk
<1>2. ASSUME NEW q, Fine(q, c), q.threaded
      PROVE  Goes(q, c, Again(q)) /\ Again(q).threaded
  BY <1>2, AgainGoes, AgainLemma DEF Again, Same, Fine
<1>3. t \in SockType
  BY <1>1 DEF SockType, SockOf, States, Flags
<1>4. /\ t.state = "CLOSED" /\ t.threaded = s.threaded /\ t.port = s.port
      /\ t.flags = {"ACK"} /\ t.send_next = s.send_next /\ t.send_una = s.send_una
      /\ t.tx_datalen = s.tx_datalen /\ t.recv_next = s.recv_next
      /\ t.got_fin = s.got_fin /\ t.out = s.out
  BY <1>1 DEF SockType, SockOf
<1> HIDE DEF t
<1>5. SocketOk(t, c)
  <2>1. FlagsOk(t) /\ AckedOk(t, c)
    BY <1>1, <1>4 DEF FlagsOk, AckedOk
  <2>2. SendOk(t, c)
    <3>1. s.send_next \in {c.t, c.t + 1} /\ s.tx_datalen = 0
      BY <1>1 DEF SendOk
    <3>2. c.i + 1 <= s.send_next
      BY <3>1, ContextLemma
    <3>3. End(t) = t.send_next
      BY <1>1, <1>4, <3>1, FieldsLemma DEF End
    <3>4. QED
      BY <1>1, <1>4, <3>1, <3>2, <3>3 DEF SendOk, Opening
  <2>3. ReceiveOk(t, c)
    BY <1>1, <1>4 DEF ReceiveOk, Opening
  <2>4. EofOk(t, c)
    BY <1>1, <1>4 DEF EofOk, Opening
  <2>5. QED
    BY <1>1, <1>4, <2>1, <2>2, <2>3, <2>4 DEF SocketOk
<1>6. Goes(s, c, t)
  BY <1>1, <1>3, <1>4, <1>5, UpdateGoes, FieldsLemma DEF Closing
<1>7. Goes(t, c, Send(t)) /\ Send(t).threaded /\ Fine(Send(t), c)
  BY <1>4, <1>6, SendGoes DEF Goes, Alike
<1>8. Goes(Send(t), c, Again(Send(t))) /\ Again(Send(t)).threaded
  BY <1>2, <1>7
<1>9. Goes(s, c, Again(Send(t)))
  BY <1>1, <1>3, <1>6, <1>7, <1>8, GoesOn DEF Fine
<1>10. Goes(s, c, Again(s)) /\ Again(s).threaded
  BY <1>2
<1>11. r \in {Again(Send(t)), Again(s)}
  BY Zenon DEF TimewtState, r, t
<1>12. QED
  BY <1>8, <1>9, <1>10, <1>11

(* The answer to a segment that does not fit. *)
LEMMA ResetForOk ==
  ASSUME NEW c, ContextOk(c), NEW g \in SegType, SegmentOk(g, c), NEW m \in Nat,
         NEW x \in ResetFor(g)
  PROVE  /\ SegmentOk(x, [p |-> Peer(c.p), i |-> c.j, t |-> c.u, j |-> c.i, u |-> c.t, m |-> m])
         /\ x.port = g.port /\ ~Has(x, "FIN")
<1> DEFINE a == [port |-> g.port, seq |-> 0, ack |-> g.seq + 1, flags |-> {"RST", "ACK"},
                 len |-> 0]
           b == [port |-> g.port, seq |-> g.ack, ack |-> 0, flags |-> {"RST"}, len |-> 0]
           d == [p |-> Peer(c.p), i |-> c.j, t |-> c.u, j |-> c.i, u |-> c.t, m |-> m]
<1>1. d.p = Peer(c.p) /\ d.i = c.j /\ d.m = m
  OBVIOUS
<1> HIDE DEF d
<1>2. CASE x = b
  <2>1. Has(x, "RST") /\ ~Has(x, "SYN") /\ ~Has(x, "FIN") /\ x.len = 0 /\ x.ack = 0
        /\ x.port = g.port
    BY <1>2 DEF Has
  <2>2. SegmentOk(x, d)
    BY <1>1, <2>1 DEF SegmentOk, HasData
  <2>3. QED
    BY <2>1, <2>2 DEF d
<1>3. CASE x = a /\ "ACK" \notin g.flags /\ "RST" \notin g.flags
  <2>1. Has(x, "RST") /\ ~Has(x, "SYN") /\ ~Has(x, "FIN") /\ x.len = 0 /\ x.ack = g.seq + 1
        /\ x.port = g.port
    BY <1>3 DEF Has
  <2>2. g.flags = {"SYN"} /\ c.p = "B"
    BY <1>3 DEF SegmentOk, Has
  <2>3. g.seq = c.j
    BY <2>2 DEF SegmentOk, Has
  <2>4. d.p = "A" /\ x.ack <= d.i + 1
    BY <1>1, <2>1, <2>2, <2>3, ContextLemma DEF Peer
  <2>5. SegmentOk(x, d)
    BY <2>1, <2>4 DEF SegmentOk, HasData
  <2>6. QED
    BY <2>1, <2>5 DEF d
<1>4. x = b \/ (x = a /\ "ACK" \notin g.flags /\ "RST" \notin g.flags)
  <2>1. CASE "RST" \in g.flags
    BY <2>1 DEF ResetFor
  <2>2. CASE "RST" \notin g.flags /\ "ACK" \notin g.flags
    BY <2>2 DEF ResetFor
  <2>3. CASE "RST" \notin g.flags /\ "ACK" \in g.flags
    BY <2>3 DEF ResetFor
  <2>4. QED
    BY <2>1, <2>2, <2>3
<1>5. QED
  BY <1>2, <1>3, <1>4

LEMMA OutGoes ==
  ASSUME NEW c, ContextOk(c), NEW s, Fine(s, c), NEW g \in SegType, SegmentOk(g, c),
         g.port = s.port
  PROVE  LET r == [s EXCEPT !.out = @ \cup ResetFor(g)] IN
         Goes(s, c, r) /\ r.threaded = s.threaded
<1> DEFINE out == s.out \cup ResetFor(g)
           r == [s EXCEPT !.out = out]
<1>1. s \in SockType /\ SocketOk(s, c) /\ SentOk(s, c)
  BY DEF Fine
<1>2. r \in SockType
  BY <1>1, OutLemma
<1> HIDE DEF out
<1>3. Alike(s, r) /\ r.out = out /\ r.send_una = s.send_una
  BY <1>1 DEF Alike, SockType, SockOf
<1> HIDE DEF r
<1>4. Toward(c, r) = Toward(c, s) /\ s.recv_next \in Nat
  BY <1>1, <1>3, FieldsLemma DEF Toward, Alike
<1>5. \A x \in ResetFor(g) :
        SegmentOk(x, Toward(c, s)) /\ x.port = s.port /\ ~Has(x, "FIN")
  BY <1>4, ResetForOk DEF Toward
<1>6. SentOk(r, c)
  BY <1>1, <1>3, <1>4, <1>5 DEF SentOk, Alike, out
<1>7. SocketOk(r, c)
  <2>1. s.threaded => r.send_una <= r.tx_datalen
    BY <1>1, <1>3 DEF SocketOk, SendOk, Alike
  <2>2. QED
    BY <1>1, <1>2, <1>3, <2>1, AlikeLemma
<1>8. Goes(s, c, r)
  BY <1>1, <1>2, <1>3, <1>4, <1>6, <1>7 DEF Goes, Fine, Alike
<1>9. QED
  BY <1>3, <1>8 DEF r, out, Alike

(* A socket in ESTAB that took the other's SYN, or the acknowledgement of   *)
(* its own.                                                                 *)
LEMMA OpenedGoes ==
  ASSUME NEW c, ContextOk(c), NEW s, Fine(s, c), s.threaded, s.state \in {"SYNSENT", "SYNREC"},
         c.i + 1 <= c.m, NEW t \in SockType,
         t.state = "ESTAB", t.threaded = s.threaded, t.port = s.port, t.flags = {"ACK"},
         t.send_next = c.i + 1, t.tx_datalen = s.tx_datalen, t.send_una = s.send_una,
         t.recv_next = c.j + 1, t.missed = s.missed, t.got_fin = s.got_fin, t.out = s.out
  PROVE  Goes(s, c, t)
<1>1. /\ s \in SockType /\ SocketOk(s, c)
      /\ SendOk(s, c) /\ ReceiveOk(s, c) /\ EofOk(s, c)
  BY DEF Fine, SocketOk
<1>2. /\ c.i \in Nat /\ c.t \in Nat /\ c.j \in Nat /\ c.u \in Nat /\ c.m \in Nat
      /\ c.j + 1 <= c.u
  BY ContextLemma
<1>3. s.tx_datalen = 0 /\ c.t = c.i + 1 /\ s.missed = {} /\ ~s.got_fin
      /\ s.send_una <= s.tx_datalen
  BY <1>1 DEF SendOk, ReceiveOk, EofOk, Opening
<1>4. FlagsOk(t) /\ AckedOk(t, c)
  BY <1>2 DEF FlagsOk, AckedOk
<1>5. SendOk(t, c)
  BY <1>2, <1>3 DEF SendOk, End, Opening
<1>6. ReceiveOk(t, c) /\ EofOk(t, c)
  BY <1>2, <1>3 DEF ReceiveOk, EofOk, Opening
<1>7. SocketOk(t, c)
  BY <1>1, <1>4, <1>5, <1>6 DEF SocketOk
<1>8. s.recv_next <= t.recv_next
  BY <1>1, <1>2 DEF ReceiveOk
<1>9. QED
  BY <1>7, <1>8, UpdateGoes DEF Closing

LEMMA SynsentGoes ==
  ASSUME NEW c, ContextOk(c), NEW s, Fine(s, c), s.threaded, s.state = "SYNSENT", ~s.again,
         NEW g \in SegType, SegmentOk(g, c), g.port = s.port, NEW soon, NEW iss
  PROVE  LET r == SynsentState(s, g, soon, iss) IN Goes(s, c, r) /\ (r.again => r.threaded)
<1> DEFINE more == s.tx_datalen > 0
           t == [s EXCEPT !.flags = {"ACK"}, !.timeout = TRUE]
           v == [t EXCEPT !.state = "ESTAB", !.send_next = @ + 1, !.recv_next = g.seq + 1,
                          !.unhappy = more]
           x == [s EXCEPT !.out = @ \cup ResetFor(g)]
           r == SynsentState(s, g, soon, iss)
<1>1. /\ s \in SockType /\ SocketOk(s, c) /\ SendOk(s, c) /\ c.p = "A"
  BY ContextLemma DEF Fine, SocketOk, Sides
<1>2. CASE ~Has(g, "SYN")
  <2>1. r = x
    BY <1>2 DEF SynsentState
  <2>2. Goes(s, c, x) /\ x.threaded
    BY OutGoes
  <2>3. QED
    BY <2>1, <2>2
<1>3. CASE Has(g, "SYN")
  <2>1. g.flags = {"SYN", "ACK"} /\ g.seq = c.j /\ g.ack = c.i + 1
    BY <1>1, <1>3 DEF SegmentOk
  <2>2. Has(g, "ACK") /\ ~Has(g, "RST")
    BY <2>1 DEF Has
  <2>3. g.ack = s.send_next + 1 /\ s.send_next = c.i
    BY <1>1, <2>1 DEF SendOk, Opening
  <2>4. c.i + 1 <= c.m
    BY <2>1, <2>2 DEF SegmentOk
  <2>5. r = Again(Send(v))
    BY <1>3, <2>2, <2>3 DEF SynsentState
  <2>6. /\ t \in SockType /\ t.send_next = c.i /\ t.recv_next = s.recv_next
        /\ t.threaded = s.threaded /\ t.port = s.port /\ t.flags = {"ACK"}
        /\ t.tx_datalen = s.tx_datalen /\ t.send_una = s.send_una
        /\ t.missed = s.missed /\ t.got_fin = s.got_fin /\ t.out = s.out
    BY <1>1, <2>3 DEF SockType, SockOf, Flags
  <2> HIDE DEF t
  <2>7. c.i + 1 \in Nat /\ c.j + 1 \in Nat /\ more \in BOOLEAN
    BY ContextLemma
  <2> HIDE DEF more
  <2>8. v = [t EXCEPT !.state = "ESTAB", !.send_next = c.i + 1, !.recv_next = c.j + 1,
                      !.unhappy = more]
    BY <2>1, <2>6
  <2> HIDE DEF v
  <2>9. v \in SockType
    BY <2>6, <2>7, <2>8 DEF SockType, SockOf, States
  <2>10. /\ v.state = "ESTAB" /\ v.send_next = c.i + 1 /\ v.recv_next = c.j + 1
         /\ v.threaded = s.threaded /\ v.port = s.port /\ v.flags = {"ACK"}
         /\ v.tx_datalen = s.tx_datalen /\ v.send_una = s.send_una
         /\ v.missed = s.missed /\ v.got_fin = s.got_fin /\ v.out = s.out
    BY <2>6, <2>8 DEF SockType, SockOf
  <2>11. Goes(s, c, v)
    BY <2>4, <2>9, <2>10, OpenedGoes
  <2>12. Goes(v, c, Send(v)) /\ Send(v).threaded /\ Send(v) \in SockType
    BY <2>10, <2>11, SendGoes DEF Goes, Fine, Alike
  <2>13. Goes(Send(v), c, Again(Send(v))) /\ Again(Send(v)).threaded
    BY <2>12, AgainGoes, AgainLemma DEF Again, Goes, Same
  <2>14. QED
    BY <1>1, <2>5, <2>9, <2>11, <2>12, <2>13, GoesOn
<1>4. QED
  BY <1>2, <1>3

LEMMA SynrecGoes ==
  ASSUME NEW c, ContextOk(c), NEW s, Fine(s, c), s.threaded, s.state = "SYNREC",
         NEW g \in SegType, SegmentOk(g, c)
  PROVE  LET r == SynrecState(s, g) IN Goes(s, c, r) /\ r.threaded
<1> DEFINE t == [s EXCEPT !.flags = {"SYN", "ACK"}, !.unhappy = TRUE]
           x == [Send(t) EXCEPT !.timeout = TRUE]
           v == [s EXCEPT !.send_next = @ + 1, !.flags = {"ACK"}, !.state = "ESTAB",
                          !.timeout = FALSE, !.unhappy = FALSE]
           r == SynrecState(s, g)
<1>1. /\ s \in SockType /\ SocketOk(s, c) /\ FlagsOk(s) /\ SendOk(s, c) /\ ReceiveOk(s, c)
      /\ c.p # "A"
  BY DEF Fine, SocketOk
<1>2. CASE Has(g, "SYN")
  <2>1. r = x
    BY <1>2, Zenon DEF SynrecState, r, x, t
  <2>2. t \in SockType /\ Alike(s, t) /\ t.out = s.out /\ t.send_una = s.send_una
    <3>1. t \in SockType
      BY <1>1 DEF SockType, SockOf, Flags
    <3>2. s.flags = {"SYN", "ACK"}
      BY <1>1 DEF FlagsOk
    <3>3. QED
      BY <1>1, <3>1, <3>2 DEF SockType, SockOf, Alike
  <2> HIDE DEF t
  <2>3. Goes(s, c, t)
    BY <1>1, <2>2, AlikeGoes DEF SendOk, Alike
  <2>4. Goes(t, c, Send(t)) /\ Alike(t, Send(t)) /\ Send(t) \in SockType
    BY <2>2, <2>3, SendGoes DEF Goes, Fine, Alike
  <2>5. x \in SockType
    BY <2>4 DEF SockType, SockOf
  <2>6. Alike(Send(t), x) /\ x.out = Send(t).out /\ x.send_una = Send(t).send_una
    BY <2>4 DEF SockType, SockOf, Alike
  <2>7. Send(t).threaded
    BY <2>2, <2>4 DEF Alike
  <2>8. x.send_una <= x.tx_datalen
    BY <2>4, <2>6, <2>7 DEF Goes, Fine, SocketOk, SendOk, Alike
  <2> HIDE DEF x
  <2>9. Goes(Send(t), c, x)
    BY <2>4, <2>5, <2>6, <2>8, AlikeGoes DEF Goes
  <2>10. x.threaded
    BY <2>6, <2>7 DEF Alike
  <2>11. QED
    BY <1>1, <2>1, <2>2, <2>3, <2>4, <2>9, <2>10, GoesOn
<1>3. CASE ~Has(g, "SYN") /\ Has(g, "ACK") /\ g.ack = s.send_next + 1
  <2>1. r = v
    BY <1>3, Zenon DEF SynrecState, r, v
  <2>2. s.send_next = c.i /\ s.recv_next = c.j + 1
    BY <1>1 DEF SendOk, ReceiveOk, Opening
  <2>3. c.i + 1 <= c.m
    BY <1>1, <1>3, <2>2 DEF SegmentOk
  <2>4. v \in SockType
    <3>1. s.send_next + 1 \in Nat
      BY <1>1, FieldsLemma
    <3>2. QED
      BY <1>1, <3>1 DEF SockType, SockOf, States, Flags
  <2>5. /\ v.state = "ESTAB" /\ v.send_next = c.i + 1 /\ v.recv_next = c.j + 1
        /\ v.threaded = s.threaded /\ v.port = s.port /\ v.flags = {"ACK"}
        /\ v.tx_datalen = s.tx_datalen /\ v.send_una = s.send_una
        /\ v.missed = s.missed /\ v.got_fin = s.got_fin /\ v.out = s.out
    BY <1>1, <2>2 DEF SockType, SockOf
  <2> HIDE DEF v
  <2>6. Goes(s, c, v)
    BY <2>3, <2>4, <2>5, OpenedGoes
  <2>7. QED
    BY <2>1, <2>5, <2>6
<1>4. CASE ~Has(g, "SYN") /\ ~(Has(g, "ACK") /\ g.ack = s.send_next + 1)
  <2>1. r = Again(s)
    BY <1>4, Zenon DEF SynrecState, r
  <2>2. QED
    BY <2>1, AsksAgain
<1>5. QED
  BY <1>2, <1>3, <1>4

LEMMA FsmGoes ==
  ASSUME NEW c, ContextOk(c), NEW s, Fine(s, c), s.threaded, ~s.again,
         NEW g \in SegType, SegmentOk(g, c), g.port = s.port, ~InWindowReset(s, g),
         NEW p, NEW soon, NEW iss
  PROVE  LET r == Fsm(s, g, p, soon, iss) IN Goes(s, c, r) /\ (r.again => r.threaded)
<1>1. s \in SockType /\ s.state \in States /\ s.state # "LISTEN"
  BY FieldsLemma DEF Fine, SocketOk
<1>2. CASE s.state = "RESOLVE"
  <2>1. Fsm(s, g, p, soon, iss) = Again(s)
    BY <1>2 DEF Fsm
  <2>2. QED
    BY <2>1, AsksAgain
<1>3. CASE s.state \in {"SYNSENT", "SYNREC"}
  <2>1. CASE s.state = "SYNSENT"
    BY <2>1, SynsentGoes DEF Fsm
  <2>2. CASE s.state = "SYNREC"
    BY <2>2, SynrecGoes DEF Fsm
  <2>3. QED
    BY <1>3, <2>1, <2>2
<1>4. CASE s.state = "ESTAB"
  <2>1. Fsm(s, g, p, soon, iss) = EstabState(s, g, soon)
    BY <1>4 DEF Fsm
  <2>2. QED
    BY <1>4, <2>1, EstabGoes
<1>5. CASE s.state = "ESTCL"
  <2>1. Fsm(s, g, p, soon, iss) = EstclState(s, g, soon)
    BY <1>5 DEF Fsm
  <2>2. QED
    BY <1>5, <2>1, EstclGoes
<1>6. CASE s.state = "FINWT1"
  <2>1. Fsm(s, g, p, soon, iss) = Finwt1State(s, g, p)
    BY <1>6 DEF Fsm
  <2>2. QED
    BY <1>6, <2>1, Finwt1Goes
<1>7. CASE s.state = "FINWT2"
  <2>1. Fsm(s, g, p, soon, iss) = Finwt2State(s, g)
    BY <1>7 DEF Fsm
  <2>2. QED
    BY <1>7, <2>1, Finwt2Goes
<1>8. CASE s.state = "CLOSING"
  <2>1. Fsm(s, g, p, soon, iss) = ClosingState(s, g)
    BY <1>8 DEF Fsm
  <2>2. QED
    BY <1>8, <2>1, ClosingGoes
<1>9. CASE s.state = "LASTACK"
  <2>1. Fsm(s, g, p, soon, iss) = LastackState(s, g)
    BY <1>9 DEF Fsm
  <2>2. QED
    BY <1>9, <2>1, LastackGoes
<1>10. CASE s.state = "TIMEWT"
  <2>1. Fsm(s, g, p, soon, iss) = TimewtState(s, g)
    BY <1>10 DEF Fsm
  <2>2. QED
    BY <1>10, <2>1, TimewtGoes
<1>11. CASE s.state = "CLOSED"
  <2>1. Fsm(s, g, p, soon, iss) = s
    BY <1>11 DEF Fsm
  <2>2. QED
    BY <2>1, GoesSelf
<1>12. QED
  BY <1>1, <1>2, <1>3, <1>4, <1>5, <1>6, <1>7, <1>8, <1>9, <1>10, <1>11 DEF States

(* _tcp_handler() for the socket of a connection; a reset takes the server  *)
(* back to LISTEN.                                                          *)
LEMMA HandleGoes ==
  ASSUME NEW c, ContextOk(c), NEW s, Fine(s, c), s.threaded, s.again = FALSE,
         NEW g \in SegType, SegmentOk(g, c), g.port = s.port,
         NEW soon, NEW iss
  PROVE  LET r == Handle(s, g, c.p, soon, iss) IN Goes(s, c, r) \/ r.state = "LISTEN"
<1> DEFINE t == [s EXCEPT !.karn = 0, !.rtt = TRUE]
           x == Fsm(t, g, c.p, soon, iss)
           y == SendSoon(x, soon)
           r == Handle(s, g, c.p, soon, iss)
<1>1. s \in SockType /\ SocketOk(s, c) /\ SentOk(s, c)
  BY DEF Fine
<1>2. CASE InWindowReset(s, g)
  <2> DEFINE z == [s EXCEPT !.missed = {}, !.tx_datalen = 0]
  <2>1. r = SockReset(s, c.p)
    BY <1>2 DEF Handle
  <2>2. z \in SockType
    BY <1>1, EmptyLemma DEF SockType, SockOf
  <2>3. /\ z.state = s.state /\ z.port = s.port /\ z.out = s.out /\ z.got_fin = s.got_fin
        /\ z.recv_next = s.recv_next /\ z.send_next = s.send_next
    BY <1>1 DEF SockType, SockOf
  <2> DEFINE l == [z EXCEPT !.state = "LISTEN", !.port = 0, !.unhappy = FALSE, !.rtt = FALSE,
                            !.timeout = FALSE, !.karn = 0, !.got_fin = FALSE]
  <2>4. l.state = "LISTEN"
    BY <2>2 DEF SockType, SockOf
  <2>5. CASE c.p = "B"
    <3>1. SockReset(s, c.p) = l
      BY <2>5, Zenon DEF SockReset, l, z
    <3> HIDE DEF l
    <3>2. QED
      BY <2>1, <2>4, <3>1
  <2>6. CASE c.p # "B"
    <3>1. SockReset(s, c.p) = Unthread(z)
      BY <2>6, Zenon DEF SockReset, z
    <3> HIDE DEF z
    <3>2. SentOk(z, c) /\ EofOk(z, c)
      <4>1. SentOk(z, c)
        BY <1>1, <2>2, <2>3, SentLemma, FieldsLemma
      <4>2. EofOk(z, c)
        BY <1>1, <2>3 DEF SocketOk, EofOk
      <4>3. QED
        BY <4>1, <4>2
    <3>3. z.state = "LASTACK" => c.u <= z.recv_next
      BY <1>1, <2>3, LastAckEof
    <3>4. Goes(z, c, Unthread(z))
      BY <2>2, <3>2, <3>3, UnthreadGoes
    <3>5. Goes(s, c, Unthread(z))
      BY <2>3, <3>4 DEF Goes
    <3>6. QED
      BY <2>1, <3>1, <3>5
  <2>7. QED
    BY <2>5, <2>6
<1>3. CASE ~InWindowReset(s, g)
  <2>1. t \in SockType
    <3>1. 0 \in 0 .. 2
      OBVIOUS
    <3>2. t = [s EXCEPT !.rtt = TRUE, !.karn = 0]
      BY <1>1 DEF SockType, SockOf
    <3> HIDE DEF t
    <3>3. QED
      BY <1>1, <3>1, <3>2, KarnLemma
  <2>2. Alike(s, t) /\ t.out = s.out /\ t.again = FALSE /\ t.send_una = s.send_una
    BY <1>1 DEF SockType, SockOf, Alike
  <2> HIDE DEF t
  <2>3. Goes(s, c, t)
    BY <1>1, <2>1, <2>2, AlikeGoes DEF SocketOk, SendOk, Alike
  <2>4. ~InWindowReset(t, g) /\ g.port = t.port /\ t.threaded
    BY <1>3, <2>2 DEF InWindowReset, Alike
  <2>5. Goes(t, c, x) /\ (x.again => x.threaded)
    BY <2>2, <2>3, <2>4, FsmGoes DEF Goes
  <2> HIDE DEF x
  <2>6. x.threaded => Goes(x, c, y)
    BY <2>5, SendSoonGoes DEF Goes
  <2>7. r = IF x.again /\ x.unhappy THEN y ELSE x
    BY <1>3, Zenon DEF Handle, r, y, x, t
  <2>8. Goes(s, c, x)
    BY <1>1, <2>3, <2>5, GoesOn
  <2>9. x.threaded => Goes(s, c, y)
    BY <1>1, <2>6, <2>8, GoesOn
  <2>10. QED
    BY <2>5, <2>7, <2>8, <2>9
<1>4. QED
  BY <1>2, <1>3
-----------------------------------------------------------------------------
(* The connection: both sockets, the segments under way, and that a side    *)
(* that has sent its FIN is closing.                                        *)
PairOk(s, c, segments, fins) ==
  /\ SocketOk(s, c)
  /\ \A g \in segments : g.port = s.port => SegmentOk(g, c)
  /\ s.port \in fins => s.state \in Closing

ConnOk == \A p \in Sides : PairOk(sock[p], Context(p), net[p], finSent[p])

(* Before the server takes its first SYN there is nothing but SYNs under    *)
(* way, and resets.                                                         *)
ToServer(g) ==
  /\ g.len = 0 /\ g.ack = 0 /\ ~Has(g, "FIN")
  /\ \/ g.flags = {"SYN"} /\ g.seq = Iss("A", g.port)
     \/ Has(g, "RST") /\ ~Has(g, "SYN")

ToClient(g) ==
  /\ Has(g, "RST") /\ ~Has(g, "SYN") /\ ~Has(g, "FIN")
  /\ g.ack <= Iss("A", g.port) + 1

EarlyClient(s) ==
  /\ s.state \in {"RESOLVE", "SYNSENT", "CLOSED"}
  /\ s.threaded => /\ s.state # "CLOSED" /\ s.flags = {"SYN"}
                   /\ s.send_next = Iss("A", opens["A"])
  /\ s.send_una = 0 /\ s.tx_datalen = 0 /\ s.recv_next = 0 /\ s.missed = {} /\ ~s.got_fin

EarlyServer(s) ==
  /\ s.state \in {"LISTEN", "CLOSED"}
  /\ s.threaded => /\ s.state = "LISTEN" /\ s.send_next = Iss("B", opens["B"])
                   /\ s.send_una = 0
  /\ s.missed = {} /\ ~s.got_fin

Before ==
  /\ EarlyClient(sock["A"]) /\ EarlyServer(sock["B"])
  /\ \A g \in net["A"] : g.port <= opens["A"] /\ ToClient(g)
  /\ \A g \in net["B"] : g.port <= opens["A"] /\ ToServer(g)
  /\ \A p \in Sides : wrote[p] = 0 /\ finSent[p] = {}

(* The client's port is the number of its connection.  A server that has    *)
(* taken the port of an earlier one never comes to the client's again.      *)
PortsOk ==
  /\ sock["A"].port = opens["A"] /\ sock["A"].state # "LISTEN"
  /\ sock["A"].threaded => opens["A"] # 0
  /\ ~relisten => sock["B"].port <= opens["A"]
  /\ sock["B"].port # 0 \/ sock["B"].threaded \/ relisten => opens["B"] >= 1

SeqInv ==
  /\ PortsOk
  /\ ~relisten /\ sock["B"].port = 0 => Before
  /\ ~relisten /\ Paired => ConnOk
-----------------------------------------------------------------------------
(* What the invariant of TcpConnProofs says of the sockets and histories. *)
LEMMA SockFacts ==
  ASSUME IInv, NEW p \in Sides
  PROVE  /\ SockInv(sock[p], wrote[p]) /\ sock[p].out = {} /\ sock[p].again = FALSE
         /\ sock[p].recv_next \in Nat /\ sock[p].port \in Nat
         /\ opens[p] \in Nat /\ wrote[p] \in Nat
         /\ sock[p].port # 0 => sock[p] \in SockType /\ sock[p].state # "LISTEN"
         /\ sock[p].port = 0 => Unbound(sock[p])
<1> USE TcpConnAssumption
<1>1. SockInv(sock[p], wrote[p]) /\ opens[p] \in Nat /\ wrote[p] \in Nat
  BY DEF IInv, HistoryInv
<1>2. Ports \subseteq Nat /\ 0 \notin Ports
  BY DEF Ports
<1>3. CASE Bound(sock[p], wrote[p])
  BY <1>1, <1>2, <1>3, FieldsLemma DEF SockInv, Bound
<1>4. CASE Unbound(sock[p])
  BY <1>1, <1>2, <1>4 DEF SockInv, Unbound, SockOf
<1>5. QED
  BY <1>1, <1>3, <1>4 DEF SockInv

LEMMA NetFacts ==
  ASSUME IInv, NEW p \in Sides, NEW g \in net[p]
  PROVE  g \in SegType /\ g.port \in Nat /\ g.port # 0
<1>1. g \in SegType
  BY DEF IInv, NetInv, Finite
<1>2. QED
  BY <1>1, TcpConnAssumption DEF SegType, Ports

LEMMA ContextFacts ==
  ASSUME IInv, NEW p \in Sides
  PROVE  /\ ContextOk(Context(p))
         /\ Context(p).p = p /\ Context(p).m = sock[Peer(p)].recv_next
         /\ Context(p).i = Iss(p, opens[p]) /\ Context(p).t = Iss(p, opens[p]) + 1 + wrote[p]
         /\ Context(p).j = Iss(Peer(p), opens[Peer(p)])
         /\ Context(p).u = Iss(Peer(p), opens[Peer(p)]) + 1 + wrote[Peer(p)]
         /\ Toward(Context(p), sock[p]) = Context(Peer(p))
<1> DEFINE q == Peer(p)
<1>1. q \in Sides /\ Peer(q) = p
  BY PeerLemma
<1>2. opens[p] \in Nat /\ opens[q] \in Nat /\ wrote[p] \in Nat /\ wrote[q] \in Nat
      /\ sock[q].recv_next \in Nat
  BY <1>1, SockFacts
<1>3. Iss(p, opens[p]) \in Nat /\ Iss(q, opens[q]) \in Nat
  BY <1>2 DEF Iss
<1>4. /\ Context(p).p = p /\ Context(p).m = sock[q].recv_next
      /\ Context(p).i = Iss(p, opens[p]) /\ Context(p).t = Iss(p, opens[p]) + 1 + wrote[p]
      /\ Context(p).j = Iss(q, opens[q]) /\ Context(p).u = Iss(q, opens[q]) + 1 + wrote[q]
  BY DEF Context
<1>5. ContextOk(Context(p))
  <2>1. Context(p) \in [p : Sides, i : Nat, t : Nat, j : Nat, u : Nat, m : Nat]
    BY <1>2, <1>3 DEF Context
  <2>2. QED
    BY <1>2, <1>3, <1>4, <2>1 DEF ContextOk
<1>6. Toward(Context(p), sock[p]) = Context(q)
  BY <1>1 DEF Toward, Context
<1>7. QED
  BY <1>4, <1>5, <1>6

(* Step() puts the socket back with nothing left to send. *)
LEMMA StepFields ==
  ASSUME IInv, NEW p \in Sides, NEW r, Step(p, r)
  PROVE  LET x == [r EXCEPT !.out = {}, !.again = FALSE] IN
         /\ DOMAIN sock' = Sides /\ sock'[p] = x /\ sock'[Peer(p)] = sock[Peer(p)]
         /\ finSent'[Peer(p)] = finSent[Peer(p)]
         /\ finSent'[p] = finSent[p] \cup {g.port : g \in {y \in r.out : Has(y, "FIN")}}
BY PeerLemma DEF Step, IInv, HistoryInv

LEMMA TransmitFields ==
  ASSUME NEW p \in Sides, NEW out,
         NEW base \in [Sides -> Finite(SegType)], \A q \in Sides : base[q] \subseteq net[q],
         Transmit(base, p, out)
  PROVE  net'[p] \subseteq net[p] /\ net'[Peer(p)] \subseteq net[Peer(p)] \cup out
<1>1. PICK kept \in SUBSET out : net' = [base EXCEPT ![Peer(p)] = @ \cup kept]
  BY Zenon DEF Transmit
<1>2. net'[p] = base[p] /\ net'[Peer(p)] = base[Peer(p)] \cup kept
  BY <1>1, PeerLemma
<1>3. QED
  BY <1>2, PeerLemma

LEMMA RestFields ==
  ASSUME NEW s, s \in SockType \/ s \in SockOf(Nat, {0})
  PROVE  LET r == [s EXCEPT !.out = {}, !.again = FALSE] IN
         /\ Alike(s, r) /\ r.send_una = s.send_una /\ r.out = {}
         /\ s \in SockType => r \in SockType
<1>1. {} \in Finite(SegType)
  BY EmptyLemma
<1>2. QED
  BY <1>1 DEF Alike, SockType, SockOf

(* The connection after a step of p that leaves its socket as r, in its new *)
(* context c.                                                               *)
LEMMA ConnStep ==
  ASSUME IInv, NEW p \in Sides, NEW r, NEW c, ContextOk(c), Fine(r, c),
         NEW base \in [Sides -> Finite(SegType)], \A q \in Sides : base[q] \subseteq net[q],
         Step(p, r), Transmit(base, p, r.out),
         c = [p |-> p, i |-> Iss(p, opens'[p]), t |-> Iss(p, opens'[p]) + 1 + wrote'[p],
              j |-> Iss(Peer(p), opens'[Peer(p)]),
              u |-> Iss(Peer(p), opens'[Peer(p)]) + 1 + wrote'[Peer(p)],
              m |-> sock[Peer(p)].recv_next],
         sock[Peer(p)].port = r.port,
         SocketOk(sock[Peer(p)], Toward(c, r)),
         \A g \in net[Peer(p)] : g.port = r.port => SegmentOk(g, Toward(c, r)),
         \A g \in net[p] : g.port = r.port => SegmentOk(g, c),
         r.port \in finSent[p] => r.state \in Closing,
         r.port \in finSent[Peer(p)] => sock[Peer(p)].state \in Closing
  PROVE  ConnOk'
<1> DEFINE q == Peer(p)
           x == [r EXCEPT !.out = {}, !.again = FALSE]
<1>1. q \in Sides /\ Peer(q) = p /\ p # q /\ \A z \in Sides : z = p \/ z = q
  BY PeerLemma
<1>2. sock'[p] = x /\ sock'[q] = sock[q] /\ finSent'[q] = finSent[q]
      /\ finSent'[p] = finSent[p] \cup {g.port : g \in {y \in r.out : Has(y, "FIN")}}
  BY StepFields
<1>3. r \in SockType /\ SocketOk(r, c) /\ SentOk(r, c)
  BY DEF Fine
<1>4. x \in SockType /\ Alike(r, x) /\ x.send_una = r.send_una
  BY <1>3, RestFields
<1> HIDE DEF x, q
<1>5. SocketOk(x, c)
  <2>1. r.threaded => x.send_una <= x.tx_datalen
    BY <1>3, <1>4 DEF SocketOk, SendOk, Alike
  <2>2. QED
    BY <1>3, <1>4, <2>1, AlikeLemma
<1>6. net'[p] \subseteq net[p] /\ net'[q] \subseteq net[q] \cup r.out
  BY TransmitFields DEF q
<1>7. Context(p)' = c
  BY <1>2 DEF Context, q
<1>8. Context(q)' = Toward(c, r)
  <2>1. x.recv_next = r.recv_next
    BY <1>4 DEF Alike
  <2>2. QED
    BY <1>1, <1>2, <2>1 DEF Context, Toward, q
<1>9. x.port = r.port /\ x.state = r.state
  BY <1>4 DEF Alike
<1>10. PairOk(sock'[p], Context(p)', net'[p], finSent'[p])
  <2>1. x.port \in finSent'[p] => x.state \in Closing
    BY <1>2, <1>3, <1>9 DEF SentOk
  <2>2. QED
    BY <1>2, <1>5, <1>6, <1>7, <1>9, <2>1 DEF PairOk
<1>11. PairOk(sock'[q], Context(q)', net'[q], finSent'[q])
  <2>1. \A g \in net'[q] : g.port = r.port => SegmentOk(g, Toward(c, r))
    BY <1>3, <1>6 DEF SentOk, q
  <2>2. QED
    BY <1>2, <1>8, <2>1 DEF PairOk, q
<1>12. ConnOk' = \A z \in Sides : PairOk(sock'[z], Context(z)', net'[z], finSent'[z])
  BY DEF ConnOk
<1>13. QED
  BY <1>1, <1>10, <1>11, <1>12

LEMMA PairedFacts ==
  ASSUME IInv, Paired, NEW p \in Sides
  PROVE  /\ sock[p].port = sock["A"].port /\ sock[p].port = sock["B"].port
         /\ sock[Peer(p)].port = sock[p].port
         /\ sock[p] \in SockType /\ sock[p].state # "LISTEN"
BY SockFacts DEF Paired, Sides, Peer

LEMMA ConnGoes ==
  ASSUME IInv, ConnOk, Paired, NEW p \in Sides, NEW r, Goes(sock[p], Context(p), r),
         NEW base \in [Sides -> Finite(SegType)], \A q \in Sides : base[q] \subseteq net[q],
         Step(p, r), Transmit(base, p, r.out), UNCHANGED <<opens, wrote>>
  PROVE  ConnOk'
<1> DEFINE q == Peer(p)
           s == sock[p]
           c == Context(p)
           d == Context(q)
           e == Toward(c, r)
<1>1. q \in Sides /\ Peer(q) = p
  BY PeerLemma
<1>2. ContextOk(c) /\ ContextOk(d) /\ d = Toward(c, s) /\ d.m = s.recv_next
  BY <1>1, ContextFacts
<1>3. s \in SockType /\ sock[q] \in SockType /\ s.port = sock[q].port
  BY <1>1, PairedFacts
<1>4. Fine(r, c) /\ r.port = s.port /\ s.recv_next <= r.recv_next
      /\ (s.state \in Closing => r.state \in Closing)
  BY DEF Goes
<1>5. r \in SockType
  BY <1>4 DEF Fine
<1>6. PairOk(s, c, net[p], finSent[p]) /\ PairOk(sock[q], d, net[q], finSent[q])
  BY <1>1 DEF ConnOk
<1>7. ContextOk(e) /\ e = [d EXCEPT !.m = e.m] /\ d.m <= e.m
  <2>1. ContextOk(e) /\ e.m = r.recv_next
    BY <1>2, <1>5, TowardLemma
  <2>2. e = [d EXCEPT !.m = e.m]
    BY <1>2 DEF Toward
  <2>3. QED
    BY <1>2, <1>4, <2>1, <2>2
<1>8. c = [p |-> p, i |-> Iss(p, opens'[p]), t |-> Iss(p, opens'[p]) + 1 + wrote'[p],
           j |-> Iss(Peer(p), opens'[Peer(p)]),
           u |-> Iss(Peer(p), opens'[Peer(p)]) + 1 + wrote'[Peer(p)],
           m |-> sock[Peer(p)].recv_next]
  BY DEF Context
<1> HIDE DEF c, d, e
<1>9. SocketOk(sock[q], e)
  BY <1>2, <1>3, <1>6, <1>7, ReceivedMore DEF PairOk
<1>10. \A g \in net[q] : g.port = r.port => SegmentOk(g, e)
  <2>1. \A g \in net[q] : g \in SegType
    BY <1>1, NetFacts
  <2>2. QED
    BY <1>2, <1>3, <1>4, <1>6, <1>7, <2>1, ReceivedMore DEF PairOk
<1>11. \A g \in net[p] : g.port = r.port => SegmentOk(g, c)
  BY <1>4, <1>6 DEF PairOk
<1>12. /\ r.port \in finSent[p] => r.state \in Closing
       /\ r.port \in finSent[q] => sock[q].state \in Closing
  BY <1>3, <1>4, <1>6 DEF PairOk
<1>13. sock[Peer(p)].port = r.port
  BY <1>3, <1>4
<1>14. QED
  BY <1>2, <1>4, <1>8, <1>9, <1>10, <1>11, <1>12, <1>13, ConnStep DEF e

(* A step of p before the server takes its first SYN. *)
EarlyStep(p, r) ==
  IF p = "A"
  THEN EarlyClient(r) /\ \A g \in r.out : g.port = opens["A"] /\ ToServer(g)
  ELSE EarlyServer(r) /\ r.out = {} /\ Unbound(r)

LEMMA EarlyGoes ==
  ASSUME IInv, PortsOk, Before, NEW p \in Sides, NEW r, EarlyStep(p, r),
         r \in SockType \/ r \in SockOf(Nat, {0}),
         NEW base \in [Sides -> Finite(SegType)], \A q \in Sides : base[q] \subseteq net[q],
         Step(p, r), Transmit(base, p, r.out), UNCHANGED <<opens, wrote>>
  PROVE  Before'
<1> DEFINE x == [r EXCEPT !.out = {}, !.again = FALSE]
<1>1. sock'[p] = x /\ sock'[Peer(p)] = sock[Peer(p)] /\ finSent'[Peer(p)] = finSent[Peer(p)]
      /\ finSent'[p] = finSent[p] \cup {g.port : g \in {y \in r.out : Has(y, "FIN")}}
  BY StepFields
<1>2. Alike(r, x) /\ x.send_una = r.send_una
  BY RestFields
<1> HIDE DEF x
<1>3. net'[p] \subseteq net[p] /\ net'[Peer(p)] \subseteq net[Peer(p)] \cup r.out
  BY TransmitFields
<1>4. opens["A"] \in Nat
  BY SockFacts DEF Sides
<1>5. CASE p = "A"
  <2>1. EarlyClient(r) /\ \A g \in r.out : g.port = opens["A"] /\ ToServer(g)
    BY <1>5 DEF EarlyStep
  <2>2. EarlyClient(x)'
    BY <1>2, <2>1 DEF EarlyClient, Alike
  <2>3. \A g \in r.out : ~Has(g, "FIN")
    BY <2>1 DEF ToServer
  <2>4. finSent'["A"] = {} /\ finSent'["B"] = {}
    BY <1>1, <1>5, <2>3 DEF Before, Sides, Peer
  <2>5. \A g \in net'["B"] : g.port <= opens["A"] /\ ToServer(g)
    BY <1>3, <1>4, <1>5, <2>1 DEF Before, Peer
  <2>6. \A g \in net'["A"] : g.port <= opens["A"] /\ ToClient(g)
    BY <1>3, <1>5 DEF Before
  <2>7. sock'["A"] = x /\ sock'["B"] = sock["B"]
    BY <1>1, <1>5 DEF Peer
  <2>8. EarlyClient(sock["A"])' /\ EarlyServer(sock["B"])'
    <3>1. EarlyServer(sock["B"])'
      BY <2>7, Zenon DEF Before, EarlyServer
    <3>2. EarlyClient(sock["A"])' = EarlyClient(x)'
      BY <2>7, Zenon DEF EarlyClient
    <3>3. QED
      BY <2>2, <3>1, <3>2
  <2>9. QED
    BY <2>4, <2>5, <2>6, <2>8 DEF Before, Sides
<1>6. CASE p = "B"
  <2>1. EarlyServer(r) /\ r.out = {}
    BY <1>6 DEF EarlyStep
  <2>2. EarlyServer(x)'
    BY <1>2, <2>1 DEF EarlyServer, Alike
  <2>3. finSent'["A"] = {} /\ finSent'["B"] = {}
    BY <1>1, <1>6, <2>1 DEF Before, Sides, Peer
  <2>4. \A g \in net'["B"] : g.port <= opens["A"] /\ ToServer(g)
    BY <1>3, <1>6 DEF Before
  <2>5. \A g \in net'["A"] : g.port <= opens["A"] /\ ToClient(g)
    BY <1>3, <1>6, <2>1 DEF Before, Peer
  <2>6. sock'["B"] = x /\ sock'["A"] = sock["A"]
    BY <1>1, <1>6 DEF Peer
  <2>7. EarlyClient(sock["A"])' /\ EarlyServer(sock["B"])'
    <3>1. EarlyClient(sock["A"])'
      BY <2>6, Zenon DEF Before, EarlyClient
    <3>2. EarlyServer(sock["B"])' = EarlyServer(x)'
      BY <2>6, Zenon DEF EarlyServer
    <3>3. QED
      BY <2>2, <3>1, <3>2
  <2>8. QED
    BY <2>3, <2>4, <2>5, <2>7 DEF Before, Sides
<1>7. QED
  BY <1>5, <1>6 DEF Sides

(* What most actions do. *)
LEMMA SeqStep ==
  ASSUME IInv, SeqInv, NEW p \in Sides, NEW r, r.port = sock[p].port,
         r \in SockType \/ r \in SockOf(Nat, {0}),
         r.state = "LISTEN" => p = "B",
         r.threaded => sock[p].threaded,
         ~relisten /\ sock["B"].port = 0 => EarlyStep(p, r),
         ~relisten /\ Paired => Goes(sock[p], Context(p), r),
         NEW base \in [Sides -> Finite(SegType)], \A q \in Sides : base[q] \subseteq net[q],
         Step(p, r), Transmit(base, p, r.out), UNCHANGED <<opens, wrote, relisten>>
  PROVE  SeqInv'
<1> DEFINE x == [r EXCEPT !.out = {}, !.again = FALSE]
<1>1. sock'[p] = x /\ sock'[Peer(p)] = sock[Peer(p)]
  BY StepFields
<1>2. Alike(r, x)
  BY RestFields
<1> HIDE DEF x
<1>3. /\ sock'["A"].port = sock["A"].port /\ sock'["B"].port = sock["B"].port
      /\ sock'["A"].state = "LISTEN" => sock["A"].state = "LISTEN"
      /\ sock'["A"].threaded => sock["A"].threaded
      /\ sock'["B"].threaded => sock["B"].threaded
  <2>1. CASE p = "A"
    BY <1>1, <1>2, <2>1 DEF Alike, Peer
  <2>2. CASE p = "B"
    BY <1>1, <1>2, <2>2 DEF Alike, Peer
  <2>3. QED
    BY <2>1, <2>2 DEF Sides
<1>4. PortsOk'
  BY <1>3 DEF SeqInv, PortsOk
<1>5. ~relisten' /\ sock'["B"].port = 0 => Before'
  <2> HAVE ~relisten' /\ sock'["B"].port = 0
  <2>1. ~relisten /\ sock["B"].port = 0
    BY <1>3
  <2>2. QED
    BY <2>1, EarlyGoes DEF SeqInv
<1>6. ~relisten' /\ Paired' => ConnOk'
  <2> HAVE ~relisten' /\ Paired'
  <2>1. ~relisten /\ Paired
    BY <1>3 DEF Paired
  <2>2. QED
    BY <2>1, ConnGoes DEF SeqInv
<1>7. QED
  BY <1>4, <1>5, <1>6 DEF SeqInv

LEMMA DoSeq ==
  ASSUME IInv, SeqInv, NEW p \in Sides, NEW r, r.port = sock[p].port,
         r \in SockType \/ r \in SockOf(Nat, {0}),
         r.state = "LISTEN" => p = "B",
         r.threaded => sock[p].threaded,
         ~relisten /\ sock["B"].port = 0 => EarlyStep(p, r),
         ~relisten /\ Paired => Goes(sock[p], Context(p), r),
         Do(p, r), UNCHANGED <<opens, wrote, relisten>>
  PROVE  SeqInv'
<1>1. net \in [Sides -> Finite(SegType)] /\ \A q \in Sides : net[q] \subseteq net[q]
  BY DEF IInv, NetInv
<1>2. Step(p, r) /\ Transmit(net, p, r.out)
  BY DEF Do
<1>3. QED
  BY <1>1, <1>2, SeqStep

(* The socket of an action that is on the list, in the three cases of the   *)
(* invariant.                                                               *)
LEMMA ThreadedFacts ==
  ASSUME IInv, SeqInv, NEW p \in Sides, sock[p].threaded
  PROVE  /\ p = "A" => sock[p].port # 0
         /\ ~relisten /\ sock["B"].port = 0 =>
              IF p = "A" THEN EarlyClient(sock["A"]) /\ sock["A"].state # "CLOSED"
                         ELSE EarlyServer(sock["B"]) /\ sock["B"].state = "LISTEN"
         /\ ~relisten /\ Paired =>
              Fine(sock[p], Context(p)) /\ sock[p].state # "LISTEN" /\ ContextOk(Context(p))
<1>1. p = "A" => sock[p].port # 0
  BY DEF SeqInv, PortsOk
<1>2. ~relisten /\ sock["B"].port = 0 =>
        IF p = "A" THEN EarlyClient(sock["A"]) /\ sock["A"].state # "CLOSED"
                   ELSE EarlyServer(sock["B"]) /\ sock["B"].state = "LISTEN"
  BY DEF SeqInv, Before, EarlyClient, EarlyServer, Sides
<1>3. ASSUME ~relisten, Paired
      PROVE  Fine(sock[p], Context(p)) /\ sock[p].state # "LISTEN" /\ ContextOk(Context(p))
  <2>1. ContextOk(Context(p)) /\ sock[p] \in SockType /\ sock[p].out = {}
    BY <1>3, ContextFacts, PairedFacts, SockFacts
  <2>2. SocketOk(sock[p], Context(p))
    BY <1>3 DEF SeqInv, ConnOk, PairOk
  <2>3. QED
    BY <2>1, <2>2 DEF Fine, SentOk, SocketOk
<1>4. QED
  BY <1>1, <1>2, <1>3

LEMMA EarlySend ==
  ASSUME NEW s \in SockType, s.send_una = 0, s.tx_datalen = 0, s.recv_next = 0
  PROVE  /\ Send(s) \in SockType /\ Alike(s, Send(s)) /\ Send(s).send_una = 0
         /\ \E g \in SegType :
              /\ Send(s).out = s.out \cup {g}
              /\ g.port = s.port /\ g.ack = 0 /\ g.flags = s.flags
              /\ g.seq = s.send_next /\ g.len = 0
<1>1. s.send_una <= s.tx_datalen
  BY FieldsLemma
<1>2. /\ Send(s) \in SockType /\ Alike(s, Send(s))
      /\ Send(s).send_una <= Send(s).tx_datalen
  BY <1>1, SendFields
<1>3. PICK g \in SegType :
        /\ Send(s).out = s.out \cup {g}
        /\ g.port = s.port /\ g.ack = s.recv_next /\ g.flags = s.flags
        /\ g.seq + g.len = End(s) /\ s.send_next <= g.seq /\ g.len <= s.tx_datalen
  BY <1>1, SendFields
<1>4. Send(s).send_una = 0
  BY <1>2, FieldsLemma DEF Alike
<1>5. g.len = 0 /\ g.seq = s.send_next
  BY <1>3, FieldsLemma, SegLemma DEF End
<1>6. QED
  BY <1>2, <1>3, <1>4, <1>5

(* The client asks for its connection. *)
LEMMA EarlySyn ==
  ASSUME NEW s \in SockType, EarlyClient(s), s.threaded, s.out = {}, s.port = opens["A"]
  PROVE  EarlyStep("A", Send(s))
<1> DEFINE r == Send(s)
<1>1. /\ s.send_una = 0 /\ s.tx_datalen = 0 /\ s.recv_next = 0 /\ s.flags = {"SYN"}
      /\ s.send_next = Iss("A", opens["A"])
  BY DEF EarlyClient
<1>2. Alike(s, r) /\ r.send_una = 0
  BY <1>1, EarlySend
<1>3. PICK g \in SegType : /\ r.out = s.out \cup {g}
                           /\ g.port = s.port /\ g.ack = 0 /\ g.flags = s.flags
                           /\ g.seq = s.send_next /\ g.len = 0
  BY <1>1, EarlySend
<1> HIDE DEF r
<1>4. EarlyClient(r)
  BY <1>1, <1>2 DEF EarlyClient, Alike
<1>5. g.port = opens["A"] /\ ToServer(g)
  BY <1>1, <1>3 DEF ToServer, Has
<1>6. QED
  BY <1>3, <1>4, <1>5 DEF EarlyStep, r

(* The client's first segments. *)
EarlyFields(s) ==
  /\ s.send_una = 0 /\ s.tx_datalen = 0 /\ s.recv_next = 0 /\ s.missed = {} /\ ~s.got_fin

LEMMA EarlyUnthread ==
  ASSUME NEW s \in SockType, EarlyFields(s)
  PROVE  EarlyClient(Unthread(s)) /\ Unthread(s).out = s.out
<1> DEFINE r == [s EXCEPT !.state = "CLOSED", !.threaded = FALSE, !.tx_datalen = 0]
<1>1. Unthread(s) = r
  BY DEF Unthread
<1>2. /\ r.state = "CLOSED" /\ r.threaded = FALSE /\ r.tx_datalen = 0
      /\ r.send_una = s.send_una /\ r.recv_next = s.recv_next /\ r.missed = s.missed
      /\ r.got_fin = s.got_fin /\ r.out = s.out
  BY DEF SockType, SockOf
<1> HIDE DEF r
<1>3. QED
  BY <1>1, <1>2 DEF EarlyClient, EarlyFields

LEMMA EarlyAbort ==
  ASSUME NEW s \in SockType, EarlyFields(s), s.out = {}, s.port = opens["A"]
  PROVE  EarlyStep("A", Abort(s))
<1> DEFINE reset == [s EXCEPT !.flags = {"RST", "ACK"}, !.tx_datalen = 0]
           x == Send(reset)
           t == [x EXCEPT !.unhappy = FALSE]
           u == [s EXCEPT !.unhappy = FALSE, !.tx_datalen = 0]
<1>1. EarlyStep("A", Unthread(t))
  <2>1. /\ reset \in SockType /\ reset.flags = {"RST", "ACK"} /\ reset.port = s.port
        /\ reset.out = {} /\ EarlyFields(reset)
    BY DEF SockType, SockOf, Flags, EarlyFields
  <2> HIDE DEF reset
  <2>2. x \in SockType /\ Alike(reset, x) /\ x.send_una = 0
    BY <2>1, EarlySend DEF EarlyFields
  <2>3. PICK g \in SegType : /\ x.out = reset.out \cup {g}
                             /\ g.port = reset.port /\ g.ack = 0 /\ g.flags = reset.flags
                             /\ g.seq = reset.send_next /\ g.len = 0
    BY <2>1, EarlySend DEF EarlyFields
  <2> HIDE DEF x
  <2>4. t \in SockType /\ Alike(x, t) /\ t.send_una = x.send_una /\ t.out = x.out
    BY <2>2 DEF SockType, SockOf, Alike
  <2> HIDE DEF t
  <2>5. EarlyFields(t)
    BY <2>1, <2>2, <2>4 DEF EarlyFields, Alike
  <2>6. EarlyClient(Unthread(t)) /\ Unthread(t).out = {g}
    BY <2>1, <2>3, <2>4, <2>5, EarlyUnthread
  <2>7. ToServer(g) /\ g.port = opens["A"]
    BY <2>1, <2>3 DEF ToServer, Has
  <2>8. QED
    BY <2>6, <2>7 DEF EarlyStep
<1>2. EarlyStep("A", Unthread(u))
  <2>1. u \in SockType /\ EarlyFields(u) /\ u.out = {}
    BY DEF SockType, SockOf, EarlyFields
  <2> HIDE DEF u
  <2>2. QED
    BY <2>1, EarlyUnthread DEF EarlyStep
<1>3. Abort(s) \in {Unthread(t), Unthread(u)}
  BY Zenon DEF Abort, t, u, x, reset
<1>4. QED
  BY <1>1, <1>2, <1>3

(* A socket that belongs to no connection is closed. *)
LEMMA UnboundCloses ==
  ASSUME NEW s, Unbound(s), s.out = {}, s.again = FALSE
  PROVE  LET r == Unthread(s) IN
         /\ Unbound(r) /\ r.out = {} /\ r.port = s.port /\ r.state = "CLOSED" /\ ~r.threaded
         /\ r.missed = s.missed /\ r.got_fin = s.got_fin
         /\ Abort(s) = Unthread([s EXCEPT !.unhappy = FALSE, !.tx_datalen = 0])
<1> DEFINE r == [s EXCEPT !.state = "CLOSED", !.threaded = FALSE, !.tx_datalen = 0]
<1>1. Unthread(s) = r
  BY DEF Unthread
<1>2. /\ r.out = {} /\ r.port = s.port /\ r.state = "CLOSED" /\ r.threaded = FALSE
      /\ r.missed = s.missed /\ r.got_fin = s.got_fin /\ r.tx_datalen = 0 /\ r.rtt = s.rtt
  BY DEF Unbound, SockOf
<1>3. r \in SockOf(Nat, {0})
  BY DEF Unbound, SockOf, States
<1> HIDE DEF r
<1>4. Unbound(r)
  BY <1>2, <1>3 DEF Unbound
<1>5. Abort(s) = Unthread([s EXCEPT !.unhappy = FALSE, !.tx_datalen = 0])
  <2>1. s.state \in {"LISTEN", "CLOSED"}
    BY DEF Unbound
  <2>2. s.state \notin States \ {"LISTEN", "RESOLVE", "TIMEWT", "CLOSED"}
    BY <2>1
  <2>3. QED
    BY <2>2, Zenon DEF Abort
<1>6. QED
  BY <1>1, <1>2, <1>4, <1>5

LEMMA TimewtEnds ==
  ASSUME NEW c, ContextOk(c), NEW s, Fine(s, c), s.threaded, s.state = "TIMEWT"
  PROVE  Goes(s, c, [s EXCEPT !.state = "CLOSED"])
<1> DEFINE r == [s EXCEPT !.state = "CLOSED"]
<1>1. s \in SockType /\ SocketOk(s, c)
  BY DEF Fine
<1>2. r \in SockType
  BY <1>1 DEF SockType, SockOf, States
<1>3. /\ r.state = "CLOSED" /\ r.threaded = s.threaded /\ r.port = s.port /\ r.flags = s.flags
      /\ r.send_next = s.send_next /\ r.tx_datalen = s.tx_datalen /\ r.send_una = s.send_una
      /\ r.recv_next = s.recv_next /\ r.missed = s.missed /\ r.got_fin = s.got_fin
      /\ r.out = s.out
  BY <1>1 DEF SockType, SockOf
<1> HIDE DEF r
<1>4. FlagsOk(r) /\ ReceiveOk(r, c) /\ AckedOk(r, c) /\ EofOk(r, c)
  BY <1>1, <1>3 DEF SocketOk, FlagsOk, ReceiveOk, AckedOk, EofOk, Opening
<1>5. SendOk(r, c)
  <2>1. s.send_next \in {c.t, c.t + 1} /\ s.tx_datalen = 0 /\ s.send_una <= s.tx_datalen
    BY <1>1 DEF SocketOk, SendOk
  <2>2. c.i + 1 <= r.send_next
    BY <1>3, <2>1, ContextLemma
  <2>3. End(r) = c.t \/ (r.send_next = c.t + 1 /\ r.tx_datalen = 0)
    BY <1>3, <2>1, ContextLemma DEF End
  <2>4. QED
    BY <1>3, <2>1, <2>2, <2>3 DEF SendOk, Opening
<1>6. SocketOk(r, c)
  BY <1>1, <1>3, <1>4, <1>5 DEF SocketOk
<1>7. r.state \in Closing
  BY <1>3 DEF Closing
<1>8. s.recv_next <= r.recv_next
  BY <1>1, <1>3, FieldsLemma
<1>9. Goes(s, c, r)
  BY <1>2, <1>3, <1>6, <1>7, <1>8, UpdateGoes
<1>10. QED
  BY <1>9 DEF r

LEMMA AbortSeq ==
  ASSUME IInv, SeqInv, NEW p \in Sides,
         AbortSock(p) \/ (p = "A" /\ Unresolved) \/ Timeout(p) \/ Reap(p)
  PROVE  SeqInv'
<1> DEFINE s == sock[p]
           z == [s EXCEPT !.state = "CLOSED"]
           u == [s EXCEPT !.unhappy = FALSE, !.tx_datalen = 0]
<1>1. SockInv(s, wrote[p]) /\ s.out = {} /\ s.again = FALSE /\ s.port \in Nat
      /\ (s.port # 0 => s \in SockType) /\ (s.port = 0 => Unbound(s))
  BY SockFacts
<1>2. UNCHANGED <<opens, wrote, relisten>>
  BY DEF AbortSock, Unresolved, Timeout, Reap
<1>3. s.threaded
  BY <1>1 DEF AbortSock, Unresolved, Timeout, TimerRuns, Reap, SockInv, Timed
<1>4. \/ Do(p, Abort(s))
      \/ s.state = "TIMEWT" /\ Do(p, z)
      \/ s.state = "CLOSED" /\ Do(p, Unthread(s))
  BY Zenon DEF AbortSock, Unresolved, Timeout, Reap
<1>5. CASE s.port # 0
  <2>1. s \in SockType /\ ~(p = "B" /\ sock["B"].port = 0)
    BY <1>1, <1>5
  <2>2. CASE Do(p, Abort(s))
    <3> DEFINE r == Abort(s)
    <3>1. r \in SockType /\ r.port = s.port /\ r.state # "LISTEN"
      BY <2>1, AbortLemma DEF Result
    <3>2. ~relisten /\ sock["B"].port = 0 => EarlyStep(p, r)
      <4> HAVE ~relisten /\ sock["B"].port = 0
      <4>1. p = "A" /\ EarlyClient(s) /\ s.port = opens["A"]
        BY <1>3, <2>1, ThreadedFacts DEF SeqInv, PortsOk, Sides
      <4>2. QED
        BY <1>1, <2>1, <4>1, EarlyAbort DEF EarlyClient, EarlyFields
    <3>3. ~relisten /\ Paired => Goes(s, Context(p), r)
      BY <1>3, ThreadedFacts, AbortGoes
    <3> HIDE DEF r
    <3>4. QED
      BY <1>2, <1>3, <2>2, <3>1, <3>2, <3>3, DoSeq DEF r
  <2>3. CASE s.state = "TIMEWT" /\ Do(p, z)
    <3>1. z \in SockType /\ z.port = s.port /\ z.state = "CLOSED" /\ z.threaded = s.threaded
      BY <2>1 DEF SockType, SockOf, States
    <3>2. ~(~relisten /\ sock["B"].port = 0)
      BY <1>3, <2>1, <2>3, ThreadedFacts DEF EarlyClient, Sides
    <3>3. ~relisten /\ Paired => Goes(s, Context(p), z)
      BY <1>3, <2>3, ThreadedFacts, TimewtEnds
    <3> HIDE DEF z
    <3>4. QED
      BY <1>2, <1>3, <2>3, <3>1, <3>2, <3>3, DoSeq
  <2>4. CASE s.state = "CLOSED" /\ Do(p, Unthread(s))
    <3> DEFINE r == Unthread(s)
    <3>1. r \in SockType /\ r.port = s.port /\ r.state # "LISTEN"
      BY <2>1, UnthreadLemma DEF Result
    <3>2. ~(~relisten /\ sock["B"].port = 0)
      BY <1>3, <2>1, <2>4, ThreadedFacts DEF Sides
    <3>3. ~relisten /\ Paired => Goes(s, Context(p), r)
      BY <1>3, <2>4, ThreadedFacts, UnthreadGoes DEF Fine, SocketOk
    <3> HIDE DEF r
    <3>4. QED
      BY <1>2, <1>3, <2>4, <3>1, <3>2, <3>3, DoSeq DEF r
  <2>5. QED
    BY <1>4, <2>2, <2>3, <2>4
<1>6. CASE s.port = 0
  <2>1. Unbound(s) /\ p = "B" /\ ~Paired
    BY <1>1, <1>3, <1>6, ThreadedFacts DEF Paired, Sides
  <2>2. Unbound(u) /\ u.out = {} /\ u.again = FALSE /\ u.port = s.port
        /\ u.missed = s.missed /\ u.got_fin = s.got_fin
    BY <1>1, <2>1 DEF Unbound, SockOf
  <2>3. s.state # "TIMEWT"
    BY <2>1 DEF Unbound
  <2>4. PICK r \in {Unthread(u), Unthread(s)} : Do(p, r)
    BY <1>1, <1>4, <2>1, <2>3, UnboundCloses
  <2> HIDE DEF u
  <2>5. /\ Unbound(r) /\ r.out = {} /\ r.port = s.port /\ r.state = "CLOSED" /\ ~r.threaded
        /\ r.missed = s.missed /\ r.got_fin = s.got_fin
    <3>1. CASE r = Unthread(u)
      BY <2>2, <3>1, UnboundCloses
    <3> HIDE DEF s
    <3>2. CASE r = Unthread(s)
      BY <1>1, <2>1, <3>2, UnboundCloses
    <3>3. QED
      BY <2>4, <3>1, <3>2
  <2>6. ~relisten /\ sock["B"].port = 0 => EarlyStep(p, r)
    BY <1>3, <2>1, <2>5, ThreadedFacts DEF EarlyStep, EarlyServer
  <2>7. r \in SockOf(Nat, {0})
    BY <2>5 DEF Unbound
  <2>8. QED
    BY <1>2, <2>1, <2>4, <2>5, <2>6, <2>7, DoSeq
<1>7. QED
  BY <1>5, <1>6

LEMMA ResolvedSeq == ASSUME IInv, SeqInv, Resolved PROVE SeqInv'
<1> DEFINE s == sock["A"]
           t == [s EXCEPT !.state = "SYNSENT", !.timeout = TRUE]
           r == Send(t)
           c == Context("A")
<1>1. "A" \in Sides /\ s.state = "RESOLVE"
  BY DEF Sides, Resolved
<1>2. s.threaded /\ s \in SockType /\ s.out = {}
  BY <1>1, SockFacts DEF SockInv, Timed, Unbound
<1>3. Do("A", r) /\ UNCHANGED <<opens, wrote, relisten>>
  BY DEF Resolved
<1>4. /\ t \in SockType /\ t.state = "SYNSENT" /\ t.threaded = s.threaded /\ t.port = s.port
      /\ t.flags = s.flags /\ t.send_next = s.send_next /\ t.tx_datalen = s.tx_datalen
      /\ t.send_una = s.send_una /\ t.recv_next = s.recv_next /\ t.missed = s.missed
      /\ t.got_fin = s.got_fin /\ t.out = {}
  BY <1>2 DEF SockType, SockOf, States
<1> HIDE DEF t
<1>5. r \in SockType /\ r.port = s.port /\ r.state = "SYNSENT" /\ r.threaded = s.threaded
  BY <1>4, SendLemma DEF Same
<1>6. ~relisten /\ sock["B"].port = 0 => EarlyStep("A", r)
  <2> HAVE ~relisten /\ sock["B"].port = 0
  <2>1. EarlyClient(s) /\ s.port = opens["A"]
    BY <1>1, <1>2, ThreadedFacts DEF SeqInv, PortsOk
  <2>2. EarlyClient(t)
    BY <1>2, <1>4, <2>1 DEF EarlyClient
  <2>3. QED
    BY <1>2, <1>4, <2>1, <2>2, EarlySyn
<1>7. ~relisten /\ Paired => Goes(s, c, r)
  <2> HAVE ~relisten /\ Paired
  <2>1. Fine(s, c) /\ ContextOk(c)
    BY <1>1, <1>2, ThreadedFacts
  <2>2. SocketOk(s, c)
    BY <2>1 DEF Fine
  <2>3. SocketOk(t, c)
    <3>1. FlagsOk(t) /\ ReceiveOk(t, c) /\ AckedOk(t, c) /\ EofOk(t, c)
      BY <1>1, <1>2, <1>4, <2>2 DEF SocketOk, FlagsOk, ReceiveOk, AckedOk, EofOk, Opening
    <3>2. SendOk(t, c)
      BY <1>1, <1>2, <1>4, <2>2 DEF SocketOk, SendOk, Opening
    <3>3. QED
      BY <1>1, <1>4, <2>2, <3>1, <3>2 DEF SocketOk
  <2>4. Goes(s, c, t)
    <3> HIDE DEF c, s
    <3>1. s.recv_next <= t.recv_next
      BY <1>2, <1>4, FieldsLemma
    <3>2. s.state \notin Closing
      BY <1>1 DEF Closing
    <3>3. QED
      BY <1>2, <1>4, <2>1, <2>3, <3>1, <3>2, UpdateGoes
  <2>5. Goes(t, c, r)
    BY <1>2, <1>4, <2>1, <2>4, SendGoes DEF Goes
  <2>6. QED
    BY <1>2, <2>4, <2>5, GoesOn
<1> HIDE DEF r
<1>8. QED
  BY <1>1, <1>2, <1>3, <1>5, <1>6, <1>7, DoSeq

LEMMA FlushSeq == ASSUME IInv, SeqInv, NEW p \in Sides, Flush(p) PROVE SeqInv'
<1> DEFINE s == sock[p]
<1>1. s.threaded /\ s.tx_datalen > 0 /\ Do(p, Send(s)) /\ UNCHANGED <<opens, wrote, relisten>>
  BY DEF Flush
<1>2. s \in SockType /\ s.state # "LISTEN" /\ s.port # 0
  <2>1. ASSUME s.port = 0 PROVE FALSE
    <3>1. Unbound(s)
      BY <2>1, SockFacts
    <3>2. s.tx_datalen = 0
      BY <3>1 DEF Unbound
    <3> HIDE DEF s
    <3>3. QED
      BY <1>1, <3>2
  <2>2. QED
    BY <2>1, SockFacts
<1>3. Send(s) \in SockType /\ Same(s, Send(s))
  BY <1>2, SendLemma
<1>4. ~(~relisten /\ sock["B"].port = 0)
  BY <1>1, <1>2, ThreadedFacts DEF EarlyClient, Sides
<1>5. ~relisten /\ Paired => Goes(s, Context(p), Send(s))
  BY <1>1, ThreadedFacts, SendGoes
<1>6. QED
  BY <1>1, <1>2, <1>3, <1>4, <1>5, DoSeq DEF Same

LEMMA CloseSeq == ASSUME IInv, SeqInv, NEW p \in Sides, CloseSock(p) PROVE SeqInv'
<1> DEFINE s == sock[p]
<1>1. s.state \in {"RESOLVE", "SYNSENT", "SYNREC", "ESTAB", "ESTCL"}
      /\ UNCHANGED <<opens, wrote, relisten>>
  BY DEF CloseSock
<1>2. PICK soon \in Soons : Do(p, Close(s, soon))
  BY DEF CloseSock
<1>3. s \in SockType /\ s.port # 0 /\ Timed(s) /\ s.threaded /\ s.out = {}
  BY <1>1, SockFacts DEF Unbound, SockInv, Timed
<1> DEFINE r == Close(s, soon)
<1>4. r \in SockType /\ r.port = s.port /\ r.state # "LISTEN"
  BY <1>1, <1>3, CloseLemma DEF Result
<1>5. ~relisten /\ sock["B"].port = 0 => EarlyStep(p, r)
  <2> HAVE ~relisten /\ sock["B"].port = 0
  <2>1. p = "A" /\ EarlyClient(s)
    BY <1>3, ThreadedFacts DEF Sides
  <2>2. s.state \in {"RESOLVE", "SYNSENT"}
    BY <1>1, <2>1 DEF EarlyClient
  <2>3. r = Unthread(s)
    BY <2>2 DEF Close
  <2> HIDE DEF r
  <2>4. EarlyClient(r) /\ r.out = {}
    BY <1>3, <2>1, <2>3, EarlyUnthread DEF EarlyClient, EarlyFields
  <2>5. QED
    BY <2>1, <2>4 DEF EarlyStep
<1>6. ~relisten /\ Paired => Goes(s, Context(p), r)
  BY <1>3, ThreadedFacts, CloseGoes
<1> HIDE DEF r
<1>7. QED
  BY <1>1, <1>2, <1>3, <1>4, <1>5, <1>6, DoSeq DEF r

LEMMA RetransmitSeq == ASSUME IInv, SeqInv, NEW p \in Sides, Retransmit(p) PROVE SeqInv'
<1> DEFINE s == sock[p]
           d == [s EXCEPT !.karn = 2, !.send_una = 0]
           t == IF s.karn = 0 THEN d ELSE s
           u == [t EXCEPT !.flags = @ \cup {"ACK"}]
           v == IF s.tx_datalen > 0 THEN u ELSE t
           r == Send(v)
<1>1. s.threaded /\ s.state \notin {"RESOLVE", "CLOSED"} /\ s.rtt /\ Do(p, r)
      /\ UNCHANGED <<opens, wrote, relisten>>
  BY Zenon DEF Retransmit, r, v, u, t, d
<1>2. s \in SockType /\ s.port # 0 /\ s.state # "LISTEN" /\ s.out = {}
  BY <1>1, SockFacts DEF Unbound
<1>3. t \in SockType /\ Alike(s, t) /\ t.out = {} /\ t.send_una \in {0, s.send_una}
  <2>1. d \in SockType
    <3> DEFINE e == [s EXCEPT !.send_una = 0]
    <3>1. e \in SockType
      BY <1>2 DEF SockType, SockOf
    <3>2. d = [e EXCEPT !.karn = 2]
      BY <1>2 DEF SockType, SockOf
    <3> HIDE DEF d, e
    <3>3. QED
      BY <3>1, <3>2 DEF SockType, SockOf
  <2>2. Alike(s, d) /\ d.out = {} /\ d.send_una = 0
    BY <1>2 DEF SockType, SockOf, Alike
  <2>3. Alike(s, s)
    BY DEF Alike
  <2> HIDE DEF d
  <2>4. QED
    BY <1>2, <2>1, <2>2, <2>3
<1> HIDE DEF t
<1>4. /\ u \in SockType /\ u.out = {} /\ u.send_una = t.send_una
      /\ u.port = t.port /\ u.threaded = t.threaded /\ u.state = t.state
      /\ u.tx_datalen = t.tx_datalen
      /\ "ACK" \in t.flags => Alike(t, u)
  <2>1. u \in SockType
    BY <1>3 DEF SockType, SockOf, Flags
  <2>2. "ACK" \in t.flags => u = t
    BY <1>3 DEF SockType, SockOf
  <2>3. "ACK" \in t.flags => Alike(t, u)
    BY <2>2 DEF Alike
  <2>4. /\ u.out = t.out /\ u.send_una = t.send_una
        /\ u.port = t.port /\ u.threaded = t.threaded /\ u.state = t.state
        /\ u.tx_datalen = t.tx_datalen
    BY <1>3 DEF SockType, SockOf
  <2> HIDE DEF u
  <2>5. QED
    BY <1>3, <2>1, <2>3, <2>4
<1> HIDE DEF u
<1>5. /\ v \in SockType /\ v.out = {} /\ v.port = s.port /\ v.threaded = s.threaded
      /\ v.state = s.state /\ v.send_una \in {0, s.send_una}
      /\ v.tx_datalen = s.tx_datalen
      /\ (s.tx_datalen > 0 /\ "ACK" \in s.flags) => Alike(s, v)
      /\ ~(s.tx_datalen > 0) => Alike(s, v)
  BY <1>3, <1>4 DEF Alike
<1> HIDE DEF v
<1>6. r \in SockType /\ r.port = s.port /\ r.state # "LISTEN" /\ r.threaded
  BY <1>1, <1>2, <1>5, SendLemma DEF Same
<1>7. ~relisten /\ sock["B"].port = 0 => EarlyStep(p, r)
  <2> HAVE ~relisten /\ sock["B"].port = 0
  <2>1. p = "A" /\ EarlyClient(s) /\ s.port = opens["A"]
    BY <1>1, <1>2, ThreadedFacts DEF SeqInv, PortsOk, Sides
  <2>2. s.send_una = 0 /\ s.tx_datalen = 0
    BY <2>1 DEF EarlyClient
  <2>3. Alike(s, v) /\ v.send_una = 0
    BY <1>5, <2>2
  <2>4. EarlyClient(v)
    BY <2>1, <2>3 DEF EarlyClient, Alike
  <2>5. QED
    BY <1>1, <1>5, <2>1, <2>4, EarlySyn
<1>8. ~relisten /\ Paired => Goes(s, Context(p), r)
  <2> HAVE ~relisten /\ Paired
  <2> DEFINE c == Context(p)
  <2>1. Fine(s, c) /\ ContextOk(c)
    BY <1>1, ThreadedFacts
  <2> HIDE DEF c
  <2>2. FlagsOk(s) /\ SendOk(s, c)
    BY <1>1, <2>1 DEF Fine, SocketOk
  <2>3. s.tx_datalen > 0 => "ACK" \in s.flags
    <3> HAVE s.tx_datalen > 0
    <3>1. s.state \in {"ESTAB", "ESTCL", "LASTACK", "CLOSED"}
      BY <2>2 DEF SendOk
    <3>2. QED
      BY <2>2, <3>1 DEF FlagsOk
  <2>4. Alike(s, v)
    BY <1>5, <2>3
  <2>5. v.send_una <= v.tx_datalen
    BY <1>2, <1>5, <2>2, FieldsLemma DEF SendOk
  <2>6. Goes(s, c, v)
    BY <1>2, <1>5, <2>1, <2>4, <2>5, AlikeGoes
  <2>7. Goes(v, c, r)
    BY <1>1, <1>5, <2>1, <2>6, SendGoes DEF Goes
  <2>8. QED
    BY <1>2, <2>6, <2>7, GoesOn DEF c
<1> HIDE DEF r
<1>9. QED
  BY <1>1, <1>2, <1>6, <1>7, <1>8, DoSeq
-----------------------------------------------------------------------------
(* tcp_write(): the socket may have one byte more. *)
LEMMA WrittenOk ==
  ASSUME NEW c, ContextOk(c), NEW s \in SockType, SocketOk(s, c), s.state = "ESTAB", s.threaded
  PROVE  LET e == [c EXCEPT !.t = @ + 1]
             r == [s EXCEPT !.tx_datalen = @ + 1, !.unhappy = TRUE]
         IN  /\ ContextOk(e) /\ r \in SockType /\ SocketOk(r, e)
             /\ r.port = s.port /\ r.state = "ESTAB" /\ r.threaded /\ r.out = s.out
             /\ r.recv_next = s.recv_next
             /\ \A g \in SegType : SegmentOk(g, c) => SegmentOk(g, e)
<1> DEFINE e == [c EXCEPT !.t = @ + 1]
           n == s.tx_datalen + 1
           r == [s EXCEPT !.tx_datalen = n, !.unhappy = TRUE]
<1>1. e.p = c.p /\ e.i = c.i /\ e.t = c.t + 1 /\ e.j = c.j /\ e.u = c.u /\ e.m = c.m
      /\ ContextOk(e)
  <2>1. e.p = c.p /\ e.i = c.i /\ e.t = c.t + 1 /\ e.j = c.j /\ e.u = c.u /\ e.m = c.m
    BY DEF ContextOk
  <2>2. e \in [p : Sides, i : Nat, t : Nat, j : Nat, u : Nat, m : Nat]
    BY DEF ContextOk
  <2> HIDE DEF e
  <2>3. QED
    BY <2>1, <2>2, ContextLemma DEF ContextOk
<1> HIDE DEF e
<1>2. n \in Nat /\ s.tx_datalen \in Nat /\ s.send_una \in Nat /\ s.send_next \in Nat
  BY FieldsLemma
<1>3. /\ r \in SockType /\ r.state = s.state /\ r.threaded = s.threaded /\ r.port = s.port
      /\ r.flags = s.flags /\ r.send_next = s.send_next /\ r.tx_datalen = n
      /\ r.send_una = s.send_una /\ r.recv_next = s.recv_next /\ r.missed = s.missed
      /\ r.got_fin = s.got_fin /\ r.out = s.out
  BY <1>2 DEF SockType, SockOf
<1>4. FlagsOk(r) /\ ReceiveOk(r, e) /\ AckedOk(r, e) /\ EofOk(r, e)
  BY <1>1, <1>3 DEF SocketOk, FlagsOk, ReceiveOk, AckedOk, EofOk, Opening
<1>5. SendOk(r, e)
  <2>1. c.i + 1 <= s.send_next /\ End(s) = c.t /\ s.send_una <= s.tx_datalen
    BY DEF SocketOk, SendOk
  <2> HIDE DEF r
  <2>2. End(r) = e.t
    BY <1>1, <1>2, <1>3, <2>1 DEF End, n
  <2>3. r.send_una <= r.tx_datalen
    BY <1>2, <1>3, <2>1 DEF n
  <2>4. QED
    BY <1>1, <1>3, <2>1, <2>2, <2>3 DEF SendOk, Opening
<1> HIDE DEF r
<1>6. SocketOk(r, e)
  BY <1>1, <1>3, <1>4, <1>5 DEF SocketOk
<1>7. ASSUME NEW g \in SegType, SegmentOk(g, c) PROVE SegmentOk(g, e)
  <2>1. FinOk(g, c) => FinOk(g, e)
    BY <1>1 DEF FinOk
  <2>2. g.ack > e.t => g.ack > c.t
    BY <1>1, SegLemma, ContextLemma
  <2>3. QED
    BY <1>1, <1>7, <2>1, <2>2 DEF SegmentOk
<1>8. QED
  BY <1>1, <1>3, <1>6, <1>7 DEF e, r, n

(* What that is to its peer, to which no FIN was sent. *)
LEMMA PeerWrote ==
  ASSUME NEW c, ContextOk(c), c.m <= c.t
  PROVE  LET e == [c EXCEPT !.u = @ + 1] IN
         /\ \A s \in SockType : Timed(s) /\ ~s.got_fin /\ SocketOk(s, c) => SocketOk(s, e)
         /\ \A g \in SegType : ~Has(g, "FIN") /\ SegmentOk(g, c) => SegmentOk(g, e)
<1> DEFINE e == [c EXCEPT !.u = @ + 1]
<1>1. e.p = c.p /\ e.i = c.i /\ e.t = c.t /\ e.j = c.j /\ e.u = c.u + 1 /\ e.m = c.m
  BY DEF ContextOk
<1> HIDE DEF e
<1>2. ASSUME NEW s \in SockType, Timed(s), ~s.got_fin, SocketOk(s, c) PROVE SocketOk(s, e)
  <2>1. SendOk(s, c) => SendOk(s, e)
    BY <1>1 DEF SendOk
  <2>2. AckedOk(s, c) => AckedOk(s, e)
    BY <1>1 DEF AckedOk
  <2>3. ReceiveOk(s, c) => ReceiveOk(s, e)
    <3> HAVE ReceiveOk(s, c)
    <3>1. s.state # "LASTACK"
      BY <1>2 DEF ReceiveOk
    <3>2. /\ s.recv_next <= c.u => s.recv_next <= e.u
          /\ \A n \in s.missed : n < c.u => n < e.u
      <4>1. s.missed \subseteq Nat
        BY <1>2 DEF SockType, SockOf, Finite
      <4>2. QED
        BY <1>1, <4>1, FieldsLemma, ContextLemma
    <3>3. QED
      BY <1>1, <3>1, <3>2 DEF ReceiveOk
  <2>4. ASSUME s.state = "FINWT2", s.send_next # c.i + 1 PROVE FALSE
    <3>1. s.threaded
      BY <1>2, <2>4 DEF Timed
    <3>2. s.send_next = c.t + 1 /\ (s.send_next = c.i \/ s.send_next <= c.m)
      BY <1>2, <2>4, <3>1 DEF SocketOk, SendOk, AckedOk
    <3>3. QED
      BY <3>2, ContextLemma, FieldsLemma
  <2>5. EofOk(s, e)
    BY <1>1, <1>2, <2>4 DEF SocketOk, EofOk
  <2>6. QED
    BY <1>1, <1>2, <2>1, <2>2, <2>3, <2>5 DEF SocketOk
<1>3. ASSUME NEW g \in SegType, ~Has(g, "FIN"), SegmentOk(g, c) PROVE SegmentOk(g, e)
  <2>1. ~(~Has(g, "RST") /\ g.ack > e.t)
    BY <1>1, <1>3, SegLemma, ContextLemma DEF SegmentOk
  <2>2. g.seq + g.len <= c.u => g.seq + g.len <= e.u
    BY <1>1, SegLemma, ContextLemma
  <2>3. QED
    BY <1>1, <1>3, <2>1, <2>2 DEF SegmentOk
<1>4. QED
  BY <1>2, <1>3 DEF e

LEMMA WriteByteSeq == ASSUME IInv, SeqInv, NEW p \in Sides, WriteByte(p) PROVE SeqInv'
<1> DEFINE q == Peer(p)
           o == sock[p]
           s == [o EXCEPT !.tx_datalen = @ + 1, !.unhappy = TRUE]
           c == [Context(p) EXCEPT !.t = @ + 1]
           d == [Context(q) EXCEPT !.u = @ + 1]
<1>1. q \in Sides /\ Peer(q) = p /\ p # q
  BY PeerLemma
<1>2. o.state = "ESTAB" /\ UNCHANGED <<opens, relisten>>
  BY DEF WriteByte
<1>3. wrote'[p] = wrote[p] + 1 /\ wrote'[q] = wrote[q] /\ wrote[p] \in Nat
  BY <1>1 DEF WriteByte, IInv, HistoryInv
<1>4. o \in SockType /\ o.port # 0 /\ o.threaded /\ Timed(o) /\ o.out = {}
  BY <1>2, SockFacts DEF Unbound, SockInv, Timed
<1>5. PICK r \in {s, Send(s)} \cup {SendSoon(s, soon) : soon \in Soons} : Do(p, r)
  BY Zenon DEF WriteByte
<1>6. s \in SockType /\ s.port = o.port /\ s.state = "ESTAB" /\ s.threaded /\ s.out = {}
  <2>1. o.tx_datalen + 1 \in Nat
    BY <1>4, FieldsLemma
  <2>2. QED
    BY <1>2, <1>4, <2>1 DEF SockType, SockOf
<1> HIDE DEF s
<1>7. r \in SockType /\ r.port = o.port /\ r.state = "ESTAB"
  <2>1. s.state # "LISTEN" /\ Same(s, s)
    BY <1>6 DEF Same
  <2>2. Send(s) \in SockType /\ Same(s, Send(s))
    BY <1>6, SendLemma
  <2>3. \A soon : SendSoon(s, soon) \in SockType /\ Same(s, SendSoon(s, soon))
    BY <1>6, SendSoonLemma
  <2>4. r \in SockType /\ Same(s, r)
    BY <1>5, <1>6, <2>1, <2>2, <2>3
  <2>5. QED
    BY <1>6, <2>4 DEF Same
<1>8. /\ net \in [Sides -> Finite(SegType)] /\ \A z \in Sides : net[z] \subseteq net[z]
      /\ Step(p, r) /\ Transmit(net, p, r.out)
  BY <1>5 DEF Do, IInv, NetInv
<1>9. sock'[p] = [r EXCEPT !.out = {}, !.again = FALSE] /\ sock'[q] = sock[q]
  BY <1>8, StepFields
<1>10. sock'[p].port = o.port /\ sock'[p].state # "LISTEN"
  <2> DEFINE x == [r EXCEPT !.out = {}, !.again = FALSE]
  <2>1. Alike(r, x)
    BY <1>7, RestFields
  <2> HIDE DEF x
  <2>2. x.port = o.port /\ x.state # "LISTEN"
    BY <1>7, <2>1 DEF Alike
  <2>3. QED
    BY <1>9, <2>2 DEF x
<1>11. ~(~relisten /\ sock["B"].port = 0)
  BY <1>2, <1>4, ThreadedFacts DEF EarlyClient, Sides
<1>12. PortsOk' /\ ~(~relisten' /\ sock'["B"].port = 0) /\ (Paired' => Paired)
  <2>1. CASE p = "A"
    <3>1. sock'["B"] = sock["B"] /\ sock'["A"].port = sock["A"].port
          /\ sock'["A"].state # "LISTEN" /\ sock["A"].threaded
      BY <1>4, <1>9, <1>10, <2>1 DEF Peer
    <3>2. QED
      BY <1>2, <1>11, <3>1 DEF SeqInv, PortsOk, Paired
  <2>2. CASE p = "B"
    <3>1. sock'["A"] = sock["A"] /\ sock'["B"].port = sock["B"].port /\ sock["B"].threaded
      BY <1>4, <1>9, <1>10, <2>2 DEF Peer
    <3>2. QED
      BY <1>2, <1>11, <3>1 DEF SeqInv, PortsOk, Paired
  <2>3. QED
    BY <2>1, <2>2 DEF Sides
<1>13. ASSUME ~relisten, Paired PROVE ConnOk'
  <2>1. /\ ContextOk(Context(p)) /\ ContextOk(Context(q)) /\ Fine(o, Context(p))
        /\ Context(q).m = o.recv_next /\ Context(q).t = Context(p).u
        /\ Toward(Context(p), o) = Context(q)
    BY <1>1, <1>4, <1>13, ThreadedFacts, ContextFacts
  <2>2. /\ SocketOk(o, Context(p)) /\ SocketOk(sock[q], Context(q))
        /\ \A g \in net[p] : g.port = o.port => SegmentOk(g, Context(p))
        /\ \A g \in net[q] : g.port = sock[q].port => SegmentOk(g, Context(q))
        /\ o.port \in finSent[p] => o.state \in Closing
        /\ sock[q].port \in finSent[q] => sock[q].state \in Closing
    BY <1>1, <1>13 DEF SeqInv, ConnOk, PairOk
  <2>3. sock[q].port = o.port /\ sock[q] \in SockType /\ Timed(sock[q])
    BY <1>1, <1>13, PairedFacts, SockFacts DEF SockInv
  <2>4. o.port \notin finSent[p]
    BY <1>2, <2>2 DEF Closing
  <2>5. ~sock[q].got_fin
    BY <1>1, <2>3, <2>4 DEF IInv, GotFinWasSent
  <2>6. \A g \in net[q] : g.port = o.port => ~Has(g, "FIN")
    BY <1>1, <2>4 DEF IInv, FinsWereSent
  <2>7. Context(q).m <= Context(q).t
    BY <1>2, <1>4, <2>1, <2>2 DEF SocketOk, ReceiveOk
  <2>8. \A g \in net[p] : g \in SegType
    BY NetFacts
  <2>9. \A g \in net[q] : g \in SegType
    BY <1>1, NetFacts
  <2>10. SocketOk(sock[q], d) /\ \A g \in net[q] : g.port = o.port => SegmentOk(g, d)
    BY <2>1, <2>2, <2>3, <2>5, <2>6, <2>7, <2>9, PeerWrote
  <2>11. /\ ContextOk(c) /\ SocketOk(s, c) /\ s.recv_next = o.recv_next
         /\ \A g \in net[p] : g.port = o.port => SegmentOk(g, c)
    BY <1>2, <1>4, <2>1, <2>2, <2>8, WrittenOk DEF s
  <2>12. Toward(c, o) = d
    BY <2>1 DEF Toward, ContextOk
  <2>13. c = [p |-> p, i |-> Iss(p, opens'[p]), t |-> Iss(p, opens'[p]) + 1 + wrote'[p],
              j |-> Iss(q, opens'[q]), u |-> Iss(q, opens'[q]) + 1 + wrote'[q],
              m |-> sock[q].recv_next]
    <3>1. Iss(p, opens[p]) \in Nat
      <4>1. opens[p] \in Nat
        BY SockFacts
      <4>2. QED
        BY <4>1 DEF Iss
    <3>2. Iss(p, opens[p]) + 1 + wrote[p] + 1 = Iss(p, opens[p]) + 1 + (wrote[p] + 1)
      BY <1>3, <3>1
    <3>3. QED
      BY <1>2, <1>3, <3>2 DEF Context
  <2> HIDE DEF c, d
  <2>14. Fine(s, c)
    BY <1>6, <2>11 DEF Fine, SentOk
  <2>15. Goes(s, c, r) /\ Alike(s, r)
    <3>1. Goes(s, c, Send(s)) /\ Alike(s, Send(s))
      BY <1>6, <2>11, <2>14, SendGoes
    <3>2. \A soon : Goes(s, c, SendSoon(s, soon)) /\ Alike(s, SendSoon(s, soon))
      BY <1>6, <2>11, <2>14, SendSoonGoes
    <3>3. Goes(s, c, s) /\ Alike(s, s)
      BY <2>14, GoesSelf DEF Alike
    <3>4. QED
      BY <1>5, <3>1, <3>2, <3>3
  <2>16. Toward(c, r) = d
    <3>1. r.recv_next = o.recv_next
      BY <2>11, <2>15 DEF Alike
    <3>2. QED
      BY <2>12, <3>1 DEF Toward
  <2>17. Fine(r, c)
    BY <2>15 DEF Goes
  <2>18. /\ sock[Peer(p)].port = r.port
         /\ r.port \in finSent[p] => r.state \in Closing
         /\ r.port \in finSent[Peer(p)] => sock[Peer(p)].state \in Closing
    BY <1>7, <2>2, <2>3, <2>4
  <2>19. \A g \in net[p] : g.port = r.port => SegmentOk(g, c)
    BY <1>7, <2>11
  <2>20. /\ SocketOk(sock[Peer(p)], Toward(c, r))
         /\ \A g \in net[Peer(p)] : g.port = r.port => SegmentOk(g, Toward(c, r))
    BY <1>7, <2>10, <2>16
  <2>21. QED
    BY <1>8, <2>11, <2>13, <2>17, <2>18, <2>19, <2>20, ConnStep
<1>14. QED
  BY <1>2, <1>12, <1>13 DEF SeqInv
-----------------------------------------------------------------------------
(* The start of a connection. *)
LEMMA InitSeq == Init => SeqInv
<1> SUFFICES ASSUME Init PROVE SeqInv
  OBVIOUS
<1>1. /\ sock["A"] = ClosedSock /\ sock["B"] = ClosedSock
      /\ net["A"] = {} /\ net["B"] = {} /\ opens["A"] = 0 /\ opens["B"] = 0
      /\ \A p \in Sides : wrote[p] = 0 /\ finSent[p] = {}
      /\ ~relisten
  BY DEF Init, Sides
<1>2. /\ ClosedSock.state = "CLOSED" /\ ClosedSock.threaded = FALSE /\ ClosedSock.port = 0
      /\ ClosedSock.send_una = 0 /\ ClosedSock.tx_datalen = 0 /\ ClosedSock.recv_next = 0
      /\ ClosedSock.missed = {} /\ ClosedSock.got_fin = FALSE
  BY DEF ClosedSock
<1>3. PortsOk
  BY <1>1, <1>2 DEF PortsOk
<1>4. Before
  BY <1>1, <1>2 DEF Before, EarlyClient, EarlyServer
<1>5. ~Paired
  BY <1>1, <1>2 DEF Paired
<1>6. QED
  BY <1>3, <1>4, <1>5 DEF SeqInv

LEMMA OpenSeq == ASSUME IInv, SeqInv, Open PROVE SeqInv'
<1> DEFINE n == opens["A"] + 1
           r == [ClosedSock EXCEPT !.state = "RESOLVE", !.threaded = TRUE, !.port = n,
                                   !.send_next = Iss("A", n), !.flags = {"SYN"},
                                   !.unhappy = TRUE]
<1>1. "A" \in Sides /\ "B" \in Sides /\ opens["A"] \in Nat /\ sock["B"].port \in Nat
  BY SockFacts DEF Sides
<1>2. opens'["A"] = n /\ opens'["B"] = opens["B"]
  BY <1>1 DEF Open, IInv, HistoryInv
<1>3. sock'["A"] = r /\ sock'["B"] = sock["B"]
  BY <1>1, <1>2 DEF Open, IInv
<1>4. /\ wrote'["A"] = 0 /\ wrote'["B"] = wrote["B"]
      /\ UNCHANGED <<net, relisten, finSent>>
  BY <1>1 DEF Open, Renew, IInv, HistoryInv
<1>5. /\ r.state = "RESOLVE" /\ r.threaded /\ r.port = n /\ r.send_next = Iss("A", n)
      /\ r.flags = {"SYN"} /\ r.send_una = 0 /\ r.tx_datalen = 0 /\ r.recv_next = 0
      /\ r.missed = {} /\ ~r.got_fin
  BY DEF ClosedSock
<1> HIDE DEF r
<1>6. n # 0 /\ n \in Nat /\ opens["A"] < n
  BY <1>1
<1> HIDE DEF n
<1>7. ~relisten => sock["B"].port < n
  <2>1. ~relisten => sock["B"].port <= opens["A"]
    BY DEF SeqInv, PortsOk
  <2>2. QED
    BY <1>1, <1>6, <2>1
<1>8. PortsOk'
  <2>1. ~relisten => sock["B"].port <= n
    BY <1>1, <1>6, <1>7
  <2>2. QED
    BY <1>2, <1>3, <1>4, <1>5, <1>6, <2>1 DEF SeqInv, PortsOk
<1>9. ~relisten' /\ Paired' => ConnOk'
  <2>1. Paired' => sock["B"].port = n
    BY <1>3, <1>5 DEF Paired
  <2>2. QED
    BY <1>1, <1>4, <1>6, <1>7, <2>1
<1>10. ~relisten' /\ sock'["B"].port = 0 => Before'
  <2> HAVE ~relisten' /\ sock'["B"].port = 0
  <2>1. Before
    BY <1>3, <1>4 DEF SeqInv
  <2>2. EarlyClient(sock["A"])'
    BY <1>2, <1>3, <1>5 DEF EarlyClient
  <2>3. EarlyServer(sock["B"])'
    BY <1>2, <1>3, <2>1 DEF Before, EarlyServer
  <2>4. \A g \in net["A"] : g.port <= n /\ ToClient(g)
    <3> TAKE g \in net["A"]
    <3>1. g.port \in Nat /\ g.port <= opens["A"] /\ ToClient(g)
      BY <1>1, <2>1, NetFacts DEF Before
    <3>2. QED
      BY <1>1, <1>6, <3>1
  <2>5. \A g \in net["B"] : g.port <= n /\ ToServer(g)
    <3> TAKE g \in net["B"]
    <3>1. g.port \in Nat /\ g.port <= opens["A"] /\ ToServer(g)
      BY <1>1, <2>1, NetFacts DEF Before
    <3>2. QED
      BY <1>1, <1>6, <3>1
  <2>6. \A p \in Sides : wrote'[p] = 0 /\ finSent'[p] = {}
    BY <1>4, <2>1 DEF Before, Sides
  <2>7. QED
    BY <1>2, <1>4, <2>2, <2>3, <2>4, <2>5, <2>6 DEF Before
<1>11. QED
  BY <1>8, <1>9, <1>10 DEF SeqInv

(* A server listens once. *)
LEMMA ListenSeq == ASSUME MaxOpen["B"] <= 1, IInv, SeqInv, Listen PROVE SeqInv'
<1> DEFINE r == [ClosedSock EXCEPT !.state = "LISTEN", !.threaded = TRUE,
                                   !.send_next = Iss("B", 1)]
<1>1. "A" \in Sides /\ "B" \in Sides /\ opens["B"] \in Nat /\ opens["A"] \in Nat
      /\ MaxOpen["B"] \in Nat
  BY SockFacts, TcpConnAssumption DEF Sides
<1>2. opens["B"] = 0
  BY <1>1 DEF Listen
<1>3. opens'["B"] = 1 /\ opens'["A"] = opens["A"]
  BY <1>1, <1>2 DEF Listen, IInv, HistoryInv
<1>4. sock'["B"] = r /\ sock'["A"] = sock["A"]
  BY <1>1, <1>3 DEF Listen, IInv
<1>5. /\ wrote'["B"] = 0 /\ wrote'["A"] = wrote["A"]
      /\ UNCHANGED <<net, finSent>> /\ ~relisten'
  BY <1>1 DEF Listen, Renew, IInv, HistoryInv
<1>6. /\ r.state = "LISTEN" /\ r.threaded /\ r.port = 0 /\ r.send_next = Iss("B", 1)
      /\ r.send_una = 0 /\ r.missed = {} /\ ~r.got_fin
  BY DEF ClosedSock
<1> HIDE DEF r
<1>7. ~relisten /\ sock["B"].port = 0
  BY <1>2 DEF SeqInv, PortsOk
<1>8. PortsOk'
  BY <1>1, <1>3, <1>4, <1>5, <1>6 DEF SeqInv, PortsOk
<1>9. ~Paired'
  BY <1>4, <1>6 DEF Paired
<1>10. Before'
  <2>1. Before
    BY <1>7 DEF SeqInv
  <2>2. EarlyClient(sock["A"])'
    BY <1>3, <1>4, <2>1 DEF Before, EarlyClient
  <2>3. EarlyServer(sock["B"])'
    BY <1>3, <1>4, <1>6 DEF EarlyServer
  <2>4. \A p \in Sides : wrote'[p] = 0 /\ finSent'[p] = {}
    BY <1>5, <2>1 DEF Before, Sides
  <2>5. QED
    BY <1>3, <1>5, <2>1, <2>2, <2>3, <2>4 DEF Before
<1>11. QED
  BY <1>8, <1>9, <1>10 DEF SeqInv
-----------------------------------------------------------------------------
(* Deliver: the socket is reset and listens again; *)
LEMMA RelistenSeq ==
  ASSUME IInv, SeqInv, sock["B"].threaded, NEW r, r.state = "LISTEN", Become("B", r),
         opens' = opens
  PROVE  SeqInv'
<1>1. relisten' /\ sock'["A"] = sock["A"]
  BY DEF Become, IInv, Sides
<1>2. opens["B"] >= 1
  BY DEF SeqInv, PortsOk
<1>3. QED
  BY <1>1, <1>2 DEF SeqInv, PortsOk

LEMMA ServerReset ==
  ASSUME NEW s \in SockType
  PROVE  SockReset(s, "B").state = "LISTEN"
<1> DEFINE t == [s EXCEPT !.missed = {}, !.tx_datalen = 0]
           r == [t EXCEPT !.state = "LISTEN", !.port = 0, !.unhappy = FALSE, !.rtt = FALSE,
                          !.timeout = FALSE, !.karn = 0, !.got_fin = FALSE]
<1>1. t \in SockType
  BY EmptyLemma DEF SockType, SockOf
<1>2. SockReset(s, "B") = r
  BY Zenon DEF SockReset, t, r
<1> HIDE DEF t
<1>3. r.state = "LISTEN"
  BY <1>1 DEF SockType, SockOf
<1>4. QED
  BY <1>2, <1>3

(* a client without a connection is told that there is none; *)
LEMMA EarlyHandle ==
  ASSUME NEW s \in SockType, EarlyClient(s), s.threaded, s.out = {}, s.again = FALSE,
         s.port = opens["A"], NEW g \in SegType, ToClient(g), NEW soon, NEW iss
  PROVE  EarlyStep("A", Handle(s, g, "A", soon, iss))
<1> DEFINE r == Handle(s, g, "A", soon, iss)
<1>1. s.state \in {"RESOLVE", "SYNSENT"} /\ EarlyFields(s)
  BY DEF EarlyClient, EarlyFields
<1>2. CASE InWindowReset(s, g)
  <2> DEFINE t == [s EXCEPT !.missed = {}, !.tx_datalen = 0]
  <2>1. t \in SockType /\ EarlyFields(t) /\ t.out = {}
    BY <1>1, EmptyLemma DEF EarlyFields, SockType, SockOf
  <2>2. r = Unthread(t)
    BY <1>2, Zenon DEF Handle, SockReset, r, t
  <2> HIDE DEF t, r
  <2>3. EarlyClient(r) /\ r.out = {}
    BY <2>1, <2>2, EarlyUnthread
  <2>4. QED
    BY <2>3 DEF EarlyStep, r
<1>3. CASE ~InWindowReset(s, g)
  <2> DEFINE t == [s EXCEPT !.karn = 0, !.rtt = TRUE]
             x == Fsm(t, g, "A", soon, iss)
             y == SendSoon(x, soon)
  <2>1. t \in SockType
    <3>1. t = [s EXCEPT !.rtt = TRUE, !.karn = 0]
      BY DEF SockType, SockOf
    <3>2. 0 \in 0 .. 2
      OBVIOUS
    <3> HIDE DEF t
    <3>3. QED
      BY <3>1, <3>2, KarnLemma
  <2>2. Alike(s, t) /\ t.out = {} /\ t.again = FALSE /\ t.send_una = s.send_una
    BY DEF SockType, SockOf, Alike
  <2>3. r = IF x.again /\ x.unhappy THEN y ELSE x
    BY <1>3, Zenon DEF Handle, r, y, x, t
  <2> HIDE DEF t
  <2>4. x \in {Again(t), t}
    <3>1. CASE t.state = "RESOLVE"
      BY <3>1 DEF Fsm
    <3>2. CASE t.state = "SYNSENT"
      <4>1. x = SynsentState(t, g, soon, iss)
        BY <3>2 DEF Fsm
      <4>2. ~Has(g, "SYN") /\ ResetFor(g) = {}
        BY DEF ToClient, ResetFor, Has
      <4>3. SynsentState(t, g, soon, iss) = [t EXCEPT !.out = @ \cup ResetFor(g)]
        BY <4>2 DEF SynsentState
      <4>4. [t EXCEPT !.out = @ \cup {}] = t
        BY <2>1 DEF SockType, SockOf
      <4>5. QED
        BY <4>1, <4>2, <4>3, <4>4
    <3>3. QED
      BY <1>1, <2>2, <3>1, <3>2 DEF Alike
  <2> HIDE DEF x
  <2>5. /\ x \in SockType /\ Alike(t, x) /\ x.out = {} /\ x.send_una = t.send_una
    <3>1. Again(t) \in SockType
      BY <2>1, AgainLemma
    <3>2. Alike(t, Again(t)) /\ Again(t).out = {} /\ Again(t).send_una = t.send_una
      BY <2>1, <2>2 DEF Again, Alike, SockType, SockOf
    <3>3. QED
      BY <2>1, <2>2, <2>4, <3>1, <3>2 DEF Alike
  <2>6. EarlyClient(x) /\ x.threaded /\ x.port = opens["A"]
    BY <2>2, <2>5 DEF EarlyClient, Alike
  <2>7. EarlyStep("A", x)
    BY <2>5, <2>6 DEF EarlyStep
  <2>8. EarlyStep("A", y)
    <3> DEFINE a == [x EXCEPT !.karn = 0]
               b == [x EXCEPT !.rtt = TRUE, !.karn = 1]
    <3>1. a \in SockType /\ Alike(x, a) /\ a.out = {} /\ a.send_una = x.send_una
      BY <2>5 DEF Alike, SockType, SockOf
    <3>2. Alike(x, b) /\ b.out = {} /\ b.send_una = x.send_una
      BY <2>5 DEF Alike, SockType, SockOf
    <3> HIDE DEF a, b
    <3>3. EarlyClient(a) /\ a.threaded /\ a.port = opens["A"]
      BY <2>6, <3>1 DEF EarlyClient, Alike
    <3>4. EarlyStep("A", Send(a))
      BY <3>1, <3>3, EarlySyn
    <3>5. EarlyClient(b)
      BY <2>6, <3>2 DEF EarlyClient, Alike
    <3>6. EarlyStep("A", b)
      BY <3>2, <3>5 DEF EarlyStep
    <3>7. y \in {Send(a), x, b}
      BY Zenon DEF SendSoon, a, b, y
    <3>8. QED
      BY <2>7, <3>4, <3>6, <3>7
  <2> HIDE DEF y, r
  <2>9. QED
    BY <2>3, <2>7, <2>8 DEF r
<1>4. QED
  BY <1>2, <1>3

(* the server takes its first SYN; *)
LEMMA BindGoes ==
  ASSUME NEW c, ContextOk(c), c.p = "B", c.t = c.i + 1,
         NEW s \in SockType, s.state = "LISTEN", s.threaded, s.out = {}, s.again = FALSE,
         s.send_next = c.i, s.send_una = 0, s.tx_datalen = 0, s.missed = {}, ~s.got_fin,
         NEW g \in SegType, g.flags = {"SYN"}, g.seq = c.j, NEW soon, NEW iss
  PROVE  LET r == Handle(s, g, "B", soon, iss) IN
         Fine(r, c) /\ r.port = s.port /\ r.state = "SYNREC" /\ r.recv_next = c.j + 1
<1> DEFINE t == [s EXCEPT !.karn = 0, !.rtt = TRUE]
           b == [t EXCEPT !.recv_next = g.seq + 1, !.flags = {"SYN", "ACK"},
                          !.state = "SYNREC", !.unhappy = TRUE]
           x == Send(b)
           r == [x EXCEPT !.timeout = TRUE]
<1>1. ~Has(g, "RST") /\ Has(g, "SYN")
  BY DEF Has
<1>2. t \in SockType
  <2>1. t = [s EXCEPT !.rtt = TRUE, !.karn = 0]
    BY DEF SockType, SockOf
  <2>2. 0 \in 0 .. 2
    OBVIOUS
  <2> HIDE DEF t
  <2>3. QED
    BY <2>1, <2>2, KarnLemma
<1>3. Alike(s, t) /\ t.out = {} /\ t.again = FALSE /\ t.send_una = 0
  BY DEF SockType, SockOf, Alike
<1> HIDE DEF t
<1>4. g.seq + 1 \in Nat
  BY SegLemma
<1>5. /\ b \in SockType /\ b.state = "SYNREC" /\ b.threaded /\ b.port = s.port
      /\ b.flags = {"SYN", "ACK"} /\ b.send_next = c.i /\ b.tx_datalen = 0 /\ b.send_una = 0
      /\ b.recv_next = c.j + 1 /\ b.missed = {} /\ ~b.got_fin /\ b.out = {} /\ b.again = FALSE
  <2>1. b \in SockType
    BY <1>2, <1>4 DEF SockType, SockOf, Flags, States
  <2>2. QED
    BY <1>2, <1>3, <1>4, <2>1 DEF SockType, SockOf, Alike
<1> HIDE DEF b
<1>6. Fine(b, c)
  <2>1. FlagsOk(b)
    BY <1>5 DEF FlagsOk
  <2>2. SendOk(b, c)
    BY <1>5 DEF SendOk, Opening
  <2>3. ReceiveOk(b, c)
    <3>1. c.j + 1 <= b.recv_next
      BY <1>5, ContextLemma
    <3>2. QED
      BY <1>5, <3>1 DEF ReceiveOk, Opening
  <2>4. AckedOk(b, c) /\ EofOk(b, c)
    BY <1>5 DEF AckedOk, EofOk
  <2>5. QED
    BY <1>5, <2>1, <2>2, <2>3, <2>4 DEF Fine, SocketOk, SentOk
<1>7. Goes(b, c, x) /\ Alike(b, x)
  BY <1>5, <1>6, SendGoes
<1>8. x.again = FALSE /\ x.send_una <= x.tx_datalen /\ x \in SockType
  <2>1. x \in SockType
    BY <1>7 DEF Goes, Fine
  <2>2. x.again = b.again
    BY <1>5 DEF Send, SockType, SockOf
  <2>3. x.send_una <= x.tx_datalen
    BY <1>5, <1>7 DEF Goes, Fine, SocketOk, SendOk, Alike
  <2>4. QED
    BY <1>5, <2>1, <2>2, <2>3
<1> HIDE DEF x
<1>9. r \in SockType /\ Alike(x, r) /\ r.out = x.out /\ r.send_una = x.send_una
      /\ r.again = FALSE
  BY <1>8 DEF SockType, SockOf, Alike
<1>10. Handle(s, g, "B", soon, iss) = r
  <2>1. Fsm(t, g, "B", soon, iss) = r
    <3>1. Fsm(t, g, "B", soon, iss) = ListenState(t, g)
      BY <1>3 DEF Fsm, Alike
    <3>2. ListenState(t, g) = r
      BY <1>1, Zenon DEF ListenState, r, x, b
    <3>3. QED
      BY <3>1, <3>2
  <2>2. ~InWindowReset(s, g)
    BY <1>1 DEF InWindowReset
  <2>3. Handle(s, g, "B", soon, iss) =
          IF r.again /\ r.unhappy THEN SendSoon(r, soon) ELSE r
    BY <2>1, <2>2, Zenon DEF Handle, t
  <2> HIDE DEF r
  <2>4. QED
    BY <1>9, <2>3
<1> HIDE DEF r
<1>11. Goes(x, c, r)
  BY <1>7, <1>8, <1>9, AlikeGoes DEF Goes, Alike
<1>12. Fine(r, c)
  BY <1>11 DEF Goes
<1>13. QED
  BY <1>5, <1>7, <1>9, <1>10, <1>12 DEF Alike

Binds(o, s) ==
  /\ s.state = o.state /\ s.threaded = o.threaded
  /\ s.send_next = o.send_next /\ s.send_una = o.send_una /\ s.tx_datalen = o.tx_datalen
  /\ s.missed = o.missed /\ s.got_fin = o.got_fin /\ s.out = o.out /\ s.again = o.again

LEMMA BindSeq ==
  ASSUME IInv, SeqInv, NEW g \in net["B"], Has(g, "SYN"),
         sock["B"].threaded, sock["B"].port = 0, NEW s \in SockType, Binds(sock["B"], s),
         s.port = g.port, NEW soon, NEW iss,
         NEW r, r = Handle(s, g, "B", soon, iss), r \in SockType, r.port = s.port,
         NEW base \in [Sides -> Finite(SegType)], \A q \in Sides : base[q] \subseteq net[q],
         Step("B", r), Transmit(base, "B", r.out), UNCHANGED <<opens, wrote, relisten>>
  PROVE  SeqInv'
<1> DEFINE o == sock["B"]
           a == sock["A"]
           c == Context("B")
           d == Toward(c, r)
           x == [r EXCEPT !.out = {}, !.again = FALSE]
<1>1. "A" \in Sides /\ "B" \in Sides /\ Peer("B") = "A" /\ Peer("A") = "B"
  BY DEF Sides, Peer
<1>2. sock'["B"] = x /\ sock'["A"] = a
  BY <1>1, StepFields
<1>3. Unbound(o) /\ o.out = {} /\ o.again = FALSE
  BY <1>1, SockFacts
<1>4. s.port = g.port /\ s.state = o.state /\ s.threaded = o.threaded
      /\ s.send_next = o.send_next /\ s.send_una = o.send_una /\ s.tx_datalen = o.tx_datalen
      /\ s.missed = o.missed /\ s.got_fin = o.got_fin /\ s.out = {} /\ s.again = FALSE
  BY <1>3 DEF Binds
<1>5. g \in SegType /\ g.port \in Nat /\ g.port # 0
  BY <1>1, NetFacts
<1>6. x.port = g.port
  <2>1. Alike(r, x)
    BY RestFields
  <2> HIDE DEF x
  <2>2. QED
    BY <1>4, <2>1 DEF Alike
<1> HIDE DEF x
<1>7. CASE relisten
  BY <1>1, <1>2, <1>7 DEF SeqInv, PortsOk
<1>8. CASE ~relisten
  <2>1. Before
    BY <1>8 DEF SeqInv
  <2>2. /\ o.state = "LISTEN" /\ o.send_next = Iss("B", opens["B"]) /\ o.send_una = 0
        /\ o.tx_datalen = 0 /\ o.missed = {} /\ ~o.got_fin
    BY <1>3, <2>1 DEF Before, EarlyServer, Unbound
  <2>3. g.flags = {"SYN"} /\ g.seq = Iss("A", g.port) /\ g.port <= opens["A"]
    BY <2>1 DEF Before, ToServer
  <2>4. PortsOk'
    BY <1>2, <1>6, <2>3 DEF SeqInv, PortsOk
  <2>5. ASSUME g.port = a.port PROVE ConnOk'
    <3>1. a.port = opens["A"]
      BY DEF SeqInv, PortsOk
    <3>2. /\ ContextOk(c) /\ c.p = "B" /\ c.i = Iss("B", opens["B"]) /\ c.t = c.i + 1
          /\ c.j = Iss("A", opens["A"]) /\ c.u = c.j + 1 /\ c.m = 0
      <4>1. wrote["A"] = 0 /\ wrote["B"] = 0 /\ a.recv_next = 0
        BY <1>1, <2>1 DEF Before, EarlyClient
      <4>2. /\ ContextOk(c) /\ c.p = "B" /\ c.i = Iss("B", opens["B"])
            /\ c.t = Iss("B", opens["B"]) + 1 + wrote["B"]
            /\ c.j = Iss("A", opens["A"]) /\ c.u = Iss("A", opens["A"]) + 1 + wrote["A"]
            /\ c.m = a.recv_next
        BY <1>1, ContextFacts
      <4> HIDE DEF c
      <4>3. c.i \in Nat /\ c.j \in Nat
        BY <4>2, ContextLemma
      <4>4. QED
        BY <4>1, <4>2, <4>3
    <3>3. c = [p |-> "B", i |-> Iss("B", opens'["B"]),
               t |-> Iss("B", opens'["B"]) + 1 + wrote'["B"],
               j |-> Iss(Peer("B"), opens'[Peer("B")]),
               u |-> Iss(Peer("B"), opens'[Peer("B")]) + 1 + wrote'[Peer("B")],
               m |-> sock[Peer("B")].recv_next]
      BY DEF Context
    <3> HIDE DEF c
    <3>4. Fine(r, c) /\ r.port = g.port /\ r.state = "SYNREC" /\ r.recv_next = c.j + 1
      <4>1. /\ s.state = "LISTEN" /\ s.threaded /\ s.out = {} /\ s.again = FALSE
            /\ s.send_next = c.i /\ s.send_una = 0 /\ s.tx_datalen = 0 /\ s.missed = {}
            /\ ~s.got_fin
        BY <1>4, <2>2, <3>2
      <4>2. g.flags = {"SYN"} /\ g.seq = c.j
        BY <2>3, <2>5, <3>1, <3>2
      <4>3. LET h == Handle(s, g, "B", soon, iss) IN
            Fine(h, c) /\ h.port = s.port /\ h.state = "SYNREC" /\ h.recv_next = c.j + 1
        BY <1>5, <3>2, <4>1, <4>2, BindGoes
      <4>4. QED
        BY <1>4, <4>3
    <3>5. /\ d.p = "A" /\ d.i = c.j /\ d.t = c.j + 1 /\ d.j = c.i /\ d.u = c.t
          /\ d.m = c.j + 1
      BY <1>1, <3>2, <3>4 DEF Toward
    <3> HIDE DEF d
    <3>6. SocketOk(a, d)
      <4>1. EarlyClient(a)
        BY <2>1 DEF Before
      <4>2. a.state # "LISTEN" /\ a.state # "SYNREC" /\ EofOk(a, d)
        BY <4>1 DEF EarlyClient, EofOk
      <4>3. ASSUME a.threaded
            PROVE  FlagsOk(a) /\ SendOk(a, d) /\ ReceiveOk(a, d) /\ AckedOk(a, d)
        <5>1. a.state \in {"RESOLVE", "SYNSENT"} /\ a.flags = {"SYN"} /\ a.send_next = d.i
          BY <3>2, <3>5, <4>1, <4>3 DEF EarlyClient
        <5>2. FlagsOk(a) /\ AckedOk(a, d)
          BY <5>1 DEF FlagsOk, AckedOk
        <5>3. SendOk(a, d)
          BY <3>5, <4>1, <5>1 DEF SendOk, EarlyClient, Opening
        <5>4. ReceiveOk(a, d)
          BY <4>1, <5>1 DEF ReceiveOk, EarlyClient, Opening
        <5>5. QED
          BY <5>2, <5>3, <5>4
      <4>4. QED
        BY <3>5, <4>2, <4>3 DEF SocketOk
    <3>7. \A h \in net["A"] : h.port = r.port => SegmentOk(h, d)
      <4> TAKE h \in net["A"]
      <4> HAVE h.port = r.port
      <4>1. Has(h, "RST") /\ ~Has(h, "SYN") /\ ~Has(h, "FIN") /\ h.ack <= d.m
        BY <2>1, <2>5, <3>1, <3>2, <3>4, <3>5 DEF Before, ToClient
      <4>2. QED
        BY <4>1 DEF SegmentOk, HasData
    <3>8. \A h \in net["B"] : h.port = r.port => SegmentOk(h, c)
      <4> TAKE h \in net["B"]
      <4> HAVE h.port = r.port
      <4>1. ToServer(h) /\ h.port = opens["A"]
        BY <2>1, <2>5, <3>1, <3>4 DEF Before
      <4>2. h.ack <= c.m /\ ~(h.ack > c.t) /\ ~Has(h, "FIN") /\ ~HasData(h)
        <5>1. h.ack = 0 /\ h.len = 0 /\ ~Has(h, "FIN")
          BY <4>1 DEF ToServer
        <5>2. c.t \in Nat
          BY <3>2, ContextLemma
        <5>3. QED
          BY <3>2, <5>1, <5>2 DEF HasData
      <4>3. CASE h.flags = {"SYN"} /\ h.seq = Iss("A", h.port)
        BY <3>2, <4>1, <4>2, <4>3 DEF SegmentOk, ToServer, Has
      <4>4. CASE Has(h, "RST") /\ ~Has(h, "SYN")
        BY <4>2, <4>4 DEF SegmentOk
      <4>5. QED
        BY <4>1, <4>3, <4>4 DEF ToServer
    <3>9. r.port \notin finSent["A"] /\ r.port \notin finSent["B"]
      BY <1>1, <2>1 DEF Before
    <3>10. /\ SocketOk(sock[Peer("B")], Toward(c, r))
           /\ \A h \in net[Peer("B")] : h.port = r.port => SegmentOk(h, Toward(c, r))
           /\ sock[Peer("B")].port = r.port
      BY <1>1, <2>5, <3>4, <3>6, <3>7 DEF d
    <3>11. QED
      BY <1>1, <3>2, <3>3, <3>4, <3>8, <3>9, <3>10, ConnStep
  <2>6. Paired' => g.port = a.port
    BY <1>2, <1>6 DEF Paired
  <2>7. sock'["B"].port # 0
    BY <1>2, <1>5, <1>6
  <2>8. QED
    BY <2>4, <2>5, <2>6, <2>7 DEF SeqInv
<1>9. QED
  BY <1>7, <1>8

(* a segment without a socket is answered with a reset. *)
LEMMA NoSocketSeq ==
  ASSUME IInv, SeqInv, NEW p \in Sides, NEW g \in net[p],
         NEW base \in [Sides -> Finite(SegType)], \A q \in Sides : base[q] \subseteq net[q],
         Transmit(base, p, ResetFor(g)),
         UNCHANGED <<sock, opens, wrote, finSent, relisten>>
  PROVE  SeqInv'
<1> DEFINE q == Peer(p)
<1>1. q \in Sides /\ Peer(q) = p /\ \A z \in Sides : z = p \/ z = q
  BY PeerLemma
<1>2. net'[p] \subseteq net[p] /\ net'[q] \subseteq net[q] \cup ResetFor(g)
  BY TransmitFields
<1>3. g \in SegType /\ g.port \in Nat
  BY NetFacts
<1>4. PortsOk'
  BY DEF SeqInv, PortsOk
<1>5. ~relisten' /\ sock'["B"].port = 0 => Before'
  <2> HAVE ~relisten' /\ sock'["B"].port = 0
  <2>1. Before
    BY DEF SeqInv
  <2>2. \A x \in ResetFor(g) : p = "B" /\ ToClient(x) /\ x.port = g.port
    <3>1. CASE Has(g, "RST")
      BY <3>1 DEF ResetFor, Has
    <3>2. CASE ~Has(g, "RST")
      <4>1. p = "B" /\ g.flags = {"SYN"} /\ g.seq = Iss("A", g.port)
        BY <2>1, <3>2 DEF Before, ToClient, ToServer, Sides
      <4> DEFINE y == [port |-> g.port, seq |-> 0, ack |-> g.seq + 1,
                       flags |-> {"RST", "ACK"}, len |-> 0]
      <4>2. ResetFor(g) = {y}
        BY <4>1 DEF ResetFor
      <4>3. y.port = g.port /\ y.ack = Iss("A", g.port) + 1 /\ y.flags = {"RST", "ACK"}
        BY <4>1
      <4> HIDE DEF y
      <4>4. Iss("A", g.port) + 1 \in Nat
        BY <1>3 DEF Iss
      <4>5. ToClient(y)
        BY <4>3, <4>4 DEF ToClient, Has
      <4>6. QED
        BY <4>1, <4>2, <4>3, <4>5
    <3>3. QED
      BY <3>1, <3>2
  <2>3. g.port <= opens["A"]
    BY <2>1 DEF Before, Sides
  <2>4. EarlyClient(sock["A"])' /\ EarlyServer(sock["B"])'
    BY <2>1 DEF Before, EarlyClient, EarlyServer
  <2>5. \A x \in net'["A"] : x.port <= opens["A"] /\ ToClient(x)
    BY <1>2, <2>1, <2>2, <2>3 DEF Before, Sides, Peer
  <2>6. \A x \in net'["B"] : x.port <= opens["A"] /\ ToServer(x)
    BY <1>2, <2>1, <2>2 DEF Before, Sides, Peer
  <2>7. QED
    BY <2>1, <2>4, <2>5, <2>6 DEF Before
<1>6. ASSUME ~relisten, Paired PROVE ConnOk'
  <2> DEFINE c == Context(p)
             d == Context(q)
  <2>1. /\ ContextOk(c) /\ d = Toward(c, sock[p]) /\ sock[p].recv_next \in Nat
        /\ sock[q].port = sock[p].port
    BY <1>1, <1>6, ContextFacts, SockFacts, PairedFacts
  <2>2. PairOk(sock[p], c, net[p], finSent[p]) /\ PairOk(sock[q], d, net[q], finSent[q])
    BY <1>1, <1>6 DEF SeqInv, ConnOk
  <2>3. c' = c /\ d' = d
    BY DEF Context
  <2> HIDE DEF c, d
  <2>4. PairOk(sock[p], c, net'[p], finSent[p])
    BY <1>2, <2>2 DEF PairOk
  <2>5. ASSUME NEW x \in ResetFor(g), x.port = sock[q].port PROVE SegmentOk(x, d)
    <3>1. x.port = g.port
      <4>1. g.port = g.port
        OBVIOUS
      <4>2. QED
        BY <2>5 DEF ResetFor
    <3>2. SegmentOk(g, c)
      BY <2>1, <2>2, <2>5, <3>1 DEF PairOk
    <3>3. SegmentOk(x, [p |-> Peer(c.p), i |-> c.j, t |-> c.u, j |-> c.i, u |-> c.t,
                        m |-> sock[p].recv_next])
      BY <1>3, <2>1, <2>5, <3>2, ResetForOk
    <3>4. QED
      BY <2>1, <3>3 DEF Toward
  <2>6. PairOk(sock[q], d, net'[q], finSent[q])
    BY <1>2, <2>2, <2>5 DEF PairOk
  <2>7. PairOk(sock[p], c, net[p], finSent[p])' /\ PairOk(sock[q], d, net[q], finSent[q])'
    <3>1. PairOk(sock[p], c, net[p], finSent[p])' = PairOk(sock[p], c, net'[p], finSent[p])
      BY <2>3
    <3>2. PairOk(sock[q], d, net[q], finSent[q])' = PairOk(sock[q], d, net'[q], finSent[q])
      BY <2>3
    <3>3. QED
      BY <2>4, <2>6, <3>1, <3>2
  <2>8. QED
    BY <1>1, <2>7 DEF ConnOk, c, d
<1>7. QED
  BY <1>4, <1>5, <1>6 DEF SeqInv, Paired

LEMMA DeliverSeq == ASSUME IInv, SeqInv, NEW p \in Sides, Deliver(p) PROVE SeqInv'
<1> USE TcpConnAssumption
<1> DEFINE left(g) == {[net EXCEPT ![p] = @ \ {g}]} \cup (IF Duplicates THEN {net} ELSE {})
           iss == Iss(p, opens[p]) + 5
           results(g) == {Handle(x[1], g, p, x[2], iss) : x \in Demux(p, g) \X Soons}
           o == sock[p]
<1>1. PICK g \in net[p] :
        /\ \/ \E r \in results(g) :
                Become(p, r) /\ \E base \in left(g) : Transmit(base, p, r.out)
           \/ \E s \in FindSeq(p, g) :
                /\ Demux(p, g) = {}
                /\ Become(p, SockReset(s, p)) /\ \E base \in left(g) : Transmit(base, p, {})
           \/ /\ Demux(p, g) = {} /\ FindSeq(p, g) = {}
              /\ \E base \in left(g) : Transmit(base, p, ResetFor(g))
              /\ UNCHANGED <<sock, wrote, finSent, relisten>>
        /\ UNCHANGED opens
  BY DEF Deliver
<1>2. \A base \in left(g) :
        base \in [Sides -> Finite(SegType)] /\ \A q \in Sides : base[q] \subseteq net[q]
  <2>1. net \in [Sides -> Finite(SegType)]
    BY DEF IInv, NetInv
  <2>2. net[p] \ {g} \in Finite(SegType)
    BY <2>1, SubsetLemma
  <2>3. QED
    BY <2>1, <2>2
<1>3. g \in SegType /\ g.port \in Nat /\ g.port # 0 /\ iss \in Nat
  <2>1. g \in SegType /\ g.port \in Nat /\ g.port # 0
    BY NetFacts
  <2>2. opens[p] \in Nat
    BY SockFacts
  <2>3. QED
    BY <2>1, <2>2 DEF Iss
<1>4. /\ SockInv(o, wrote[p]) /\ o.out = {} /\ o.again = FALSE
      /\ o.port # 0 => o \in SockType
      /\ o.port = 0 => Unbound(o)
  BY SockFacts
<1> HIDE DEF left, iss, o
<1>5. CASE \E r \in results(g) :
             Become(p, r) /\ \E base \in left(g) : Transmit(base, p, r.out)
  <2>1. PICK s \in Demux(p, g), soon \in Soons, base \in left(g) :
          LET r == Handle(s, g, p, soon, iss)
          IN  Become(p, r) /\ Transmit(base, p, r.out)
    BY <1>5
  <2> DEFINE r == Handle(s, g, p, soon, iss)
  <2>2. /\ s \in SockType /\ Timed(s) /\ s.threaded /\ s.out = {} /\ s.again = FALSE
        /\ s.port = g.port /\ (s.state = "LISTEN" => Has(g, "SYN"))
    BY DemuxLemma
  <2>3. \/ r.state = "LISTEN" /\ p = "B"
        \/ Result(s, Has(g, "FIN"), r)
    BY <1>3, <2>2, HandleLemma
  <2>4. Become(p, r) /\ Transmit(base, p, r.out)
    BY <2>1
  <2> HIDE DEF r, results
  <2>5. base \in [Sides -> Finite(SegType)] /\ \A q \in Sides : base[q] \subseteq net[q]
    BY <1>2
  <2>6. o.threaded
    BY <2>2 DEF Demux, o
  <2>7. CASE r.state = "LISTEN"
    <3>1. p = "B"
      BY <2>3, <2>7 DEF Result
    <3>2. QED
      BY <1>1, <2>4, <2>6, <2>7, <3>1, RelistenSeq DEF o
  <2>8. CASE r.state # "LISTEN" /\ o.port = g.port
    <3>1. s = o
      BY <2>6, <2>8 DEF Demux, o
    <3>2. r \in SockType /\ r.port = o.port
      BY <2>3, <2>8, <3>1 DEF Result
    <3>3. ~relisten /\ sock["B"].port = 0 => EarlyStep(p, r)
      <4> HAVE ~relisten /\ sock["B"].port = 0
      <4>1. p = "A"
        BY <1>3, <2>8 DEF Sides, o
      <4>2. EarlyClient(o) /\ o.port = opens["A"]
        BY <2>6, <4>1, ThreadedFacts DEF SeqInv, PortsOk, o
      <4>3. ToClient(g)
        BY <4>1 DEF SeqInv, Before
      <4>4. QED
        BY <1>3, <2>2, <3>1, <4>1, <4>2, <4>3, EarlyHandle DEF r
    <3>4. ~relisten /\ Paired => Goes(o, Context(p), r)
      <4> HAVE ~relisten /\ Paired
      <4> DEFINE c == Context(p)
      <4>1. Fine(o, c) /\ ContextOk(c) /\ c.p = p
        BY <2>6, ThreadedFacts, ContextFacts DEF o
      <4>2. SegmentOk(g, c)
        BY <2>8 DEF SeqInv, ConnOk, PairOk, o
      <4> HIDE DEF c
      <4>3. Goes(o, c, r) \/ r.state = "LISTEN"
        <5>1. Fine(s, c) /\ s.threaded /\ s.again = FALSE /\ g.port = s.port
          BY <2>2, <3>1, <4>1
        <5>2. LET h == Handle(s, g, c.p, soon, iss) IN Goes(s, c, h) \/ h.state = "LISTEN"
          BY ONLY <1>3, <4>1, <4>2, <5>1, HandleGoes, Zenon
        <5>3. r = Handle(s, g, c.p, soon, iss)
          BY <4>1 DEF r
        <5> HIDE DEF r
        <5>4. Goes(s, c, r) \/ r.state = "LISTEN"
          BY ONLY <5>2, <5>3
        <5>5. QED
          BY ONLY <3>1, <5>4
      <4>4. QED
        BY <2>8, <4>3 DEF c
    <3>5. Step(p, r) /\ UNCHANGED <<opens, wrote, relisten>>
      BY <1>1, <2>4, <2>8 DEF Become
    <3>6. QED
      BY <2>4, <2>5, <2>6, <2>8, <3>2, <3>3, <3>4, <3>5, SeqStep DEF o
  <2>9. CASE r.state # "LISTEN" /\ o.port # g.port
    <3>1. s = [o EXCEPT !.port = g.port] /\ o.port = 0 /\ Has(g, "SYN")
      BY <2>9 DEF Demux, o
    <3>2. p = "B"
      BY <2>6, <3>1, ThreadedFacts DEF Sides, o
    <3>3. Binds(o, s)
      BY <1>4, <3>1 DEF Binds, Unbound, SockOf
    <3>4. r \in SockType /\ r.port = s.port
      BY <2>3, <2>9 DEF Result
    <3>5. Step("B", r) /\ UNCHANGED <<opens, wrote, relisten>>
      BY <1>1, <2>4, <2>9, <3>2 DEF Become
    <3>6. g \in net["B"] /\ sock["B"].threaded /\ sock["B"].port = 0 /\ Binds(sock["B"], s)
          /\ Transmit(base, "B", r.out) /\ r = Handle(s, g, "B", soon, iss)
      BY <2>4, <2>6, <3>1, <3>2, <3>3 DEF o, r
    <3>7. QED
      BY <2>2, <2>5, <3>1, <3>4, <3>5, <3>6, BindSeq
  <2>10. QED
    BY <2>7, <2>8, <2>9
<1>6. CASE \E s \in FindSeq(p, g) :
             Become(p, SockReset(s, p)) /\ \E base \in left(g) : Transmit(base, p, {})
  <2>1. p = "B" /\ Become("B", SockReset(o, "B")) /\ o.threaded /\ o.port # 0
    BY <1>6 DEF FindSeq, o
  <2>2. SockReset(o, "B").state = "LISTEN"
    BY <1>4, <2>1, ServerReset
  <2>3. QED
    BY <1>1, <2>1, <2>2, RelistenSeq DEF o
<1>7. CASE /\ \E base \in left(g) : Transmit(base, p, ResetFor(g))
           /\ UNCHANGED <<sock, wrote, finSent, relisten>>
  BY <1>1, <1>2, <1>7, NoSocketSeq
<1>8. QED
  BY <1>1, <1>5, <1>6, <1>7
-----------------------------------------------------------------------------
(* Every step keeps the invariant. *)
LEMMA NextSeq == MaxOpen["B"] <= 1 /\ IInv /\ SeqInv /\ [Next]_vars => SeqInv'
<1> SUFFICES ASSUME MaxOpen["B"] <= 1, IInv, SeqInv, [Next]_vars PROVE SeqInv'
  OBVIOUS
<1>1. CASE Open
  BY <1>1, OpenSeq
<1>2. CASE Listen
  BY <1>2, ListenSeq
<1>3. CASE Resolved
  BY <1>3, ResolvedSeq
<1>4. CASE Unresolved
  BY <1>4, AbortSeq DEF Sides
<1>5. ASSUME NEW p \in Sides, WriteByte(p) PROVE SeqInv'
  BY <1>5, WriteByteSeq
<1>6. ASSUME NEW p \in Sides, Flush(p) PROVE SeqInv'
  BY <1>6, FlushSeq
<1>7. ASSUME NEW p \in Sides, CloseSock(p) PROVE SeqInv'
  BY <1>7, CloseSeq
<1>8. ASSUME NEW p \in Sides, Retransmit(p) PROVE SeqInv'
  BY <1>8, RetransmitSeq
<1>9. ASSUME NEW p \in Sides, Deliver(p) PROVE SeqInv'
  BY <1>9, DeliverSeq
<1>10. ASSUME NEW p \in Sides, AbortSock(p) \/ Timeout(p) \/ Reap(p) PROVE SeqInv'
  BY <1>10, AbortSeq
<1>11. CASE UNCHANGED vars
  <2>1. \A p \in Sides : UNCHANGED Context(p)
    BY <1>11, Zenon DEF vars, Context, Peer
  <2>2. UNCHANGED <<Paired, relisten, sock, net, opens, wrote, finSent>>
    BY <1>11 DEF vars, Paired
  <2>3. UNCHANGED ConnOk
    BY <2>1, <2>2, Zenon DEF ConnOk
  <2>4. UNCHANGED Before /\ UNCHANGED PortsOk
    BY <2>2 DEF Before, PortsOk, EarlyClient, EarlyServer, ToClient, ToServer
  <2>5. QED
    BY <2>2, <2>3, <2>4 DEF SeqInv
<1>12. QED
  BY <1>1, <1>2, <1>3, <1>4, <1>5, <1>6, <1>7, <1>8, <1>9, <1>10, <1>11 DEF Next

LEMMA SeqInvariance == ASSUME OneServer PROVE Spec => []SeqInv
<1>1. MaxOpen["B"] <= 1
  BY DEF OneServer
<1>2. IInv /\ SeqInv /\ [Next]_vars => SeqInv'
  BY <1>1, NextSeq
<1>3. QED
  BY <1>2, InitSeq, Invariance, PTL DEF Spec
-----------------------------------------------------------------------------
LEMMA ConnFacts ==
  ASSUME IInv, SeqInv, Paired, ~relisten, NEW p \in Sides
  PROVE  SocketOk(sock[p], Context(p)) /\ (sock[p].port \in finSent[p] => sock[p].state \in Closing)
BY DEF SeqInv, ConnOk, PairOk

(* tcp_process_ACK() drops from the send buffer only bytes that the peer's  *)
(* tcp_process_data() has taken, and recv_next is never ahead of what was   *)
(* written and the FIN, through open, close, retransmission and late        *)
(* segments of the same port.                                               *)
THEOREM AcknowledgedIsReceived == ASSUME OneServer PROVE Spec => []AckedIsReceived
<1>1. IInv /\ SeqInv => AckedIsReceived
  <2> SUFFICES ASSUME IInv, SeqInv, Paired, ~relisten, NEW p \in Sides,
                      sock[p].state \in Sending, sock[Peer(p)].state \in Sending
               PROVE  LET s == sock[p]
                          r == sock[Peer(p)]
                          fin == IF s.port \in finSent[p] THEN 1 ELSE 0
                          syn == IF s.send_next = Iss(p, opens[p]) THEN 1 ELSE 0
                      IN  /\ s.send_next <= r.recv_next
                          /\ r.recv_next <= s.send_next + s.tx_datalen + fin + syn
    BY DEF AckedIsReceived
  <2> DEFINE q == Peer(p)
             s == sock[p]
             r == sock[q]
             c == Context(p)
             d == Context(q)
  <2>1. q \in Sides /\ Peer(q) = p /\ s.port = r.port
    BY DEF Sides, Peer, Paired
  <2>2. SocketOk(s, c) /\ SocketOk(r, d)
    BY <2>1, ConnFacts
  <2>3. s \in SockType /\ r \in SockType /\ s.threaded /\ r.threaded
    BY <2>1, SockFacts DEF Paired, SockInv, Bound, Timed, Sending, Sides, Peer
  <2>4. ContextOk(c) /\ ContextOk(d)
    BY <2>1, ContextFacts
  <2>5. c.i = Iss(p, opens[p]) /\ c.m = r.recv_next /\ d.u = c.t /\ d.j = c.i
    BY <2>1 DEF Context
  <2>6. /\ s.send_next \in Nat /\ s.tx_datalen \in Nat /\ r.recv_next \in Nat
        /\ c.i \in Nat /\ c.t \in Nat /\ c.i + 1 <= c.t
    BY <2>3, <2>4 DEF SockType, SockOf, ContextOk
  <2>7. s.send_next <= r.recv_next
    <3>1. s.send_next = c.i \/ s.send_next <= c.m
      BY <2>2, <2>3 DEF SocketOk, AckedOk
    <3>2. c.i + 1 <= r.recv_next
      BY <2>2, <2>3, <2>5 DEF SocketOk, ReceiveOk, Sending
    <3>3. QED
      BY <2>5, <2>6, <3>1, <3>2
  <2>8. r.recv_next <= c.t \/ (r.state = "LASTACK" /\ r.recv_next = c.t + 1)
    BY <2>2, <2>3, <2>5 DEF SocketOk, ReceiveOk, Sending
  <2>9. s.send_next + s.tx_datalen = c.t \/ (s.send_next = c.i /\ s.tx_datalen = 0 /\ c.t = c.i + 1)
    BY <2>2, <2>3, <2>6 DEF SocketOk, SendOk, Sending, End
  <2>10. r.state = "LASTACK" => s.port \in finSent[p]
    BY <2>1, <2>2, <2>3 DEF SocketOk, ReceiveOk, IInv, GotFinWasSent
  <2> HIDE DEF s, r, c, d, q
  <2>11. r.recv_next <= s.send_next + s.tx_datalen + (IF s.port \in finSent[p] THEN 1 ELSE 0)
                        + (IF s.send_next = Iss(p, opens[p]) THEN 1 ELSE 0)
    <3> DEFINE fin == IF s.port \in finSent[p] THEN 1 ELSE 0
               syn == IF s.send_next = Iss(p, opens[p]) THEN 1 ELSE 0
    <3>1. fin \in {0, 1} /\ syn \in {0, 1} /\ (r.state = "LASTACK" => fin = 1)
          /\ (s.send_next = c.i => syn = 1)
      BY <2>5, <2>10
    <3> HIDE DEF fin, syn
    <3>2. c.t <= s.send_next + s.tx_datalen + syn
      BY <2>6, <2>9, <3>1
    <3>3. r.recv_next <= c.t + fin
      BY <2>6, <2>8, <3>1
    <3>4. r.recv_next <= s.send_next + s.tx_datalen + fin + syn
      BY <2>6, <3>1, <3>2, <3>3
    <3>5. QED
      BY <3>4 DEF fin, syn
  <2>12. QED
    BY <2>7, <2>11 DEF s, r, q
<1>2. QED
  BY <1>1, Invariance, SeqInvariance, PTL

(* got_fin is set only when recv_next has reached the end of what the peer  *)
(* wrote, and stands behind the FIN in LASTACK: tcp_read() reports no end   *)
(* in front of missing bytes.                                               *)
THEOREM EofIsWhole == ASSUME OneServer PROVE Spec => []EofIsComplete
<1>1. IInv /\ SeqInv => EofIsComplete
  <2> SUFFICES ASSUME IInv, SeqInv, Paired, ~relisten, NEW p \in Sides,
                      sock[p].got_fin, ~TookSynForFin(p)
               PROVE  sock[p].recv_next
                        >= Iss(Peer(p), opens[Peer(p)]) + 1 + wrote[Peer(p)]
                           + (IF sock[p].state = "LASTACK" THEN 1 ELSE 0)
    BY DEF EofIsComplete
  <2> DEFINE s == sock[p]
             c == Context(p)
  <2>1. SocketOk(s, c) /\ ContextOk(c)
    BY ConnFacts, ContextFacts
  <2>2. s \in SockType /\ Timed(s)
    BY SockFacts DEF Paired, SockInv, Bound, Sides
  <2>3. c.u = Iss(Peer(p), opens[Peer(p)]) + 1 + wrote[Peer(p)] /\ c.i = Iss(p, opens[p])
    BY DEF Context
  <2>4. s.recv_next \in Nat /\ c.u \in Nat
    BY <2>1, <2>2 DEF SockType, SockOf, ContextOk
  <2>5. CASE s.state = "LASTACK"
    <3>1. s.recv_next = c.u + 1
      BY <2>1, <2>2, <2>5 DEF SocketOk, ReceiveOk, Timed
    <3>2. QED
      BY <2>3, <2>4, <2>5, <3>1
  <2>6. CASE s.state # "LASTACK"
    <3>1. s.send_next # c.i + 1
      BY <2>3, <2>6 DEF TookSynForFin
    <3>2. c.u <= s.recv_next
      BY <2>1, <2>6, <3>1 DEF SocketOk, EofOk
    <3>3. QED
      BY <2>3, <2>4, <2>6, <3>2
  <2>7. QED
    BY <2>5, <2>6
<1>2. QED
  BY <1>1, Invariance, SeqInvariance, PTL
=============================================================================

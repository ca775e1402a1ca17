--------------------------- MODULE TcpConnProofs ---------------------------
(***************************************************************************)
(* Proofs about TcpConn for any number of connections, bytes and segments   *)
(* under way, whatever the network loses, repeats and reorders: types, that *)
(* an end of stream is reported only if the peer closed that connection,    *)
(* and that no socket is half open or half closed without a timer.          *)
(*                                                                         *)
(* The last two are not inductive.  An end of stream comes from a FIN, so   *)
(* that every FIN under way must be one that was sent (FinsWereSent).  A    *)
(* listening socket takes the port of the first SYN; it must not have seen  *)
(* a FIN nor send anything before that (Unbound), or it would bring the end *)
(* of one connection into another.  The timer is the socket's own (Timed):  *)
(* a handler stops it only where it leaves the transient states.            *)
(***************************************************************************)
EXTENDS TcpConn, FiniteSetTheorems, WellFoundedInduction, TLAPS

Flags == {"SYN", "ACK", "FIN", "RST"}
Ports == 1 .. MaxOpen["A"]

SegType ==
  [port : Ports, seq : Nat, ack : Nat, flags : SUBSET Flags, len : Nat]

Finite(S) == {T \in SUBSET S : IsFiniteSet(T)}

(* A socket.  Between tcp_process_ACK() and the test that follows it,      *)
(* send_una may be negative.                                               *)
SockOf(una, ports) ==
  [state : States, threaded : BOOLEAN, port : ports, send_next : Nat,
   send_una : una, tx_datalen : Nat, recv_next : Nat, missed : Finite(Nat),
   flags : SUBSET Flags, unhappy : BOOLEAN, timeout : BOOLEAN, rtt : BOOLEAN,
   karn : 0 .. 2, got_fin : BOOLEAN, out : Finite(SegType), again : BOOLEAN]

SockType == SockOf(Nat, Ports)

Timed(s) ==
  /\ s.state \in Transient \ {"RESOLVE"} => s.timeout
  /\ s.state # "CLOSED" => s.threaded

(* A socket in a connection, and one that belongs to none. *)
Bound(s, written) ==
  /\ s \in SockType /\ s.tx_datalen <= written /\ s.state # "LISTEN"

Unbound(s) ==
  /\ s \in SockOf(Nat, {0}) /\ s.state \in {"LISTEN", "CLOSED"}
  /\ s.tx_datalen = 0 /\ ~s.rtt /\ ~s.got_fin

SockInv(s, written) ==
  /\ Bound(s, written) \/ Unbound(s)
  /\ Timed(s) /\ s.out = {} /\ s.again = FALSE

NetInv ==
  /\ net \in [Sides -> Finite(SegType)]
  /\ \A p \in Sides : Cardinality(net[p]) <= MaxNet

HistoryInv ==
  /\ opens \in [Sides -> Nat] /\ \A p \in Sides : opens[p] <= MaxOpen[p]
  /\ wrote \in [Sides -> 0 .. MaxWrite]
  /\ finSent \in [Sides -> SUBSET Ports]

FinsWereSent ==
  \A p \in Sides : \A g \in net[p] : Has(g, "FIN") => g.port \in finSent[Peer(p)]

IInv ==
  /\ DOMAIN sock = Sides
  /\ \A p \in Sides : SockInv(sock[p], wrote[p])
  /\ NetInv
  /\ HistoryInv
  /\ FinsWereSent
  /\ GotFinWasSent
-----------------------------------------------------------------------------
(* The number that tcp_process_data() counts recv_next up to exists: the    *)
(* bytes received are finitely many.                                       *)
LEMMA FillLemma ==
  ASSUME NEW a \in Nat, NEW have \in Finite(Nat)
  PROVE  \E n \in a .. a + Cardinality(have) : a .. n - 1 \subseteq have /\ n \notin have
<1> DEFINE c == Cardinality(have)
           S == (a .. a + c) \ have
<1>1. c \in Nat /\ IsFiniteSet(have) /\ have \subseteq Nat
  BY FS_CardinalityType DEF Finite
<1> HIDE DEF c
<1>2. S # {}
  <2> SUFFICES ASSUME a .. a + c \subseteq have PROVE FALSE
    OBVIOUS
  <2>1. Cardinality(a .. a + c) = c + 1
    BY <1>1, FS_Interval
  <2>2. Cardinality(a .. a + c) <= c
    BY <1>1, FS_Subset DEF c
  <2>3. QED
    BY <1>1, <2>1, <2>2
<1>3. S \subseteq Nat
  BY <1>1
<1> HIDE DEF S
<1>4. PICK n \in S : \A m \in S : ~ (<<m, n>> \in OpToRel(<, Nat))
  BY <1>2, <1>3, NatLessThanWellFounded, WFMin
<1>5. \A m \in S : ~ (m < n)
  <2>1. \A m \in S : <<m, n>> \in OpToRel(<, Nat) <=> m < n
    BY <1>3, Zenon DEF OpToRel
  <2>2. QED
    BY <1>4, <2>1, Zenon
<1>6. n \in a .. a + c /\ n \notin have
  BY DEF S
<1>7. a .. n - 1 \subseteq have
  BY <1>1, <1>3, <1>5, <1>6 DEF S
<1>8. QED
  BY <1>6, <1>7 DEF c

LEMMA AddLemma ==
  ASSUME NEW S, NEW T \in Finite(S), NEW U \in Finite(S)
  PROVE  T \cup U \in Finite(S)
BY FS_Union DEF Finite

LEMMA OneLemma ==
  ASSUME NEW S, NEW x \in S
  PROVE  {x} \in Finite(S)
BY FS_Singleton DEF Finite

LEMMA SubsetLemma ==
  ASSUME NEW S, NEW T \in Finite(S), NEW U \in SUBSET T
  PROVE  U \in Finite(S)
BY FS_Subset DEF Finite

LEMMA EmptyLemma == ASSUME NEW S PROVE {} \in Finite(S)
BY FS_EmptySet DEF Finite
-----------------------------------------------------------------------------
(* What the operations leave alone. *)
Same(s, r) ==
  /\ r.state = s.state /\ r.threaded = s.threaded /\ r.port = s.port
  /\ r.timeout = s.timeout /\ r.got_fin = s.got_fin
  /\ r.tx_datalen = s.tx_datalen

LEMMA FieldsLemma ==
  ASSUME NEW s \in SockType
  PROVE  /\ s.state \in States /\ s.threaded \in BOOLEAN /\ s.port \in Ports
         /\ s.timeout \in BOOLEAN /\ s.got_fin \in BOOLEAN /\ s.tx_datalen \in Nat
         /\ s.send_next \in Nat /\ s.recv_next \in Nat /\ s.send_una \in Nat
         /\ s.out \in Finite(SegType) /\ s.missed \in Finite(Nat)
BY DEF SockType, SockOf

LEMMA SegmentLemma ==
  ASSUME NEW s \in SockOf(Int, Ports), NEW flags \in SUBSET Flags, NEW seq \in Nat, NEW len \in Nat
  PROVE  Segment(s, flags, seq, len) \in SegType
BY DEF Segment, SegType, SockOf

LEMMA SendLemma ==
  ASSUME NEW s \in SockType
  PROVE  Send(s) \in SockType /\ Same(s, Send(s))
<1> DEFINE start == IF s.karn = 2 THEN 0 ELSE s.send_una
           len   == IF "SYN" \in s.flags THEN 0 ELSE Minus(s.tx_datalen, start)
           g     == Segment(s, s.flags, s.send_next + start, len)
           out   == s.out \cup {g}
           una   == start + len
           karn  == IF s.karn = 2 THEN 2 ELSE 0
           r     == [s EXCEPT !.out = out, !.send_una = una, !.karn = karn, !.rtt = TRUE]
<1>1. start \in Nat /\ len \in Nat
  BY DEF SockType, SockOf, Minus
<1> HIDE DEF start, len
<1>2. g \in SegType
  <2>1. s \in SockOf(Int, Ports) /\ s.flags \in SUBSET Flags /\ s.send_next + start \in Nat
    BY <1>1 DEF SockType, SockOf
  <2>2. QED
    BY <1>1, <2>1, SegmentLemma
<1> HIDE DEF g
<1>3. out \in Finite(SegType)
  BY <1>2, AddLemma, OneLemma DEF SockType, SockOf
<1>4. una \in Nat /\ karn \in 0 .. 2
  BY <1>1
<1> HIDE DEF out, una, karn
<1>5. r \in SockType /\ Same(s, r)
  BY <1>3, <1>4 DEF SockType, SockOf, Same
<1>6. Send(s) = r
  BY Zenon DEF Send, r, out, una, karn, g, start, len
<1>7. QED
  BY <1>5, <1>6

LEMMA UnhappyLemma ==
  ASSUME NEW s \in SockType, NEW b \in BOOLEAN
  PROVE  /\ [s EXCEPT !.unhappy = b] \in SockType
         /\ Same(s, [s EXCEPT !.unhappy = b])
BY DEF SockType, SockOf, Same

LEMMA KarnLemma ==
  ASSUME NEW s \in SockType, NEW k \in 0 .. 2
  PROVE  /\ [s EXCEPT !.rtt = TRUE, !.karn = k] \in SockType
         /\ Same(s, [s EXCEPT !.rtt = TRUE, !.karn = k])
BY DEF SockType, SockOf, Same

LEMMA SendSoonLemma ==
  ASSUME NEW s \in SockType, NEW soon
  PROVE  SendSoon(s, soon) \in SockType /\ Same(s, SendSoon(s, soon))
<1> DEFINE t == [s EXCEPT !.karn = 0]
           u == [s EXCEPT !.rtt = TRUE, !.karn = 1]
<1>1. t \in SockType /\ Same(s, t)
  BY DEF SockType, SockOf, Same
<1>2. u \in SockType /\ Same(s, u)
  <2>1. 1 \in 0 .. 2
    OBVIOUS
  <2>2. QED
    BY <2>1, KarnLemma, Zenon
<1> HIDE DEF t, u
<1>3. Send(t) \in SockType /\ Same(s, Send(t))
  BY <1>1, SendLemma DEF Same
<1>4. SendSoon(s, soon) \in {Send(t), s, u}
  BY Zenon DEF SendSoon, t, u
<1>5. Same(s, s)
  BY DEF Same
<1>6. QED
  BY <1>2, <1>3, <1>4, <1>5

(* What a handler, or a call of the application, does to the parts of a     *)
(* socket that the invariant speaks of; fin says that it was given a FIN.   *)
Result(s, fin, r) ==
  /\ r \in SockType /\ Timed(r)
  /\ r.port = s.port
  /\ r.tx_datalen <= s.tx_datalen
  /\ r.got_fin => s.got_fin \/ fin
  /\ r.state # "LISTEN"

LEMMA SameLemma ==
  ASSUME NEW s \in SockType, Timed(s), s.state # "LISTEN",
         NEW r \in SockType, Same(s, r), NEW fin
  PROVE  Result(s, fin, r)
BY DEF Same, Result, Timed, SockType, SockOf

LEMMA ResetForLemma ==
  ASSUME NEW g \in SegType
  PROVE  /\ ResetFor(g) \in Finite(SegType)
         /\ \A x \in ResetFor(g) : ~Has(x, "FIN")
<1> DEFINE a == [port |-> g.port, seq |-> 0, ack |-> g.seq + 1, flags |-> {"RST", "ACK"},
                 len |-> 0]
           b == [port |-> g.port, seq |-> g.ack, ack |-> 0, flags |-> {"RST"}, len |-> 0]
<1>1. a \in SegType /\ b \in SegType
  BY DEF SegType, Flags
<1>2. ~Has(a, "FIN") /\ ~Has(b, "FIN")
  BY DEF Has
<1> HIDE DEF a, b
<1>3. {a} \in Finite(SegType) /\ {b} \in Finite(SegType) /\ {} \in Finite(SegType)
  BY <1>1, OneLemma, EmptyLemma
<1>4. ResetFor(g) \in {{}, {a}, {b}}
  BY Zenon DEF ResetFor, a, b
<1>5. QED
  BY <1>2, <1>3, <1>4

LEMMA UnthreadLemma ==
  ASSUME NEW s \in SockType, NEW fin
  PROVE  /\ Result(s, fin, Unthread(s))
         /\ Unthread(s).tx_datalen = 0 /\ Unthread(s).state = "CLOSED"
         /\ Unthread(s).got_fin = s.got_fin /\ Unthread(s).out = s.out
<1> DEFINE r == [s EXCEPT !.state = "CLOSED", !.threaded = FALSE, !.tx_datalen = 0]
<1>1. r \in SockType
  BY DEF SockType, SockOf, States
<1>2. /\ r.state = "CLOSED" /\ r.tx_datalen = 0
      /\ r.port = s.port /\ r.got_fin = s.got_fin /\ r.out = s.out
  BY DEF SockType, SockOf
<1>3. Unthread(s) = r
  BY DEF Unthread
<1> HIDE DEF r
<1>4. Result(s, fin, r)
  BY <1>1, <1>2, FieldsLemma DEF Result, Timed, Transient
<1>5. QED
  BY <1>2, <1>3, <1>4

LEMMA AbortLemma ==
  ASSUME NEW s \in SockType
  PROVE  Result(s, FALSE, Abort(s))
<1> DEFINE reset == [s EXCEPT !.flags = {"RST", "ACK"}, !.tx_datalen = 0]
           t == [Send(reset) EXCEPT !.unhappy = FALSE]
           u == [s EXCEPT !.unhappy = FALSE, !.tx_datalen = 0]
<1>1. /\ reset \in SockType /\ reset.tx_datalen = 0
      /\ reset.port = s.port /\ reset.got_fin = s.got_fin
  BY DEF SockType, SockOf, Flags
<1> HIDE DEF reset
<1>2. Send(reset) \in SockType /\ Same(reset, Send(reset))
  BY <1>1, SendLemma
<1>3. t \in SockType /\ t.port = s.port /\ t.got_fin = s.got_fin
  BY <1>1, <1>2 DEF SockType, SockOf, Same
<1>4. u \in SockType /\ u.port = s.port /\ u.got_fin = s.got_fin
  BY DEF SockType, SockOf
<1> HIDE DEF t, u
<1>5. Abort(s) \in {Unthread(t), Unthread(u)}
  BY Zenon DEF Abort, t, u, reset
<1>6. s.tx_datalen >= 0
  BY DEF SockType, SockOf
<1>7. QED
  BY <1>3, <1>4, <1>5, <1>6, UnthreadLemma DEF Result

LEMMA CloseLemma ==
  ASSUME NEW s \in SockType, Timed(s), s.state # "LISTEN", NEW soon, NEW fin
  PROVE  Result(s, fin, Close(s, soon))
<1> DEFINE t == [s EXCEPT !.flags = @ \cup {"ACK"}, !.state = "ESTCL"]
           w == IF s.state = "ESTCL" THEN t ELSE SendSoon(t, soon)
           u == [w EXCEPT !.unhappy = TRUE]
           f == [s EXCEPT !.flags = {"ACK", "FIN"}, !.state = "FINWT1", !.timeout = TRUE]
           v == [Send(f) EXCEPT !.unhappy = TRUE]
<1>1. CASE s.state \in {"ESTAB", "ESTCL", "SYNREC"}
  <2>1. s.threaded
    BY <1>1 DEF Timed
  <2>2. t \in SockType /\ Timed(t) /\ t.state = "ESTCL" /\ t.port = s.port
        /\ t.got_fin = s.got_fin /\ t.tx_datalen = s.tx_datalen
    BY <2>1 DEF SockType, SockOf, Flags, States, Timed, Transient
  <2>3. f \in SockType /\ Timed(f) /\ f.state = "FINWT1" /\ f.port = s.port
        /\ f.got_fin = s.got_fin /\ f.tx_datalen = s.tx_datalen
    BY <2>1 DEF SockType, SockOf, Flags, States, Timed, Transient
  <2> HIDE DEF t, f
  <2>4. w \in SockType /\ Same(t, w)
    BY <2>2, SendSoonLemma DEF Same
  <2>5. Send(f) \in SockType /\ Same(f, Send(f))
    BY <2>3, SendLemma
  <2> HIDE DEF w
  <2>6. u \in SockType /\ Same(w, u)
    BY <2>4, UnhappyLemma
  <2>7. v \in SockType /\ Same(Send(f), v)
    BY <2>5, UnhappyLemma
  <2> HIDE DEF u, v
  <2>8. Result(s, fin, u)
    BY <2>2, <2>4, <2>6, FieldsLemma DEF Result, Same, Timed
  <2>9. Result(s, fin, v)
    BY <2>3, <2>5, <2>7, FieldsLemma DEF Result, Same, Timed
  <2>10. Close(s, soon) \in {u, v}
    BY <1>1, Zenon DEF Close, u, v, w, t, f
  <2>11. QED
    BY <2>8, <2>9, <2>10
<1>2. CASE s.state \in {"RESOLVE", "SYNSENT"}
  <2>1. Close(s, soon) = Unthread(s)
    BY <1>2 DEF Close
  <2>2. QED
    BY <2>1, UnthreadLemma
<1>3. CASE s.state \notin {"ESTAB", "ESTCL", "SYNREC"} /\ s.state \notin {"RESOLVE", "SYNSENT"}
  <2>1. Close(s, soon) = s
    BY <1>3 DEF Close
  <2>2. QED
    BY <2>1, SameLemma DEF Same
<1>4. QED
  BY <1>1, <1>2, <1>3
-----------------------------------------------------------------------------
(* The parts of the input state machine. *)
LEMMA AgainLemma ==
  ASSUME NEW s \in SockType
  PROVE  Again(s) \in SockType /\ Same(s, Again(s))
BY DEF Again, SockType, SockOf, Same

LEMMA KarnZeroLemma ==
  ASSUME NEW s \in SockType
  PROVE  [s EXCEPT !.karn = 0] \in SockType /\ Same(s, [s EXCEPT !.karn = 0])
BY DEF SockType, SockOf, Same

LEMMA SendAgainLemma ==
  ASSUME NEW s \in SockType
  PROVE  Again(Send(s)) \in SockType /\ Same(s, Again(Send(s)))
BY SendLemma, AgainLemma DEF Same

Acked(s, r) ==
  /\ r.state = s.state /\ r.threaded = s.threaded /\ r.port = s.port
  /\ r.timeout = s.timeout /\ r.got_fin = s.got_fin
  /\ r.tx_datalen \in Nat /\ r.tx_datalen <= s.tx_datalen

LEMMA ProcessAckLemma ==
  ASSUME NEW s \in SockType, NEW g \in SegType, AckOk(s, g)
  PROVE  ProcessAck(s, g) \in SockOf(Int, Ports) /\ Acked(s, ProcessAck(s, g))
<1> DEFINE d == g.ack - s.send_next
           tx == s.tx_datalen - d
           una == s.send_una - d
           rtt == s.rtt /\ ~(s.send_una = d /\ s.tx_datalen = d)
           r == [s EXCEPT !.tx_datalen = tx, !.send_una = una, !.send_next = g.ack,
                          !.rtt = rtt]
<1>1. g.ack \in Nat
  BY DEF SegType
<1>2. tx \in Nat /\ tx <= s.tx_datalen
  BY <1>1, FieldsLemma DEF AckOk
<1>3. una \in Int
  BY <1>1, FieldsLemma
<1>4. rtt \in BOOLEAN
  BY DEF SockType, SockOf
<1>5. ProcessAck(s, g) = r
  BY Zenon DEF ProcessAck, r, d, tx, una, rtt, SockType, SockOf
<1> HIDE DEF d, tx, una, rtt
<1>6. r \in SockOf(Int, Ports)
  BY <1>1, <1>2, <1>3, <1>4 DEF SockType, SockOf
<1>7. Acked(s, r)
  BY <1>2 DEF Acked, SockType, SockOf
<1>8. QED
  BY <1>5, <1>6, <1>7

LEMMA ProcessDataLemma ==
  ASSUME NEW s \in SockType, NEW g \in SegType
  PROVE  ProcessData(s, g) \in SockType /\ Same(s, ProcessData(s, g))
<1> DEFINE new    == g.seq .. g.seq + g.len - 1
           have   == s.missed \cup new
           filled == CHOOSE n \in s.recv_next .. s.recv_next + Cardinality(have) :
                       s.recv_next .. n - 1 \subseteq have /\ n \notin have
           touches == s.missed = {} \/ \E n \in s.missed : n + 1 \in new \/ n - 1 \in new
           kept   == IF touches THEN have ELSE s.missed
           left   == {n \in s.missed : n > filled}
           more   == s.tx_datalen > 0
           t == [s EXCEPT !.missed = kept, !.unhappy = TRUE]
           u == [s EXCEPT !.recv_next = filled, !.missed = left, !.unhappy = more]
<1>1. g.seq \in Nat /\ g.len \in Nat
  BY DEF SegType
<1>2. have \in Finite(Nat)
  <2>1. new \in Finite(Nat)
    <3>1. g.seq \in Int /\ g.seq + g.len - 1 \in Int
      BY <1>1
    <3>2. IsFiniteSet(new)
      BY <3>1, FS_Interval
    <3>3. new \subseteq Nat
      BY <1>1
    <3>4. QED
      BY <3>2, <3>3 DEF Finite
  <2>2. QED
    BY <2>1, FieldsLemma, AddLemma
<1> HIDE DEF new, have
<1>3. filled \in Nat
  <2>1. /\ s.recv_next \in Nat
        /\ Cardinality(have) \in Nat
    BY <1>2, FieldsLemma, FS_CardinalityType DEF Finite
  <2>2. filled \in s.recv_next .. s.recv_next + Cardinality(have)
    BY <1>2, <2>1, FillLemma
  <2>3. QED
    BY <2>1, <2>2
<1>4. kept \in Finite(Nat)
  BY <1>2, FieldsLemma DEF kept
<1> HIDE DEF filled, touches, kept
<1>5. left \in Finite(Nat)
  BY FieldsLemma, SubsetLemma
<1> HIDE DEF left
<1>6. t \in SockType /\ Same(s, t)
  <2>1. t \in SockType
    BY <1>4 DEF SockType, SockOf
  <2>2. Same(s, t)
    BY DEF SockType, SockOf, Same
  <2>3. QED
    BY <2>1, <2>2
<1>7. u \in SockType /\ Same(s, u)
  <2>1. more \in BOOLEAN
    OBVIOUS
  <2> HIDE DEF more
  <2>2. u \in SockType
    BY <1>3, <1>5, <2>1 DEF SockType, SockOf
  <2>3. Same(s, u)
    BY DEF SockType, SockOf, Same
  <2>4. QED
    BY <2>2, <2>3
<1> HIDE DEF t, u
<1>8. ProcessData(s, g) \in {s, t, u}
  BY Zenon DEF ProcessData, t, u, new, have, filled, touches, kept, left, more
<1>9. Same(s, s)
  BY DEF Same
<1>10. QED
  BY <1>6, <1>7, <1>8, <1>9

(* A socket that took a state and a timer. *)
Turns(s, state, timeout, r) ==
  /\ r \in SockType
  /\ r.state = state /\ r.timeout = timeout
  /\ r.threaded = s.threaded /\ r.port = s.port
  /\ r.got_fin = s.got_fin /\ r.tx_datalen = s.tx_datalen

LEMMA TurnLemma ==
  ASSUME NEW s \in SockType, s.threaded, NEW state \in States \ {"LISTEN"}, NEW timeout,
         state \in Transient \ {"RESOLVE"} => timeout,
         NEW r, Turns(s, state, timeout, r), NEW fin
  PROVE  Result(s, fin, r)
BY FieldsLemma DEF Turns, Result, Timed

LEMMA SendTurnsLemma ==
  ASSUME NEW s, NEW state, NEW timeout, NEW t, Turns(s, state, timeout, t), NEW soon
  PROVE  /\ Turns(s, state, timeout, Send(t))
         /\ Turns(s, state, timeout, Again(t))
         /\ Turns(s, state, timeout, Again(Send(t)))
         /\ Turns(s, state, timeout, SendSoon(t, soon))
         /\ Turns(s, state, timeout, [t EXCEPT !.unhappy = TRUE])
<1>1. t \in SockType
  BY DEF Turns
<1>2. ASSUME NEW r \in SockType, Same(t, r) PROVE Turns(s, state, timeout, r)
  BY <1>2 DEF Turns, Same
<1>3. Turns(s, state, timeout, Send(t)) /\ Turns(s, state, timeout, Again(t))
  BY <1>1, <1>2, SendLemma, AgainLemma
<1>4. Turns(s, state, timeout, Again(Send(t)))
  BY <1>1, <1>2, SendAgainLemma
<1>5. Turns(s, state, timeout, SendSoon(t, soon))
  BY <1>1, <1>2, SendSoonLemma
<1>6. Turns(s, state, timeout, [t EXCEPT !.unhappy = TRUE])
  BY <1>1, <1>2, UnhappyLemma
<1>7. QED
  BY <1>3, <1>4, <1>5, <1>6

LEMMA TimerLemma ==
  ASSUME NEW s, NEW state, NEW timeout, NEW t, Turns(s, state, timeout, t)
  PROVE  Turns(s, state, TRUE, [t EXCEPT !.timeout = TRUE])
BY DEF Turns, SockType, SockOf

LEMMA OutLemma ==
  ASSUME NEW s \in SockType, NEW g \in SegType
  PROVE  LET r == [s EXCEPT !.out = @ \cup ResetFor(g)] IN r \in SockType /\ Same(s, r)
<1> DEFINE out == s.out \cup ResetFor(g)
<1>1. out \in Finite(SegType)
  BY FieldsLemma, ResetForLemma, AddLemma
<1> HIDE DEF out
<1>2. [s EXCEPT !.out = out] \in SockType /\ Same(s, [s EXCEPT !.out = out])
  BY <1>1 DEF SockType, SockOf, Same
<1>3. QED
  BY <1>2 DEF out

LEMMA ListenLemma ==
  ASSUME NEW s \in SockType, Timed(s), s.state = "LISTEN", NEW g \in SegType, Has(g, "SYN")
  PROVE  Result(s, Has(g, "FIN"), ListenState(s, g))
<1> DEFINE t == [s EXCEPT !.recv_next = g.seq + 1, !.flags = {"SYN", "ACK"},
                          !.state = "SYNREC", !.unhappy = TRUE]
           r == [Send(t) EXCEPT !.timeout = TRUE]
<1>1. s.threaded
  BY DEF Timed
<1>2. g.seq + 1 \in Nat
  BY DEF SegType
<1>3. Turns(s, "SYNREC", s.timeout, t)
  BY <1>2 DEF Turns, SockType, SockOf, Flags, States
<1>4. ListenState(s, g) = r
  BY Zenon DEF ListenState, r, t
<1> HIDE DEF t
<1>5. Turns(s, "SYNREC", TRUE, r)
  BY <1>3, SendTurnsLemma, TimerLemma
<1> HIDE DEF r
<1>6. Result(s, Has(g, "FIN"), r)
  BY <1>1, <1>5, TurnLemma DEF States
<1>7. QED
  BY <1>4, <1>6

LEMMA SynsentLemma ==
  ASSUME NEW s \in SockType, Timed(s), s.state = "SYNSENT", NEW g \in SegType,
         NEW soon, NEW iss \in Nat
  PROVE  Result(s, Has(g, "FIN"), SynsentState(s, g, soon, iss))
<1> DEFINE more == s.tx_datalen > 0
           t == [s EXCEPT !.flags = {"ACK"}, !.timeout = TRUE]
           u == [s EXCEPT !.out = @ \cup ResetFor(g)]
           v == [t EXCEPT !.state = "ESTAB", !.send_next = @ + 1, !.recv_next = g.seq + 1,
                          !.unhappy = more]
           w == [t EXCEPT !.flags = {"RST"}, !.unhappy = TRUE]
           x == [Send(w) EXCEPT !.send_next = iss, !.flags = {"SYN"}]
           y == [t EXCEPT !.recv_next = @ + 1, !.state = "SYNREC"]
           R == Again(Send(v))
           S == Again(SendSoon(x, soon))
<1>1. s.threaded
  BY DEF Timed
<1>2. g.seq + 1 \in Nat /\ s.send_next + 1 \in Nat /\ s.recv_next + 1 \in Nat
  BY FieldsLemma DEF SegType
<1>3. more \in BOOLEAN
  OBVIOUS
<1> HIDE DEF more
<1>4. /\ Turns(s, "SYNSENT", TRUE, t)
      /\ t.send_next = s.send_next /\ t.recv_next = s.recv_next
  BY DEF Turns, SockType, SockOf, Flags
<1> HIDE DEF t
<1>5. Turns(s, "ESTAB", TRUE, v)
  BY <1>2, <1>3, <1>4 DEF Turns, SockType, SockOf, States
<1>6. Turns(s, "SYNSENT", TRUE, w)
  BY <1>4 DEF Turns, SockType, SockOf, Flags
<1>7. Turns(s, "SYNREC", TRUE, y)
  BY <1>2, <1>4 DEF Turns, SockType, SockOf, States
<1> HIDE DEF v, w, y
<1>8. Turns(s, "SYNSENT", TRUE, x)
  <2>1. Turns(s, "SYNSENT", TRUE, Send(w))
    BY <1>6, SendTurnsLemma
  <2>2. QED
    BY <2>1 DEF Turns, SockType, SockOf, Flags
<1> HIDE DEF x
<1>9. Turns(s, "ESTAB", TRUE, R) /\ Turns(s, "SYNREC", TRUE, Again(y))
  BY <1>5, <1>7, SendTurnsLemma
<1>10. Turns(s, "SYNSENT", TRUE, S)
  BY <1>8, SendTurnsLemma
<1> HIDE DEF R, S
<1>11. /\ Result(s, Has(g, "FIN"), R) /\ Result(s, Has(g, "FIN"), S)
       /\ Result(s, Has(g, "FIN"), Again(y))
  BY <1>1, <1>9, <1>10, TurnLemma DEF States
<1>12. Result(s, Has(g, "FIN"), u)
  BY OutLemma, SameLemma
<1> HIDE DEF u
<1>13. SynsentState(s, g, soon, iss) \in {u, R, S, Again(y)}
  BY Zenon DEF SynsentState, R, S, t, u, v, w, x, y, more
<1>14. QED
  BY <1>11, <1>12, <1>13

LEMMA SynrecLemma ==
  ASSUME NEW s \in SockType, Timed(s), s.state = "SYNREC", NEW g \in SegType
  PROVE  Result(s, Has(g, "FIN"), SynrecState(s, g))
<1> DEFINE t == [s EXCEPT !.flags = {"SYN", "ACK"}, !.unhappy = TRUE]
           r == [Send(t) EXCEPT !.timeout = TRUE]
           u == [s EXCEPT !.send_next = @ + 1, !.flags = {"ACK"}, !.state = "ESTAB",
                          !.timeout = FALSE, !.unhappy = FALSE]
<1>1. s.threaded
  BY DEF Timed
<1>2. s.send_next + 1 \in Nat
  BY FieldsLemma
<1>3. Turns(s, "SYNREC", s.timeout, t)
  BY DEF Turns, SockType, SockOf, Flags
<1>4. Turns(s, "ESTAB", FALSE, u)
  BY <1>2 DEF Turns, SockType, SockOf, Flags, States
<1> HIDE DEF t, u
<1>5. Turns(s, "SYNREC", TRUE, r)
  BY <1>3, SendTurnsLemma, TimerLemma
<1> HIDE DEF r
<1>6. Result(s, Has(g, "FIN"), r) /\ Result(s, Has(g, "FIN"), u)
  BY <1>1, <1>4, <1>5, TurnLemma DEF States, Transient
<1>7. Result(s, Has(g, "FIN"), Again(s))
  BY AgainLemma, SameLemma
<1>8. SynrecState(s, g) \in {r, u, Again(s)}
  BY Zenon DEF SynrecState, r, t, u
<1>9. QED
  BY <1>6, <1>7, <1>8

LEMMA EstabFinLemma ==
  ASSUME NEW s \in SockType, s.threaded, s.state \in {"ESTAB", "ESTCL"},
         NEW g \in SegType, NEW fin \in BOOLEAN
  PROVE  Result(s, fin, EstabFin(s, g, fin))
<1> DEFINE t == [s EXCEPT !.recv_next = @ + 1]
           u == Send(t)
           v == ToLastAck(u)
           w == Send([s EXCEPT !.unhappy = TRUE])
<1>1. CASE fin
  <2>1. Turns(s, s.state, s.timeout, t)
    <3>1. s.recv_next + 1 \in Nat
      BY FieldsLemma
    <3>2. QED
      BY <3>1 DEF Turns, SockType, SockOf
  <2>2. Turns(s, s.state, s.timeout, s)
    BY DEF Turns
  <2> HIDE DEF t
  <2>3. Turns(s, s.state, s.timeout, u) /\ Turns(s, s.state, s.timeout, w)
    BY <2>1, <2>2, SendTurnsLemma
  <2> HIDE DEF u, w
  <2>4. Result(s, fin, v)
    <3>1. v \in SockType
      BY <2>3 DEF Turns, ToLastAck, SockType, SockOf, Flags, States
    <3>2. v.state = "LASTACK" /\ v.timeout = TRUE /\ v.threaded = s.threaded
          /\ v.port = s.port /\ v.tx_datalen = s.tx_datalen
      BY <2>3 DEF Turns, ToLastAck, SockType, SockOf
    <3> HIDE DEF v
    <3>3. QED
      BY <1>1, <3>1, <3>2, FieldsLemma DEF Result, Timed
  <2>5. Result(s, fin, w)
    BY <2>3, FieldsLemma DEF Turns, Result, Timed, Transient, States
  <2>6. Result(s, fin, s)
    BY FieldsLemma DEF Result, Timed, Transient, States
  <2> HIDE DEF v
  <2>7. EstabFin(s, g, fin) \in {s, v, w}
    BY Zenon DEF EstabFin, t, u, v, w
  <2>8. QED
    BY <2>4, <2>5, <2>6, <2>7
<1>2. CASE ~fin
  <2>1. EstabFin(s, g, fin) = s
    BY <1>2 DEF EstabFin
  <2>2. QED
    BY <2>1, FieldsLemma DEF Result, Timed, Transient, States
<1>3. QED
  BY <1>1, <1>2

LEMMA EstabReplyLemma ==
  ASSUME NEW s \in SockType, NEW g, NEW acked, NEW soon
  PROVE  EstabReply(s, g, acked, soon) \in SockType /\ Same(s, EstabReply(s, g, acked, soon))
<1> DEFINE t == [s EXCEPT !.karn = 0]
<1>1. t \in SockType /\ Same(s, t)
  BY KarnZeroLemma
<1> HIDE DEF t
<1>2. Send(t) \in SockType /\ Same(s, Send(t))
  BY <1>1, SendLemma DEF Same
<1>3. Send(s) \in SockType /\ Same(s, Send(s)) /\ Same(s, s)
  BY SendLemma DEF Same
<1>4. SendSoon(s, soon) \in SockType /\ Same(s, SendSoon(s, soon))
  BY SendSoonLemma
<1>5. EstabReply(s, g, acked, soon) \in {Send(t), SendSoon(s, soon), Send(s), s}
  BY Zenon DEF EstabReply, t
<1>6. QED
  BY <1>2, <1>3, <1>4, <1>5

LEMMA EstabLemma ==
  ASSUME NEW s \in SockType, Timed(s), s.state \in {"ESTAB", "ESTCL"}, NEW g \in SegType,
         NEW soon
  PROVE  Result(s, Has(g, "FIN"), EstabState(s, g, soon))
<1> DEFINE acked == g.ack - s.send_next
           a == IF AckOk(s, g) THEN ProcessAck(s, g) ELSE [s EXCEPT !.send_una = 0]
           una == Minus(a.send_una, 0)
           b == [a EXCEPT !.send_una = una, !.flags = {"ACK"}, !.timeout = FALSE]
           d == ProcessData(b, g)
           fin == FinOf(b, g)
           e == EstabFin(d, g, fin)
           r == EstabReply(e, g, acked, soon)
<1>1. s.threaded
  BY DEF Timed
<1>2. a \in SockOf(Int, Ports) /\ Acked(s, a)
  <2>1. [s EXCEPT !.send_una = 0] \in SockOf(Int, Ports) /\ Acked(s, [s EXCEPT !.send_una = 0])
    <3>1. [s EXCEPT !.send_una = 0] \in SockOf(Int, Ports)
      BY DEF SockType, SockOf
    <3>2. Acked(s, [s EXCEPT !.send_una = 0])
      BY DEF SockType, SockOf, Acked
    <3>3. QED
      BY <3>1, <3>2
  <2>2. QED
    BY <2>1, ProcessAckLemma
<1> HIDE DEF a
<1>3. una \in Nat
  BY <1>2 DEF Minus, SockOf
<1> HIDE DEF una
<1>4. b \in SockType /\ b.state = s.state /\ b.threaded = s.threaded /\ b.port = s.port
      /\ b.got_fin = s.got_fin /\ b.tx_datalen \in Nat /\ b.tx_datalen <= s.tx_datalen
  <2>1. b \in SockType
    BY <1>2, <1>3 DEF SockType, SockOf, Flags
  <2>2. b.state = a.state /\ b.threaded = a.threaded /\ b.port = a.port
        /\ b.got_fin = a.got_fin /\ b.tx_datalen = a.tx_datalen
    BY <1>2 DEF SockOf
  <2>3. QED
    BY <1>2, <2>1, <2>2 DEF Acked
<1> HIDE DEF b
<1>5. d \in SockType /\ Same(b, d)
  BY <1>4, ProcessDataLemma
<1> HIDE DEF d
<1>6. fin \in BOOLEAN /\ (fin => Has(g, "FIN"))
  BY DEF FinOf, OutOfOrder, HasData, Has
<1> HIDE DEF fin
<1>7. Result(d, fin, e)
  BY <1>1, <1>4, <1>5, <1>6, EstabFinLemma DEF Same
<1> HIDE DEF e
<1>8. r \in SockType /\ Same(e, r)
  BY <1>7, EstabReplyLemma DEF Result
<1> HIDE DEF r
<1>9. Result(s, Has(g, "FIN"), r)
  BY <1>4, <1>5, <1>6, <1>7, <1>8, FieldsLemma DEF Result, Same, Timed
<1>10. Result(s, Has(g, "FIN"), Again(Send(d)))
  <2>1. Again(Send(d)) \in SockType /\ Same(d, Again(Send(d)))
    BY <1>5, SendAgainLemma
  <2>2. QED
    BY <1>1, <1>4, <1>5, <2>1, FieldsLemma DEF Result, Same, Timed, Transient, States
<1>11. Result(s, Has(g, "FIN"), s) /\ Result(s, Has(g, "FIN"), Send(s))
  BY SendLemma, SameLemma DEF Same
<1>12. EstabState(s, g, soon) \in {Send(s), s, Again(Send(d)), r}
  BY Zenon DEF EstabState, a, una, b, d, fin, e, r
<1>13. QED
  BY <1>9, <1>10, <1>11, <1>12

LEMMA ResultTrans ==
  ASSUME NEW s \in SockType, NEW fin, NEW t, Result(s, fin, t), NEW r, Result(t, fin, r)
  PROVE  Result(s, fin, r)
BY FieldsLemma DEF Result

LEMMA AgainFalseLemma ==
  ASSUME NEW s \in SockType
  PROVE  [s EXCEPT !.again = FALSE] \in SockType /\ Same(s, [s EXCEPT !.again = FALSE])
BY DEF SockType, SockOf, Same

LEMMA EstclLemma ==
  ASSUME NEW s \in SockType, Timed(s), s.state = "ESTCL", NEW g \in SegType, NEW soon
  PROVE  Result(s, Has(g, "FIN"), EstclState(s, g, soon))
<1> DEFINE fin == Has(g, "FIN")
           x == EstabState(s, g, soon)
           y == Close(x, soon)
           r == [y EXCEPT !.again = FALSE]
<1>1. Result(s, fin, x)
  BY EstabLemma
<1> HIDE DEF x, fin
<1>2. Result(x, fin, y)
  BY <1>1, CloseLemma DEF Result
<1> HIDE DEF y
<1>3. Result(y, fin, r)
  BY <1>2, AgainFalseLemma, SameLemma DEF Result
<1>4. EstclState(s, g, soon) = r
  BY DEF EstclState, r, y, x
<1> HIDE DEF r
<1>5. Result(s, fin, y)
  BY <1>1, <1>2, ResultTrans
<1>6. Result(s, fin, r)
  BY <1>3, <1>5, ResultTrans
<1>7. QED
  BY <1>4, <1>6 DEF fin

LEMMA Finwt1Lemma ==
  ASSUME NEW s \in SockType, Timed(s), s.state = "FINWT1", NEW g \in SegType, NEW p
  PROVE  Result(s, Has(g, "FIN"), Finwt1State(s, g, p))
<1> DEFINE fin0 == Has(g, "FIN")
           acked == g.ack - s.send_next
           c == ProcessAck(s, g)
           una == IF acked = 0 THEN 0 ELSE Minus(c.send_una, 0)
           a == IF AckOk(s, g) THEN [c EXCEPT !.send_una = una] ELSE s
           d == ProcessData(a, g)
           fin == FinOf(a, g) /\ Has(g, "ACK")
           last == [d EXCEPT !.recv_next = @ + 1, !.flags = {"ACK"}, !.unhappy = FALSE,
                             !.timeout = TRUE]
           t == [last EXCEPT !.send_next = @ + 1, !.state = "TIMEWT"]
           u == [last EXCEPT !.state = "CLOSING"]
           v == [d EXCEPT !.send_next = @ + 1, !.state = "FINWT2", !.unhappy = FALSE,
                          !.timeout = TRUE]
           w == [d EXCEPT !.send_next = @ + 1, !.recv_next = @ + 1, !.flags = {"RST"},
                          !.unhappy = FALSE, !.karn = 0, !.tx_datalen = 0]
           R == Again(Send(t))
           S == Again(Send(u))
           T == Unthread(Send(w))
           U == Again(v)
           V == Again(d)
           W == Unthread(d)
<1>1. s.threaded /\ s.timeout = TRUE
  BY FieldsLemma DEF Timed, Transient, States
<1>2. a \in SockType /\ Acked(s, a)
  <2>1. CASE AckOk(s, g)
    <3>1. c \in SockOf(Int, Ports) /\ Acked(s, c)
      BY <2>1, ProcessAckLemma
    <3> HIDE DEF c
    <3>2. una \in Nat
      BY <3>1 DEF Minus, SockOf
    <3> HIDE DEF una
    <3>3. a \in SockType
      BY <2>1, <3>1, <3>2 DEF SockType, SockOf
    <3>4. a.state = c.state /\ a.threaded = c.threaded /\ a.port = c.port
          /\ a.timeout = c.timeout /\ a.got_fin = c.got_fin /\ a.tx_datalen = c.tx_datalen
      BY <2>1, <3>1 DEF SockOf
    <3> HIDE DEF a
    <3>5. QED
      BY <3>1, <3>3, <3>4 DEF Acked
  <2>2. CASE ~AckOk(s, g)
    BY <2>2, FieldsLemma DEF Acked
  <2>3. QED
    BY <2>1, <2>2
<1> HIDE DEF a, una, c
<1>3. d \in SockType /\ Same(a, d)
  BY <1>2, ProcessDataLemma
<1> HIDE DEF d
<1>4. d.state = "FINWT1" /\ d.threaded /\ d.timeout = TRUE /\ Result(s, fin0, d)
  BY <1>1, <1>2, <1>3, FieldsLemma DEF Acked, Same, Result, Timed
<1> HIDE DEF fin0
<1>5. d.send_next + 1 \in Nat /\ d.recv_next + 1 \in Nat
  BY <1>3, FieldsLemma
<1>6. Turns(d, "FINWT1", TRUE, last) /\ last.send_next = d.send_next
  BY <1>3, <1>4, <1>5 DEF Turns, SockType, SockOf, Flags
<1> HIDE DEF last
<1>7. Turns(d, "TIMEWT", TRUE, t)
  BY <1>5, <1>6 DEF Turns, SockType, SockOf, States
<1>8. Turns(d, "CLOSING", TRUE, u)
  BY <1>6 DEF Turns, SockType, SockOf, States
<1>9. Turns(d, "FINWT2", TRUE, v)
  BY <1>3, <1>5 DEF Turns, SockType, SockOf, States
<1>10. w \in SockType /\ w.port = d.port /\ w.got_fin = d.got_fin
  <2> DEFINE x == [d EXCEPT !.send_next = @ + 1, !.recv_next = @ + 1, !.flags = {"RST"}]
  <2>1. x \in SockType /\ x.port = d.port /\ x.got_fin = d.got_fin
    BY <1>3, <1>5 DEF SockType, SockOf, Flags
  <2> DEFINE y == [x EXCEPT !.unhappy = FALSE, !.tx_datalen = 0]
  <2>2. w = [y EXCEPT !.karn = 0]
    BY <1>3 DEF SockType, SockOf
  <2> HIDE DEF x, w
  <2>3. y \in SockType /\ y.port = x.port /\ y.got_fin = x.got_fin
    BY <2>1 DEF SockType, SockOf
  <2> HIDE DEF y
  <2>4. QED
    BY <2>1, <2>2, <2>3, KarnZeroLemma DEF Same
<1> HIDE DEF t, u, v, w
<1>11. Turns(d, "TIMEWT", TRUE, R) /\ Turns(d, "CLOSING", TRUE, S) /\ Turns(d, "FINWT2", TRUE, U)
  BY <1>7, <1>8, <1>9, SendTurnsLemma
<1>12. Result(d, fin0, T) /\ Result(d, fin0, W)
  <2>1. Send(w) \in SockType /\ Same(w, Send(w))
    BY <1>10, SendLemma
  <2>2. Result(Send(w), fin0, T) /\ T.tx_datalen = 0 /\ T.state = "CLOSED"
        /\ T.got_fin = Send(w).got_fin
    BY <2>1, UnthreadLemma
  <2>3. Result(d, fin0, W)
    BY <1>3, UnthreadLemma
  <2> HIDE DEF T, W
  <2>4. QED
    BY <1>3, <1>10, <2>1, <2>2, <2>3, FieldsLemma DEF Result, Same
<1>13. Result(d, fin0, V)
  <2>1. Timed(d)
    BY <1>4 DEF Result
  <2>2. QED
    BY <1>3, <1>4, <2>1, AgainLemma, SameLemma
<1> HIDE DEF R, S, T, U, V, W
<1>14. Result(d, fin0, R) /\ Result(d, fin0, S) /\ Result(d, fin0, U)
  BY <1>3, <1>4, <1>11, TurnLemma DEF States
<1>15. \A r \in {R, S, T, U, V, W} : Result(s, fin0, r)
  BY <1>4, <1>12, <1>13, <1>14, ResultTrans
<1>16. Finwt1State(s, g, p) \in {R, S, T, U, V, W}
  BY Zenon DEF Finwt1State, acked, c, una, a, d, fin, last, t, u, v, w, R, S, T, U, V, W
<1>17. QED
  BY <1>15, <1>16 DEF fin0

LEMMA Finwt2Lemma ==
  ASSUME NEW s \in SockType, Timed(s), s.state = "FINWT2", NEW g \in SegType
  PROVE  Result(s, Has(g, "FIN"), Finwt2State(s, g))
<1> DEFINE fin0 == Has(g, "FIN")
           d == ProcessData(s, g)
           e == [d EXCEPT !.got_fin = TRUE]
           f == IF FinOf(s, g) THEN e ELSE d
           t == [f EXCEPT !.recv_next = @ + 1, !.flags = {"ACK"}, !.unhappy = FALSE,
                          !.state = "TIMEWT", !.timeout = TRUE]
<1>1. s.threaded /\ s.timeout = TRUE
  BY FieldsLemma DEF Timed, Transient, States
<1>2. d \in SockType /\ Same(s, d)
  BY ProcessDataLemma
<1> HIDE DEF d
<1>3. f \in SockType /\ f.state = "FINWT2" /\ f.timeout = TRUE /\ f.threaded
      /\ Result(s, fin0, f)
  <2>1. FinOf(s, g) => fin0
    BY DEF FinOf
  <2>2. e \in SockType /\ e.state = d.state /\ e.timeout = d.timeout /\ e.port = d.port
        /\ e.threaded = d.threaded /\ e.tx_datalen = d.tx_datalen
    BY <1>2 DEF SockType, SockOf
  <2> HIDE DEF e, fin0
  <2>3. f \in SockType /\ f.state = d.state /\ f.timeout = d.timeout /\ f.port = d.port
        /\ f.threaded = d.threaded /\ f.tx_datalen = d.tx_datalen
        /\ (f.got_fin => d.got_fin \/ fin0)
    BY <1>2, <2>1, <2>2
  <2> HIDE DEF f
  <2>4. QED
    BY <1>1, <1>2, <2>3, FieldsLemma DEF Same, Result, Timed
<1> HIDE DEF e, f, fin0
<1>4. Turns(f, "TIMEWT", TRUE, t)
  <2>1. f.recv_next + 1 \in Nat
    BY <1>3, FieldsLemma
  <2>2. QED
    BY <1>3, <2>1 DEF Turns, SockType, SockOf, Flags, States
<1> HIDE DEF t
<1>5. Turns(f, "TIMEWT", TRUE, Send(t))
  BY <1>4, SendTurnsLemma
<1>6. Result(f, fin0, Send(t)) /\ Result(f, fin0, Again(f))
  <2>1. Result(f, fin0, Send(t))
    BY <1>3, <1>5, TurnLemma DEF States
  <2>2. Result(f, fin0, Again(f))
    BY <1>3, AgainLemma, SameLemma DEF Result
  <2>3. QED
    BY <2>1, <2>2
<1>7. Result(s, fin0, Send(t)) /\ Result(s, fin0, Again(f))
  BY <1>3, <1>6, ResultTrans
<1>8. Result(s, fin0, Again(d))
  <2>1. Again(d) \in SockType /\ Same(s, Again(d))
    BY <1>2, AgainLemma DEF Same
  <2>2. QED
    BY <2>1, SameLemma
<1>9. Finwt2State(s, g) \in {Again(d), Send(t), Again(f)}
  BY Zenon DEF Finwt2State, d, e, f, t
<1>10. QED
  BY <1>7, <1>8, <1>9 DEF fin0

LEMMA ClosingLemma ==
  ASSUME NEW s \in SockType, Timed(s), s.state = "CLOSING", NEW g \in SegType
  PROVE  Result(s, Has(g, "FIN"), ClosingState(s, g))
<1> DEFINE t == [s EXCEPT !.send_next = @ + 1, !.state = "TIMEWT", !.unhappy = FALSE,
                          !.timeout = TRUE]
<1>1. s.threaded /\ s.send_next + 1 \in Nat
  BY FieldsLemma DEF Timed
<1>2. Turns(s, "TIMEWT", TRUE, t)
  BY <1>1 DEF Turns, SockType, SockOf, States
<1> HIDE DEF t
<1>3. Turns(s, "TIMEWT", TRUE, Again(t))
  BY <1>2, SendTurnsLemma
<1>4. Result(s, Has(g, "FIN"), Again(t)) /\ Result(s, Has(g, "FIN"), Again(s))
  BY <1>1, <1>3, TurnLemma, AgainLemma, SameLemma DEF States
<1>5. ClosingState(s, g) \in {Again(t), Again(s)}
  BY Zenon DEF ClosingState, t
<1>6. QED
  BY <1>4, <1>5

LEMMA LastackLemma ==
  ASSUME NEW s \in SockType, Timed(s), s.state = "LASTACK", NEW g \in SegType
  PROVE  Result(s, Has(g, "FIN"), LastackState(s, g))
<1> DEFINE t == [s EXCEPT !.got_fin = TRUE, !.flags = {"ACK", "FIN"}]
           r == [Send(t) EXCEPT !.unhappy = TRUE]
           u == [s EXCEPT !.state = "CLOSED", !.unhappy = FALSE]
<1>1. s.threaded /\ s.timeout = TRUE
  BY FieldsLemma DEF Timed, Transient, States
<1>2. t \in SockType /\ t.state = s.state /\ t.timeout = s.timeout /\ t.port = s.port
      /\ t.threaded = s.threaded /\ t.tx_datalen = s.tx_datalen
  BY DEF SockType, SockOf, Flags
<1>3. Turns(s, "CLOSED", s.timeout, u)
  BY DEF Turns, SockType, SockOf, States
<1> HIDE DEF t, u
<1>4. r \in SockType /\ Same(t, r)
  <2>1. Send(t) \in SockType /\ Same(t, Send(t))
    BY <1>2, SendLemma
  <2> DEFINE x == Send(t)
  <2> HIDE DEF x
  <2>2. x \in SockType /\ Same(t, x) /\ r = [x EXCEPT !.unhappy = TRUE]
    BY <2>1, Zenon DEF x, r
  <2>3. r \in SockType /\ Same(x, r)
    BY <2>2, UnhappyLemma
  <2>4. QED
    BY <2>2, <2>3 DEF Same
<1> HIDE DEF r
<1>5. Has(g, "FIN") => Result(s, Has(g, "FIN"), r)
  BY <1>1, <1>2, <1>4, FieldsLemma DEF Same, Result, Timed
<1>6. Result(s, Has(g, "FIN"), u) /\ Result(s, Has(g, "FIN"), Again(s))
  BY <1>1, <1>3, TurnLemma, AgainLemma, SameLemma DEF States
<1>7. \/ Has(g, "FIN") /\ LastackState(s, g) = r
      \/ LastackState(s, g) \in {u, Again(s)}
  BY Zenon DEF LastackState, r, t, u
<1>8. QED
  BY <1>5, <1>6, <1>7

LEMMA TimewtLemma ==
  ASSUME NEW s \in SockType, Timed(s), s.state = "TIMEWT", NEW g \in SegType
  PROVE  Result(s, Has(g, "FIN"), TimewtState(s, g))
<1> DEFINE t == [s EXCEPT !.flags = {"ACK"}, !.unhappy = FALSE, !.state = "CLOSED"]
<1>1. s.threaded
  BY DEF Timed
<1>2. Turns(s, "CLOSED", s.timeout, t)
  BY DEF Turns, SockType, SockOf, States, Flags
<1> HIDE DEF t
<1>3. Turns(s, "CLOSED", s.timeout, Again(Send(t)))
  BY <1>2, SendTurnsLemma
<1>4. Result(s, Has(g, "FIN"), Again(Send(t))) /\ Result(s, Has(g, "FIN"), Again(s))
  BY <1>1, <1>3, TurnLemma, AgainLemma, SameLemma DEF States, Transient
<1>5. TimewtState(s, g) \in {Again(Send(t)), Again(s)}
  BY Zenon DEF TimewtState, t
<1>6. QED
  BY <1>4, <1>5

LEMMA FsmLemma ==
  ASSUME NEW s \in SockType, Timed(s), NEW g \in SegType,
         s.state = "LISTEN" => Has(g, "SYN"), NEW p, NEW soon, NEW iss \in Nat
  PROVE  Result(s, Has(g, "FIN"), Fsm(s, g, p, soon, iss))
<1>1. CASE s.state \in {"LISTEN", "SYNSENT", "SYNREC"}
  BY <1>1, ListenLemma, SynsentLemma, SynrecLemma DEF Fsm
<1>2. CASE s.state \in {"RESOLVE", "CLOSED"}
  <2>1. Fsm(s, g, p, soon, iss) \in {s, Again(s)}
    BY <1>2 DEF Fsm
  <2>2. Same(s, s)
    BY DEF Same
  <2>3. QED
    BY <1>2, <2>1, <2>2, AgainLemma, SameLemma
<1>3. CASE s.state \in {"ESTAB", "ESTCL"}
  BY <1>3, EstabLemma, EstclLemma DEF Fsm
<1>4. CASE s.state \in {"FINWT1", "FINWT2"}
  BY <1>4, Finwt1Lemma, Finwt2Lemma DEF Fsm
<1>5. CASE s.state \in {"CLOSING", "LASTACK", "TIMEWT"}
  BY <1>5, ClosingLemma, LastackLemma, TimewtLemma DEF Fsm
<1>6. QED
  BY <1>1, <1>2, <1>3, <1>4, <1>5, FieldsLemma DEF States

LEMMA SockResetLemma ==
  ASSUME NEW s \in SockType, s.threaded, s.out = {}, s.again = FALSE, NEW p, NEW fin
  PROVE  LET r == SockReset(s, p) IN
         \/ /\ Unbound(r) /\ Timed(r) /\ r.state = "LISTEN" /\ r.out = {} /\ r.again = FALSE
            /\ p = "B"
         \/ Result(s, fin, r) /\ r.out = {}
<1> DEFINE t == [s EXCEPT !.missed = {}, !.tx_datalen = 0]
           a == [t EXCEPT !.state = "LISTEN", !.unhappy = FALSE, !.rtt = FALSE]
           b == [a EXCEPT !.timeout = FALSE, !.got_fin = FALSE]
           c == [b EXCEPT !.karn = 0]
           r == [c EXCEPT !.port = 0]
<1>1. t \in SockType /\ t.tx_datalen = 0 /\ t.out = {} /\ t.again = FALSE
      /\ t.port = s.port /\ t.got_fin = s.got_fin /\ t.threaded
  <2>1. {} \in Finite(Nat)
    BY EmptyLemma
  <2>2. QED
    BY <2>1 DEF SockType, SockOf
<1>2. SockReset(s, p) = IF p = "B" THEN r ELSE Unthread(t)
  <2>1. [t EXCEPT !.state = "LISTEN", !.port = 0, !.unhappy = FALSE, !.rtt = FALSE,
                  !.timeout = FALSE, !.karn = 0, !.got_fin = FALSE] = r
    BY <1>1 DEF SockType, SockOf
  <2>2. QED
    BY <2>1, Zenon DEF SockReset, t
<1> HIDE DEF t
<1>3. CASE p = "B"
  <2>1. a \in SockType /\ a.state = "LISTEN" /\ a.tx_datalen = 0 /\ a.out = {}
        /\ a.again = FALSE /\ a.threaded /\ a.rtt = FALSE
    <3>1. a \in SockType
      BY <1>1 DEF SockType, SockOf, States
    <3>2. QED
      BY <1>1, <3>1 DEF SockType, SockOf
  <2> HIDE DEF a
  <2>2. b \in SockType /\ b.state = "LISTEN" /\ b.tx_datalen = 0 /\ b.out = {}
        /\ b.again = FALSE /\ b.threaded /\ b.rtt = FALSE /\ b.got_fin = FALSE
    BY <2>1 DEF SockType, SockOf
  <2> HIDE DEF b
  <2>3. c \in SockType /\ c.out = {} /\ c.again = FALSE /\ c.rtt = FALSE /\ Same(b, c)
    BY <2>2, KarnZeroLemma DEF SockType, SockOf
  <2> HIDE DEF c
  <2>4. r \in SockOf(Nat, {0})
    BY <2>3 DEF SockType, SockOf
  <2>5. r.out = {} /\ r.again = FALSE /\ r.rtt = FALSE /\ Same(c, [r EXCEPT !.port = c.port])
        /\ r.state = c.state /\ r.threaded = c.threaded /\ r.tx_datalen = c.tx_datalen
        /\ r.got_fin = c.got_fin
    BY <2>3 DEF SockType, SockOf, Same
  <2> HIDE DEF r
  <2>6. Unbound(r) /\ Timed(r) /\ r.state = "LISTEN"
    BY <2>2, <2>3, <2>4, <2>5 DEF Same, Timed, Transient, Unbound
  <2>7. QED
    BY <1>2, <1>3, <2>5, <2>6
<1>4. CASE p # "B"
  <2>1. Result(t, fin, Unthread(t)) /\ Unthread(t).out = {}
    BY <1>1, UnthreadLemma
  <2>2. Result(s, fin, Unthread(t))
    BY <1>1, <2>1, FieldsLemma DEF Result
  <2>3. QED
    BY <1>2, <1>4, <2>1, <2>2
<1>5. QED
  BY <1>3, <1>4

(* What _tcp_handler() makes of the socket of a segment. *)
LEMMA HandleLemma ==
  ASSUME NEW s \in SockType, Timed(s), s.threaded, s.out = {}, s.again = FALSE,
         NEW g \in SegType, s.state = "LISTEN" => Has(g, "SYN"),
         NEW p, NEW soon, NEW iss \in Nat
  PROVE  LET r == Handle(s, g, p, soon, iss) IN
         \/ /\ Unbound(r) /\ Timed(r) /\ r.state = "LISTEN" /\ r.out = {} /\ r.again = FALSE
            /\ p = "B"
         \/ Result(s, Has(g, "FIN"), r)
<1> DEFINE t == [s EXCEPT !.karn = 0, !.rtt = TRUE]
           x == Fsm(t, g, p, soon, iss)
           y == SendSoon(x, soon)
<1>1. CASE InWindowReset(s, g)
  <2>1. Handle(s, g, p, soon, iss) = SockReset(s, p)
    BY <1>1 DEF Handle
  <2>2. QED
    BY <2>1, SockResetLemma
<1>2. CASE ~InWindowReset(s, g)
  <2>1. t \in SockType /\ Same(s, t)
    <3> DEFINE k == [s EXCEPT !.karn = 0]
    <3>1. k \in SockType /\ Same(s, k)
      BY KarnZeroLemma
    <3>2. t = [k EXCEPT !.rtt = TRUE]
      BY DEF SockType, SockOf
    <3> HIDE DEF k, t
    <3>3. QED
      BY <3>1, <3>2 DEF SockType, SockOf, Same
  <2> HIDE DEF t
  <2>2. Timed(t) /\ (t.state = "LISTEN" => Has(g, "SYN"))
    BY <2>1 DEF Same, Timed
  <2>3. Result(t, Has(g, "FIN"), x)
    BY <2>1, <2>2, FsmLemma
  <2>4. Handle(s, g, p, soon, iss) = IF x.again /\ x.unhappy THEN y ELSE x
    BY <1>2, Zenon DEF Handle, t, x, y
  <2> HIDE DEF x
  <2>5. y \in SockType /\ Same(x, y)
    BY <2>3, SendSoonLemma DEF Result
  <2> HIDE DEF y
  <2>6. Result(t, Has(g, "FIN"), y)
    BY <2>3, <2>5 DEF Result, Same, Timed
  <2>7. Result(s, Has(g, "FIN"), x) /\ Result(s, Has(g, "FIN"), y)
    BY <2>1, <2>3, <2>6 DEF Result, Same
  <2>8. QED
    BY <2>4, <2>7
<1>3. QED
  BY <1>1, <1>2
-----------------------------------------------------------------------------
(* The actions. *)
LEMMA ClosedSockLemma == ClosedSock \in SockOf(Nat, {0})
<1>1. {} \in Finite(Nat) /\ {} \in Finite(SegType)
  BY EmptyLemma
<1>2. QED
  BY <1>1 DEF ClosedSock, SockOf, States

LEMMA InitIInv == Init => IInv
<1> SUFFICES ASSUME Init PROVE IInv
  OBVIOUS
<1> USE TcpConnAssumption
<1>1. {} \in Finite(SegType)
  BY EmptyLemma
<1>2. Unbound(ClosedSock)
  BY ClosedSockLemma DEF Unbound, ClosedSock
<1>3. \A p \in Sides : SockInv(sock[p], wrote[p])
  BY <1>2 DEF Init, SockInv, Timed, ClosedSock, Transient
<1>4. NetInv
  BY <1>1, FS_EmptySet DEF Init, NetInv
<1>5. HistoryInv
  BY DEF Init, HistoryInv, Sides
<1>6. FinsWereSent /\ GotFinWasSent
  BY DEF Init, FinsWereSent, GotFinWasSent, ClosedSock
<1>7. QED
  BY <1>3, <1>4, <1>5, <1>6 DEF Init, IInv

LEMMA PeerLemma ==
  ASSUME NEW p \in Sides
  PROVE  /\ Peer(p) \in Sides /\ Peer(Peer(p)) = p /\ Peer(p) # p
         /\ \A q \in Sides : q = p \/ q = Peer(p)
BY DEF Sides, Peer

(* Segments are put on the network, out of base, what was there before. *)
LEMMA TransmitLemma ==
  ASSUME IInv, NEW p \in Sides, NEW out \in Finite(SegType),
         NEW base \in [Sides -> Finite(SegType)], \A q \in Sides : base[q] \subseteq net[q],
         Transmit(base, p, out),
         \A q \in Sides : finSent[q] \subseteq finSent'[q],
         \A x \in out : Has(x, "FIN") => x.port \in finSent'[p]
  PROVE  NetInv' /\ FinsWereSent'
<1> USE TcpConnAssumption
<1>1. PICK kept \in SUBSET out :
        /\ Cardinality(base[Peer(p)] \cup kept) + Cardinality(base[p]) <= MaxNet
        /\ net' = [base EXCEPT ![Peer(p)] = @ \cup kept]
  BY Zenon DEF Transmit
<1>2. /\ net' \in [Sides -> Finite(SegType)]
      /\ net'[Peer(p)] = base[Peer(p)] \cup kept /\ net'[p] = base[p]
  BY <1>1, PeerLemma, SubsetLemma, AddLemma
<1>3. NetInv'
  <2>1. Cardinality(net'[Peer(p)]) \in Nat /\ Cardinality(net'[p]) \in Nat
    BY <1>2, PeerLemma, FS_CardinalityType DEF Finite
  <2>2. Cardinality(net'[Peer(p)]) <= MaxNet /\ Cardinality(net'[p]) <= MaxNet
    BY <1>1, <1>2, <2>1
  <2>3. QED
    BY <1>2, <2>2, PeerLemma DEF NetInv
<1>4. FinsWereSent'
  <2> SUFFICES ASSUME NEW q \in Sides, NEW g \in net'[q], Has(g, "FIN")
               PROVE  g.port \in finSent'[Peer(q)]
    BY DEF FinsWereSent, Has
  <2>1. CASE g \in base[q]
    <3>1. g.port \in finSent[Peer(q)]
      BY <2>1 DEF IInv, FinsWereSent
    <3>2. QED
      BY <3>1, PeerLemma
  <2>2. CASE g \notin base[q]
    <3>1. q = Peer(p) /\ g \in out
      BY <1>1, <1>2, <2>2, PeerLemma
    <3>2. QED
      BY <3>1, PeerLemma
  <2>3. QED
    BY <2>1, <2>2
<1>5. QED
  BY <1>3, <1>4

(* The socket of p becomes r, and what it sent goes out.  This is all that  *)
(* most actions do.                                                        *)
LEMMA BecomesLemma ==
  ASSUME IInv, NEW p \in Sides, NEW r,
         SockInv(r, wrote'[p]),
         r.got_fin => r.port \in finSent[Peer(p)],
         NEW out \in Finite(SegType),
         NEW base \in [Sides -> Finite(SegType)], \A q \in Sides : base[q] \subseteq net[q],
         Transmit(base, p, out),
         sock' = [sock EXCEPT ![p] = r],
         \A q \in Sides : finSent[q] \subseteq finSent'[q],
         \A x \in out : Has(x, "FIN") => x.port \in finSent'[p],
         HistoryInv',
         \A q \in Sides : q # p => wrote'[q] = wrote[q]
  PROVE  IInv'
<1>1. DOMAIN sock' = Sides /\ sock'[p] = r /\ sock'[Peer(p)] = sock[Peer(p)]
  BY PeerLemma DEF IInv
<1>2. \A q \in Sides : SockInv(sock'[q], wrote'[q])
  BY <1>1, PeerLemma DEF IInv
<1>3. NetInv' /\ FinsWereSent'
  BY TransmitLemma
<1>4. GotFinWasSent'
  <2> SUFFICES ASSUME NEW q \in Sides, sock'[q].got_fin
               PROVE  sock'[q].port \in finSent'[Peer(q)]
    BY DEF GotFinWasSent
  <2>1. CASE q = p
    BY <1>1, <2>1, PeerLemma
  <2>2. CASE q # p
    BY <1>1, <2>2, PeerLemma DEF IInv, GotFinWasSent
  <2>3. QED
    BY <2>1, <2>2
<1>5. QED
  BY <1>1, <1>2, <1>3, <1>4 DEF IInv

(* A socket is put back with nothing left to send. *)
LEMMA RestLemma ==
  ASSUME NEW written, NEW s \in SockType, Timed(s), s.tx_datalen <= written,
         s.state # "LISTEN"
  PROVE  LET r == [s EXCEPT !.out = {}, !.again = FALSE] IN
         SockInv(r, written) /\ r.port = s.port /\ r.got_fin = s.got_fin
<1> DEFINE r == [s EXCEPT !.out = {}, !.again = FALSE]
<1>1. {} \in Finite(SegType)
  BY EmptyLemma
<1>2. r \in SockType
  BY <1>1 DEF SockType, SockOf
<1>3. Same(s, r) /\ r.out = {} /\ r.again = FALSE
  BY DEF SockType, SockOf, Same
<1> HIDE DEF r
<1>4. SockInv(r, written) /\ r.port = s.port /\ r.got_fin = s.got_fin
  BY <1>2, <1>3 DEF SockInv, Bound, Same, Timed
<1>5. QED
  BY <1>4 DEF r

LEMMA StepLemma ==
  ASSUME IInv, NEW p \in Sides, NEW s \in SockType, Timed(s), s.tx_datalen <= wrote'[p],
         s.state # "LISTEN",
         s.got_fin => s.port \in finSent[Peer(p)],
         NEW base \in [Sides -> Finite(SegType)], \A q \in Sides : base[q] \subseteq net[q],
         Step(p, s), Transmit(base, p, s.out),
         opens' = opens, wrote' \in [Sides -> 0 .. MaxWrite],
         \A q \in Sides : q # p => wrote'[q] = wrote[q]
  PROVE  IInv'
<1> DEFINE r == [s EXCEPT !.out = {}, !.again = FALSE]
           fins == {g.port : g \in {x \in s.out : Has(x, "FIN")}}
<1>1. SockInv(r, wrote'[p]) /\ r.port = s.port /\ r.got_fin = s.got_fin
  BY RestLemma
<1>2. sock' = [sock EXCEPT ![p] = r]
  BY Zenon DEF Step
<1> HIDE DEF r
<1>3. s.out \in Finite(SegType)
  BY FieldsLemma
<1>4. fins \subseteq Ports
  BY <1>3 DEF Finite, SegType
<1>5. finSent' = [finSent EXCEPT ![p] = @ \cup fins]
  BY Zenon DEF Step
<1>6. \A x \in s.out : Has(x, "FIN") => x.port \in fins
  OBVIOUS
<1> HIDE DEF fins
<1>7. finSent' \in [Sides -> SUBSET Ports] /\ finSent'[p] = finSent[p] \cup fins
      /\ \A q \in Sides : finSent[q] \subseteq finSent'[q]
  BY <1>4, <1>5 DEF IInv, HistoryInv
<1>8. HistoryInv'
  BY <1>7 DEF IInv, HistoryInv
<1>9. \A x \in s.out : Has(x, "FIN") => x.port \in finSent'[p]
  BY <1>6, <1>7
<1>10. QED
  BY <1>1, <1>2, <1>3, <1>7, <1>8, <1>9, BecomesLemma

(* The calls of the application and the timers act on a socket in a         *)
(* connection, *)
LEMMA DoLemma ==
  ASSUME IInv, NEW p \in Sides, sock[p] \in SockType,
         NEW r, Result(sock[p], FALSE, r), Do(p, r), UNCHANGED <<opens, wrote>>
  PROVE  IInv'
<1> DEFINE s == sock[p]
<1>1. SockInv(s, wrote[p])
  BY DEF IInv
<1>2. Bound(s, wrote[p])
  BY <1>1, TcpConnAssumption DEF SockInv, Unbound, SockType, SockOf, Ports
<1>3. r \in SockType /\ Timed(r) /\ r.port = s.port /\ r.tx_datalen <= s.tx_datalen
      /\ (r.got_fin => s.got_fin) /\ r.state # "LISTEN"
  BY DEF Result
<1>4. wrote' = wrote /\ wrote \in [Sides -> 0 .. MaxWrite] /\ opens' = opens
  BY DEF IInv, HistoryInv
<1>5. r.tx_datalen <= wrote'[p]
  BY <1>2, <1>3, <1>4, FieldsLemma, TcpConnAssumption DEF Bound
<1>6. r.got_fin => r.port \in finSent[Peer(p)]
  BY <1>3 DEF IInv, GotFinWasSent
<1>7. net \in [Sides -> Finite(SegType)] /\ \A q \in Sides : net[q] \subseteq net[q]
  BY DEF IInv, NetInv
<1>8. Step(p, r) /\ Transmit(net, p, r.out)
  BY DEF Do
<1> HIDE DEF s
<1>9. QED
  BY <1>3, <1>4, <1>5, <1>6, <1>7, <1>8, StepLemma

(* or on one in none. *)
LEMMA DoUnboundLemma ==
  ASSUME IInv, NEW p \in Sides,
         NEW r, Unbound(r), Timed(r), r.out = {}, r.again = FALSE,
         Do(p, r), UNCHANGED <<opens, wrote>>
  PROVE  IInv'
<1>1. SockInv(r, wrote'[p]) /\ ~r.got_fin
  BY DEF SockInv, Unbound
<1>2. [r EXCEPT !.out = {}, !.again = FALSE] = r
  BY DEF Unbound, SockOf
<1>3. sock' = [sock EXCEPT ![p] = r] /\ Transmit(net, p, {})
  BY <1>2 DEF Do, Step
<1>4. finSent' = finSent
  <2>1. finSent' = [finSent EXCEPT ![p] = @ \cup {g.port : g \in {x \in r.out : Has(x, "FIN")}}]
    BY DEF Do, Step
  <2>2. QED
    BY <2>1 DEF IInv, HistoryInv
<1>5. HistoryInv'
  BY <1>4 DEF IInv, HistoryInv
<1>6. net \in [Sides -> Finite(SegType)] /\ {} \in Finite(SegType)
  BY EmptyLemma DEF IInv, NetInv
<1>7. QED
  BY <1>1, <1>3, <1>4, <1>5, <1>6, BecomesLemma

(* A new connection: the socket of p is filled anew. *)
LEMMA FreshLemma ==
  ASSUME IInv, NEW p \in Sides, NEW r, SockInv(r, 0), ~r.got_fin,
         sock' = [sock EXCEPT ![p] = r],
         opens[p] < MaxOpen[p], opens' = [opens EXCEPT ![p] = @ + 1],
         Renew(p), UNCHANGED net
  PROVE  IInv'
<1>1. /\ wrote' \in [Sides -> 0 .. MaxWrite] /\ wrote'[p] = 0
      /\ \A q \in Sides : q # p => wrote'[q] = wrote[q]
  BY TcpConnAssumption DEF Renew, IInv, HistoryInv
<1>2. HistoryInv'
  BY <1>1, TcpConnAssumption DEF Renew, IInv, HistoryInv
<1>3. \A q \in Sides : SockInv(sock'[q], wrote'[q])
  BY <1>1 DEF IInv
<1>4. NetInv' /\ FinsWereSent'
  BY DEF Renew, IInv, NetInv, FinsWereSent
<1>5. GotFinWasSent'
  BY DEF Renew, IInv, GotFinWasSent
<1>6. QED
  BY <1>2, <1>3, <1>4, <1>5 DEF IInv

LEMMA OpenIInv == ASSUME IInv, Open PROVE IInv'
<1> DEFINE n == opens["A"] + 1
           r == [ClosedSock EXCEPT !.state = "RESOLVE", !.threaded = TRUE, !.port = n,
                                   !.send_next = Iss("A", n), !.flags = {"SYN"},
                                   !.unhappy = TRUE]
<1> USE TcpConnAssumption
<1>1. "A" \in Sides /\ opens["A"] \in Nat
  BY DEF Sides, IInv, HistoryInv
<1>2. n \in Ports /\ n # 0 /\ Iss("A", n) \in Nat /\ opens'["A"] = n
      /\ opens' = [opens EXCEPT !["A"] = @ + 1]
  <2>1. MaxOpen["A"] \in Nat /\ opens["A"] < MaxOpen["A"]
    BY <1>1 DEF Open
  <2>2. n \in Ports /\ n # 0
    BY <1>1, <2>1 DEF Ports
  <2>3. Iss("A", n) \in Nat
    BY <1>1 DEF Iss
  <2>4. opens' = [opens EXCEPT !["A"] = @ + 1]
    BY DEF Open
  <2>5. opens'["A"] = n
    BY <1>1, <2>4 DEF IInv, HistoryInv
  <2>6. QED
    BY <2>2, <2>3, <2>4, <2>5
<1>3. sock' = [sock EXCEPT !["A"] = r]
  BY <1>2, Zenon DEF Open
<1> HIDE DEF n
<1>4. r \in SockType
  BY <1>2, ClosedSockLemma DEF SockType, SockOf, States, Flags
<1>5. r.state = "RESOLVE" /\ r.threaded /\ r.port = n /\ r.out = {} /\ r.again = FALSE
      /\ r.tx_datalen = 0 /\ r.got_fin = FALSE
  BY DEF ClosedSock
<1> HIDE DEF r
<1>6. SockInv(r, 0)
  BY <1>2, <1>4, <1>5 DEF SockInv, Bound, Timed
<1>7. QED
  BY <1>1, <1>2, <1>3, <1>5, <1>6, FreshLemma DEF Open

LEMMA ListenIInv == ASSUME IInv, Listen PROVE IInv'
<1> DEFINE n == opens["B"] + 1
           r == [ClosedSock EXCEPT !.state = "LISTEN", !.threaded = TRUE,
                                   !.send_next = Iss("B", n)]
<1> USE TcpConnAssumption
<1>1. "B" \in Sides /\ opens["B"] \in Nat
  BY DEF Sides, IInv, HistoryInv
<1>2. Iss("B", n) \in Nat /\ opens'["B"] = n /\ opens' = [opens EXCEPT !["B"] = @ + 1]
  BY <1>1 DEF Listen, Iss, IInv, HistoryInv
<1>3. sock' = [sock EXCEPT !["B"] = r]
  BY <1>2, Zenon DEF Listen
<1> HIDE DEF n
<1>4. r \in SockOf(Nat, {0})
  BY <1>2, ClosedSockLemma DEF SockOf, States
<1>5. r.state = "LISTEN" /\ r.threaded /\ r.out = {} /\ r.again = FALSE
      /\ r.tx_datalen = 0 /\ r.got_fin = FALSE /\ r.rtt = FALSE
  BY DEF ClosedSock
<1> HIDE DEF r
<1>6. SockInv(r, 0)
  BY <1>4, <1>5 DEF SockInv, Unbound, Timed, Transient
<1>7. QED
  BY <1>1, <1>2, <1>3, <1>5, <1>6, FreshLemma DEF Listen

LEMMA WriteByteIInv ==
  ASSUME IInv, NEW p \in Sides, WriteByte(p)
  PROVE  IInv'
<1> DEFINE o == sock[p]
           n == o.tx_datalen + 1
           s == [o EXCEPT !.tx_datalen = n, !.unhappy = TRUE]
<1> USE TcpConnAssumption
<1>1. SockInv(o, wrote[p]) /\ o.state = "ESTAB" /\ wrote[p] \in Nat /\ wrote[p] < MaxWrite
  BY DEF WriteByte, IInv, HistoryInv
<1>2. Bound(o, wrote[p]) /\ o \in SockType /\ n \in Nat /\ o.threaded
  BY <1>1, FieldsLemma DEF SockInv, Bound, Unbound, Timed
<1>3. s \in SockType /\ s.state = "ESTAB" /\ s.threaded /\ s.port = o.port
      /\ s.got_fin = o.got_fin /\ s.tx_datalen = n
  <2> HIDE DEF n
  <2>1. s \in SockType
    BY <1>2 DEF SockType, SockOf
  <2>2. QED
    BY <1>1, <1>2, <2>1 DEF SockType, SockOf
<1>4. PICK r \in {s, Send(s)} \cup {SendSoon(s, soon) : soon \in Soons} : Do(p, r)
  BY Zenon DEF WriteByte
<1> HIDE DEF s
<1>5. r \in SockType /\ Same(s, r)
  <2>1. Same(s, s)
    BY DEF Same
  <2>2. Send(s) \in SockType /\ Same(s, Send(s))
    BY <1>3, SendLemma
  <2>3. \A soon : SendSoon(s, soon) \in SockType /\ Same(s, SendSoon(s, soon))
    BY <1>3, SendSoonLemma
  <2>4. QED
    BY <1>3, <1>4, <2>1, <2>2, <2>3
<1>6. /\ wrote' \in [Sides -> 0 .. MaxWrite] /\ wrote'[p] = wrote[p] + 1
      /\ \A q \in Sides : q # p => wrote'[q] = wrote[q]
  BY <1>1 DEF WriteByte, IInv, HistoryInv
<1>7. r.tx_datalen <= wrote'[p]
  BY <1>1, <1>2, <1>3, <1>5, <1>6, FieldsLemma DEF Bound, Same
<1>8. Timed(r) /\ r.state # "LISTEN"
  BY <1>1, <1>3, <1>5 DEF Same, Timed, Transient
<1>9. r.got_fin => r.port \in finSent[Peer(p)]
  BY <1>3, <1>5 DEF Same, IInv, GotFinWasSent
<1>10. net \in [Sides -> Finite(SegType)] /\ \A q \in Sides : net[q] \subseteq net[q]
  BY DEF IInv, NetInv
<1>11. Step(p, r) /\ Transmit(net, p, r.out) /\ opens' = opens
  BY <1>4 DEF Do, WriteByte
<1> HIDE DEF o, n
<1>12. QED
  BY <1>5, <1>6, <1>7, <1>8, <1>9, <1>10, <1>11, StepLemma

LEMMA FlushIInv ==
  ASSUME IInv, NEW p \in Sides, Flush(p)
  PROVE  IInv'
<1>1. sock[p] \in SockType /\ Timed(sock[p]) /\ sock[p].state # "LISTEN"
  BY DEF Flush, IInv, SockInv, Bound, Unbound
<1>2. Result(sock[p], FALSE, Send(sock[p]))
  BY <1>1, SendLemma, SameLemma
<1>3. QED
  BY <1>1, <1>2, DoLemma DEF Flush

LEMMA CloseIInv ==
  ASSUME IInv, NEW p \in Sides, CloseSock(p)
  PROVE  IInv'
<1>1. sock[p] \in SockType /\ Timed(sock[p]) /\ sock[p].state # "LISTEN"
  BY DEF CloseSock, IInv, SockInv, Bound, Unbound
<1>2. PICK soon \in Soons : Do(p, Close(sock[p], soon))
  BY DEF CloseSock
<1>3. Result(sock[p], FALSE, Close(sock[p], soon))
  BY <1>1, CloseLemma
<1>4. QED
  BY <1>1, <1>2, <1>3, DoLemma DEF CloseSock

LEMMA AbortIInv ==
  ASSUME IInv, NEW p \in Sides,
         AbortSock(p) \/ (p = "A" /\ Unresolved) \/ Timeout(p) \/ Reap(p)
  PROVE  IInv'
<1> DEFINE s == sock[p]
           c == [s EXCEPT !.state = "CLOSED"]
           u == [s EXCEPT !.unhappy = FALSE, !.tx_datalen = 0]
           a == Unthread(u)
<1>1. SockInv(s, wrote[p])
  BY DEF IInv
<1>2. UNCHANGED <<opens, wrote>>
  BY DEF AbortSock, Unresolved, Timeout, Reap
<1>3. CASE Bound(s, wrote[p])
  <2>1. s \in SockType /\ Timed(s)
    BY <1>1, <1>3 DEF SockInv, Bound
  <2>2. Result(s, FALSE, Abort(s)) /\ Result(s, FALSE, Unthread(s))
    BY <2>1, AbortLemma, UnthreadLemma
  <2>3. Result(s, FALSE, c)
    <3>1. c \in SockType
      BY <2>1 DEF SockType, SockOf, States
    <3>2. c.state = "CLOSED" /\ c.port = s.port /\ c.tx_datalen = s.tx_datalen
          /\ c.got_fin = s.got_fin
      BY <2>1 DEF SockType, SockOf
    <3> HIDE DEF c
    <3>3. QED
      BY <2>1, <3>1, <3>2, FieldsLemma DEF Result, Timed, Transient
  <2>4. Do(p, Abort(s)) \/ Do(p, c) \/ Do(p, Unthread(s))
    BY Zenon DEF AbortSock, Unresolved, Timeout, Reap
  <2> HIDE DEF c
  <2>5. QED
    BY <1>2, <2>1, <2>2, <2>3, <2>4, DoLemma
<1>4. CASE Unbound(s)
  <2>1. s.state \in {"LISTEN", "CLOSED"} /\ s.out = {} /\ s.again = FALSE
    BY <1>1, <1>4 DEF SockInv, Unbound
  <2>2. Unbound(u) /\ u.out = {} /\ u.again = FALSE
    BY <1>4, <2>1 DEF Unbound, SockOf
  <2>3. \A x : Unbound(x) /\ x.out = {} /\ x.again = FALSE =>
          Unbound(Unthread(x)) /\ Timed(Unthread(x)) /\ Unthread(x).out = {}
          /\ Unthread(x).again = FALSE
    BY DEF Unbound, SockOf, Unthread, States, Timed, Transient
  <2>4. Abort(s) = a
    BY <2>1, Zenon DEF Abort, a, u, States
  <2>5. Do(p, Abort(s)) \/ Do(p, Unthread(s))
    BY <2>1, Zenon DEF AbortSock, Unresolved, Timeout, Reap
  <2> HIDE DEF u
  <2>6. QED
    BY <1>2, <1>4, <2>1, <2>2, <2>3, <2>4, <2>5, DoUnboundLemma
<1>5. QED
  BY <1>1, <1>3, <1>4 DEF SockInv

LEMMA ResolvedIInv == ASSUME IInv, Resolved PROVE IInv'
<1> DEFINE s == sock["A"]
           t == [s EXCEPT !.state = "SYNSENT", !.timeout = TRUE]
<1>1. "A" \in Sides /\ s \in SockType /\ Timed(s) /\ s.state = "RESOLVE"
  BY DEF Resolved, IInv, SockInv, Bound, Unbound, Sides
<1>2. s.threaded
  BY <1>1 DEF Timed
<1>3. Turns(s, "SYNSENT", TRUE, t)
  BY <1>1 DEF Turns, SockType, SockOf, States
<1>4. Do("A", Send(t)) /\ UNCHANGED <<opens, wrote>>
  BY DEF Resolved
<1> HIDE DEF t
<1>5. Result(s, FALSE, Send(t))
  BY <1>1, <1>2, <1>3, SendTurnsLemma, TurnLemma DEF States
<1>6. QED
  BY <1>1, <1>4, <1>5, DoLemma

LEMMA RetransmitIInv ==
  ASSUME IInv, NEW p \in Sides, Retransmit(p)
  PROVE  IInv'
<1> DEFINE s == sock[p]
           d == [s EXCEPT !.karn = 2, !.send_una = 0]
           t == IF s.karn = 0 THEN d ELSE s
           u == [t EXCEPT !.flags = @ \cup {"ACK"}]
           v == IF s.tx_datalen > 0 THEN u ELSE t
<1>1. s \in SockType /\ Timed(s) /\ s.state # "LISTEN"
  BY DEF Retransmit, IInv, SockInv, Bound, Unbound
<1>2. t \in SockType /\ Same(s, t)
  <2>1. d \in SockType /\ Same(s, d)
    <3> DEFINE e == [s EXCEPT !.send_una = 0]
    <3>1. e \in SockType /\ Same(s, e)
      BY <1>1 DEF SockType, SockOf, Same
    <3>2. d = [e EXCEPT !.karn = 2]
      BY <1>1 DEF SockType, SockOf
    <3> HIDE DEF d, e
    <3>3. d \in SockType /\ Same(e, d)
      BY <3>1, <3>2 DEF SockType, SockOf, Same
    <3>4. QED
      BY <3>1, <3>3 DEF Same
  <2> HIDE DEF d
  <2>2. Same(s, s)
    BY DEF Same
  <2>3. QED
    BY <1>1, <2>1, <2>2
<1> HIDE DEF d, t
<1>3. u \in SockType /\ Same(t, u)
  BY <1>2 DEF SockType, SockOf, Flags, Same
<1> HIDE DEF u
<1>4. v \in SockType /\ Same(s, v)
  BY <1>2, <1>3 DEF Same
<1>5. Do(p, Send(v)) /\ UNCHANGED <<opens, wrote>>
  BY Zenon DEF Retransmit, v, u, t, d
<1> HIDE DEF v
<1>6. Result(s, FALSE, Send(v))
  <2>1. Send(v) \in SockType /\ Same(s, Send(v))
    BY <1>4, SendLemma DEF Same
  <2>2. QED
    BY <1>1, <2>1, SameLemma
<1>7. QED
  BY <1>1, <1>5, <1>6, DoLemma

(* The socket that a segment finds. *)
LEMMA DemuxLemma ==
  ASSUME IInv, NEW p \in Sides, NEW g \in net[p], NEW s \in Demux(p, g)
  PROVE  /\ s \in SockType /\ Timed(s) /\ s.threaded /\ s.out = {} /\ s.again = FALSE
         /\ s.port = g.port /\ s.tx_datalen <= wrote[p]
         /\ s.state = "LISTEN" => Has(g, "SYN")
         /\ s.got_fin => s.port \in finSent[Peer(p)]
<1> DEFINE o == sock[p]
           r == [o EXCEPT !.port = g.port]
<1>1. SockInv(o, wrote[p]) /\ wrote[p] \in Nat
  BY TcpConnAssumption DEF IInv, HistoryInv
<1>2. g.port \in Ports /\ g.port # 0
  BY TcpConnAssumption DEF IInv, NetInv, Finite, SegType, Ports
<1>3. CASE o.threaded /\ o.port = g.port
  <2>1. s = o
    BY <1>3 DEF Demux
  <2>2. Bound(o, wrote[p])
    BY <1>1, <1>2, <1>3 DEF SockInv, Unbound, SockOf
  <2>3. QED
    BY <1>1, <1>3, <2>1, <2>2 DEF SockInv, Bound, IInv, GotFinWasSent
<1>4. CASE ~(o.threaded /\ o.port = g.port)
  <2>1. s = r /\ o.threaded /\ o.port = 0 /\ Has(g, "SYN")
    BY <1>4 DEF Demux
  <2>2. Unbound(o)
    BY <1>1, <2>1 DEF SockInv, Bound, SockType, SockOf, Ports
  <2>3. r \in SockType
    BY <1>2, <2>2 DEF Unbound, SockType, SockOf
  <2>4. r.port = g.port /\ r.state = o.state /\ r.threaded = o.threaded
        /\ r.timeout = o.timeout /\ r.out = o.out /\ r.again = o.again
        /\ r.got_fin = o.got_fin /\ r.tx_datalen = o.tx_datalen
    BY <2>2 DEF Unbound, SockOf
  <2> HIDE DEF r
  <2>5. QED
    BY <1>1, <2>1, <2>2, <2>3, <2>4 DEF SockInv, Unbound, Timed
<1>5. QED
  BY <1>3, <1>4

(* The socket of p becomes r because of a segment that was under way. *)
LEMMA BecomeLemma ==
  ASSUME IInv, NEW p \in Sides, NEW s, NEW r, NEW fin,
         NEW base \in [Sides -> Finite(SegType)], \A q \in Sides : base[q] \subseteq net[q],
         \/ Unbound(r) /\ Timed(r) /\ r.state = "LISTEN" /\ r.out = {} /\ r.again = FALSE
         \/ Result(s, fin, r) /\ s \in SockType /\ s.tx_datalen <= wrote[p]
            /\ (s.got_fin \/ fin => s.port \in finSent[Peer(p)]),
         Become(p, r), Transmit(base, p, r.out), opens' = opens
  PROVE  IInv'
<1> USE TcpConnAssumption
<1>1. wrote \in [Sides -> 0 .. MaxWrite]
  BY DEF IInv, HistoryInv
<1>2. CASE r.state = "LISTEN"
  <2>1. Unbound(r) /\ Timed(r) /\ r.out = {} /\ r.again = FALSE
    BY <1>2 DEF Result
  <2>2. [r EXCEPT !.out = {}] = r
    BY <2>1 DEF Unbound, SockOf
  <2>3. sock' = [sock EXCEPT ![p] = r] /\ Renew(p)
    BY <1>2, <2>2 DEF Become
  <2>4. /\ wrote' \in [Sides -> 0 .. MaxWrite] /\ wrote'[p] = 0
        /\ \A q \in Sides : q # p => wrote'[q] = wrote[q]
    BY <1>1, <2>3 DEF Renew
  <2>5. HistoryInv' /\ finSent' = finSent
    BY <2>3, <2>4 DEF Renew, IInv, HistoryInv
  <2>6. SockInv(r, wrote'[p]) /\ ~r.got_fin
    BY <2>1 DEF SockInv, Unbound
  <2>7. {} \in Finite(SegType) /\ Transmit(base, p, {})
    BY <2>1, EmptyLemma
  <2>8. QED
    BY <2>3, <2>4, <2>5, <2>6, <2>7, BecomesLemma
<1>3. CASE r.state # "LISTEN"
  <2>1. Result(s, fin, r) /\ s \in SockType /\ s.tx_datalen <= wrote[p]
        /\ (s.got_fin \/ fin => s.port \in finSent[Peer(p)])
    BY <1>3
  <2>2. Step(p, r) /\ wrote' = wrote
    BY <1>3 DEF Become
  <2>3. r \in SockType /\ Timed(r) /\ r.tx_datalen <= s.tx_datalen
        /\ (r.got_fin => r.port \in finSent[Peer(p)])
    BY <2>1 DEF Result
  <2>4. wrote[p] \in Nat
    BY <1>1
  <2>5. r.tx_datalen <= wrote'[p]
    BY <2>1, <2>2, <2>3, <2>4, FieldsLemma
  <2>6. QED
    BY <1>1, <1>3, <2>2, <2>3, <2>5, StepLemma
<1>4. QED
  BY <1>2, <1>3

LEMMA DeliverIInv ==
  ASSUME IInv, NEW p \in Sides, Deliver(p)
  PROVE  IInv'
<1> USE TcpConnAssumption
<1> DEFINE left(g) == {[net EXCEPT ![p] = @ \ {g}]} \cup (IF Duplicates THEN {net} ELSE {})
           iss == Iss(p, opens[p]) + 5
           results(g) == {Handle(x[1], g, p, x[2], iss) : x \in Demux(p, g) \X Soons}
<1>1. PICK g \in net[p] :
        /\ \/ \E r \in results(g) :
                Become(p, r) /\ \E base \in left(g) : Transmit(base, p, r.out)
           \/ \E s \in FindSeq(p, g) :
                /\ Demux(p, g) = {}
                /\ Become(p, SockReset(s, p)) /\ \E base \in left(g) : Transmit(base, p, {})
           \/ /\ Demux(p, g) = {} /\ FindSeq(p, g) = {}
              /\ \E base \in left(g) : Transmit(base, p, ResetFor(g))
              /\ UNCHANGED <<sock, wrote, finSent, relisten>>
        /\ UNCHANGED opens
  BY DEF Deliver
<1>2. \A base \in left(g) :
        base \in [Sides -> Finite(SegType)] /\ \A q \in Sides : base[q] \subseteq net[q]
  <2>1. net \in [Sides -> Finite(SegType)]
    BY DEF IInv, NetInv
  <2>2. net[p] \ {g} \in Finite(SegType)
    BY <2>1, SubsetLemma
  <2>3. QED
    BY <2>1, <2>2
<1>3. g \in SegType /\ iss \in Nat
  <2>1. g \in SegType
    BY DEF IInv, NetInv, Finite
  <2>2. opens[p] \in Nat
    BY DEF IInv, HistoryInv
  <2>3. QED
    BY <2>1, <2>2 DEF Iss
<1> HIDE DEF left, iss
<1>4. CASE \E r \in results(g) :
             Become(p, r) /\ \E base \in left(g) : Transmit(base, p, r.out)
  <2>1. PICK s \in Demux(p, g), soon \in Soons, base \in left(g) :
          LET r == Handle(s, g, p, soon, iss)
          IN  Become(p, r) /\ Transmit(base, p, r.out)
    BY <1>4
  <2> DEFINE r == Handle(s, g, p, soon, iss)
             fin == Has(g, "FIN")
  <2>2. /\ s \in SockType /\ Timed(s) /\ s.threaded /\ s.out = {} /\ s.again = FALSE
        /\ s.port = g.port /\ s.tx_datalen <= wrote[p]
        /\ s.state = "LISTEN" => Has(g, "SYN")
        /\ s.got_fin => s.port \in finSent[Peer(p)]
    BY DemuxLemma
  <2>3. \/ Unbound(r) /\ Timed(r) /\ r.state = "LISTEN" /\ r.out = {} /\ r.again = FALSE
        \/ Result(s, fin, r)
    BY <1>3, <2>2, HandleLemma
  <2>4. fin => s.port \in finSent[Peer(p)]
    BY <2>2 DEF IInv, FinsWereSent
  <2>5. Become(p, r) /\ Transmit(base, p, r.out)
    BY <2>1
  <2> HIDE DEF r, fin, results
  <2>6. base \in [Sides -> Finite(SegType)] /\ \A q \in Sides : base[q] \subseteq net[q]
    BY <1>2
  <2>7. opens' = opens
    BY <1>1
  <2>8. \/ Unbound(r) /\ Timed(r) /\ r.state = "LISTEN" /\ r.out = {} /\ r.again = FALSE
        \/ Result(s, fin, r) /\ s \in SockType /\ s.tx_datalen <= wrote[p]
           /\ (s.got_fin \/ fin => s.port \in finSent[Peer(p)])
    BY <2>2, <2>3, <2>4
  <2>9. QED
    BY <2>5, <2>6, <2>7, <2>8, BecomeLemma
<1>5. CASE \E s \in FindSeq(p, g) :
             Become(p, SockReset(s, p)) /\ \E base \in left(g) : Transmit(base, p, {})
  <2> DEFINE s == sock[p]
             r == SockReset(s, p)
  <2>1. PICK base \in left(g) : Become(p, r) /\ Transmit(base, p, {})
    BY <1>5 DEF FindSeq
  <2>2. s.threaded /\ s.port # 0
    BY <1>5 DEF FindSeq
  <2>3. SockInv(s, wrote[p]) /\ (s.got_fin => s.port \in finSent[Peer(p)])
    BY DEF IInv, GotFinWasSent
  <2>4. s \in SockType /\ s.tx_datalen <= wrote[p] /\ s.out = {} /\ s.again = FALSE
    BY <2>2, <2>3 DEF SockInv, Bound, Unbound, SockOf
  <2>5. /\ r.out = {}
        /\ \/ Unbound(r) /\ Timed(r) /\ r.state = "LISTEN" /\ r.out = {} /\ r.again = FALSE
           \/ Result(s, FALSE, r)
    BY <2>2, <2>4, SockResetLemma
  <2> HIDE DEF s, r
  <2>6. QED
    BY <1>1, <1>2, <2>1, <2>3, <2>4, <2>5, BecomeLemma
<1>6. CASE /\ \E base \in left(g) : Transmit(base, p, ResetFor(g))
           /\ UNCHANGED <<sock, wrote, finSent, relisten>>
  <2>1. PICK base \in left(g) : Transmit(base, p, ResetFor(g))
    BY <1>6
  <2>2. /\ ResetFor(g) \in Finite(SegType)
        /\ \A x \in ResetFor(g) : ~Has(x, "FIN")
    BY <1>3, ResetForLemma
  <2>3. NetInv' /\ FinsWereSent'
    BY <1>2, <1>6, <2>1, <2>2, TransmitLemma
  <2>4. HistoryInv' /\ GotFinWasSent' /\ DOMAIN sock' = Sides
        /\ \A q \in Sides : SockInv(sock'[q], wrote'[q])
    BY <1>1, <1>6 DEF IInv, HistoryInv, GotFinWasSent
  <2>5. QED
    BY <2>3, <2>4 DEF IInv
<1>7. QED
  BY <1>1, <1>4, <1>5, <1>6

LEMMA NextIInv == IInv /\ [Next]_vars => IInv'
<1> SUFFICES ASSUME IInv, [Next]_vars PROVE IInv'
  OBVIOUS
<1>1. CASE Open \/ Listen \/ Resolved
  BY <1>1, OpenIInv, ListenIInv, ResolvedIInv
<1>2. CASE Unresolved
  BY <1>2, AbortIInv DEF Sides
<1>3. ASSUME NEW p \in Sides,
             WriteByte(p) \/ Flush(p) \/ CloseSock(p) \/ Retransmit(p) \/ Deliver(p)
      PROVE  IInv'
  BY <1>3, WriteByteIInv, FlushIInv, CloseIInv, RetransmitIInv, DeliverIInv
<1>4. ASSUME NEW p \in Sides, AbortSock(p) \/ Timeout(p) \/ Reap(p)
      PROVE  IInv'
  BY <1>4, AbortIInv
<1>5. CASE UNCHANGED vars
  <2>1. \A p \in Sides : SockInv(sock[p], wrote[p])' = SockInv(sock[p], wrote[p])
    BY <1>5, Zenon DEF vars
  <2>2. QED
    BY <1>5, <2>1 DEF vars, IInv, NetInv, HistoryInv, FinsWereSent, GotFinWasSent
<1>6. QED
  BY <1>1, <1>2, <1>3, <1>4, <1>5 DEF Next

LEMMA Invariance == Spec => []IInv
<1>1. QED
  BY InitIInv, NextIInv, PTL DEF Spec
-----------------------------------------------------------------------------
(* A socket has the fields of tcp_Socket with the values of its type, its   *)
(* buffer holds no more than was written, and no more segments are under    *)
(* way than the bound allows.                                               *)
THEOREM ConnTypeCorrect == Spec => []TypeOK
<1>1. IInv => TypeOK
  <2> SUFFICES ASSUME IInv, NEW p \in Sides
               PROVE  LET s == sock[p] IN
                      /\ s.state \in States /\ s.threaded \in BOOLEAN
                      /\ s.port \in 0 .. MaxOpen["A"]
                      /\ s.send_next \in Nat /\ s.send_una \in Nat
                      /\ s.tx_datalen \in 0 .. MaxWrite
                      /\ s.recv_next \in Nat /\ s.missed \subseteq Nat
                      /\ s.flags \subseteq {"SYN", "ACK", "FIN", "RST"}
                      /\ s.karn \in 0 .. 2
                      /\ Cardinality(net[p]) <= MaxNet /\ opens[p] \in 0 .. MaxOpen[p]
    BY DEF TypeOK
  <2> USE TcpConnAssumption
  <2>1. MaxOpen["A"] \in Nat /\ MaxOpen[p] \in Nat
    BY DEF Sides
  <2>2. Cardinality(net[p]) <= MaxNet /\ opens[p] \in 0 .. MaxOpen[p]
    BY <2>1 DEF IInv, NetInv, HistoryInv
  <2>3. SockInv(sock[p], wrote[p]) /\ wrote[p] \in 0 .. MaxWrite
    BY DEF IInv, HistoryInv
  <2>4. CASE Bound(sock[p], wrote[p])
    BY <2>1, <2>2, <2>3, <2>4 DEF Bound, SockType, SockOf, Ports, Finite, Flags
  <2>5. CASE Unbound(sock[p])
    BY <2>1, <2>2, <2>5 DEF Unbound, SockOf, Finite, Flags
  <2>6. QED
    BY <2>3, <2>4, <2>5 DEF SockInv
<1>2. QED
  BY <1>1, Invariance, PTL

(* tcp_fsm.c: got_fin, on which tcp_read() reports the end of the stream,   *)
(* is set only if the peer has closed the connection this socket is in; no  *)
(* lost, repeated or late segment makes it up.                              *)
THEOREM EofOnlyAfterFin == Spec => []GotFinWasSent
<1>1. IInv => GotFinWasSent
  BY DEF IInv
<1>2. QED
  BY <1>1, Invariance, PTL

(* Every half open or half closed socket is on the list that                *)
(* tcp_Retransmitter() goes through, with a timer that aborts it.           *)
THEOREM HalfOpenIsTimed == Spec => []TransientIsTimed
<1>1. IInv => TransientIsTimed
  BY DEF IInv, SockInv, Timed, Transient, States, TransientIsTimed, TimerRuns
<1>2. QED
  BY <1>1, Invariance, PTL
=============================================================================

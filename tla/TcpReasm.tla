------------------------------ MODULE TcpReasm ------------------------------
(***************************************************************************)
(* The receive side of an established TCP connection: tcp_process_data()   *)
(* and its helpers, the FIN test of tcp_estab_state() (tcp_fsm.c), and      *)
(* tcp_read() (pctcp.c).  One buffer holds the in-order data and, behind a  *)
(* gap, at most one run of out-of-order data.                               *)
(*                                                                         *)
(* The peer sends the stream 1 .. StreamLen and then a FIN.  Byte number n  *)
(* has sequence number Isn + n - 1 modulo SeqMod.  The network delivers any *)
(* part of the stream, in any order, any number of times and cut in any     *)
(* way: the peer retransmits with other boundaries.                         *)
(***************************************************************************)
EXTENDS Integers

CONSTANTS
  StreamLen,               \* bytes the peer sends
  MaxRx,                   \* max_rx_data
  SeqMod,                  \* 2^32 in the code
  Isn                      \* sequence number of the first byte

ASSUME TcpReasmAssumption ==
  /\ StreamLen \in Nat \ {0} /\ MaxRx \in Nat \ {0}
  /\ SeqMod \in Nat /\ SeqMod > 2 * (StreamLen + MaxRx + 1)
  /\ Isn \in 0 .. SeqMod - 1

VARIABLES
  recv_next, missed_seq,   \* sequence numbers of struct tcp_Socket
  rx_data, rx_datalen,     \* its receive buffer
  adv_win,                 \* window in the last segment sent
  got_fin,                 \* LF_GOT_FIN: the peer's FIN was accepted
  nread,                   \* history: bytes the application has read
  edge                     \* history: stream offset up to which the peer may send

vars == <<recv_next, missed_seq, rx_data, rx_datalen, adv_win, got_fin, nread, edge>>

Junk    == 0               \* a byte that is not part of any segment
Bytes   == 1 .. StreamLen
Cells   == 0 .. SeqMod + MaxRx    \* the buffer, and the memory behind it
SeqNums == 0 .. SeqMod - 1

Seq(off)    == (Isn + off) % SeqMod                  \* of the byte after off
Diff(x, y)  == (x - y) % SeqMod                      \* DWORD subtraction
Signed(d)   == IF d < SeqMod \div 2 THEN d ELSE d - SeqMod      \* (long) d

(* A segment carries the bytes from + 1 .. to, and perhaps the FIN. *)
Segments ==
  {g \in [from : 0 .. StreamLen, to : 0 .. StreamLen, fin : BOOLEAN] :
     /\ g.from <= g.to
     /\ g.fin => g.to = StreamLen
     /\ g.from < g.to \/ g.fin}

SegLen(g)     == g.to - g.from
SegByte(g, i) == IF i < SegLen(g) THEN g.from + i + 1 ELSE Junk

(* The socket's receive fields as one record, for the helpers. *)
Sock == [next |-> recv_next, missed |-> missed_seq, data |-> rx_data,
         len |-> rx_datalen]

(* memcpy (s->rx_data + at, data + from, n) *)
MemCpy(buf, at, g, from, n) ==
  [c \in Cells |-> IF at <= c /\ c < at + n THEN SegByte(g, from + c - at)
                                            ELSE buf[c]]

Missed(s) == s.missed[1] # s.missed[2]

WidthWithGap(s) == Diff(s.missed[2], s.next)    \* mutant: the gap counts too
Width(s)        == Diff(s.missed[2], s.missed[1])
-----------------------------------------------------------------------------
(* copy_in_order() *)
CopyInOrder(s, g, from, n) ==
  [s EXCEPT !.data = MemCpy(@, s.len, g, from, n),
            !.next = (@ + n) % SeqMod,
            !.len  = @ + n]

(* data_in_order(): the first diff bytes of the segment are old.  The test  *)
(* of cases (1) and (2) compares sequence numbers as plain unsigned values. *)
DataInOrder(s, g, diff) ==
  LET n     == SegLen(g) - diff
      gap   == Diff(s.missed[1], s.next)
      msEnd == Diff(s.missed[2], s.next)
      first == CopyInOrder(s, g, diff, gap)
      join  == [first EXCEPT !.len = @ + Width(s), !.next = s.missed[2],
                             !.missed = <<0, 0>>]
  IN  IF ~Missed(s) \/ (s.next + n) % SeqMod < s.missed[1]
      THEN CopyInOrder(s, g, diff, n)                            \* (1), (2)
      ELSE IF n > msEnd
           THEN CopyInOrder(join, g, diff + msEnd, n - msEnd)    \* (4)
           ELSE join                                             \* (3)

(* prepend_out_of_order() and append_out_of_order() *)
Prepend(s, g, n) ==
  LET at == Diff(s.missed[1], s.next) + s.len - n
  IN  [s EXCEPT !.data = MemCpy(@, at, g, 0, n),
                !.missed = <<Diff(@[1], n), @[2]>>]

(* mutant: the overlap is not skipped *)
AppendFromStart(s, g, from, n) ==
  LET at == Diff(s.missed[2], s.next) + s.len
  IN  [s EXCEPT !.data = MemCpy(@, at, g, 0, n),
                !.missed = <<@[1], (@[2] + n) % SeqMod>>]

AppendFrom(s, g, from, n) ==
  LET at == Diff(s.missed[2], s.next) + s.len
  IN  [s EXCEPT !.data = MemCpy(@, at, g, from, n),
                !.missed = <<@[1], (@[2] + n) % SeqMod>>]

(* data_out_of_order(): the segment starts diff bytes after recv_next. *)
DataOutOfOrder(s, g, diff) ==
  LET n       == SegLen(g)
      seqnum  == Seq(g.from)
      left    == Diff(s.missed[1], s.next)
      right   == Diff(s.missed[2], s.next)
      pre     == IF diff < left /\ left <= diff + n
                 THEN Prepend(s, g, left - diff) ELSE s                \* (7)
  IN  IF ~Missed(s)
      THEN AppendFrom([s EXCEPT !.missed = <<seqnum, seqnum>>], g, 0, n) \* (5)
      ELSE IF seqnum = s.missed[2]
           THEN AppendFrom(s, g, 0, n)                                 \* (6)
           ELSE IF diff <= right /\ right < diff + n
                THEN AppendFrom(pre, g, right - diff, diff + n - right) \* (8)
                ELSE pre

(* tcp_process_data(): ldiff is how far the segment starts before           *)
(* recv_next.  A segment that ends before recv_next, or beyond the buffer,  *)
(* leaves the socket alone.                                                 *)
Ldiff(g)   == Signed(Diff(recv_next, Seq(g.from)))

OutsideOld(g) == Ldiff(g) > SegLen(g)           \* mutant: the buffer has no end
OutsideLate(g) ==                               \* mutant: off by one
  \/ (SegLen(g) - Ldiff(g)) % SeqMod > MaxRx - rx_datalen + 1
  \/ Ldiff(g) > SegLen(g)

Outside(g) == \/ (SegLen(g) - Ldiff(g)) % SeqMod > MaxRx - rx_datalen
              \/ Ldiff(g) > SegLen(g)
OutOfOrder(g) == SegLen(g) > 0 /\ ~Outside(g) /\ Ldiff(g) < 0

ProcessData(g) ==
  IF SegLen(g) = 0 \/ Outside(g) THEN Sock
  ELSE IF Ldiff(g) >= 0 THEN DataInOrder(Sock, g, Ldiff(g))
       ELSE DataOutOfOrder(Sock, g, -Ldiff(g))

(* tcp_estab_state() takes a FIN if recv_next lies in the segment's window. *)
FinBelowWindow(next, g) ==                      \* mutant: one test
  Signed(Diff(next, (Seq(g.from) + adv_win) % SeqMod)) < 0

FinAfter(next, g) ==                            \* mutant: SEQ_GT for SEQ_GEQ
  /\ Signed(Diff(next, Seq(g.from))) > 0
  /\ Signed(Diff(next, (Seq(g.from) + adv_win) % SeqMod)) < 0

FinInWindow(next, g) ==
  /\ Signed(Diff(next, Seq(g.from))) >= 0
  /\ Signed(Diff(next, (Seq(g.from) + adv_win) % SeqMod)) < 0
-----------------------------------------------------------------------------
(* A segment is sent: it carries the window that is free now. *)
AdvertiseLess(read, len) ==                     \* mutant: data behind a gap
  /\ adv_win' = MaxRx - len - (IF Missed(Sock) THEN 1 ELSE 0)  \* takes room
  /\ edge' = read + len + adv_win'

Advertise(read, len) ==
  /\ adv_win' = MaxRx - len
  /\ edge' = read + len + adv_win'

Receive(s) ==
  /\ recv_next' = s.next /\ missed_seq' = s.missed
  /\ rx_data' = s.data /\ rx_datalen' = s.len

(* The peer never sends a FIN beyond the window; data beyond it may come    *)
(* from "someone else", and is refused.                                     *)
Legal(g) == g.fin => g.to <= edge

(* A segment with no FIN, or whose FIN is cleared because it comes with     *)
(* out-of-order data: an out-of-order one is acknowledged at once, another   *)
(* one at once or later.                                                    *)
ArriveData(g) ==
  /\ ~got_fin
  /\ ~g.fin \/ OutOfOrder(g)
  /\ Receive(ProcessData(g))
  /\ \/ Advertise(nread, rx_datalen')
     \/ ~OutOfOrder(g) /\ UNCHANGED <<adv_win, edge>>
  /\ UNCHANGED <<got_fin, nread>>

ArriveFin(g) ==
  /\ ~got_fin
  /\ g.fin /\ ~OutOfOrder(g)
  /\ LET s == ProcessData(g) IN
     IF FinInWindow(s.next, g) /\ ~Missed(s)
     THEN /\ Receive([s EXCEPT !.next = (@ + 1) % SeqMod])
          /\ got_fin' = TRUE
     ELSE Receive(s) /\ UNCHANGED got_fin
  /\ \/ Advertise(nread, rx_datalen')
     \/ ~FinInWindow(recv_next', g) /\ ~got_fin' /\ UNCHANGED <<adv_win, edge>>
  /\ UNCHANGED nread

Arrive == \E g \in Segments : Legal(g) /\ (ArriveData(g) \/ ArriveFin(g))

(* tcp_read(): what is left moves down, the out-of-order run with it; an    *)
(* acknowledgement is sent soon, or a window update if little room is left. *)
Read ==
  /\ \E n \in 1 .. rx_datalen :
       LET move == rx_datalen - n + (IF Missed(Sock)
                                     THEN Diff(missed_seq[2], recv_next) ELSE 0)
       IN  /\ rx_data' = [c \in Cells |-> IF c < move THEN rx_data[c + n]
                                                     ELSE rx_data[c]]
           /\ rx_datalen' = rx_datalen - n
           /\ nread' = nread + n
  /\ Advertise(nread', rx_datalen') \/ UNCHANGED <<adv_win, edge>>
  /\ UNCHANGED <<recv_next, missed_seq, got_fin>>

(* tcp_Retransmitter(): a delayed acknowledgement or a window update. *)
SendAck ==
  /\ Advertise(nread, rx_datalen)
  /\ UNCHANGED <<recv_next, missed_seq, rx_data, rx_datalen, got_fin, nread>>

Init ==
  /\ recv_next = Isn /\ missed_seq = <<0, 0>>
  /\ rx_data = [c \in Cells |-> Junk] /\ rx_datalen = 0
  /\ adv_win = MaxRx /\ edge = MaxRx
  /\ got_fin = FALSE /\ nread = 0

Next == Arrive \/ Read \/ SendAck

(* Bytes of the stream received so far. *)
Received == nread + rx_datalen

(* The peer retransmits its first byte that is missing, or its FIN, until   *)
(* it is acknowledged; the application keeps reading; the retransmitter     *)
(* sends acknowledgements.                                                  *)
Retransmit ==
  \E g \in Segments :
    /\ g.from = Received /\ g.to <= edge
    /\ IF Received = StreamLen THEN g.fin ELSE SegLen(g) = 1 /\ ~g.fin
    /\ ArriveData(g) \/ ArriveFin(g)

Fairness == WF_vars(Retransmit) /\ WF_vars(Read) /\ WF_vars(SendAck)

Spec     == Init /\ [][Next]_vars
FairSpec == Spec /\ Fairness
-----------------------------------------------------------------------------
(* Types. *)
TypeOK ==
  /\ recv_next \in SeqNums /\ missed_seq \in SeqNums \X SeqNums
  /\ rx_data \in [Cells -> Bytes \cup {Junk}]
  /\ rx_datalen \in Nat /\ adv_win \in 0 .. MaxRx
  /\ got_fin \in BOOLEAN /\ nread \in Nat /\ edge \in Nat

(* The design comment of tcp_fsm.c: rx_datalen is where the next in-order  *)
(* byte goes and recv_next is its sequence number.                          *)
FinCount == IF got_fin THEN 1 ELSE 0

PointersAgree ==
  /\ Received <= StreamLen
  /\ recv_next = Seq(Received + FinCount)

(* The application reads exactly what the peer sent: the in-order bytes are *)
(* the next ones of the stream.                                             *)
InOrderDataIsStream ==
  \A k \in 0 .. rx_datalen - 1 : rx_data[k] = nread + k + 1

(* "packets [...] not [...] accepted [that] corrupt memory": no byte is     *)
(* ever stored behind the buffer, whatever is sent and however often.       *)
NoOverrun ==
  /\ rx_datalen <= MaxRx
  /\ \A c \in Cells : c >= MaxRx => rx_data[c] = Junk

(* The end of the stream is reported only when all of it was received. *)
EofAfterAllData == got_fin => Received = StreamLen

(* What was acknowledged stays acknowledged, and the window offered to the  *)
(* peer never shrinks.                                                      *)
NeverTakenBack == [][Signed(Diff(recv_next', recv_next)) >= 0 /\ edge' >= edge]_vars

(* If the peer keeps retransmitting and the application keeps reading, the  *)
(* whole stream and its end arrive.                                         *)
StreamDelivered == <>(got_fin /\ nread = StreamLen)
=============================================================================

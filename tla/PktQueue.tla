------------------------------ MODULE PktQueue ------------------------------
(***************************************************************************)
(* The ring buffer of received packets (pcqueue.c) between the capture      *)
(* thread (winpcap_recv_thread() of winpkt.c), the loopback sender          *)
(* (send_loopback() of pcsed.c) and the packet loop of tcp_tick(), which    *)
(* polls a packet, lets the handlers read it in place and frees it.         *)
(*                                                                         *)
(* The capture thread puts a batch of frames inside the critical section;   *)
(* the main thread polls inside it but frees a packet outside of it.  The   *)
(* number of a packet stands for its contents.                              *)
(***************************************************************************)
EXTENDS Integers, Sequences

CONSTANTS
  NumBuf,                  \* num_buf, RX_BUFS
  IpOfs,                   \* _pkt_ip_ofs: 14 on Ethernet, 0 on a serial line
  TwoStores,               \* the build stores out_index before it wraps it
  MaxBatch,                \* bound: frames in one read of the capture driver
  MaxSeq                   \* bound: packets that ever arrive

ASSUME PktQueueAssumption ==
  /\ NumBuf \in Nat \ {0, 1}
  /\ IpOfs \in Nat
  /\ TwoStores \in BOOLEAN
  /\ MaxBatch \in Nat \ {0}
  /\ MaxSeq \in Nat

VARIABLES
  in_index, out_index, rx_buf, num_drop,   \* struct pkt_ringbuf
  num_too_large,           \* macstats.num_too_large
  lock,                    \* owner of _watt_crit_sect
  rpc, batch,              \* the capture thread: its place, frames left
  cpc, pkt,                \* the main thread: its place, the packet it holds
  seq,                     \* history: packets that arrived
  freed, flushed,          \* history: packets released one by one, wiped
  seen                     \* history: contents of pkt when it was polled

ringVars  == <<in_index, out_index, rx_buf, num_drop, num_too_large>>
histVars  == <<freed, flushed, seen>>
vars == <<ringVars, lock, rpc, batch, cpc, pkt, seq, histVars>>

Slots == 0 .. NumBuf - 1
-----------------------------------------------------------------------------
(* pktq_in_index(): the slot after in_index *)
NextNoWrap(i) == i + 1                 \* mutant: never wraps
NextSlot(i)   == IF i + 1 >= NumBuf THEN 0 ELSE i + 1

FullNoWrap == in_index + 1 = out_index \* mutant: the slot after the last one
Full == NextSlot(in_index) = out_index

(* Between the two stores of an increment an index is NumBuf, which is 0.  *)
Norm(i) == IF i >= NumBuf THEN 0 ELSE i

(* pktq_queued(): the steps from out_index round to in_index *)
Queued ==
  LET i == Norm(in_index)
      o == Norm(out_index)
  IN  IF i >= o THEN i - o ELSE i - o + NumBuf

(* The slot k places after the oldest one. *)
SlotAt(k) ==
  LET o == Norm(out_index)
  IN  IF o + k >= NumBuf THEN o + k - NumBuf ELSE o + k

Init ==
  /\ in_index = 0 /\ out_index = 0                         \* pktq_init()
  /\ rx_buf = [s \in Slots |-> 0]
  /\ num_drop = 0 /\ num_too_large = 0
  /\ lock = "free"
  /\ rpc = "wait" /\ batch = 0
  /\ cpc = "poll" /\ pkt = [slot |-> 0, ofs |-> 0]
  /\ seq = 0 /\ freed = 0 /\ flushed = 0 /\ seen = 0
-----------------------------------------------------------------------------
(* The capture thread, winpcap_recv_thread(). *)

RecvEnter ==               \* recv_op returned a buffer of frames
  /\ rpc = "wait" /\ lock = "free"
  /\ \E n \in 1 .. MaxBatch : seq + n <= MaxSeq /\ batch' = n
  /\ lock' = "recv" /\ rpc' = "loop"
  /\ UNCHANGED <<ringVars, cpc, pkt, seq, histVars>>

RecvTooLarge ==            \* cap_len > ETH_MAX
  /\ rpc = "loop" /\ batch > 0
  /\ num_too_large' = num_too_large + 1
  /\ seq' = seq + 1 /\ batch' = batch - 1
  /\ UNCHANGED <<in_index, out_index, rx_buf, num_drop, lock, rpc, cpc, pkt,
                 histVars>>

RecvDrop ==
  /\ rpc = "loop" /\ batch > 0
  /\ Full
  /\ num_drop' = num_drop + 1
  /\ seq' = seq + 1 /\ batch' = batch - 1
  /\ UNCHANGED <<in_index, out_index, rx_buf, num_too_large, lock, rpc, cpc,
                 pkt, histVars>>

RecvCopy ==                \* memcpy into pktq_in_buf()
  /\ rpc = "loop" /\ batch > 0
  /\ ~Full
  /\ seq' = seq + 1 /\ batch' = batch - 1
  /\ rx_buf' = [rx_buf EXCEPT ![in_index] = seq']
  /\ rpc' = "inc"
  /\ UNCHANGED <<in_index, out_index, num_drop, num_too_large, lock, cpc, pkt,
                 histVars>>

RecvIncIn ==               \* pktq_inc_in(): in_index is volatile, two stores
  /\ rpc = "inc"
  /\ in_index' = in_index + 1
  /\ rpc' = "wrap"
  /\ UNCHANGED <<out_index, rx_buf, num_drop, num_too_large, lock, batch, cpc,
                 pkt, seq, histVars>>

RecvWrapIn ==
  /\ rpc = "wrap"
  /\ in_index' = Norm(in_index)
  /\ rpc' = "loop"
  /\ UNCHANGED <<out_index, rx_buf, num_drop, num_too_large, lock, batch, cpc,
                 pkt, seq, histVars>>

RecvStays ==               \* mutant: the critical section is not left
  /\ rpc = "loop" /\ batch = 0
  /\ rpc' = "wait"
  /\ UNCHANGED <<ringVars, lock, batch, cpc, pkt, seq, histVars>>

RecvLeave ==
  /\ rpc = "loop" /\ batch = 0
  /\ lock' = "free" /\ rpc' = "wait"
  /\ UNCHANGED <<ringVars, batch, cpc, pkt, seq, histVars>>

RecvThread == RecvEnter \/ RecvTooLarge \/ RecvDrop \/ RecvCopy \/ RecvIncIn
              \/ RecvWrapIn \/ RecvLeave
-----------------------------------------------------------------------------
(* The main thread. *)

(* send_loopback(): a packet to 127.x.x.x is put straight into the ring, by *)
(* the application between two ticks or by a handler that answers.          *)
LoopbackDrop ==
  /\ cpc \in {"poll", "hold"} /\ lock = "free" /\ seq < MaxSeq
  /\ Full
  /\ num_drop' = num_drop + 1
  /\ seq' = seq + 1
  /\ UNCHANGED <<in_index, out_index, rx_buf, num_too_large, lock, rpc, batch,
                 cpc, pkt, histVars>>

LoopbackUnlocked ==        \* mutant: the critical section is not entered
  /\ cpc \in {"poll", "hold"} /\ seq < MaxSeq
  /\ ~Full
  /\ seq' = seq + 1
  /\ rx_buf' = [rx_buf EXCEPT ![in_index] = seq']
  /\ in_index' = NextSlot(in_index)
  /\ UNCHANGED <<out_index, num_drop, num_too_large, lock, rpc, batch, cpc, pkt,
                 histVars>>

LoopbackPut ==
  /\ cpc \in {"poll", "hold"} /\ lock = "free" /\ seq < MaxSeq
  /\ ~Full
  /\ seq' = seq + 1
  /\ rx_buf' = [rx_buf EXCEPT ![in_index] = seq']
  /\ in_index' = NextSlot(in_index)
  /\ UNCHANGED <<out_index, num_drop, num_too_large, lock, rpc, batch, cpc, pkt,
                 histVars>>

(* pkt_poll_recv(): compare the indices inside the critical section, keep  *)
(* a pointer to the oldest buffer.  The pointer is to the MAC header.       *)
PollAdvances ==            \* mutant: the buffer is released when it is polled
  /\ cpc = "poll" /\ lock = "free"
  /\ in_index # out_index
  /\ pkt' = [slot |-> out_index, ofs |-> 0]
  /\ seen' = rx_buf[out_index]
  /\ out_index' = NextSlot(out_index) /\ freed' = freed + 1
  /\ cpc' = "peek"
  /\ UNCHANGED <<in_index, rx_buf, num_drop, num_too_large, lock, rpc, batch, seq,
                 flushed>>

Poll ==
  /\ cpc = "poll" /\ lock = "free"
  /\ in_index # out_index
  /\ pkt' = [slot |-> out_index, ofs |-> 0]
  /\ seen' = rx_buf[out_index]
  /\ cpc' = "peek"
  /\ UNCHANGED <<ringVars, lock, rpc, batch, seq, freed, flushed>>

(* _eth_arrived() goes on to the network header, unless the _eth_recv_peek  *)
(* hook consumed the frame: then it frees the MAC header it still points to. *)
PeekPass ==
  /\ cpc = "peek"
  /\ pkt' = [pkt EXCEPT !.ofs = IpOfs]
  /\ cpc' = "hold"
  /\ UNCHANGED <<ringVars, lock, rpc, batch, seq, histVars>>

PeekConsume ==
  /\ cpc = "peek"
  /\ cpc' = "free"
  /\ UNCHANGED <<ringVars, lock, rpc, batch, pkt, seq, histVars>>

(* The protocol handler has read the packet in its slot. *)
Handle ==
  /\ cpc = "hold"
  /\ cpc' = "free"
  /\ UNCHANGED <<ringVars, lock, rpc, batch, pkt, seq, histVars>>

(* pkt_free_pkt(): a pointer that is the network header of the oldest       *)
(* buffer advances out_index, without the critical section; any other one   *)
(* wipes the ring.                                                          *)
IsTail(p) == p.slot = out_index /\ p.ofs = IpOfs

FreeIncOut ==              \* pktq_inc_out(): out_index is not volatile, so
  /\ cpc = "free" /\ IsTail(pkt)    \* the increment is stored or kept back
  /\ out_index' = IF TwoStores THEN out_index + 1 ELSE out_index
  /\ freed' = IF TwoStores THEN freed + 1 ELSE freed
  /\ cpc' = "wrap"
  /\ UNCHANGED <<in_index, rx_buf, num_drop, num_too_large, lock, rpc, batch,
                 pkt, seq, flushed, seen>>

FreeWrapOut ==
  /\ cpc = "wrap"
  /\ out_index' = IF TwoStores THEN Norm(out_index) ELSE NextSlot(out_index)
  /\ freed' = IF TwoStores THEN freed ELSE freed + 1
  /\ cpc' = "poll"
  /\ UNCHANGED <<in_index, rx_buf, num_drop, num_too_large, lock, rpc, batch,
                 pkt, seq, flushed, seen>>

FreeOther ==               \* pktq_clear()
  /\ cpc = "free" /\ ~IsTail(pkt) /\ lock = "free"
  /\ flushed' = flushed + Queued
  /\ in_index' = out_index
  /\ cpc' = "poll"
  /\ UNCHANGED <<out_index, rx_buf, num_drop, num_too_large, lock, rpc, batch,
                 pkt, seq, freed, seen>>

Tick == Poll \/ PeekPass \/ PeekConsume \/ Handle \/ FreeIncOut \/ FreeWrapOut
        \/ FreeOther

Next == RecvThread \/ LoopbackDrop \/ LoopbackPut \/ Tick

(* The capture thread is scheduled and leaves the critical section, the     *)
(* application keeps calling tcp_tick(), and a thread that asks for the     *)
(* critical section again and again gets it.                                *)
Fairness == WF_vars(RecvThread) /\ WF_vars(Tick) /\ SF_vars(Poll) /\ SF_vars(FreeOther)

Spec     == Init /\ [][Next]_vars
FairSpec == Spec /\ Fairness
-----------------------------------------------------------------------------
(* Types, and who may be where while the critical section is taken. *)
TypeOK ==
  /\ in_index \in 0 .. NumBuf /\ out_index \in 0 .. NumBuf
  /\ rx_buf \in [Slots -> Nat]
  /\ num_drop \in Nat /\ num_too_large \in Nat
  /\ lock \in {"free", "recv"}
  /\ rpc \in {"wait", "loop", "inc", "wrap"}
  /\ batch \in Nat
  /\ cpc \in {"poll", "peek", "hold", "free", "wrap"}
  /\ pkt \in [slot : Slots, ofs : {0, IpOfs}]
  /\ seq \in Nat /\ freed \in Nat /\ flushed \in Nat /\ seen \in Nat

(* Packets that arrived and are in the ring; the one being copied is not   *)
(* yet.                                                                    *)
InFlight == IF rpc = "inc" THEN 1 ELSE 0

(* pcqueue.h calls num_drop the "number of dropped pkts": every packet that *)
(* arrived is still in the ring, was released after it was polled, was      *)
(* wiped, or is counted as dropped or as too large.  None is lost or        *)
(* duplicated by the two threads moving the indices.                        *)
EveryPacketAccounted ==
  seq = Queued + InFlight + freed + flushed + num_drop + num_too_large

(* The capture thread never writes into the buffer that a handler is        *)
(* reading, even though the handler holds no lock.                          *)
HeldPacketStable ==
  cpc \in {"peek", "hold", "free"} =>
    /\ Queued > 0
    /\ pkt.slot = out_index
    /\ rx_buf[pkt.slot] = seen

(* The ring implements the bounded FIFO of PktFifo. *)
Contents == [k \in 1 .. Queued |-> rx_buf[SlotAt(k - 1)]]
Arrived  == seq - InFlight

Fifo == INSTANCE PktFifo WITH
  Capacity <- NumBuf - 1,
  fifo     <- Contents,
  arrived  <- Arrived,
  drops    <- num_drop

RingIsFifo == Fifo!FifoSpec

(* A packet in the ring is eventually polled and released or wiped: the     *)
(* number released and wiped reaches whatever was put in.                   *)
EveryPacketLeaves ==
  \A n \in 1 .. MaxSeq :
    (Queued > 0 /\ rx_buf[SlotAt(0)] = n) ~> (Queued = 0 \/ rx_buf[SlotAt(0)] > n)
=============================================================================

--------------------------- MODULE PktQueueProofs ---------------------------
(***************************************************************************)
(* Proofs about PktQueue for every ring size, batch size and number of      *)
(* packets, in a build that keeps the increment of out_index in a register  *)
(* (TwoStores is FALSE).  With two stores EveryPacketAccounted is false:    *)
(* between them the capture thread sees an index that is no slot.          *)
(*                                                                         *)
(* EveryPacketAccounted and HeldPacketStable are not inductive.  What they  *)
(* need is the critical section (LockInv), the range of the two indices     *)
(* (IndexInv), that the thread still has room when it moves in_index        *)
(* (RoomInv), and that the buffer the main thread holds is the oldest one   *)
(* and is still queued (HeldInv).  That the ring implements PktFifo needs   *)
(* one part more: the slot that the thread is about to add to the queue     *)
(* holds the packet that came last (CopyInv).                               *)
(***************************************************************************)
EXTENDS PktQueue, SequenceTheorems, TLAPS

LockInv  == lock = "recv" <=> rpc # "wait"

IndexInv ==
  /\ out_index \in Slots
  /\ in_index = NumBuf => rpc = "wrap"

RoomInv == rpc = "inc" => NextSlot(in_index) # out_index

HeldInv ==
  cpc # "poll" =>
    /\ Norm(in_index) # out_index
    /\ pkt.slot = out_index
    /\ cpc # "wrap" => rx_buf[out_index] = seen

IInv ==
  /\ TypeOK
  /\ LockInv
  /\ IndexInv
  /\ RoomInv
  /\ HeldInv
  /\ EveryPacketAccounted

-----------------------------------------------------------------------------
(* The initial state satisfies the inductive invariant. *)
LEMMA InitIInv == Init => IInv
  BY PktQueueAssumption
  DEF Init, IInv, TypeOK, LockInv, IndexInv, RoomInv, HeldInv,
      EveryPacketAccounted, Queued, InFlight, Norm, Slots

(* Every step of a build with one store preserves it. *)
LEMMA NextIInv ==
  ASSUME ~TwoStores, IInv, [Next]_vars
  PROVE  IInv'
<1> USE PktQueueAssumption
    DEF IInv, TypeOK, LockInv, IndexInv, RoomInv, HeldInv,
        EveryPacketAccounted, Queued, InFlight, Norm, NextSlot, Slots
<1>1. CASE RecvEnter
  BY <1>1 DEF RecvEnter, ringVars, histVars
<1>2. CASE RecvTooLarge
  BY <1>2 DEF RecvTooLarge, histVars
<1>3. CASE RecvDrop
  BY <1>3 DEF RecvDrop, histVars
<1>4. CASE RecvCopy
  BY <1>4 DEF RecvCopy, Full, histVars
<1>5. CASE RecvIncIn
  BY <1>5 DEF RecvIncIn, histVars
<1>6. CASE RecvWrapIn
  BY <1>6 DEF RecvWrapIn, histVars
<1>7. CASE RecvLeave
  BY <1>7 DEF RecvLeave, ringVars, histVars
<1>8. CASE LoopbackDrop
  BY <1>8 DEF LoopbackDrop, histVars
<1>9. CASE LoopbackPut
  BY <1>9 DEF LoopbackPut, Full, histVars
<1>10. CASE Poll
  BY <1>10 DEF Poll, ringVars
<1>11. CASE PeekPass
  BY <1>11 DEF PeekPass, ringVars, histVars
<1>12. CASE PeekConsume
  BY <1>12 DEF PeekConsume, ringVars, histVars
<1>13. CASE Handle
  BY <1>13 DEF Handle, ringVars, histVars
<1>14. CASE FreeIncOut
  BY <1>14 DEF FreeIncOut, IsTail
<1>15. CASE FreeWrapOut
  BY <1>15 DEF FreeWrapOut
<1>16. CASE FreeOther
  BY <1>16 DEF FreeOther
<1>17. CASE UNCHANGED vars
  BY <1>17 DEF vars, ringVars, histVars
<1>18. QED
  BY <1>1, <1>2, <1>3, <1>4, <1>5, <1>6, <1>7, <1>8, <1>9, <1>10, <1>11,
     <1>12, <1>13, <1>14, <1>15, <1>16, <1>17 DEF Next, RecvThread, Tick

(* The inductive invariant implies the two properties it was found for. *)
LEMMA IInvHeldPacketStable == IInv => HeldPacketStable
  BY PktQueueAssumption
  DEF IInv, TypeOK, IndexInv, HeldInv, HeldPacketStable, Queued, Norm, Slots

LEMMA Invariance == ASSUME ~TwoStores PROVE Spec => []IInv
  BY InitIInv, NextIInv, PTL DEF Spec

(* Every variable keeps its type: the indices stay inside the ring, but for *)
(* the instant in which pktq_inc_in() has not wrapped in_index yet.         *)
THEOREM TypeCorrect == ASSUME ~TwoStores PROVE Spec => []TypeOK
<1>1. IInv => TypeOK
  BY DEF IInv
<1>2. QED
  BY <1>1, Invariance, PTL

(* Whatever the interleaving of the capture thread, the loopback sender and *)
(* tcp_tick(), no packet is lost or duplicated without being counted.       *)
THEOREM PacketsAccounted == ASSUME ~TwoStores PROVE Spec => []EveryPacketAccounted
<1>1. IInv => EveryPacketAccounted
  BY DEF IInv
<1>2. QED
  BY <1>1, Invariance, PTL

(* A handler reads a packet in place, and outside the critical section; the *)
(* capture thread never overwrites it meanwhile.                            *)
THEOREM HandlerReadsStablePacket == ASSUME ~TwoStores PROVE Spec => []HeldPacketStable
  BY IInvHeldPacketStable, Invariance, PTL
-----------------------------------------------------------------------------
(* The refinement.  While the thread is about to move in_index the slot     *)
(* there holds the packet that arrived last; nothing else writes to it.     *)
CopyInv == rpc = "inc" => rx_buf[in_index] = seq

RInv == IInv /\ CopyInv

LEMMA InitRInv == Init => RInv
  BY InitIInv DEF Init, RInv, CopyInv

LEMMA NextRInv ==
  ASSUME ~TwoStores, RInv, [Next]_vars
  PROVE  RInv'
<1>1. IInv'
  BY NextIInv DEF RInv
<1>2. CopyInv'
  <2> USE DEF RInv, CopyInv, IInv, LockInv
  <2>1. CASE RecvThread
    BY <2>1, PktQueueAssumption
    DEF RecvThread, RecvEnter, RecvTooLarge, RecvDrop, RecvCopy, RecvIncIn, RecvWrapIn,
        RecvLeave, IndexInv, TypeOK, Slots
  <2>2. CASE LoopbackDrop \/ LoopbackPut
    BY <2>2 DEF LoopbackDrop, LoopbackPut
  <2>3. CASE Tick
    BY <2>3 DEF Tick, Poll, PeekPass, PeekConsume, Handle, FreeIncOut, FreeWrapOut,
                FreeOther, ringVars, histVars
  <2>4. CASE UNCHANGED vars
    BY <2>4 DEF vars, ringVars
  <2>5. QED
    BY <2>1, <2>2, <2>3, <2>4 DEF Next
<1>3. QED
  BY <1>1, <1>2 DEF RInv

(* What Append and Tail give, for sequences given as functions. *)
LEMMA SeqLemma ==
  ASSUME NEW n \in Nat, NEW s \in [1 .. n -> Nat]
  PROVE  s \in Seq(Nat) /\ Len(s) = n
OBVIOUS

LEMMA AppendLemma ==
  ASSUME NEW n \in Nat, NEW s \in [1 .. n -> Nat], NEW t \in [1 .. n + 1 -> Nat],
         \A k \in 1 .. n : t[k] = s[k]
  PROVE  t = Append(s, t[n + 1])
<1>1. /\ s \in Seq(Nat) /\ Len(s) = n
      /\ t \in Seq(Nat) /\ Len(t) = n + 1 /\ t[n + 1] \in Nat
  BY SeqLemma
<1>2. /\ Append(s, t[n + 1]) \in Seq(Nat) /\ Len(Append(s, t[n + 1])) = n + 1
      /\ \A k \in 1 .. n + 1 : Append(s, t[n + 1])[k] = t[k]
  BY <1>1, AppendProperties
<1>3. QED
  BY <1>1, <1>2, SeqEqual

LEMMA TailLemma ==
  ASSUME NEW n \in Nat, NEW s \in [1 .. n + 1 -> Nat], NEW t \in [1 .. n -> Nat],
         \A k \in 1 .. n : t[k] = s[k + 1]
  PROVE  s # << >> /\ t = Tail(s)
<1>1. /\ s \in Seq(Nat) /\ Len(s) = n + 1 /\ s # << >>
      /\ t \in Seq(Nat) /\ Len(t) = n
  BY SeqLemma
<1>2. /\ Tail(s) \in Seq(Nat) /\ Len(Tail(s)) = n
      /\ \A k \in 1 .. n : Tail(s)[k] = t[k]
  BY <1>1, HeadTailProperties
<1>3. QED
  BY <1>1, <1>2, SeqEqual

(* The contents of the ring are a sequence as long as its queue. *)
ContentsInv ==
  /\ Queued \in Nat /\ Queued < NumBuf
  /\ \A k \in 0 .. Queued - 1 : SlotAt(k) \in Slots
  /\ Contents \in [1 .. Queued -> Nat]

LEMMA ContentsLemma == IInv => ContentsInv
<1> SUFFICES ASSUME IInv PROVE ContentsInv
  OBVIOUS
<1>1. Queued \in Nat /\ Queued < NumBuf
  BY PktQueueAssumption DEF IInv, TypeOK, IndexInv, Queued, Norm, Slots
<1>2. \A k \in 0 .. Queued - 1 : SlotAt(k) \in Slots
  BY <1>1, PktQueueAssumption DEF IInv, TypeOK, IndexInv, SlotAt, Norm, Slots
<1>3. Contents \in [1 .. Queued -> Nat]
  BY <1>1, <1>2 DEF IInv, TypeOK, Contents
<1>4. QED
  BY <1>1, <1>2, <1>3 DEF ContentsInv

(* What the steps do to the contents.  Most leave the ring alone. *)
LEMMA RingSame ==
  ASSUME UNCHANGED <<in_index, out_index, rx_buf>>
  PROVE  Contents' = Contents
BY DEF Contents, Queued, SlotAt, Norm

(* The slot that a packet is copied to is behind the queue. *)
LEMMA CopySame ==
  ASSUME RInv, ContentsInv, RecvCopy
  PROVE  Contents' = Contents
<1>1. Queued' = Queued
  BY DEF RecvCopy, Queued, Norm
<1>2. \A k \in 0 .. Queued - 1 : SlotAt(k)' = SlotAt(k) /\ SlotAt(k) # in_index
  BY PktQueueAssumption
  DEF RecvCopy, RInv, IInv, TypeOK, IndexInv, Queued, SlotAt, Norm, Slots
<1>3. \A k \in 1 .. Queued : rx_buf'[SlotAt(k - 1)'] = rx_buf[SlotAt(k - 1)]
  BY <1>2 DEF RecvCopy, RInv, IInv, TypeOK, ContentsInv
<1>4. QED
  BY <1>1, <1>3 DEF Contents

(* The index shows the packet to the other side before it is wrapped. *)
LEMMA WrapSame ==
  ASSUME IInv, RecvWrapIn
  PROVE  Contents' = Contents
<1>1. Norm(in_index)' = Norm(in_index)
  BY PktQueueAssumption DEF RecvWrapIn, IInv, TypeOK, Norm
<1>2. QED
  BY <1>1 DEF RecvWrapIn, Contents, Queued, SlotAt, Norm

LEMMA IncPuts ==
  ASSUME RInv, ContentsInv, ContentsInv', RecvIncIn
  PROVE  Contents' = Append(Contents, seq) /\ Queued < NumBuf - 1
<1>1. Queued' = Queued + 1 /\ SlotAt(Queued) = in_index /\ Queued < NumBuf - 1
  BY PktQueueAssumption
  DEF RecvIncIn, RInv, IInv, TypeOK, IndexInv, RoomInv, Queued, SlotAt, NextSlot, Norm, Slots
<1>2. /\ \A k \in 1 .. Queued : Contents'[k] = Contents[k]
      /\ Contents'[Queued + 1] = rx_buf[in_index]
  BY <1>1 DEF RecvIncIn, Contents, ContentsInv, SlotAt, Norm
<1>3. rx_buf[in_index] = seq
  BY DEF RecvIncIn, RInv, CopyInv
<1>4. QED
  BY <1>1, <1>2, <1>3, AppendLemma DEF ContentsInv

LEMMA LoopbackPuts ==
  ASSUME RInv, ContentsInv, ContentsInv', LoopbackPut
  PROVE  Contents' = Append(Contents, seq') /\ Queued < NumBuf - 1
<1>1. /\ Queued' = Queued + 1 /\ SlotAt(Queued) = in_index /\ Queued < NumBuf - 1
      /\ in_index \in Slots
      /\ \A k \in 0 .. Queued - 1 : SlotAt(k) # in_index
  BY PktQueueAssumption
  DEF LoopbackPut, RInv, IInv, TypeOK, LockInv, IndexInv, Full, Queued, SlotAt, NextSlot, Norm, Slots
<1>2. \A k \in 0 .. Queued : SlotAt(k)' = SlotAt(k)
  BY DEF LoopbackPut, SlotAt, Norm
<1>3. /\ \A k \in 1 .. Queued : Contents'[k] = Contents[k]
      /\ Contents'[Queued + 1] = seq'
  BY <1>1, <1>2 DEF LoopbackPut, Contents, ContentsInv, RInv, IInv, TypeOK
<1>4. QED
  BY <1>1, <1>3, AppendLemma DEF ContentsInv

LEMMA FreeTakes ==
  ASSUME ~TwoStores, RInv, ContentsInv, ContentsInv', FreeWrapOut
  PROVE  Contents # << >> /\ Contents' = Tail(Contents)
<1>1. Queued = Queued' + 1
  BY PktQueueAssumption
  DEF FreeWrapOut, RInv, IInv, TypeOK, IndexInv, HeldInv, Queued, NextSlot, Norm, Slots
<1>2. Queued' \in Nat /\ Contents' \in [1 .. Queued' -> Nat]
  BY DEF ContentsInv
<1>3. ASSUME NEW n \in Nat, n = Queued', NEW k \in 1 .. n
      PROVE  Contents'[k] = Contents[k + 1]
  <2>1. k + 1 \in 1 .. Queued /\ k \in 1 .. Queued'
    <3>1. n = Queued'
      BY <1>3
    <3>2. Queued = n + 1
      BY <1>1, <3>1
    <3>3. k + 1 \in 1 .. n + 1
      OBVIOUS
    <3>4. QED
      BY <3>1, <3>2, <3>3
  <2>2. Contents'[k] = rx_buf[SlotAt(k - 1)'] /\ Contents[k + 1] = rx_buf[SlotAt(k)]
    BY <2>1 DEF FreeWrapOut, Contents
  <2>3. SlotAt(k - 1)' = SlotAt(k)
    BY <1>1, <1>3, PktQueueAssumption
    DEF FreeWrapOut, RInv, IInv, TypeOK, IndexInv, SlotAt, Queued, NextSlot, Norm, Slots
  <2>4. QED
    BY <2>2, <2>3
<1>4. Contents \in [1 .. Queued' + 1 -> Nat]
  BY <1>1 DEF ContentsInv
<1>5. QED
  BY <1>2, <1>3, <1>4, TailLemma

(* A full ring holds one packet less than it has buffers. *)
LEMMA FullLemma ==
  ASSUME IInv, ContentsInv, Full, rpc # "wrap"
  PROVE  Len(Contents) = NumBuf - 1
<1>1. Queued = NumBuf - 1
  BY PktQueueAssumption DEF IInv, TypeOK, IndexInv, Full, NextSlot, Queued, Norm, Slots
<1>2. QED
  BY <1>1, SeqLemma DEF ContentsInv

(* Every step of the ring is a step of the queue, or none. *)
LEMMA StepLemma ==
  ASSUME ~TwoStores, RInv, ContentsInv, ContentsInv', [Next]_vars
  PROVE  [Fifo!FifoNext]_(Fifo!fifoVars)
<1> USE DEF Fifo!fifoVars, Fifo!FifoNext, Arrived, InFlight
<1>0. seq \in Nat /\ Len(Contents) = Queued /\ Queued \in Nat
  BY SeqLemma DEF RInv, IInv, TypeOK, ContentsInv
<1>1. CASE RecvEnter
  BY <1>1, RingSame DEF RecvEnter, ringVars
<1>2. CASE RecvTooLarge
  BY <1>0, <1>2, RingSame DEF RecvTooLarge, Fifo!Refuse
<1>3. CASE RecvDrop
  BY <1>0, <1>3, RingSame, FullLemma DEF RInv, RecvDrop, Fifo!Drop
<1>4. CASE RecvCopy
  BY <1>0, <1>4, CopySame DEF RecvCopy
<1>5. CASE RecvIncIn
  BY <1>0, <1>5, IncPuts DEF RecvIncIn, Fifo!Put
<1>6. CASE RecvWrapIn
  BY <1>6, WrapSame DEF RInv, RecvWrapIn
<1>7. CASE RecvLeave
  BY <1>7, RingSame DEF RecvLeave, ringVars
<1>8. CASE LoopbackDrop
  BY <1>0, <1>8, RingSame, FullLemma DEF RInv, IInv, LockInv, LoopbackDrop, Fifo!Drop
<1>9. CASE LoopbackPut
  BY <1>0, <1>9, LoopbackPuts DEF RInv, IInv, LockInv, LoopbackPut, Fifo!Put
<1>10. CASE Poll \/ PeekPass \/ PeekConsume \/ Handle
  BY <1>10, RingSame DEF Poll, PeekPass, PeekConsume, Handle, ringVars
<1>11. CASE FreeIncOut
  BY <1>11, RingSame DEF FreeIncOut
<1>12. CASE FreeWrapOut
  BY <1>0, <1>12, FreeTakes DEF FreeWrapOut, Fifo!Take
<1>13. CASE FreeOther
  <2>1. Queued' = 0
    BY <1>13 DEF FreeOther, Queued, Norm, RInv, IInv, TypeOK
  <2>2. Contents' = << >>
    BY <2>1, SeqLemma DEF ContentsInv
  <2>3. QED
    BY <1>13, <2>2 DEF FreeOther, Fifo!Wipe
<1>14. CASE UNCHANGED vars
  BY <1>14, RingSame DEF vars, ringVars
<1>15. QED
  BY <1>1, <1>2, <1>3, <1>4, <1>5, <1>6, <1>7, <1>8, <1>9, <1>10, <1>11, <1>12, <1>13,
     <1>14 DEF Next, RecvThread, Tick

(* The ring buffer, filled by two writers and emptied without a lock, is a  *)
(* bounded FIFO queue: a packet is dropped only when NumBuf - 1 others are   *)
(* queued, and they leave in the order in which they arrived.               *)
THEOREM RingImplementsFifo == ASSUME ~TwoStores PROVE Spec => RingIsFifo
<1>1. Init => Fifo!FifoInit
  <2>1. Init => Queued = 0 /\ Contents \in [1 .. 0 -> Nat]
    BY DEF Init, Queued, Norm, Contents
  <2>2. Init => Contents = << >>
    BY <2>1, SeqLemma
  <2>3. QED
    BY <2>2 DEF Init, Fifo!FifoInit, Arrived, InFlight
<1>2. RInv /\ ContentsInv /\ ContentsInv' /\ [Next]_vars => [Fifo!FifoNext]_(Fifo!fifoVars)
  BY StepLemma
<1>3. RInv /\ [Next]_vars => RInv'
  BY NextRInv
<1>4. RInv => ContentsInv
  BY ContentsLemma DEF RInv
<1>5. QED
  BY <1>1, <1>2, <1>3, <1>4, InitRInv, PTL DEF Spec, RingIsFifo, Fifo!FifoSpec
=============================================================================

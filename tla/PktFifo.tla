------------------------------ MODULE PktFifo ------------------------------
(***************************************************************************)
(* What the receive path between the network driver and tcp_tick()         *)
(* promises: a bounded first-in first-out queue.  Packets are numbered in   *)
(* the order in which they arrive.  One that arrives is queued, counted as  *)
(* too large, or counted as dropped, and it may be dropped only when the    *)
(* queue is full.  Packets leave at the head, one at a time, or all at once *)
(* when the queue is wiped.                                                *)
(***************************************************************************)
EXTENDS Integers, Sequences

CONSTANT Capacity          \* packets the queue can hold

VARIABLES
  fifo,                    \* numbers of the queued packets, oldest first
  arrived,                 \* packets that arrived so far
  drops                    \* packets dropped because the queue was full

fifoVars == <<fifo, arrived, drops>>

FifoInit == fifo = <<>> /\ arrived = 0 /\ drops = 0

Put ==
  /\ Len(fifo) < Capacity
  /\ arrived' = arrived + 1
  /\ fifo' = Append(fifo, arrived')
  /\ UNCHANGED drops

Drop ==
  /\ Len(fifo) = Capacity
  /\ arrived' = arrived + 1
  /\ drops' = drops + 1
  /\ UNCHANGED fifo

Refuse ==                  \* a frame too large for a buffer
  /\ arrived' = arrived + 1
  /\ UNCHANGED <<fifo, drops>>

Take ==
  /\ fifo # <<>>
  /\ fifo' = Tail(fifo)
  /\ UNCHANGED <<arrived, drops>>

Wipe ==
  /\ fifo' = <<>>
  /\ UNCHANGED <<arrived, drops>>

FifoNext == Put \/ Drop \/ Refuse \/ Take \/ Wipe

FifoSpec == FifoInit /\ [][FifoNext]_fifoVars
=============================================================================

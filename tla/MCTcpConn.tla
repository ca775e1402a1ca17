----------------------------- MODULE MCTcpConn -----------------------------
(* Instances of TcpConn for TLC.  tcp_open() and tcp_listen() both set      *)
(* LF_LINGER, so by default both ends linger in TIMEWT; in the instance of  *)
(* the second connection SO_LINGER is off at the server, so that both ways  *)
(* are taken.  A second call of tcp_open() uses another local port.         *)
EXTENDS TcpConn

LingerAll == [p \in Sides |-> TRUE]
LingerA   == [p \in Sides |-> p = "A"]
OpenOnce  == [p \in Sides |-> 1]
OpenTwice == [p \in Sides |-> IF p = "A" THEN 2 ELSE 1]
=============================================================================

---------------------------- MODULE MCDhcpClient ---------------------------
(* DhcpClient for TLC: servers and addresses are interchangeable. *)
EXTENDS DhcpClient, TLC

Symmetry == Permutations(Servers) \cup Permutations(Addrs)
=============================================================================

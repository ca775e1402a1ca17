---------------------------- MODULE MCArpRoute ----------------------------
(* An instance of ArpRoute for TLC: two gateways, the first one for a       *)
(* subnet with the host x, the second one the default gateway, and other    *)
(* hosts on the LAN.                                                       *)
EXTENDS ArpRoute

CONSTANTS g1, g2, h, x, y

LanHosts    == {g1, g2, h}
RemoteHosts == {x, y}
TwoGates    == <<[ip |-> g1, nets |-> {x}],
                 [ip |-> g2, nets |-> LanHosts \cup RemoteHosts]>>
=============================================================================

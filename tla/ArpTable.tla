------------------------------ MODULE ArpTable ------------------------------
(***************************************************************************)
(* What the ARP cache of pcarp.c promises, whatever its slots look like: a  *)
(* table of bounded size from hosts of our LAN to what is known of them.    *)
(* An operation is about one host; only if the table is full does it take   *)
(* the place of one learned host.                                          *)
(***************************************************************************)
EXTENDS Integers, FiniteSets

CONSTANTS Hosts, Capacity

VARIABLE table             \* [Hosts -> Kinds]

Kinds == {"none", "pending", "dynamic", "fixed"}

Known == {h \in Hosts : table[h] # "none"}

TableInit == table = [h \in Hosts |-> "none"]

(* h gets an entry; without a free place one learned host loses its own. *)
Enter(h, kind) ==
  \/ /\ h \in Known \/ Cardinality(Known) < Capacity
     /\ table' = [table EXCEPT ![h] = kind]
  \/ /\ h \notin Known /\ Cardinality(Known) = Capacity
     /\ \E d \in Known : /\ table[d] = "dynamic"
                         /\ table' = [table EXCEPT ![h] = kind, ![d] = "none"]

Ask(h) == table[h] = "none" /\ Enter(h, "pending")

(* A host that was heard takes no other's place. *)
Learn(h) ==
  /\ h \in Known \/ Cardinality(Known) < Capacity
  /\ table' = [table EXCEPT ![h] = "dynamic"]

Fix(h) == Enter(h, "fixed")

Forget(h) == table' = [table EXCEPT ![h] = "none"]

TableNext == \E h \in Hosts : Ask(h) \/ Learn(h) \/ Fix(h) \/ Forget(h)

TableSpec == TableInit /\ [][TableNext]_table
=============================================================================

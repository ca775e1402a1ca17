------------------------------ MODULE ArpCache ------------------------------
(***************************************************************************)
(* The ARP cache of pcarp.c: one array, with the fixed entries at the       *)
(* bottom, the dynamic ones above them, and the pending ones growing down   *)
(* from the top.  arp_daemon() walks the pending and the dynamic entries;   *)
(* each turn of its loops is one step here, and nothing else runs between    *)
(* them.                                                                   *)
(*                                                                         *)
(* The hardware address of a host is denoted by the host.  A slot outside   *)
(* the three sections is never read; it is NoEntry here.                    *)
(***************************************************************************)
EXTENDS Integers, FiniteSets

CONSTANTS
  Hosts,                   \* addresses on our LAN
  None,                    \* no address
  Size                     \* ARP_TOP_OF_CACHE

ASSUME ArpCacheAssumption ==
  /\ None \notin Hosts
  /\ Size \in Nat \ {0}

VARIABLES
  cache,                   \* arp_list and the index pointers
  pos                      \* place of arp_daemon() in its loops

Slots   == 0 .. Size - 1
NoEntry == [ip |-> None, mac |-> None]

Fixed(c)   == 0 .. c.first_dynamic - 1
Dynamic(c) == c.first_dynamic .. c.first_free - 1
Pending(c) == c.first_pending .. Size - 1
Free(c)    == c.first_free .. c.first_pending - 1

In(c, section, h) == \E i \in section : c.list[i].ip = h
SlotOf(c, section, h) ==
  CHOOSE i \in section : c.list[i].ip = h /\ \A j \in section : c.list[j].ip = h => i <= j

(* LAN_lookup(), LAN_lookup_pending() *)
Resolved(c, h) == In(c, 0 .. c.first_free - 1, h)
IsPending(c, h) == In(c, Pending(c), h)
Listed(c, h) == Resolved(c, h) \/ IsPending(c, h)

CacheInit ==
  /\ cache = [list |-> [i \in Slots |-> NoEntry], first_dynamic |-> 0,
              first_free |-> 0, first_pending |-> Size]
  /\ pos = [loop |-> "idle", i |-> 0, dyn |-> TRUE]
-----------------------------------------------------------------------------
(* Operations on the array. *)
Clean(c) ==
  [c EXCEPT !.list = [i \in Slots |-> IF i \in Free(c) THEN NoEntry ELSE @[i]]]

PushPending(c, h) ==
  [c EXCEPT !.list[c.first_pending - 1] = [ip |-> h, mac |-> None],
            !.first_pending = @ - 1]

(* LAN_start_lookup(): a new request takes a free slot or the top dynamic   *)
(* one.                                                                    *)
Starts(c, h) ==            \* its return value
  Listed(c, h) \/ c.first_free < c.first_pending \/ c.first_dynamic < c.first_free

StartLookupFull(c, h) ==   \* mutant: no dynamic entry makes room
  IF Listed(c, h) THEN c ELSE PushPending(c, h)

StartLookup(c, h) ==
  IF Listed(c, h) \/ ~Starts(c, h) THEN c
  ELSE IF c.first_free < c.first_pending THEN PushPending(c, h)
  ELSE PushPending([c EXCEPT !.first_free = @ - 1], h)

(* An entry leaves its section and another one fills the hole. *)
DropPending(c, i) ==       \* mutant: the hole is not filled
  Clean([c EXCEPT !.first_pending = @ + 1])

RemovePending(c, i) ==
  Clean([c EXCEPT !.list[i] = c.list[c.first_pending], !.first_pending = @ + 1])

RemoveDynamic(c, i) ==
  Clean([c EXCEPT !.list[i] = c.list[c.first_free - 1], !.first_free = @ - 1])

RemoveFixed(c, i) ==
  LET fixed  == c.first_dynamic - 1
      top    == c.first_free - 1
      filled == [c.list EXCEPT ![i] = c.list[fixed]]
  IN  Clean([c EXCEPT !.list = IF fixed < top THEN [filled EXCEPT ![fixed] = filled[top]]
                                              ELSE filled,
                      !.first_dynamic = fixed, !.first_free = top])

(* _arp_cache_del() *)
Del(c, h) ==
  CASE In(c, Dynamic(c), h) -> RemoveDynamic(c, SlotOf(c, Dynamic(c), h))
    [] ~In(c, Dynamic(c), h) /\ In(c, Fixed(c), h) ->
         RemoveFixed(c, SlotOf(c, Fixed(c), h))
    [] ~In(c, Dynamic(c), h) /\ ~In(c, Fixed(c), h) /\ IsPending(c, h) ->
         RemovePending(c, SlotOf(c, Pending(c), h))
    [] OTHER -> c

(* _arp_cache_add() *)
PushDynamic(c, h, mac) ==
  IF c.first_free >= c.first_pending THEN c
  ELSE [c EXCEPT !.list[c.first_free] = [ip |-> h, mac |-> mac], !.first_free = @ + 1]

PushFixedOver(c, h, mac) ==     \* mutant: the dynamic entries are not rolled up
  IF c.first_free >= c.first_pending THEN c
  ELSE [c EXCEPT !.list[c.first_dynamic] = [ip |-> h, mac |-> mac],
                 !.first_dynamic = @ + 1, !.first_free = @ + 1]

PushFixed(c, h, mac) ==
  LET full == c.first_free >= c.first_pending
      d    == IF full THEN [c EXCEPT !.first_free = @ - 1] ELSE c
      roll == IF d.first_dynamic < d.first_free
              THEN [d.list EXCEPT ![d.first_free] = d.list[d.first_dynamic]] ELSE d.list
  IN  IF full /\ c.first_dynamic >= c.first_free THEN c
      ELSE [d EXCEPT !.list = [roll EXCEPT ![d.first_dynamic] = [ip |-> h, mac |-> mac]],
                     !.first_dynamic = @ + 1, !.first_free = @ + 1]

AddTwice(c, h, mac, expires) == \* mutant: the old entry stays
  IF expires THEN PushDynamic(c, h, mac) ELSE PushFixed(c, h, mac)

Add(c, h, mac, expires) ==
  IF expires THEN PushDynamic(Del(c, h), h, mac) ELSE PushFixed(Del(c, h), h, mac)
-----------------------------------------------------------------------------
(* Calls and packets, handled between two runs of the daemon. *)
Idle == pos.loop = "idle"

Lookup(h) ==               \* _arp_start_lookup() or _arp_resolve()
  /\ Idle /\ ~Listed(cache, h) /\ Starts(cache, h)
  /\ cache' = StartLookup(cache, h)
  /\ UNCHANGED pos

(* _arp_handler(): only an awaited reply is used; a request that we answer  *)
(* is used unless its sender has a dynamic entry, which is only refreshed.  *)
Reply(h) ==
  /\ Idle /\ IsPending(cache, h)
  /\ cache' = Add(RemovePending(cache, SlotOf(cache, Pending(cache), h)), h, h, TRUE)
  /\ UNCHANGED pos

Request(h) ==
  /\ Idle /\ ~In(cache, Dynamic(cache), h)
  /\ cache' = Add(cache, h, h, TRUE)
  /\ UNCHANGED pos

AddEntry(h) ==             \* _arp_cache_add() by DHCP, the configuration, ioctl
  /\ Idle
  /\ \E expires \in BOOLEAN : cache' = Add(cache, h, h, expires)
  /\ UNCHANGED pos

DelEntry(h) ==             \* _arp_cache_del() by ioctl
  /\ Idle /\ Listed(cache, h)
  /\ cache' = Del(cache, h)
  /\ UNCHANGED pos
-----------------------------------------------------------------------------
(* arp_daemon() and arp_check_timeouts(). *)
DaemonStart ==
  /\ Idle
  /\ \E dyn \in BOOLEAN :
       pos' = [loop |-> "pending", i |-> cache.first_pending, dyn |-> dyn]
  /\ UNCHANGED cache

At(loop) == pos.loop = loop
Advance  == pos' = [pos EXCEPT !.i = @ + 1]

Expire(h) ==               \* the entry at i was not answered in time
  /\ At("pending") /\ pos.i < Size
  /\ cache.list[pos.i].ip = h
  /\ cache' = RemovePending(cache, pos.i)
  /\ IF pos.i > cache.first_pending THEN UNCHANGED pos ELSE Advance

Wait ==                    \* it still may be, or is asked for again
  /\ At("pending") /\ pos.i < Size
  /\ Advance
  /\ UNCHANGED cache

PendingDone ==
  /\ At("pending") /\ pos.i = Size
  /\ pos' = IF pos.dyn THEN [pos EXCEPT !.loop = "dynamic", !.i = cache.first_dynamic]
                       ELSE [pos EXCEPT !.loop = "arp_done", !.i = 0]
  /\ UNCHANGED cache

Age ==                     \* a dynamic entry has expired, or not
  /\ At("dynamic") /\ pos.i < cache.first_free
  /\ \/ Advance /\ UNCHANGED cache
     \/ /\ cache' = RemoveDynamic(cache, pos.i)
        /\ IF pos.i < cache.first_free - 1 THEN UNCHANGED pos ELSE Advance

AgeDone ==
  /\ At("dynamic") /\ pos.i >= cache.first_free
  /\ pos' = [pos EXCEPT !.loop = "arp_done", !.i = 0]
  /\ UNCHANGED cache

CheckTimeouts ==
  DaemonStart \/ (\E h \in Hosts : Expire(h)) \/ Wait \/ PendingDone \/ Age \/ AgeDone

CacheCalls ==
  \E h \in Hosts : Lookup(h) \/ Reply(h) \/ Request(h) \/ AddEntry(h) \/ DelEntry(h)
-----------------------------------------------------------------------------
(* Types, and the sections of the diagram in pcarp.c: one above the other,  *)
(* each slot of them in use.                                               *)
Entry == [ip : Hosts \cup {None}, mac : Hosts \cup {None}]

CacheTypeOK ==
  /\ cache.list \in [Slots -> Entry]
  /\ cache.first_dynamic \in 0 .. Size
  /\ cache.first_free \in cache.first_dynamic .. Size
  /\ cache.first_pending \in cache.first_free .. Size
  /\ pos.loop \in {"idle", "pending", "dynamic", "arp_done", "routes", "expiry"}
  /\ pos.i \in Nat /\ pos.dyn \in BOOLEAN

(* No host has two entries, in whatever sections, after any sequence of     *)
(* requests, replies, additions, deletions and expiries: all loops of       *)
(* pcarp.c stop at the first one.                                          *)
OneEntryPerHost ==
  \A i, j \in Slots \ Free(cache) :
    cache.list[i].ip = cache.list[j].ip => i = j

(* A lookup gives the hardware address that this very host was heard with:  *)
(* the entries moved into holes and rolled up take theirs with them.        *)
AddressOfHost ==
  \A i \in 0 .. cache.first_free - 1 :
    cache.list[i].ip \in Hosts /\ cache.list[i].mac = cache.list[i].ip

KindOf(c, h) == CASE In(c, Fixed(c), h)   -> "fixed"
                  [] In(c, Dynamic(c), h) -> "dynamic"
                  [] IsPending(c, h)      -> "pending"
                  [] OTHER                -> "none"

TableOf(c) == [h \in Hosts |-> KindOf(c, h)]

Table == INSTANCE ArpTable WITH Capacity <- Size, table <- TableOf(cache)

(* The array implements the table of ArpTable: an operation changes the     *)
(* entry of its own host, and of at most one that it displaces.             *)
CacheIsTable == Table!TableSpec

(* _arp_lookup_pending(): a lookup is under way until it is resolved or it  *)
(* timed out.  _arp_resolve() waits for that.                              *)
LookupEnds == \A h \in Hosts : IsPending(cache, h) ~> ~IsPending(cache, h)
=============================================================================

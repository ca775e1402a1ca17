------------------------------ MODULE ArpRoute ------------------------------
(***************************************************************************)
(* The route cache of pcarp.c over the ARP cache of ArpCache.  A route to a *)
(* host outside of our LAN is pending while the hardware address of a       *)
(* gateway is looked up, gateway after gateway, then dynamic as long as the *)
(* gateway is in the ARP cache.  ICMP redirects change routes.              *)
(*                                                                         *)
(* All gateways are on our LAN.  The slots outside the two sections are not *)
(* kept, as in ArpCache.                                                   *)
(***************************************************************************)
EXTENDS ArpCache, Sequences

CONSTANTS
  Remote,                  \* addresses outside of our LAN
  Gates,                   \* gate_list: a sequence of [ip, nets]
  RouteSize                \* ROUTE_TOP_OF_CACHE

ASSUME ArpRouteAssumption ==
  /\ Remote \cap (Hosts \cup {None}) = {}
  /\ Gates \in Seq([ip : Hosts, nets : SUBSET (Hosts \cup Remote)])
  /\ RouteSize \in Nat \ {0}

VARIABLE routes            \* route_list and its index pointers

vars == <<cache, pos, routes>>

RouteSlots == 0 .. RouteSize - 1
NoRoute    == [host |-> None, gate |-> None]

DynamicRoutes(r) == 0 .. r.first_free - 1
PendingRoutes(r) == r.first_pending .. RouteSize - 1

RouteIn(section, x) == \E i \in section : routes.list[i].host = x

HasPendingRoute(x) == RouteIn(PendingRoutes(routes), x)   \* mutant: one section
HasRoute(x) == RouteIn(DynamicRoutes(routes) \cup PendingRoutes(routes), x)

Init ==
  /\ CacheInit
  /\ routes = [list |-> [i \in RouteSlots |-> NoRoute], first_free |-> 0,
               first_pending |-> RouteSize]
-----------------------------------------------------------------------------
CleanRoutes(r) ==
  [r EXCEPT !.list = [i \in RouteSlots |->
     IF i \in r.first_free .. r.first_pending - 1 THEN NoRoute ELSE @[i]]]

RemovePendingRoute(r, i) ==
  CleanRoutes([r EXCEPT !.list[i] = r.list[r.first_pending], !.first_pending = @ + 1])

RemoveDynamicRoute(r, i) ==
  CleanRoutes([r EXCEPT !.list[i] = r.list[r.first_free - 1], !.first_free = @ - 1])

(* route_make_new_slot(): the first dynamic route makes room; if all are    *)
(* pending nothing is added.                                               *)
MakeNewSlot(r, host, gate) ==
  LET d == IF r.first_free < r.first_pending THEN r
           ELSE [r EXCEPT !.list[0] = r.list[r.first_free - 1], !.first_free = @ - 1]
  IN  IF r.first_free >= r.first_pending /\ r.first_free = 0 THEN r
      ELSE [d EXCEPT !.list[r.first_pending - 1] = [host |-> host, gate |-> gate],
                     !.first_pending = @ - 1]

(* The gateways in gate_list above number j whose subnet has the host. *)
Fitting(j, host) == {k \in j + 1 .. Len(Gates) : host \in Gates[k].nets}

AnyFitting(j, host) == Fitting(0, host)        \* mutant: starts over each time
NextGates(j, host)  == Fitting(j, host)

Least(S) == CHOOSE k \in S : \A l \in S : k <= l

(* route_start_lookup().  What route_make_new_slot() returns is ignored. *)
StartRoute(x) ==
  /\ Idle /\ ~HasRoute(x)
  /\ Fitting(0, x) # {}
  /\ LET gate == Gates[Least(Fitting(0, x))].ip IN
     /\ Starts(cache, gate)
     /\ cache' = StartLookup(cache, gate)
     /\ routes' = MakeNewSlot(routes, x, gate)
  /\ UNCHANGED pos

(* _arp_register() after an ICMP redirect.  The new pending entry has the   *)
(* gateway where its host should be, and the host where its gateway should. *)
Redirect(g, x) ==
  /\ Idle /\ RouteIn(DynamicRoutes(routes), x)
  /\ LET i == CHOOSE k \in DynamicRoutes(routes) :
                /\ routes.list[k].host = x
                /\ \A l \in DynamicRoutes(routes) : routes.list[l].host = x => k <= l
     IN  /\ routes.list[i].gate # g
         /\ Resolved(cache, g) \/ Starts(cache, g)
         /\ cache' = IF Resolved(cache, g) THEN cache ELSE StartLookup(cache, g)
         /\ routes' = IF Resolved(cache, g) THEN [routes EXCEPT !.list[i].gate = g]
                      ELSE MakeNewSlot(RemoveDynamicRoute(routes, i), g, x)
  /\ UNCHANGED pos
-----------------------------------------------------------------------------
(* route_check_timeouts(), the second half of arp_daemon(). *)
RoutesStart ==
  /\ At("arp_done")
  /\ pos' = [pos EXCEPT !.loop = "routes", !.i = routes.first_pending]
  /\ UNCHANGED <<cache, routes>>

KeepSlot(i) == IF i > routes.first_pending THEN UNCHANGED pos ELSE Advance

GateResolved ==            \* a pending route becomes dynamic
  /\ At("routes") /\ pos.i < RouteSize
  /\ LET re == routes.list[pos.i]
         r  == RemovePendingRoute(routes, pos.i)
     IN  /\ Resolved(cache, re.gate)
         /\ routes' = [r EXCEPT !.list[r.first_free] = re, !.first_free = @ + 1]
  /\ KeepSlot(pos.i)
  /\ UNCHANGED cache

GateAwaited ==
  /\ At("routes") /\ pos.i < RouteSize
  /\ ~Resolved(cache, routes.list[pos.i].gate) /\ IsPending(cache, routes.list[pos.i].gate)
  /\ Advance
  /\ UNCHANGED <<cache, routes>>

GateFailed ==              \* try the next gateway, or give up
  /\ At("routes") /\ pos.i < RouteSize
  /\ LET re   == routes.list[pos.i]
         last == {k \in 1 .. Len(Gates) : Gates[k].ip = re.gate}
         next == NextGates(IF last = {} THEN 0 ELSE Least(last), re.host)
         gate == Gates[Least(next)].ip
     IN  /\ ~Listed(cache, re.gate)
         /\ IF next # {} /\ Starts(cache, gate)
            THEN /\ cache' = StartLookup(cache, gate)
                 /\ routes' = [routes EXCEPT !.list[pos.i].gate = gate]
                 /\ Advance
            ELSE /\ routes' = RemovePendingRoute(routes, pos.i)
                 /\ KeepSlot(pos.i)
                 /\ UNCHANGED cache

RoutesDone ==
  /\ At("routes") /\ pos.i = RouteSize
  /\ pos' = [pos EXCEPT !.loop = IF pos.dyn THEN "expiry" ELSE "idle", !.i = 0]
  /\ UNCHANGED <<cache, routes>>

ExpireRouteOnce ==         \* mutant: the route that fills the hole is skipped
  /\ At("expiry") /\ pos.i < routes.first_free
  /\ routes' = IF Resolved(cache, routes.list[pos.i].gate) THEN routes
               ELSE RemoveDynamicRoute(routes, pos.i)
  /\ Advance
  /\ UNCHANGED cache

ExpireRoute ==             \* a route lives as long as its gateway's entry
  /\ At("expiry") /\ pos.i < routes.first_free
  /\ IF Resolved(cache, routes.list[pos.i].gate)
     THEN Advance /\ UNCHANGED routes
     ELSE /\ routes' = RemoveDynamicRoute(routes, pos.i)
          /\ IF pos.i < routes.first_free - 1 THEN UNCHANGED pos ELSE Advance
  /\ UNCHANGED cache

ExpiryDone ==
  /\ At("expiry") /\ pos.i >= routes.first_free
  /\ pos' = [pos EXCEPT !.loop = "idle", !.i = 0]
  /\ UNCHANGED <<cache, routes>>

CheckRoutes == RoutesStart \/ GateResolved \/ GateAwaited \/ GateFailed \/ RoutesDone
               \/ ExpireRoute \/ ExpiryDone

Daemon == (CheckTimeouts /\ UNCHANGED routes) \/ CheckRoutes

Next ==
  \/ CacheCalls /\ UNCHANGED routes
  \/ \E x \in Remote : StartRoute(x) \/ \E g \in Hosts : Redirect(g, x)
  \/ Daemon

(* tcp_tick() keeps running the daemon, and a request that is not answered  *)
(* expires.                                                                *)
Fairness ==
  /\ WF_vars(Daemon)
  /\ \A h \in Hosts : SF_vars(Expire(h) /\ UNCHANGED routes)

Spec     == Init /\ [][Next]_vars
FairSpec == Spec /\ Fairness
-----------------------------------------------------------------------------
(* Types. *)
TypeOK ==
  /\ CacheTypeOK
  /\ routes.first_free \in 0 .. RouteSize
  /\ routes.first_pending \in routes.first_free .. RouteSize
  /\ routes.list \in [RouteSlots -> [host : Hosts \cup Remote \cup {None},
                                     gate : Hosts \cup Remote \cup {None}]]

(* A host outside of our LAN has at most one route, pending or dynamic:     *)
(* route_make_new_slot() relies on it ("otherwise we would add it twice").  *)
OneRoutePerHost ==
  \A i, j \in DynamicRoutes(routes) \cup PendingRoutes(routes) :
    routes.list[i].host \in Remote /\ routes.list[i].host = routes.list[j].host => i = j

(* "The entries time-out when the gateways ARP cache entry times out": when *)
(* the daemon has checked the dynamic routes, each one left has a gateway   *)
(* with a known hardware address.                                          *)
RoutesExpireWithGateway ==
  [][At("expiry") /\ pos'.loop = "idle" =>
       \A i \in DynamicRoutes(routes) : Resolved(cache, routes.list[i].gate)]_vars

(* Neither lookup of _arp_resolve() lasts for ever.  A pending route gets a *)
(* gateway or is given up, after trying gateway upon gateway, although      *)
(* others ask for the same gateways all the time.                          *)
LookupsEnd ==
  /\ LookupEnds
  /\ \A x \in Remote : RouteIn(PendingRoutes(routes), x) ~> ~RouteIn(PendingRoutes(routes), x)

(* The notes in pcarp.c: "The route cache only holds entries of hosts that  *)
(* are OUTSIDE of our LAN".                                                *)
RouteHostsOffLan ==
  \A i \in DynamicRoutes(routes) \cup PendingRoutes(routes) : routes.list[i].host \in Remote
=============================================================================

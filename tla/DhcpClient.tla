---------------------------- MODULE DhcpClient -----------------------------
(***************************************************************************)
(* The DHCP client of pcdhcp.c: its state machine, the boot that runs it in *)
(* a loop, the daemon that runs it afterwards, and the transient            *)
(* configuration file that lets the next program start without a boot.     *)
(*                                                                         *)
(* Messages are lost, delayed and duplicated: what was sent once may be     *)
(* answered, and an answer received, at any later time, any number of times *)
(* or never.  The host may stop at any time; the file survives.             *)
(*                                                                         *)
(* There is no clock.  A timer that is armed may have expired whenever the  *)
(* code looks at it, T2 before T1 as well: the server chooses both values.  *)
(***************************************************************************)
EXTENDS Naturals, FiniteSets

CONSTANTS
  Servers,
  Addrs,
  Nil,                     \* address or server 0, and no file
  MaxRetries,              \* max_retries
  MaxXid,                  \* bound: exchange ids in a behaviour
  MaxReplies               \* bound: messages that servers send

ASSUME DhcpAssumption ==
  /\ Nil \notin Servers \cup Addrs
  /\ MaxRetries \in Nat \ {0} /\ MaxXid \in Nat /\ MaxReplies \in Nat

VARIABLES
  prog,                    \* "off", DHCP_do_boot(), daemon, or no daemon
  cl,                      \* the static variables of pcdhcp.c
  file,                    \* W32DHCP.TMP
  replies                  \* all that servers sent

vars == <<prog, cl, file, replies>>

States == {"NULL", "INIT", "SELECTING", "REQUESTING", "BOUND",
           "RENEWING", "REBINDING"}
Leased == {"BOUND", "RENEWING", "REBINDING"}

Message == [type : {"discover", "request", "offer", "ack", "nak"}, xid : Nat,
            ip : Addrs \cup {Nil}, srv : Servers \cup {Nil}]

Msg(type, xid, ip, srv) == [type |-> type, xid |-> xid, ip |-> ip, srv |-> srv]

(* ip: my_ip_addr; server: dhcp_server; xid: dhcp_out.dh_xid; send: whether *)
(* send_timeout is 0, running or (DWORD)-1; t1, t2: renewal_timeout and      *)
(* rebind_timeout are set; loops: discover_loops.  xids and sent are        *)
(* history: the exchange ids used so far and all that this host sent.       *)
Client == [state : States, ip : Addrs \cup {Nil}, server : Servers \cup {Nil},
           xid : Nat, got_offer : BOOLEAN, configured : BOOLEAN,
           send : {"off", "running", "now"}, t1 : BOOLEAN, t2 : BOOLEAN,
           loops : Nat, xids : Nat, sent : SUBSET Message]

(* A program's static variables before it runs. *)
Blank(c) == [state |-> "NULL", ip |-> Nil, server |-> Nil, xid |-> 0,
             got_offer |-> FALSE, configured |-> FALSE, send |-> "off",
             t1 |-> FALSE, t2 |-> FALSE, loops |-> 0,
             xids |-> c.xids, sent |-> c.sent]

Init ==
  /\ prog = "off"
  /\ cl = Blank([xids |-> 0, sent |-> {}])
  /\ file = Nil
  /\ replies = {}
-----------------------------------------------------------------------------
(* DHCP_release_decline() and DHCP_discover() take a new exchange id; of a  *)
(* release or decline, which nobody answers, it is all that matters here.   *)
NewExchange(c) == [c EXCEPT !.xid = c.xids + 1, !.xids = c.xids + 1]

(* DHCP_request(renew): the exchange id of the message before. *)
Request(c, srv) ==
  [c EXCEPT !.sent = @ \cup {Msg("request", c.xid, c.ip, srv)}]

(* The state functions, by event. *)
OfferKeepsServer(c, m) ==                    \* mutant: the first server stays
  [c EXCEPT !.got_offer = TRUE, !.ip = m.ip,
            !.server = IF c.server = Nil THEN m.srv ELSE c.server,
            !.send = "running", !.state = "REQUESTING"]
TakeOffer(c, m) ==
  [c EXCEPT !.got_offer = TRUE, !.ip = m.ip, !.server = m.srv,
            !.send = "running", !.state = "REQUESTING"]

OnOffer(c, m) ==
  IF c.state = "SELECTING" /\ ~c.got_offer THEN TakeOffer(c, m) ELSE c

(* dhcp_set_timers(), DHCP_offer() for the options *)
Bound(c, m) ==
  [c EXCEPT !.t1 = TRUE, !.t2 = TRUE, !.server = m.srv, !.state = "BOUND"]

(* "Decline from 0.0.0.0" *)
Decline(c) ==
  [NewExchange(c) EXCEPT !.ip = Nil, !.send = "running", !.state = "INIT"]

OnAck(c, m, free) ==
  CASE c.state = "REQUESTING" /\ free ->
         [Bound(c, m) EXCEPT !.configured = TRUE, !.send = "off"]
    [] c.state = "REQUESTING" /\ ~free -> Decline(c)
    [] c.state \in {"RENEWING", "REBINDING"} -> Bound(c, m)
    [] OTHER -> c

OnNak(c) ==
  IF c.state \in {"REQUESTING", "RENEWING", "REBINDING"}
  THEN [c EXCEPT !.ip = Nil, !.send = "running", !.state = "INIT"]
  ELSE c

Discover(c) ==
  [NewExchange(c)
   EXCEPT !.sent = @ \cup {Msg("discover", c.xids + 1, Nil, Nil)},
          !.loops = @ + 1, !.send = "running", !.state = "SELECTING"]

RequestOnce(c) == Request(c, c.server)       \* mutant: before 05MAR2006
RequestAgain(c) == [Request(c, c.server) EXCEPT !.send = "running"]

OnSendTimeout(c) ==
  CASE c.state \in {"INIT", "SELECTING"} -> Discover(c)
    [] c.state = "REQUESTING"            -> RequestAgain(c)
    [] c.state = "RENEWING"              -> Request(c, Nil)
    [] OTHER                             -> c

OnT1(c) ==
  IF c.state = "BOUND"
  THEN [Request(c, Nil) EXCEPT !.got_offer = FALSE, !.state = "RENEWING"]
  ELSE c

OnT2(c) ==
  IF c.state = "RENEWING"
  THEN [Request(c, Nil) EXCEPT !.state = "REBINDING"]
  ELSE c
-----------------------------------------------------------------------------
(* dhcp_fsm(): one message if there is one, then each timer in turn.  free  *)
(* is what DHCP_arp_check() finds.                                         *)
AnyReply(c) == replies                       \* mutant: dh_xid is not tested
Accepted(c) == {m \in replies : m.xid = c.xid}

Handle(c, m, free) ==
  CASE m.type = "ack" -> OnAck(c, m, free)
    [] m.type = "nak" -> OnNak(c)
    [] OTHER          -> OnOffer(c, m)

AfterMessage(c) ==
  {c} \cup {Handle(c, m, free) : m \in Accepted(c), free \in BOOLEAN}

AfterSend(c) ==
  CASE c.send = "off"     -> {c}
    [] c.send = "now"     -> {OnSendTimeout([c EXCEPT !.send = "off"])}
    [] c.send = "running" -> {c, OnSendTimeout([c EXCEPT !.send = "off"])}

AfterT1(c) == {c} \cup IF c.t1 THEN {OnT1([c EXCEPT !.t1 = FALSE])} ELSE {}
AfterT2(c) == {c} \cup IF c.t2 THEN {OnT2([c EXCEPT !.t2 = FALSE])} ELSE {}

Fsm ==
  /\ \E a \in AfterMessage(cl) : \E b \in AfterSend(a) : \E d \in AfterT1(b) :
       cl' \in AfterT2(d)
  /\ cl'.xids <= MaxXid
-----------------------------------------------------------------------------
(* The start of a program: DHCP_read_config(), then DHCP_do_boot() unless   *)
(* eval_timers() finds the saved lease good.  Which of its cases applies is *)
(* a matter of time; a file that cannot be read counts as none.             *)
Loaded(c) ==
  IF file = Nil THEN Blank(c)
  ELSE [Blank(c) EXCEPT !.ip = file.ip, !.server = file.srv]

Saved(state) == [Loaded(cl) EXCEPT !.state = state]

StartBoot(c) ==
  /\ prog = "off" /\ prog' = "boot"
  /\ cl' = [c EXCEPT !.send = "now"]
  /\ file' = Nil
  /\ UNCHANGED replies

StartInit == StartBoot([Saved("INIT") EXCEPT !.ip = Nil])
StartRenewing  == file # Nil /\ StartBoot(OnT1(Saved("BOUND")))
StartRebinding == file # Nil /\ StartBoot(OnT2(Saved("RENEWING")))

(* "no action, goto BOUND"; nobody adds the daemon. *)
StartBound ==
  /\ prog = "off" /\ file # Nil
  /\ prog' = "static"
  /\ cl' = [Saved("BOUND") EXCEPT !.t1 = TRUE, !.t2 = TRUE]
  /\ UNCHANGED <<file, replies>>

(* The loop of DHCP_do_boot(): a turn, and after the first one its end, for *)
(* which the time may always be up.  The file may not be writable, and the  *)
(* daemon list full.                                                       *)
BootTurnAlways ==                             \* mutant: no retry limit
  /\ prog = "boot" /\ cl.state # "BOUND"
  /\ Fsm
  /\ UNCHANGED <<prog, file, replies>>
BootTurn ==
  /\ prog = "boot" /\ cl.state # "BOUND" /\ cl.loops < MaxRetries
  /\ Fsm
  /\ UNCHANGED <<prog, file, replies>>

BootDone ==
  /\ prog = "boot" /\ cl.send # "now" /\ cl.ip # Nil
  /\ prog' = "up"
  /\ cl' = [cl EXCEPT !.got_offer = FALSE]
  /\ file' \in {Nil, [ip |-> cl.ip, srv |-> cl.server]}
  /\ UNCHANGED replies

BootFailed ==
  /\ prog = "boot" /\ cl.send # "now"
  /\ prog' = "off"
  /\ cl' = Blank(cl)
  /\ file' \in {Nil} \cup
               (IF cl.ip = Nil THEN {} ELSE {[ip |-> cl.ip, srv |-> cl.server]})
  /\ UNCHANGED replies

Daemon ==
  /\ prog = "up"
  /\ Fsm
  /\ UNCHANGED <<prog, file, replies>>

(* DHCP_release(FALSE) at the program's end: none if the configuration is   *)
(* saved and the lease long enough.                                        *)
Exit ==
  /\ prog \in {"up", "static"}
  /\ prog' = "off"
  /\ \/ /\ ~cl.configured \/ file # Nil
        /\ cl' = Blank(cl)
     \/ /\ cl.configured /\ cl.xids < MaxXid
        /\ cl' = Blank(NewExchange(cl))
  /\ UNCHANGED <<file, replies>>

Crash ==
  /\ prog # "off"
  /\ prog' = "off"
  /\ cl' = Blank(cl)
  /\ UNCHANGED <<file, replies>>

(* The servers.  A request that names no server is for any of them. *)
Reply(m) ==
  /\ Cardinality(replies) < MaxReplies
  /\ replies' = replies \cup {m}
  /\ UNCHANGED <<prog, cl, file>>

Offer(s, a) ==
  \E m \in cl.sent : m.type = "discover" /\ Reply(Msg("offer", m.xid, a, s))

Answer(s) ==
  \E m \in cl.sent :
    /\ m.type = "request" /\ m.srv \in {s, Nil}
    /\ Reply(Msg("ack", m.xid, m.ip, s)) \/ Reply(Msg("nak", m.xid, Nil, Nil))
-----------------------------------------------------------------------------
Next ==
  \/ StartInit \/ StartRenewing \/ StartRebinding \/ StartBound
  \/ BootTurn \/ BootDone \/ BootFailed \/ Daemon \/ Exit \/ Crash
  \/ \E s \in Servers : Answer(s) \/ \E a \in Addrs : Offer(s, a)

Spec == Init /\ [][Next]_vars
-----------------------------------------------------------------------------
TypeOK ==
  /\ prog \in {"off", "boot", "up", "static"}
  /\ cl \in Client /\ (prog = "boot" => cl.loops <= MaxRetries)
  /\ file \in {Nil} \cup [ip : Addrs, srv : Servers]
  /\ replies \subseteq Message

(* A client has no address while it looks for one, and a configured one has *)
(* the address that a server acknowledged in this very exchange: a late     *)
(* acknowledgement of another address never counts.                        *)
HeldWasGranted ==
  /\ cl.state \in {"NULL", "INIT", "SELECTING"} => cl.ip = Nil
  /\ cl.configured /\ cl.state \in Leased =>
       \E m \in replies : m.type = "ack" /\ m.xid = cl.xid /\ m.ip = cl.ip

(* A request that names a server is for what that server offered in that    *)
(* exchange: the variables my_ip_addr and dhcp_server come from one offer,  *)
(* with however many servers answering.                                    *)
RequestNamesOfferer ==
  \A m \in cl.sent : m.type = "request" /\ m.srv # Nil =>
    Msg("offer", m.xid, m.ip, m.srv) \in replies

(* Before it is bound a client has a send timer that will repeat its        *)
(* message, and while it is bound the timer that will renew the lease       *)
(* (comment at pcdhcp.c:852: it once had none in REQUESTING).               *)
NeverWaitsForEver ==
  prog \in {"boot", "up"} =>
    /\ cl.state \in {"INIT", "SELECTING", "REQUESTING"} => cl.send # "off"
    /\ cl.state = "BOUND" => cl.t1

(* DHCP_state_SELECTING() "Awaits OFFER, set SEND_TIMER and enter           *)
(* REQUESTING state" (pcdhcp.c:954): the client in SELECTING takes an offer. *)
SelectingAwaitsOffer == cl.state = "SELECTING" => ~cl.got_offer
=============================================================================

---------------------------- MODULE DhcpProofs -----------------------------
(***************************************************************************)
(* Proofs about DhcpClient, for any servers and addresses.                 *)
(*                                                                         *)
(* dhcp_fsm() is a composition of up to four event handlers, so the         *)
(* invariant is one of a client record and the replies: each handler keeps  *)
(* it, and the action only puts them together.                             *)
(***************************************************************************)
EXTENDS DhcpClient, TLAPS

Requests(c) == {m \in c.sent : m.type = "request"}

(* Types, and which fields hold a value when. *)
Shape(c) ==
  /\ c \in Client
  /\ c.state \in {"NULL", "INIT", "SELECTING"} => c.ip = Nil
  /\ c.state \in {"REQUESTING"} \cup Leased => c.ip # Nil /\ c.server # Nil

(* Exchange ids are used up in order. *)
Fresh(c, R) ==
  /\ c.xid <= c.xids
  /\ \A m \in c.sent \cup R : m.xid <= c.xids

(* A server sends nothing unasked, and what it sends is filled in. *)
Replies(c, R) ==
  /\ R \subseteq Message
  /\ \A m \in R : m.type \in {"offer", "ack", "nak"}
  /\ \A m \in R : m.type = "offer" => m.ip # Nil /\ m.srv # Nil
  /\ \A m \in R : m.type = "ack" =>
       m.srv # Nil /\ \E q \in Requests(c) : q.xid = m.xid /\ q.ip = m.ip

(* In one exchange the client asks for one address, the one it was offered. *)
Asked(c, R) ==
  /\ \A q \in Requests(c) : q.srv # Nil => Msg("offer", q.xid, q.ip, q.srv) \in R
  /\ c.state = "SELECTING" => \A q \in Requests(c) : q.xid # c.xid
  /\ c.state = "REQUESTING" => Msg("offer", c.xid, c.ip, c.server) \in R
  /\ c.state = "REQUESTING" \/ (c.configured /\ c.state \in Leased) =>
       \A q \in Requests(c) : q.xid = c.xid => q.ip = c.ip

Granted(c, R) ==
  c.configured /\ c.state \in Leased =>
    \E m \in R : m.type = "ack" /\ m.xid = c.xid /\ m.ip = c.ip

Timed(c) ==
  /\ c.state \in {"INIT", "SELECTING", "REQUESTING"} => c.send # "off"
  /\ c.state = "BOUND" => c.t1

(* All but the send timer, which a handler finds cleared. *)
Core(c, R) ==
  /\ Shape(c) /\ Fresh(c, R) /\ Replies(c, R) /\ Asked(c, R) /\ Granted(c, R)

CInv(c, R) == Core(c, R) /\ Timed(c)

IInv ==
  /\ prog \in {"off", "boot", "up", "static"}
  /\ prog = "boot" => cl.loops <= MaxRetries
  /\ file \in {Nil} \cup [ip : Addrs, srv : Servers]
  /\ CInv(cl, replies)
-----------------------------------------------------------------------------
(* What each handler does to the fields of the record. *)
SameLease(c, d) ==
  /\ d.ip = c.ip /\ d.server = c.server /\ d.xid = c.xid /\ d.xids = c.xids
  /\ d.configured = c.configured /\ d.loops = c.loops

SameTimers(c, d) == d.send = c.send /\ d.t1 = c.t1 /\ d.t2 = c.t2

LEMMA NilApart == Nil \notin Servers /\ Nil \notin Addrs
  BY DhcpAssumption

LEMMA RequestFields ==
  ASSUME NEW c \in Client, NEW srv \in Servers \cup {Nil},
         NEW d, d = Request(c, srv)
  PROVE  /\ d \in Client /\ SameLease(c, d) /\ SameTimers(c, d)
         /\ d.state = c.state /\ d.got_offer = c.got_offer
         /\ d.sent = c.sent \cup {Msg("request", c.xid, c.ip, srv)}
  BY DEF Client, Request, Msg, Message, SameLease, SameTimers

LEMMA NewExchangeFields ==
  ASSUME NEW c \in Client, NEW d, d = NewExchange(c)
  PROVE  /\ d \in Client /\ SameTimers(c, d)
         /\ d.ip = c.ip /\ d.server = c.server /\ d.configured = c.configured
         /\ d.loops = c.loops /\ d.xid = c.xids + 1 /\ d.xids = c.xids + 1
         /\ d.state = c.state /\ d.sent = c.sent
  <1>1. PICK x \in Nat : x = c.xids + 1
    BY DEF Client
  <1>2. d = [c EXCEPT !.xid = x, !.xids = x]
    BY <1>1 DEF NewExchange
  <1>3. d \in Client
    BY <1>2 DEF Client
  <1>4. /\ SameTimers(c, d) /\ d.ip = c.ip /\ d.server = c.server
        /\ d.configured = c.configured /\ d.loops = c.loops
        /\ d.xid = x /\ d.xids = x /\ d.state = c.state /\ d.sent = c.sent
    BY <1>2 DEF Client, SameTimers
  <1> QED
    BY <1>1, <1>3, <1>4

LEMMA StateFields ==
  ASSUME NEW c \in Client, NEW st \in States, NEW d, d = [c EXCEPT !.state = st]
  PROVE  /\ d \in Client /\ SameLease(c, d) /\ SameTimers(c, d)
         /\ d.state = st /\ d.sent = c.sent
  BY DEF Client, SameLease, SameTimers, States

LEMMA RenewFields ==
  ASSUME NEW c \in Client, c.state = "BOUND", NEW d, d = OnT1(c)
  PROVE  /\ d \in Client /\ SameLease(c, d) /\ SameTimers(c, d)
         /\ d.state = "RENEWING"
         /\ d.sent = c.sent \cup {Msg("request", c.xid, c.ip, Nil)}
  <1>1. PICK e \in Client : /\ e = Request(c, Nil) /\ SameLease(c, e)
                            /\ SameTimers(c, e)
                            /\ e.sent = c.sent \cup {Msg("request", c.xid, c.ip, Nil)}
    BY RequestFields
  <1>2. d = [e EXCEPT !.got_offer = FALSE, !.state = "RENEWING"]
    BY <1>1 DEF OnT1
  <1>3. d \in Client
    BY <1>2 DEF Client, States
  <1>4. SameLease(e, d) /\ SameTimers(e, d) /\ d.state = "RENEWING" /\ d.sent = e.sent
    BY <1>2 DEF Client, SameLease, SameTimers
  <1> QED
    BY <1>1, <1>3, <1>4 DEF SameLease, SameTimers

LEMMA RebindFields ==
  ASSUME NEW c \in Client, c.state = "RENEWING", NEW d, d = OnT2(c)
  PROVE  /\ d \in Client /\ SameLease(c, d) /\ SameTimers(c, d)
         /\ d.state = "REBINDING"
         /\ d.sent = c.sent \cup {Msg("request", c.xid, c.ip, Nil)}
  <1>1. PICK e \in Client : /\ e = Request(c, Nil) /\ SameLease(c, e)
                            /\ SameTimers(c, e)
                            /\ e.sent = c.sent \cup {Msg("request", c.xid, c.ip, Nil)}
    BY RequestFields
  <1>2. d = [e EXCEPT !.state = "REBINDING"]
    BY <1>1 DEF OnT2
  <1> QED
    BY <1>1, <1>2, StateFields DEF States, SameLease, SameTimers

LEMMA AgainFields ==
  ASSUME NEW c \in Client, NEW d, d = RequestAgain(c)
  PROVE  /\ d \in Client /\ SameLease(c, d)
         /\ d.state = c.state /\ d.send = "running"
         /\ d.sent = c.sent \cup {Msg("request", c.xid, c.ip, c.server)}
  <1>0. c.server \in Servers \cup {Nil}
    BY DEF Client
  <1>1. PICK e \in Client : /\ e = Request(c, c.server) /\ SameLease(c, e)
                            /\ e.state = c.state
                            /\ e.sent = c.sent \cup {Msg("request", c.xid, c.ip, c.server)}
    BY <1>0, RequestFields
  <1>2. d = [e EXCEPT !.send = "running"]
    BY <1>1 DEF RequestAgain
  <1> QED
    BY <1>1, <1>2 DEF Client, SameLease

LEMMA DiscoverFields ==
  ASSUME NEW c \in Client, NEW d, d = Discover(c)
  PROVE  /\ d \in Client /\ d.ip = c.ip /\ d.server = c.server
         /\ d.configured = c.configured /\ d.loops = c.loops + 1
         /\ d.xid = c.xids + 1 /\ d.xids = c.xids + 1
         /\ d.state = "SELECTING" /\ d.send = "running"
         /\ d.sent = c.sent \cup {Msg("discover", c.xids + 1, Nil, Nil)}
  <1>1. PICK e \in Client : /\ e = NewExchange(c)
                            /\ e.ip = c.ip /\ e.server = c.server
                            /\ e.configured = c.configured /\ e.loops = c.loops
                            /\ e.xid = c.xids + 1 /\ e.xids = c.xids + 1
                            /\ e.sent = c.sent
    BY NewExchangeFields
  <1>2. PICK x \in Nat : x = c.xids + 1
    BY DEF Client
  <1>3. PICK m \in Message : m = Msg("discover", c.xids + 1, Nil, Nil)
    <2>1. Msg("discover", x, Nil, Nil) \in Message
      BY DEF Msg, Message
    <2> QED
      BY <1>2, <2>1
  <1>4. PICK z \in SUBSET Message, y \in Nat :
          z = e.sent \cup {m} /\ y = e.loops + 1
    <2>1. e.sent \cup {m} \in SUBSET Message /\ e.loops + 1 \in Nat
      BY DEF Client
    <2> QED
      BY <2>1
  <1>5. d = [e EXCEPT !.sent = z, !.loops = y,
                      !.send = "running", !.state = "SELECTING"]
    BY <1>1, <1>3, <1>4 DEF Discover
  <1>6. d \in Client
    BY <1>5 DEF Client, States
  <1>7. /\ d.ip = e.ip /\ d.server = e.server /\ d.configured = e.configured
        /\ d.loops = e.loops + 1 /\ d.xid = e.xid /\ d.xids = e.xids
        /\ d.state = "SELECTING" /\ d.send = "running"
        /\ d.sent = e.sent \cup {m}
    BY <1>4, <1>5 DEF Client
  <1> QED
    BY <1>1, <1>3, <1>6, <1>7

LEMMA DeclineFields ==
  ASSUME NEW c \in Client, NEW d, d = Decline(c)
  PROVE  /\ d \in Client /\ d.ip = Nil /\ d.loops = c.loops
         /\ d.xid = c.xids + 1 /\ d.xids = c.xids + 1
         /\ d.state = "INIT" /\ d.send = "running" /\ d.sent = c.sent
  <1>1. PICK e \in Client : /\ e = NewExchange(c) /\ e.loops = c.loops
                            /\ e.xid = c.xids + 1 /\ e.xids = c.xids + 1
                            /\ e.sent = c.sent
    BY NewExchangeFields
  <1>2. d = [e EXCEPT !.ip = Nil, !.send = "running", !.state = "INIT"]
    BY <1>1 DEF Decline
  <1> QED
    BY <1>1, <1>2 DEF Client, States

LEMMA OfferFields ==
  ASSUME NEW c \in Client, NEW m \in Message, NEW d, d = TakeOffer(c, m)
  PROVE  /\ d \in Client /\ d.ip = m.ip /\ d.server = m.srv
         /\ d.xid = c.xid /\ d.xids = c.xids /\ d.loops = c.loops
         /\ d.state = "REQUESTING" /\ d.send = "running" /\ d.sent = c.sent
  BY DEF Client, Message, TakeOffer, States

LEMMA BoundFields ==
  ASSUME NEW c \in Client, NEW m \in Message, NEW d, d = Bound(c, m)
  PROVE  /\ d \in Client /\ d.ip = c.ip /\ d.server = m.srv
         /\ d.xid = c.xid /\ d.xids = c.xids /\ d.loops = c.loops
         /\ d.configured = c.configured /\ d.sent = c.sent
         /\ d.state = "BOUND" /\ d.t1
  BY DEF Client, Message, Bound, States

LEMMA ConfiguredFields ==
  ASSUME NEW c \in Client, NEW d,
         d = [c EXCEPT !.configured = TRUE, !.send = "off"]
  PROVE  /\ d \in Client /\ d.ip = c.ip /\ d.server = c.server
         /\ d.xid = c.xid /\ d.xids = c.xids /\ d.loops = c.loops
         /\ d.configured = TRUE /\ d.sent = c.sent
         /\ d.state = c.state /\ d.t1 = c.t1
  BY DEF Client

LEMMA NakFields ==
  ASSUME NEW c \in Client, NEW d,
         d = [c EXCEPT !.ip = Nil, !.send = "running", !.state = "INIT"]
  PROVE  /\ d \in Client /\ d.ip = Nil /\ d.sent = c.sent
         /\ d.xid = c.xid /\ d.xids = c.xids /\ d.loops = c.loops
         /\ d.state = "INIT" /\ d.send = "running"
  BY DEF Client, States

LEMMA ClearFields ==
  ASSUME NEW c \in Client
  PROVE  /\ LET d == [c EXCEPT !.send = "off"]
             IN  /\ d \in Client /\ SameLease(c, d) /\ d.t1 = c.t1
                 /\ d.state = c.state /\ d.sent = c.sent
         /\ LET d == [c EXCEPT !.t1 = FALSE]
             IN  /\ d \in Client /\ SameLease(c, d) /\ d.send = c.send
                 /\ d.state = c.state /\ d.sent = c.sent
         /\ LET d == [c EXCEPT !.t2 = FALSE]
             IN  /\ d \in Client /\ SameLease(c, d) /\ d.send = c.send
                 /\ d.state = c.state /\ d.sent = c.sent /\ d.t1 = c.t1
  BY DEF Client, SameLease
-----------------------------------------------------------------------------
(* Each handler keeps the invariant.  A request repeats the address of its  *)
(* exchange, and a new exchange id is above those of all messages.          *)
LEMMA RenewCore ==
  ASSUME NEW c, NEW R, Core(c, R), c.state = "BOUND"
  PROVE  Core(OnT1(c), R)
  BY RenewFields, NilApart
  DEF Core, Shape, Fresh, Replies, Asked, Granted, Leased, Requests, Msg, SameLease

LEMMA RebindCore ==
  ASSUME NEW c, NEW R, Core(c, R), c.state = "RENEWING"
  PROVE  Core(OnT2(c), R)
  BY RebindFields, NilApart
  DEF Core, Shape, Fresh, Replies, Asked, Granted, Leased, Requests, Msg, SameLease

LEMMA RequestCore ==
  ASSUME NEW c, NEW R, Core(c, R), c.state = "RENEWING"
  PROVE  Core(Request(c, Nil), R)
  BY RequestFields, NilApart
  DEF Core, Shape, Fresh, Replies, Asked, Granted, Leased, Requests, Msg, SameLease

LEMMA AgainCore ==
  ASSUME NEW c, NEW R, Core(c, R), c.state = "REQUESTING"
  PROVE  Core(RequestAgain(c), R)
  BY AgainFields, NilApart
  DEF Core, Shape, Fresh, Replies, Asked, Granted, Leased, Requests, Msg, SameLease

LEMMA DiscoverCore ==
  ASSUME NEW c, NEW R, Core(c, R), c.state \in {"INIT", "SELECTING"}
  PROVE  Core(Discover(c), R)
  <1>1. c.xids \in Nat /\ c.xid \in Nat /\ \A m \in c.sent \cup R : m.xid \in Nat
    BY DEF Core, Shape, Replies, Client, Message
  <1>2. \A m \in c.sent \cup R : m.xid < c.xids + 1
    BY <1>1 DEF Core, Fresh
  <1> QED
    BY <1>1, <1>2, DiscoverFields
    DEF Core, Shape, Fresh, Replies, Asked, Granted, Leased, Requests, Msg

LEMMA DeclineCore ==
  ASSUME NEW c, NEW R, Core(c, R)
  PROVE  Core(Decline(c), R)
  <1>1. c.xids \in Nat /\ c.xid \in Nat /\ \A m \in c.sent \cup R : m.xid \in Nat
    BY DEF Core, Shape, Replies, Client, Message
  <1> QED
    BY <1>1, DeclineFields
    DEF Core, Shape, Fresh, Replies, Asked, Granted, Leased, Requests

LEMMA OfferCore ==
  ASSUME NEW c, NEW R, Core(c, R), c.state = "SELECTING",
         NEW m \in R, m.xid = c.xid, m.type = "offer"
  PROVE  Core(TakeOffer(c, m), R)
  <1>1. m \in Message /\ m = Msg("offer", c.xid, m.ip, m.srv)
    BY DEF Core, Replies, Message, Msg
  <1> QED
    BY <1>1, OfferFields
    DEF Core, Shape, Fresh, Replies, Asked, Granted, Leased, Requests

LEMMA BoundCore ==
  ASSUME NEW c, NEW R, Core(c, R), c.state \in {"RENEWING", "REBINDING"},
         NEW m \in R, m.type = "ack"
  PROVE  Core(Bound(c, m), R)
  <1> DEFINE d == Bound(c, m)
  <1>1. /\ d \in Client /\ d.ip = c.ip /\ d.server = m.srv
        /\ d.xid = c.xid /\ d.xids = c.xids /\ d.configured = c.configured
        /\ d.sent = c.sent /\ d.state = "BOUND"
    BY BoundFields DEF Core, Shape, Replies
  <1> HIDE DEF d
  <1>2. Core(d, R)
    BY <1>1 DEF Core, Shape, Fresh, Replies, Asked, Granted, Leased, Requests
  <1> QED
    BY <1>2 DEF d

(* The acknowledgement is for a request of this exchange, and all those     *)
(* were for the address the client has.                                    *)
LEMMA ConfiguredCore ==
  ASSUME NEW c, NEW R, Core(c, R), c.state = "REQUESTING",
         NEW m \in R, m.xid = c.xid, m.type = "ack"
  PROVE  Core([Bound(c, m) EXCEPT !.configured = TRUE, !.send = "off"], R)
  <1>1. m.ip = c.ip
    BY DEF Core, Replies, Asked
  <1>2. PICK b \in Client : /\ b = Bound(c, m) /\ b.ip = c.ip /\ b.server = m.srv
                            /\ b.xid = c.xid /\ b.xids = c.xids
                            /\ b.sent = c.sent /\ b.state = "BOUND" /\ b.t1
    BY BoundFields DEF Core, Shape, Replies
  <1> DEFINE d == [b EXCEPT !.configured = TRUE, !.send = "off"]
  <1>3. /\ d \in Client /\ d.ip = c.ip /\ d.server = m.srv
        /\ d.xid = c.xid /\ d.xids = c.xids /\ d.configured = TRUE
        /\ d.sent = c.sent /\ d.state = "BOUND"
    BY <1>2, ConfiguredFields
  <1> HIDE DEF d
  <1>4. Core(d, R)
    BY <1>1, <1>3 DEF Core, Shape, Fresh, Replies, Asked, Granted, Leased, Requests
  <1> QED
    BY <1>2, <1>4 DEF d

LEMMA NakCore ==
  ASSUME NEW c, NEW R, Core(c, R)
  PROVE  Core([c EXCEPT !.ip = Nil, !.send = "running", !.state = "INIT"], R)
  <1> DEFINE d == [c EXCEPT !.ip = Nil, !.send = "running", !.state = "INIT"]
  <1>1. /\ d \in Client /\ d.ip = Nil /\ d.sent = c.sent
        /\ d.xid = c.xid /\ d.xids = c.xids /\ d.state = "INIT"
    BY NakFields DEF Core, Shape
  <1> HIDE DEF d
  <1>2. Core(d, R)
    BY <1>1 DEF Core, Shape, Fresh, Replies, Asked, Granted, Leased, Requests
  <1> QED
    BY <1>2 DEF d

LEMMA ClearCore ==
  ASSUME NEW c, NEW R, Core(c, R)
  PROVE  /\ Core([c EXCEPT !.send = "off"], R)
         /\ Core([c EXCEPT !.t1 = FALSE], R)
         /\ Core([c EXCEPT !.t2 = FALSE], R)
  BY ClearFields
  DEF Core, Shape, Fresh, Replies, Asked, Granted, Leased, Requests, SameLease
-----------------------------------------------------------------------------
(* The parts of dhcp_fsm(). *)
LEMMA AckStep ==
  ASSUME NEW c, NEW R, CInv(c, R), NEW m \in R, m.xid = c.xid, m.type = "ack",
         NEW free \in BOOLEAN
  PROVE  CInv(OnAck(c, m, free), R) /\ OnAck(c, m, free).loops = c.loops
  <1>0. c \in Client /\ m \in Message
    BY DEF CInv, Core, Shape, Replies
  <1>1. CASE c.state = "REQUESTING" /\ free
    <2>1. PICK b \in Client : b = Bound(c, m) /\ b.state = "BOUND" /\ b.t1
                              /\ b.loops = c.loops
      BY <1>0, BoundFields
    <2> DEFINE d == [b EXCEPT !.configured = TRUE, !.send = "off"]
    <2>2. d.state = "BOUND" /\ d.t1 /\ d.loops = c.loops
      BY <2>1, ConfiguredFields
    <2>3. Core(d, R)
      BY <1>1, <2>1, ConfiguredCore DEF CInv
    <2>4. OnAck(c, m, free) = d
      BY <1>1, <2>1 DEF OnAck
    <2> HIDE DEF d
    <2> QED
      BY <2>2, <2>3, <2>4 DEF CInv, Timed
  <1>2. CASE c.state = "REQUESTING" /\ ~free
    <2>1. PICK d \in Client : d = Decline(c) /\ d.state = "INIT"
                              /\ d.send = "running" /\ d.loops = c.loops
      BY <1>0, DeclineFields
    <2>2. OnAck(c, m, free) = d
      BY <1>2, <2>1 DEF OnAck
    <2> QED
      BY <2>1, <2>2, DeclineCore DEF CInv, Timed
  <1>3. CASE c.state \in {"RENEWING", "REBINDING"}
    <2>1. PICK d \in Client : d = Bound(c, m) /\ d.state = "BOUND" /\ d.t1
                              /\ d.loops = c.loops
      BY <1>0, BoundFields
    <2>2. OnAck(c, m, free) = d
      BY <1>3, <2>1 DEF OnAck
    <2> QED
      BY <1>3, <2>1, <2>2, BoundCore DEF CInv, Timed
  <1>4. CASE c.state \notin {"REQUESTING", "RENEWING", "REBINDING"}
    <2>1. OnAck(c, m, free) = c
      BY <1>4 DEF OnAck
    <2> QED
      BY <2>1
  <1> QED
    BY <1>1, <1>2, <1>3, <1>4

LEMMA MessageStep ==
  ASSUME NEW c, CInv(c, replies), NEW a \in AfterMessage(c)
  PROVE  CInv(a, replies) /\ a.loops = c.loops
  <1>0. c \in Client
    BY DEF CInv, Core, Shape
  <1>1. CASE a = c
    BY <1>1
  <1>2. ASSUME NEW m \in replies, m.xid = c.xid, NEW free \in BOOLEAN,
               a = Handle(c, m, free)
        PROVE  CInv(a, replies) /\ a.loops = c.loops
    <2>0. m \in Message /\ m.type \in {"offer", "ack", "nak"}
      BY DEF CInv, Core, Replies
    <2>1. CASE m.type = "ack"
      <3>1. a = OnAck(c, m, free)
        BY <1>2, <2>1 DEF Handle
      <3> QED
        BY <1>2, <2>1, <3>1, AckStep
    <2>2. CASE m.type = "nak"
      <3>1. CASE c.state \in {"REQUESTING", "RENEWING", "REBINDING"}
        <4>1. PICK d \in Client :
                /\ d = [c EXCEPT !.ip = Nil, !.send = "running", !.state = "INIT"]
                /\ d.state = "INIT" /\ d.send = "running" /\ d.loops = c.loops
          BY <1>0, NakFields
        <4>2. a = d
          BY <1>2, <2>2, <3>1, <4>1 DEF Handle, OnNak
        <4>3. Core(d, replies)
          BY <4>1, NakCore DEF CInv
        <4> QED
          BY <4>1, <4>2, <4>3 DEF CInv, Timed
      <3>2. CASE c.state \notin {"REQUESTING", "RENEWING", "REBINDING"}
        <4>1. a = c
          BY <1>2, <2>2, <3>2 DEF Handle, OnNak
        <4> QED
          BY <4>1
      <3> QED
        BY <3>1, <3>2
    <2>3. CASE m.type = "offer"
      <3>1. a = OnOffer(c, m)
        BY <1>2, <2>3 DEF Handle
      <3>2. CASE c.state = "SELECTING" /\ ~c.got_offer
        <4>1. PICK d \in Client : d = TakeOffer(c, m) /\ d.state = "REQUESTING"
                                  /\ d.send = "running" /\ d.loops = c.loops
          BY <1>0, <2>0, OfferFields
        <4>2. a = d
          BY <3>1, <3>2, <4>1 DEF OnOffer
        <4>3. Core(d, replies)
          BY <1>2, <2>3, <3>2, <4>1, OfferCore DEF CInv
        <4> QED
          BY <4>1, <4>2, <4>3 DEF CInv, Timed
      <3>3. CASE ~(c.state = "SELECTING" /\ ~c.got_offer)
        <4>1. a = c
          BY <3>1, <3>3 DEF OnOffer
        <4> QED
          BY <4>1
      <3> QED
        BY <3>2, <3>3
    <2> QED
      BY <2>0, <2>1, <2>2, <2>3
  <1> QED
    BY <1>1, <1>2 DEF AfterMessage, Accepted

LEMMA SendStep ==
  ASSUME NEW c, CInv(c, replies), NEW b \in AfterSend(c)
  PROVE  CInv(b, replies) /\ b.loops \in {c.loops, c.loops + 1}
  <1>1. CASE b = c
    BY <1>1
  <1>2. ASSUME b = OnSendTimeout([c EXCEPT !.send = "off"])
        PROVE  CInv(b, replies) /\ b.loops \in {c.loops, c.loops + 1}
    <2>1. PICK e \in Client : /\ e = [c EXCEPT !.send = "off"]
                              /\ e.state = c.state /\ e.t1 = c.t1 /\ e.loops = c.loops
      BY ClearFields DEF CInv, Core, Shape, SameLease
    <2>2. Core(e, replies) /\ (e.state = "BOUND" => e.t1)
      BY <2>1, ClearCore DEF CInv, Timed
    <2>3. b = OnSendTimeout(e)
      BY <1>2, <2>1
    <2>4. CASE e.state \in {"INIT", "SELECTING"}
      <3>1. b = Discover(e)
        BY <2>3, <2>4 DEF OnSendTimeout
      <3>2. b.state = "SELECTING" /\ b.send = "running" /\ b.loops = e.loops + 1
        BY <3>1, DiscoverFields
      <3> QED
        BY <2>1, <2>2, <2>4, <3>1, <3>2, DiscoverCore DEF CInv, Timed
    <2>5. CASE e.state = "REQUESTING"
      <3>1. b = RequestAgain(e)
        BY <2>3, <2>5 DEF OnSendTimeout
      <3>2. b.state = e.state /\ b.send = "running" /\ b.loops = e.loops
        BY <3>1, AgainFields DEF SameLease
      <3> QED
        BY <2>1, <2>2, <2>5, <3>1, <3>2, AgainCore DEF CInv, Timed
    <2>6. CASE e.state = "RENEWING"
      <3>1. b = Request(e, Nil)
        BY <2>3, <2>6 DEF OnSendTimeout
      <3>2. b.state = e.state /\ b.loops = e.loops
        BY <3>1, RequestFields DEF SameLease
      <3> QED
        BY <2>1, <2>2, <2>6, <3>1, <3>2, RequestCore DEF CInv, Timed
    <2>7. CASE e.state \notin {"INIT", "SELECTING", "REQUESTING", "RENEWING"}
      <3>1. b = e
        BY <2>3, <2>7 DEF OnSendTimeout
      <3> QED
        BY <2>1, <2>2, <2>7, <3>1 DEF CInv, Timed
    <2> QED
      BY <2>4, <2>5, <2>6, <2>7
  <1>3. c.send \in {"off", "running", "now"}
    BY DEF CInv, Core, Shape, Client
  <1> QED
    BY <1>1, <1>2, <1>3 DEF AfterSend

LEMMA T1Step ==
  ASSUME NEW c, CInv(c, replies), NEW d \in AfterT1(c)
  PROVE  CInv(d, replies) /\ d.loops = c.loops
  <1>1. CASE d = c
    BY <1>1
  <1>2. ASSUME d = OnT1([c EXCEPT !.t1 = FALSE])
        PROVE  CInv(d, replies) /\ d.loops = c.loops
    <2>1. PICK e \in Client : /\ e = [c EXCEPT !.t1 = FALSE]
                              /\ e.state = c.state /\ e.send = c.send /\ e.loops = c.loops
      BY ClearFields DEF CInv, Core, Shape, SameLease
    <2>2. Core(e, replies)
      BY <2>1, ClearCore DEF CInv
    <2>3. CASE e.state = "BOUND"
      <3>1. d.state = "RENEWING" /\ d.loops = e.loops
        BY <1>2, <2>1, <2>3, RenewFields DEF SameLease
      <3> QED
        BY <1>2, <2>1, <2>2, <2>3, <3>1, RenewCore DEF CInv, Timed
    <2>4. CASE e.state # "BOUND"
      <3>1. d = e
        BY <1>2, <2>1, <2>4 DEF OnT1
      <3> QED
        BY <2>1, <2>2, <2>4, <3>1 DEF CInv, Timed
    <2> QED
      BY <2>3, <2>4
  <1> QED
    BY <1>1, <1>2 DEF AfterT1

LEMMA T2Step ==
  ASSUME NEW c, CInv(c, replies), NEW d \in AfterT2(c)
  PROVE  CInv(d, replies) /\ d.loops = c.loops
  <1>1. CASE d = c
    BY <1>1
  <1>2. ASSUME d = OnT2([c EXCEPT !.t2 = FALSE])
        PROVE  CInv(d, replies) /\ d.loops = c.loops
    <2>1. PICK e \in Client : /\ e = [c EXCEPT !.t2 = FALSE] /\ e.t1 = c.t1
                              /\ e.state = c.state /\ e.send = c.send /\ e.loops = c.loops
      BY ClearFields DEF CInv, Core, Shape, SameLease
    <2>2. Core(e, replies)
      BY <2>1, ClearCore DEF CInv
    <2>3. CASE e.state = "RENEWING"
      <3>1. d.state = "REBINDING" /\ d.loops = e.loops
        BY <1>2, <2>1, <2>3, RebindFields DEF SameLease
      <3> QED
        BY <1>2, <2>1, <2>2, <2>3, <3>1, RebindCore DEF CInv, Timed
    <2>4. CASE e.state # "RENEWING"
      <3>1. d = e
        BY <1>2, <2>1, <2>4 DEF OnT2
      <3> QED
        BY <2>1, <2>2, <2>4, <3>1 DEF CInv, Timed
    <2> QED
      BY <2>3, <2>4
  <1> QED
    BY <1>1, <1>2 DEF AfterT2

LEMMA FsmStep ==
  ASSUME CInv(cl, replies), Fsm
  PROVE  CInv(cl', replies) /\ cl'.loops \in {cl.loops, cl.loops + 1}
  <1>1. PICK a \in AfterMessage(cl) : \E b \in AfterSend(a) : \E d \in AfterT1(b) :
          cl' \in AfterT2(d)
    BY DEF Fsm
  <1>2. CInv(a, replies) /\ a.loops = cl.loops
    BY <1>1, MessageStep
  <1>3. PICK b \in AfterSend(a) : \E d \in AfterT1(b) : cl' \in AfterT2(d)
    BY <1>1
  <1>4. CInv(b, replies) /\ b.loops \in {cl.loops, cl.loops + 1}
    BY <1>2, <1>3, SendStep
  <1>5. PICK d \in AfterT1(b) : cl' \in AfterT2(d)
    BY <1>3
  <1>6. CInv(d, replies) /\ d.loops = b.loops
    BY <1>4, <1>5, T1Step
  <1>7. CInv(cl', replies) /\ cl'.loops = d.loops
    BY <1>5, <1>6, T2Step
  <1> QED
    BY <1>4, <1>6, <1>7
-----------------------------------------------------------------------------
(* The start of a program, and its end: nothing but the history is left.    *)
LEMMA BlankFields ==
  ASSUME NEW c, c.xids \in Nat, c.sent \in SUBSET Message, NEW d, d = Blank(c)
  PROVE  /\ d \in Client /\ d.state = "NULL" /\ d.ip = Nil /\ d.server = Nil
         /\ d.xid = 0 /\ d.xids = c.xids /\ d.sent = c.sent
         /\ d.configured = FALSE /\ d.loops = 0
  BY DEF Blank, Client, States

LEMMA BlankInv ==
  ASSUME NEW c, c.xids \in Nat, c.sent \in SUBSET Message, NEW R,
         \A m \in c.sent \cup R : m.xid <= c.xids, Replies(c, R),
         \A q \in Requests(c) : q.srv # Nil => Msg("offer", q.xid, q.ip, q.srv) \in R
  PROVE  CInv(Blank(c), R)
  <1> DEFINE d == Blank(c)
  <1>1. /\ d \in Client /\ d.state = "NULL" /\ d.ip = Nil /\ d.xid = 0
        /\ d.xids = c.xids /\ d.sent = c.sent
    BY BlankFields
  <1> HIDE DEF d
  <1>2. CInv(d, R)
    BY <1>1 DEF CInv, Core, Timed, Shape, Fresh, Replies, Asked, Granted, Leased,
                Requests
  <1> QED
    BY <1>2 DEF d

LEMMA CoreBlank ==
  ASSUME NEW c, NEW R, Core(c, R)
  PROVE  CInv(Blank(c), R)
  BY BlankInv DEF Core, Shape, Client, Fresh, Asked

(* DHCP_read_config(): an address and a server if there is a file, in a     *)
(* program that has sent nothing and is in no exchange.                     *)
LEMMA SavedInv ==
  ASSUME CInv(cl, replies), NEW st \in {"BOUND", "RENEWING"},
         file \in [ip : Addrs, srv : Servers], file # Nil
  PROVE  /\ Core(Saved(st), replies) /\ Saved(st).state = st
         /\ Saved(st).loops = 0
  <1>1. PICK b \in Client : /\ b = Blank(cl) /\ b.xid = 0 /\ b.xids = cl.xids
                            /\ b.sent = cl.sent /\ b.configured = FALSE
                            /\ b.loops = 0
    BY BlankFields DEF CInv, Core, Shape, Client
  <1>2. PICK e \in Client : /\ e = [b EXCEPT !.ip = file.ip, !.server = file.srv]
                            /\ e.ip = file.ip /\ e.server = file.srv
                            /\ e.xid = b.xid /\ e.xids = b.xids /\ e.sent = b.sent
                            /\ e.configured = b.configured /\ e.loops = b.loops
    <2> DEFINE e == [b EXCEPT !.ip = file.ip, !.server = file.srv]
    <2>1. /\ e \in Client /\ e.ip = file.ip /\ e.server = file.srv
          /\ e.xid = b.xid /\ e.xids = b.xids /\ e.sent = b.sent
          /\ e.configured = b.configured /\ e.loops = b.loops
      BY DEF Client
    <2> QED
      BY <2>1
  <1>3. e = Loaded(cl)
    BY <1>1, <1>2 DEF Loaded
  <1> DEFINE d == [e EXCEPT !.state = st]
  <1>4. /\ d \in Client /\ SameLease(e, d) /\ d.state = st /\ d.sent = e.sent
    BY StateFields DEF States
  <1>5. d = Saved(st)
    BY <1>3 DEF Saved
  <1> HIDE DEF d
  <1>6. d.ip # Nil /\ d.server # Nil
    BY <1>2, <1>4, NilApart DEF SameLease
  <1>7. Core(d, replies)
    BY <1>1, <1>2, <1>4, <1>6
    DEF CInv, Core, Shape, Fresh, Replies, Asked, Granted, Leased, Requests,
        SameLease, Client
  <1> QED
    BY <1>1, <1>2, <1>4, <1>5, <1>7 DEF SameLease

LEMMA NowInv ==
  ASSUME NEW c, Core(c, replies), c.state # "BOUND"
  PROVE  /\ CInv([c EXCEPT !.send = "now"], replies)
         /\ [c EXCEPT !.send = "now"].loops = c.loops
  <1> DEFINE d == [c EXCEPT !.send = "now"]
  <1>1. /\ d \in Client /\ SameLease(c, d) /\ d.state = c.state
        /\ d.sent = c.sent /\ d.send = "now"
    BY DEF Core, Shape, Client, SameLease
  <1> HIDE DEF d
  <1>2. CInv(d, replies)
    BY <1>1 DEF CInv, Core, Timed, Shape, Fresh, Replies, Asked, Granted, Leased,
                Requests, SameLease
  <1> QED
    BY <1>1, <1>2 DEF d, SameLease

LEMMA StartInitInv ==
  ASSUME CInv(cl, replies), file \in {Nil} \cup [ip : Addrs, srv : Servers]
  PROVE  LET c == [Saved("INIT") EXCEPT !.ip = Nil]
         IN  Core(c, replies) /\ c.state = "INIT" /\ c.loops = 0
  <1>1. PICK b \in Client : /\ b = Blank(cl) /\ b.xid = 0 /\ b.xids = cl.xids
                            /\ b.sent = cl.sent /\ b.configured = FALSE
                            /\ b.loops = 0
    BY BlankFields DEF CInv, Core, Shape, Client
  <1>2. PICK e \in Client : /\ e = Loaded(cl)
                            /\ e.xid = b.xid /\ e.xids = b.xids /\ e.sent = b.sent
                            /\ e.configured = b.configured /\ e.loops = b.loops
    <2>1. CASE file = Nil
      BY <1>1, <2>1 DEF Loaded
    <2>2. CASE file # Nil
      <3> DEFINE e == [b EXCEPT !.ip = file.ip, !.server = file.srv]
      <3>1. /\ e \in Client
            /\ e.xid = b.xid /\ e.xids = b.xids /\ e.sent = b.sent
            /\ e.configured = b.configured /\ e.loops = b.loops
        BY <2>2 DEF Client
      <3>2. e = Loaded(cl)
        BY <1>1, <2>2 DEF Loaded
      <3> QED
        BY <3>1, <3>2
    <2> QED
      BY <2>1, <2>2
  <1> DEFINE f == [e EXCEPT !.state = "INIT"]
  <1>3. f \in Client /\ SameLease(e, f) /\ f.sent = e.sent /\ f.state = "INIT"
    BY StateFields DEF States
  <1>4. f = Saved("INIT")
    BY <1>2 DEF Saved
  <1> HIDE DEF f
  <1> DEFINE d == [f EXCEPT !.ip = Nil]
  <1>5. /\ d \in Client /\ d.ip = Nil /\ d.state = f.state /\ d.xid = f.xid
        /\ d.xids = f.xids /\ d.sent = f.sent /\ d.loops = f.loops
    BY <1>3 DEF Client
  <1>6. d = [Saved("INIT") EXCEPT !.ip = Nil]
    BY <1>4
  <1> HIDE DEF d
  <1>7. Core(d, replies)
    BY <1>1, <1>2, <1>3, <1>5
    DEF CInv, Core, Shape, Fresh, Replies, Asked, Granted, Leased, Requests,
        SameLease, Client
  <1> QED
    BY <1>1, <1>2, <1>3, <1>5, <1>6, <1>7 DEF SameLease

LEMMA BootStep ==
  ASSUME NEW c, Core(c, replies), c.state # "BOUND", c.loops = 0, StartBoot(c),
         MaxRetries \in Nat
  PROVE  IInv'
  <1>1. cl' = [c EXCEPT !.send = "now"] /\ replies' = replies
    BY DEF StartBoot
  <1>2. CInv(cl', replies') /\ cl'.loops = 0
    BY <1>1, NowInv
  <1> QED
    BY <1>2 DEF IInv, StartBoot

LEMMA StartRenewingStep == IInv /\ StartRenewing => IInv'
  <1> SUFFICES ASSUME IInv, StartRenewing PROVE IInv'
    OBVIOUS
  <1>1. PICK c : c = Saved("BOUND") /\ Core(c, replies) /\ c.state = "BOUND"
                 /\ c.loops = 0
    BY SavedInv DEF IInv, StartRenewing
  <1>2. Core(OnT1(c), replies) /\ OnT1(c).state = "RENEWING" /\ OnT1(c).loops = 0
    BY <1>1, RenewCore, RenewFields DEF Core, Shape, SameLease
  <1> QED
    BY <1>1, <1>2, BootStep, DhcpAssumption DEF StartRenewing

LEMMA StartRebindingStep == IInv /\ StartRebinding => IInv'
  <1> SUFFICES ASSUME IInv, StartRebinding PROVE IInv'
    OBVIOUS
  <1>1. PICK c : c = Saved("RENEWING") /\ Core(c, replies) /\ c.state = "RENEWING"
                 /\ c.loops = 0
    BY SavedInv DEF IInv, StartRebinding
  <1>2. Core(OnT2(c), replies) /\ OnT2(c).state = "REBINDING" /\ OnT2(c).loops = 0
    BY <1>1, RebindCore, RebindFields DEF Core, Shape, SameLease
  <1> QED
    BY <1>1, <1>2, BootStep, DhcpAssumption DEF StartRebinding

LEMMA StartBoundStep == IInv /\ StartBound => IInv'
  <1> SUFFICES ASSUME IInv, StartBound PROVE IInv'
    OBVIOUS
  <1>1. PICK c : c = Saved("BOUND") /\ Core(c, replies) /\ c.state = "BOUND"
    BY SavedInv DEF IInv, StartBound
  <1> DEFINE d == [c EXCEPT !.t1 = TRUE, !.t2 = TRUE]
  <1>2. d \in Client /\ SameLease(c, d) /\ d.state = "BOUND" /\ d.sent = c.sent /\ d.t1
    BY <1>1 DEF Core, Shape, Client, SameLease
  <1>3. cl' = d /\ prog' = "static" /\ file' = file /\ replies' = replies
    BY <1>1 DEF StartBound
  <1> HIDE DEF d
  <1>4. CInv(d, replies)
    BY <1>1, <1>2 DEF CInv, Core, Timed, Shape, Fresh, Replies, Asked, Granted,
                      Leased, Requests, SameLease
  <1> QED
    BY <1>3, <1>4 DEF IInv

(* A turn of the loop sends at most one discover. *)
LEMMA TurnStep == IInv /\ (BootTurn \/ Daemon) => IInv'
  <1> SUFFICES ASSUME IInv, BootTurn \/ Daemon PROVE IInv'
    OBVIOUS
  <1>1. CInv(cl', replies) /\ cl'.loops \in {cl.loops, cl.loops + 1}
    BY FsmStep DEF IInv, BootTurn, Daemon
  <1>2. replies' = replies /\ prog' = prog /\ file' = file
    BY DEF BootTurn, Daemon
  <1>3. prog = "boot" => cl.loops < MaxRetries
    BY DEF BootTurn, Daemon
  <1>4. cl.loops \in Nat /\ MaxRetries \in Nat
    BY DhcpAssumption DEF IInv, CInv, Core, Shape, Client
  <1>5. prog = "boot" => cl'.loops <= MaxRetries
    BY <1>1, <1>3, <1>4
  <1>6. CInv(cl', replies')
    BY <1>1, <1>2
  <1> QED
    BY <1>2, <1>5, <1>6 DEF IInv

(* What DHCP_do_boot() saves is filled in. *)
LEMMA SaveOK ==
  ASSUME NEW c, NEW R, Core(c, R), c.ip # Nil
  PROVE  [ip |-> c.ip, srv |-> c.server] \in [ip : Addrs, srv : Servers]
  BY DEF Core, Shape, Client, States, Leased

LEMMA BootEndStep == IInv /\ (BootDone \/ BootFailed) => IInv'
  <1> SUFFICES ASSUME IInv, BootDone \/ BootFailed PROVE IInv'
    OBVIOUS
  <1>1. file' \in {Nil} \cup [ip : Addrs, srv : Servers] /\ replies' = replies
    BY SaveOK DEF IInv, CInv, BootDone, BootFailed
  <1>2. CASE BootDone
    <2> DEFINE d == [cl EXCEPT !.got_offer = FALSE]
    <2>1. /\ d \in Client /\ SameLease(cl, d) /\ SameTimers(cl, d)
          /\ d.state = cl.state /\ d.sent = cl.sent
      BY DEF IInv, CInv, Core, Shape, Client, SameLease, SameTimers
    <2>2. cl' = d /\ prog' = "up"
      BY <1>2 DEF BootDone
    <2> HIDE DEF d
    <2>3. CInv(d, replies)
      BY <2>1 DEF IInv, CInv, Core, Timed, Shape, Fresh, Replies, Asked, Granted,
                  Leased, Requests, SameLease, SameTimers
    <2> QED
      BY <1>1, <2>2, <2>3 DEF IInv
  <1>3. CASE BootFailed
    <2>1. CInv(cl', replies') /\ prog' = "off"
      BY <1>1, <1>3, CoreBlank DEF IInv, CInv, BootFailed
    <2> QED
      BY <1>1, <2>1 DEF IInv
  <1> QED
    BY <1>2, <1>3

LEMMA StopStep == IInv /\ (Exit \/ Crash) => IInv'
  <1> SUFFICES ASSUME IInv, Exit \/ Crash PROVE IInv'
    OBVIOUS
  <1>1. prog' = "off" /\ file' = file /\ replies' = replies
        /\ (cl' = Blank(cl) \/ cl' = Blank(NewExchange(cl)))
    BY DEF Exit, Crash
  <1>2. Core(cl, replies) /\ cl \in Client
    BY DEF IInv, CInv, Core, Shape
  <1>3. CASE cl' = Blank(cl)
    BY <1>1, <1>2, <1>3, CoreBlank DEF IInv
  <1>4. CASE cl' = Blank(NewExchange(cl))
    <2>1. PICK e \in Client : /\ e = NewExchange(cl) /\ e.xids = cl.xids + 1
                              /\ e.sent = cl.sent
      BY <1>2, NewExchangeFields
    <2>2. /\ cl.xids \in Nat /\ e.xids \in Nat /\ e.sent \in SUBSET Message
          /\ \A m \in cl.sent \cup replies : m.xid \in Nat
      BY <1>2 DEF Core, Replies, Client, Message
    <2>3. \A m \in e.sent \cup replies : m.xid <= e.xids
      BY <1>2, <2>1, <2>2 DEF Core, Fresh
    <2>4. CInv(Blank(e), replies)
      BY <1>2, <2>1, <2>2, <2>3, BlankInv DEF Core, Replies, Asked, Requests
    <2> QED
      BY <1>1, <1>4, <2>1, <2>4 DEF IInv
  <1> QED
    BY <1>1, <1>3, <1>4

(* A server answers what this host sent.                                    *)
LEMMA ReplyStep ==
  ASSUME IInv, NEW m \in Message, Reply(m), m.xid <= cl.xids,
         m.type \in {"offer", "ack", "nak"},
         m.type = "offer" => m.ip # Nil /\ m.srv # Nil,
         m.type = "ack" =>
           m.srv # Nil /\ \E q \in Requests(cl) : q.xid = m.xid /\ q.ip = m.ip
  PROVE  IInv'
  <1>1. /\ replies' = replies \cup {m} /\ cl' = cl /\ prog' = prog /\ file' = file
    BY DEF Reply
  <1>2. CInv(cl, replies \cup {m})
    BY DEF IInv, CInv, Core, Shape, Fresh, Replies, Asked, Granted
  <1> QED
    BY <1>1, <1>2 DEF IInv

LEMMA ServerStep ==
  ASSUME IInv, NEW s \in Servers,
         Answer(s) \/ \E a \in Addrs : Offer(s, a)
  PROVE  IInv'
  <1>1. cl.sent \subseteq Message /\ \A q \in cl.sent : q.xid <= cl.xids
    BY DEF IInv, CInv, Core, Shape, Fresh, Client
  <1>2. ASSUME NEW a \in Addrs, NEW q \in cl.sent, q.type = "discover",
               Reply(Msg("offer", q.xid, a, s))
        PROVE  IInv'
    <2>1. Msg("offer", q.xid, a, s) \in Message
      BY <1>1 DEF Msg, Message
    <2> QED
      BY <1>1, <1>2, <2>1, ReplyStep, NilApart DEF Msg
  <1>3. ASSUME NEW q \in cl.sent, q.type = "request",
               Reply(Msg("ack", q.xid, q.ip, s))
        PROVE  IInv'
    <2>1. Msg("ack", q.xid, q.ip, s) \in Message
      BY <1>1 DEF Msg, Message
    <2>2. q \in Requests(cl)
      BY <1>3 DEF Requests
    <2> QED
      BY <1>1, <1>3, <2>1, <2>2, ReplyStep, NilApart DEF Msg
  <1>4. ASSUME NEW q \in cl.sent, q.type = "request",
               Reply(Msg("nak", q.xid, Nil, Nil))
        PROVE  IInv'
    <2>1. Msg("nak", q.xid, Nil, Nil) \in Message
      BY <1>1 DEF Msg, Message
    <2> QED
      BY <1>1, <1>4, <2>1, ReplyStep DEF Msg
  <1> QED
    BY <1>2, <1>3, <1>4 DEF Answer, Offer
-----------------------------------------------------------------------------
LEMMA InitInv == Init => IInv
  <1> SUFFICES ASSUME Init PROVE IInv
    OBVIOUS
  <1> DEFINE c == [xids |-> 0, sent |-> {}]
  <1>1. c.xids = 0 /\ c.sent = {}
    OBVIOUS
  <1>2. cl = Blank(c) /\ replies = {} /\ prog = "off" /\ file = Nil
    BY DEF Init
  <1> HIDE DEF c
  <1>3. CInv(Blank(c), {})
    BY <1>1, BlankInv DEF Replies, Requests
  <1> QED
    BY <1>2, <1>3 DEF IInv

(* The inductive invariant holds whatever is lost, repeated or late, and    *)
(* whenever the host stops.                                                *)
THEOREM Invariance == Spec => []IInv
  <1>1. IInv /\ [Next]_vars => IInv'
    <2> SUFFICES ASSUME IInv, [Next]_vars PROVE IInv'
      OBVIOUS
    <2>1. CASE StartInit
      BY <2>1, StartInitInv, BootStep, DhcpAssumption DEF StartInit, IInv
    <2>2. CASE StartRenewing
      BY <2>2, StartRenewingStep
    <2>3. CASE StartRebinding
      BY <2>3, StartRebindingStep
    <2>4. CASE StartBound
      BY <2>4, StartBoundStep
    <2>5. CASE BootTurn \/ Daemon
      BY <2>5, TurnStep
    <2>6. CASE BootDone \/ BootFailed
      BY <2>6, BootEndStep
    <2>7. CASE Exit \/ Crash
      BY <2>7, StopStep
    <2>8. CASE \E s \in Servers : Answer(s) \/ \E a \in Addrs : Offer(s, a)
      BY <2>8, ServerStep
    <2>9. CASE UNCHANGED vars
      <3>1. cl' = cl /\ replies' = replies /\ prog' = prog /\ file' = file
        BY <2>9 DEF vars
      <3> QED
        BY <3>1 DEF IInv
    <2> QED
      BY <2>1, <2>2, <2>3, <2>4, <2>5, <2>6, <2>7, <2>8, <2>9 DEF Next
  <1> QED
    BY <1>1, InitInv, PTL DEF Spec

(* The variables of pcdhcp.c hold values of their types, and a boot sends   *)
(* no more than max_retries discovers.                                     *)
THEOREM TypeCorrect == Spec => []TypeOK
  <1>1. IInv => TypeOK
    BY DEF IInv, CInv, Core, Shape, Replies, TypeOK
  <1> QED
    BY <1>1, Invariance, PTL

(* An address in use was acknowledged in the exchange the client is in.     *)
THEOREM HeldWasGrantedHolds == Spec => []HeldWasGranted
  <1>1. IInv => HeldWasGranted
    BY DEF IInv, CInv, Core, Shape, Granted, HeldWasGranted
  <1> QED
    BY <1>1, Invariance, PTL

(* A request that names a server asks it for what it offered.               *)
THEOREM RequestNamesOffererHolds == Spec => []RequestNamesOfferer
  <1>1. IInv => RequestNamesOfferer
    BY DEF IInv, CInv, Core, Asked, Requests, RequestNamesOfferer
  <1> QED
    BY <1>1, Invariance, PTL

(* A client that is not bound will send again, and a bound one will renew.  *)
THEOREM NeverWaitsForEverHolds == Spec => []NeverWaitsForEver
  <1>1. IInv => NeverWaitsForEver
    BY DEF IInv, CInv, Timed, NeverWaitsForEver
  <1> QED
    BY <1>1, Invariance, PTL
=============================================================================

------------------------------ MODULE Ip4Frag ------------------------------
(***************************************************************************)
(* The IPv4 fragment reassembly of ip4_frag.c.  A datagram is collected in  *)
(* a bucket; the missing parts of it are a linked list of holes, and the    *)
(* descriptor of a hole lies in the data area, inside the hole.             *)
(*                                                                         *)
(* Datagrams are Pieces * Unit bytes and cut into Pieces equal fragments,   *)
(* which the network loses, repeats and reorders.  A descriptor is smaller  *)
(* than a fragment, so that the number of a fragment serves as its address. *)
(* Offsets are in bytes; of the data only its datagram is kept.             *)
(***************************************************************************)
EXTENDS Integers, FiniteSets

CONSTANTS
  Buckets,                 \* 0 .. MAX_IP_FRAGS - 1
  Keys,                    \* datagrams: source, destination, ident, protocol
  Nil,                     \* NULL; the data of no datagram under way
  Pieces, Unit,
  MaxSize,                 \* MAX_FRAG_SIZE
  KeyPadding               \* frag_key has a byte that nobody sets

ASSUME Ip4FragAssumption ==
  /\ Buckets \subseteq Nat /\ Nil \notin Keys \cup Nat
  /\ Pieces \in Nat \ {0, 1} /\ Unit \in Nat \ {0, 1, 2}
  /\ MaxSize \in Nat /\ MaxSize >= 2 * Pieces * Unit   \* see check_frag_ofs()
  /\ KeyPadding \in BOOLEAN

VARIABLES
  bucket,                  \* frag_buckets, frag_control and the data areas
  walk                     \* ip4_defragment() in its loop over the holes

vars == <<bucket, walk>>

Index == 0 .. Pieces - 1
Addr  == 0 .. Pieces

Fragments == [key : Keys, no : Index]
Start(f)  == f.no * Unit                    \* data_start, data_end
End(f)    == Start(f) + Unit
Last(f)   == f.no = Pieces - 1              \* IS_LAST

Address(byte) == byte \div Unit             \* of a descriptor at that byte

NoWalk == [b |-> Nil, frag |-> Nil, hole |-> Nil, prev |-> Nil, got |-> FALSE]
Idle   == walk.b = Nil

NoHole == [next |-> Nil, start |-> 0, end |-> 0]

(* What a freed bucket holds is nobody's.  seen, front and back are for    *)
(* the properties: which fragments came, and whether each one was the next  *)
(* in order, or the one before.                                            *)
Empty ==
  [used |-> FALSE, active |-> 0, key |-> Nil, first |-> Nil,
   mem |-> [a \in Addr |-> NoHole], data |-> [i \in Index |-> Nil],
   seen |-> {}, front |-> TRUE, back |-> TRUE]

Init == bucket = [b \in Buckets |-> Empty] /\ walk = NoWalk
-----------------------------------------------------------------------------
Put(data, i, x) == IF i \in Index THEN [data EXCEPT ![i] = x] ELSE data

See(c, f) ==
  [c EXCEPT !.seen = @ \cup {f.no},
            !.front = @ /\ c.seen = 0 .. f.no - 1,
            !.back = @ /\ c.seen = f.no + 1 .. Pieces - 1]

(* The descriptors in the list: the first one and, of each, the next. *)
Linked(c) ==
  LET Closed == {S \in SUBSET Addr : /\ c.first \in S \cup {Nil}
                                     /\ \A a \in S : c.mem[a].next \in S \cup {Nil}}
  IN  {a \in Addr : \A S \in Closed : a \in S}

(* match_frag() *)
Vacant == {b \in Buckets : ~bucket[b].used}
InUse(key) == {b \in Buckets : bucket[b].used}        \* mutant: any key
FirstFew(key) ==           \* mutant: the search stops at a vacant bucket
  {b \in Buckets : /\ bucket[b].used /\ bucket[b].key = key
                   /\ \A v \in Vacant : b < v}
Matching(key) == {b \in Buckets : bucket[b].used /\ bucket[b].key = key}

Lowest(S) == CHOOSE b \in S : \A c \in S : b <= c

(* setup_first_frag().  The hole behind the fragment starts at data_length, *)
(* wherever the fragment is, and its descriptor lies there.                *)
SetUp(c, f) ==
  LET before == Start(f) > 0
      behind == ~Last(f)
      tail   == Address(Unit + 1)
      data   == Put(c.data, f.no, f.key)
  IN  See([c EXCEPT
        !.used = TRUE, !.active = @ + 1, !.key = f.key,
        !.first = IF before THEN 0 ELSE tail,
        !.mem = [a \in Addr |->
          CASE a = 0 /\ before    -> [next |-> IF behind THEN tail ELSE Nil,
                                      start |-> 0, end |-> Start(f) - 1]
            [] a = tail /\ behind -> [next |-> Nil, start |-> Unit, end |-> MaxSize]
            [] OTHER              -> NoHole],
        !.data = IF behind THEN Put(data, tail, Nil) ELSE data], f)

(* ip4_free_fragment() *)
FreedActive(c) == [Empty EXCEPT !.active = c.active]   \* mutant: active is kept
Freed(c)       == Empty
-----------------------------------------------------------------------------
(* ip4_defragment() up to its loop: a new chain, or one under way. *)
FirstOfChain(f) ==
  /\ Idle
  /\ Matching(f.key) = {} \/ KeyPadding
  /\ Vacant # {}
  /\ bucket' = [bucket EXCEPT ![Lowest(Vacant)] = SetUp(@, f)]
  /\ UNCHANGED walk

NextOfChain(f) ==
  /\ Idle
  /\ Matching(f.key) # {}
  /\ LET b == Lowest(Matching(f.key)) IN
     /\ bucket' = [bucket EXCEPT ![b] = See(@, f)]
     /\ walk' = [NoWalk EXCEPT !.b = b, !.frag = f, !.hole = bucket[b].first]

(* The operations of the loop on hole h, which follows prev. *)
ShortenBefore(f) == Start(f) - 1

UnlinkLater(c, h, prev) ==                             \* mutant: the first one stays
  IF prev = Nil THEN c ELSE [c EXCEPT !.mem[prev].next = h.next]

Unlink(c, h, prev) ==
  IF prev = Nil THEN [c EXCEPT !.first = h.next] ELSE [c EXCEPT !.mem[prev].next = h.next]

SplitAt(f)     == End(f) - 1                           \* mutant: inside the data
SplitBehind(f) == End(f) + 1

Insert(c, h, prev, f) ==   \* a new hole behind the fragment
  LET at == Address(End(f) + 1)
      d  == [c EXCEPT !.mem[at] = [next  |-> IF prev = Nil THEN c.first ELSE c.mem[prev].next,
                                   start |-> SplitBehind(f), end |-> h.end],
                      !.data = Put(@, at, Nil)]
  IN  IF prev = Nil THEN [d EXCEPT !.first = at] ELSE [d EXCEPT !.mem[prev].next = at]

(* One turn of the loop. *)
Turn ==
  LET c     == bucket[walk.b]
      f     == walk.frag
      h     == c.mem[walk.hole]
      found == Start(f) <= h.end /\ End(f) >= h.start
      MoveOn(d, at) ==
        /\ bucket' = [bucket EXCEPT ![walk.b] = d]
        /\ walk' = [walk EXCEPT !.prev = at, !.hole = d.mem[at].next, !.got = @ \/ found]
      unlinked == Unlink(c, h, walk.prev)
  IN  /\ ~Idle /\ walk.hole # Nil
      /\ \/ ~found /\ MoveOn(c, walk.hole)
         \/ /\ found /\ Start(f) > h.start
            /\ MoveOn([c EXCEPT !.mem[walk.hole].end = ShortenBefore(f)], walk.hole)
         \/ /\ found /\ Start(f) <= h.start /\ End(f) >= h.end
            /\ MoveOn(unlinked, walk.hole)
         \/ /\ found /\ Start(f) <= h.start /\ End(f) < h.end
            /\ MoveOn(Insert(unlinked, h, walk.prev, f), Address(End(f) + 1))

(* Copy the data.  Without a hole left the datagram goes to its protocol,   *)
(* and _ip4_handler() frees the bucket.                                    *)
Finish ==
  /\ ~Idle /\ walk.hole = Nil
  /\ LET c == bucket[walk.b] IN
     bucket' = [bucket EXCEPT ![walk.b] =
       IF c.first = Nil THEN Freed(c)
       ELSE [c EXCEPT !.data = IF walk.got THEN Put(@, walk.frag.no, walk.frag.key) ELSE @,
                      !.mem = [a \in Addr |-> IF a \in Linked(c) THEN @[a] ELSE NoHole]]]
  /\ walk' = NoWalk

(* chk_timeout_frags(): one bucket a call. *)
TimeoutIfFirst(b) ==       \* mutant: only what ICMP is sent for
  /\ Idle
  /\ bucket[b].active > 0 /\ bucket[b].used /\ 0 \in bucket[b].seen
  /\ bucket' = [bucket EXCEPT ![b] = Freed(@)]
  /\ UNCHANGED walk

Timeout(b) ==
  /\ Idle
  /\ bucket[b].active > 0 /\ bucket[b].used
  /\ bucket' = [bucket EXCEPT ![b] = Freed(@)]
  /\ UNCHANGED walk

Next ==
  \/ \E f \in Fragments : FirstOfChain(f) \/ NextOfChain(f)
  \/ Turn \/ Finish
  \/ \E b \in Buckets : Timeout(b)

(* The handler runs on, and tcp_tick() calls the daemon for ever; the timer *)
(* of a chain is set once.                                                 *)
Fairness == WF_vars(Turn \/ Finish) /\ \A b \in Buckets : SF_vars(Timeout(b))

Spec     == Init /\ [][Next]_vars
FairSpec == Spec /\ Fairness
-----------------------------------------------------------------------------
HoleType == [next : Addr \cup {Nil}, start : 0 .. MaxSize, end : -1 .. MaxSize]

(* Types, and the assertions of setup_first_frag(): "fb->used == 0" before, *)
(* "fb->active == 1" after.                                                *)
TypeOK ==
  /\ \A b \in Buckets :
       LET c == bucket[b] IN
       /\ c.active = IF c.used THEN 1 ELSE 0
       /\ c.key \in IF c.used THEN Keys ELSE {Nil}
       /\ c.first \in Addr \cup {Nil} /\ c.mem \in [Addr -> HoleType]
       /\ c.data \in [Index -> Keys \cup {Nil}] /\ c.seen \in SUBSET Index
  /\ walk.b \in Buckets \cup {Nil}
  /\ walk.hole \in Addr \cup {Nil} /\ walk.prev \in Addr \cup {Nil}

(* A datagram is never collected in two buckets: both could stay incomplete *)
(* for ever, and there are only two.                                       *)
OneChainPerKey ==
  \A b, c \in Buckets : bucket[b].used /\ bucket[c].used /\ bucket[b].key = bucket[c].key
                        => b = c

(* No bucket holds data of another datagram, whatever comes in between,     *)
(* times out and begins anew.                                              *)
KeysApart ==
  \A b \in Buckets, i \in Index : bucket[b].data[i] \in {Nil, bucket[b].key}

(* The data of a fragment is never copied over the descriptor of a hole     *)
(* that is still in the list.                                              *)
HolesIntact ==
  ~Idle /\ walk.hole = Nil /\ walk.got =>
    walk.frag.no \notin Linked(bucket[walk.b])

(* Fragments that come last one first, as Linux once sent them and the test *)
(* program does with rev_order: what is missing is the hole in front, the   *)
(* data is in place, and with the first one the datagram is delivered.      *)
BackToFront ==
  \A b \in Buckets :
    LET c == bucket[b] IN
    c.used /\ c.back /\ walk.b # b =>
      /\ c.seen # Index
      /\ Linked(c) = {0}
      /\ c.mem[0] = [next |-> Nil, start |-> 0,
                     end |-> Unit * (Pieces - Cardinality(c.seen)) - 1]
      /\ \A i \in c.seen : c.data[i] = c.key

(* Fragments that come in order: the data is in place and nothing before    *)
(* its end is taken for missing.  One hole is left up to MAX_FRAG_SIZE,     *)
(* after the last fragment too, so that such a datagram ends by timeout.    *)
FrontToBack ==
  \A b \in Buckets :
    LET c == bucket[b] IN
    c.used /\ c.front /\ walk.b # b =>
      /\ Cardinality(Linked(c)) = 1
      /\ \A a \in Linked(c) : /\ c.mem[a].start >= Unit * Cardinality(c.seen)
                              /\ c.mem[a].end = MaxSize
      /\ \A i \in c.seen : c.data[i] = c.key

(* The two orders in which a host sends the fragments of a datagram. *)
OrderedFragments == BackToFront /\ FrontToBack

(* A chain is completed or times out, so that its bucket can be used again, *)
(* if only the handler returns each time.                                  *)
ChainEnds ==
  \A b \in Buckets : []<>Idle => (bucket[b].used ~> ~bucket[b].used)

(* "Until we got to the end or found": the loop over the holes ends. *)
HandlerReturns == ~Idle ~> Idle
=============================================================================

--------------------------- MODULE Ip4FragProofs ---------------------------
(***************************************************************************)
(* Proofs about Ip4Frag for any number of buckets, datagrams and fragments. *)
(*                                                                         *)
(* BaseInv: the handler writes to the bucket that it found before its loop, *)
(* so this bucket is still in use, for the datagram of the fragment.       *)
(*                                                                         *)
(* HolesInv: the holes are listed from the first byte on, each descriptor   *)
(* in its own hole, until a hole behind the fragment at hand is put where   *)
(* the next one lies already and so follows itself (Stuck); then the loop   *)
(* never ends.  Short of that, the hole of the fragment is not among those  *)
(* the loop has passed and left in the list (Passed).                      *)
(*                                                                         *)
(* OrderInv: while fragments come in order, or last one first, there is one *)
(* hole, and one turn of the loop moves its edge.                          *)
(***************************************************************************)
EXTENDS Ip4Frag, FiniteSetTheorems, WellFoundedInduction, TLAPS

BucketType ==
  [used : BOOLEAN, active : {0, 1}, key : Keys \cup {Nil}, first : Addr \cup {Nil},
   mem : [Addr -> HoleType], data : [Index -> Keys \cup {Nil}],
   seen : SUBSET Index, front : BOOLEAN, back : BOOLEAN]

(* A bucket that holds nothing but its own datagram, or nothing at all. *)
OwnData(c) ==
  /\ c \in BucketType
  /\ c.active = IF c.used THEN 1 ELSE 0
  /\ c.key \in IF c.used THEN Keys ELSE {Nil}
  /\ \A i \in Index : c.data[i] \in {Nil, c.key}

WalkInv ==
  /\ walk \in [b : Buckets \cup {Nil}, frag : Fragments \cup {Nil},
               hole : Addr \cup {Nil}, prev : Addr \cup {Nil}, got : BOOLEAN]
  /\ walk.b # Nil =>
       /\ walk.b \in Buckets /\ walk.frag \in Fragments
       /\ bucket[walk.b].used /\ bucket[walk.b].key = walk.frag.key

BaseInv ==
  /\ DOMAIN bucket = Buckets
  /\ \A b \in Buckets : OwnData(bucket[b])
  /\ WalkInv

(* A listed descriptor lies at the first byte of its hole or just before    *)
(* it.  Its hole ends where a fragment starts, or at MAX_FRAG_SIZE, and the *)
(* next hole is further up.                                                 *)
HoleOk(a, h) ==
  /\ h.start \in {a * Unit, a * Unit + 1}
  /\ h.end = MaxSize \/ \E k \in Index : a < k /\ h.end = k * Unit - 1
  /\ h.next = Nil \/ a < h.next

ListOk(mem, first) ==
  /\ \A a \in Addr : /\ mem[a] = NoHole \/ HoleOk(a, mem[a])
                     /\ mem[a].next # Nil => mem[mem[a].next] # NoHole
  /\ first # Nil => mem[first] # NoHole

(* The loop, with fragment no, has passed the holes in P: the list is P and *)
(* what follows from the hole at hand.  prev is the last one of P, or the   *)
(* hole where the fragment belongs, which is off the list.                  *)
Passed(mem, first, no, hole, prev, P) ==
  /\ no \notin P
  /\ hole # Nil => \A a \in P : a < hole
  /\ first \in P \cup {hole}
  /\ \A a \in P : mem[a].next \in P \cup {hole}
  /\ prev = Nil => P = {}
  /\ prev # Nil =>
       /\ mem[prev].next = hole
       /\ prev \notin P => prev = no
       /\ prev \in P => first \in P /\ \A a \in P \ {prev} : mem[a].next \in P

(* The hole at hand follows itself, and lies behind the fragment. *)
Stuck(mem, no, hole, prev) ==
  /\ hole = no + 1 /\ prev = hole
  /\ mem[hole].next = hole /\ mem[hole].start = hole * Unit + 1

LoopOk(c, no, hole, prev) ==
  \/ /\ ListOk(c.mem, c.first)
     /\ \E P \in SUBSET Addr : Passed(c.mem, c.first, no, hole, prev, P)
  \/ Stuck(c.mem, no, hole, prev)

HolesInv ==
  /\ \A b \in Buckets \ {walk.b} : ListOk(bucket[b].mem, bucket[b].first)
  /\ walk.b # Nil => LoopOk(bucket[walk.b], walk.frag.no, walk.hole, walk.prev)

(* Fragments k and up came, the last one first: the hole is before them. *)
HoleBefore(mem, first, k) ==
  first = 0 /\ mem[0] = [next |-> Nil, start |-> 0, end |-> k * Unit - 1]

(* The first k fragments came, in order: the hole is behind them. *)
HoleBehind(mem, first, k) ==
  /\ first = k /\ mem[k].next = Nil /\ mem[k].end = MaxSize
  /\ mem[k].start \in {k * Unit, k * Unit + 1}

BackAt(c, k) ==
  /\ c.seen = k .. Pieces - 1
  /\ \A i \in k .. Pieces - 1 : c.data[i] = c.key
  /\ HoleBefore(c.mem, c.first, k)

FrontAt(c, k) ==
  /\ c.seen = 0 .. k - 1
  /\ \A i \in 0 .. k - 1 : c.data[i] = c.key
  /\ HoleBehind(c.mem, c.first, k)

Ordered(c) ==
  IF c.used THEN /\ c.back => \E k \in 1 .. Pieces - 1 : BackAt(c, k)
                 /\ c.front => \E k \in 1 .. Pieces : FrontAt(c, k)
  ELSE c.seen = {}

(* The loop in such a chain: before its only turn, and after it. *)
BackWalk(c, n, hole, prev, got) ==
  /\ c.seen = n .. Pieces - 1 /\ n < Pieces - 1
  /\ \A i \in n + 1 .. Pieces - 1 : c.data[i] = c.key
  /\ IF hole # Nil THEN hole = 0 /\ prev = Nil /\ HoleBefore(c.mem, c.first, n + 1)
     ELSE got /\ IF n = 0 THEN c.first = Nil ELSE HoleBefore(c.mem, c.first, n)

FrontWalk(c, n, hole, prev, got) ==
  /\ c.seen = 0 .. n /\ n > 0
  /\ \A i \in 0 .. n - 1 : c.data[i] = c.key
  /\ IF hole # Nil THEN hole = n /\ prev = Nil /\ HoleBehind(c.mem, c.first, n)
     ELSE got /\ HoleBehind(c.mem, c.first, n + 1)

OrderInv ==
  /\ \A b \in Buckets \ {walk.b} : Ordered(bucket[b])
  /\ walk.b # Nil =>
       LET c == bucket[walk.b] IN
       /\ c.back => BackWalk(c, walk.frag.no, walk.hole, walk.prev, walk.got)
       /\ c.front => FrontWalk(c, walk.frag.no, walk.hole, walk.prev, walk.got)

IInv == BaseInv /\ HolesInv /\ OrderInv
-----------------------------------------------------------------------------
LEMMA LowestLemma ==
  ASSUME NEW S, S \subseteq Buckets, S # {}
  PROVE  Lowest(S) \in S
<1>1. S \subseteq Nat
  BY Ip4FragAssumption
<1>2. PICK b \in S : \A c \in S : ~ (<<c, b>> \in OpToRel(<, Nat))
  BY <1>1, NatLessThanWellFounded, WFMin
<1>3. \A c \in S : <<c, b>> \in OpToRel(<, Nat) <=> c < b
  BY <1>1, Zenon DEF OpToRel
<1>4. \A c \in S : ~ (c < b)
  BY <1>2, <1>3, Zenon
<1>5. \A c \in S : b <= c
  BY <1>1, <1>4
<1>6. QED
  BY <1>5 DEF Lowest

LEMMA MultipleLemma ==
  ASSUME NEW m \in Nat, NEW n \in Nat
  PROVE  /\ m * Unit \in Nat /\ n * Unit \in Nat
         /\ (m + 1) * Unit = m * Unit + Unit
         /\ m < n => m * Unit + Unit <= n * Unit
<1> USE Ip4FragAssumption
<1>1. m * Unit \in Nat /\ n * Unit \in Nat /\ (m + 1) * Unit = m * Unit + Unit
  OBVIOUS
<1>2. ASSUME m < n PROVE m * Unit + Unit <= n * Unit
  <2>1. (n - m - 1) * Unit >= 0
    BY <1>2
  <2>2. (n - m - 1) * Unit = n * Unit - m * Unit - Unit
    OBVIOUS
  <2>3. QED
    BY <1>1, <2>1, <2>2
<1>3. QED
  BY <1>1, <1>2

(* Fragment n starts and ends inside the datagram, and the byte after the   *)
(* first one of place n lies in place n, for the address of a descriptor.   *)
LEMMA OffsetLemma ==
  ASSUME NEW n \in 0 .. Pieces
  PROVE  /\ n * Unit \in 0 .. Pieces * Unit
         /\ Address(n * Unit + 1) = n
<1> USE Ip4FragAssumption
<1>1. n * Unit \in Nat /\ Pieces * Unit \in Nat
  OBVIOUS
<1>2. n * Unit <= Pieces * Unit
  <2>1. (Pieces - n) * Unit >= 0
    OBVIOUS
  <2>2. (Pieces - n) * Unit = Pieces * Unit - n * Unit
    OBVIOUS
  <2>3. QED
    BY <2>1, <2>2
<1>3. (n * Unit + 1) \div Unit = n
  OBVIOUS
<1>4. QED
  BY <1>1, <1>2, <1>3 DEF Address

LEMMA FragmentLemma ==
  ASSUME NEW f \in Fragments
  PROVE  /\ f.key \in Keys /\ f.no \in Index
         /\ Start(f) \in 0 .. MaxSize /\ End(f) \in 0 .. MaxSize
         /\ Address(End(f) + 1) \in Addr
         /\ Address(Unit + 1) \in Addr /\ Unit \in 0 .. MaxSize
<1> USE Ip4FragAssumption
<1>1. f.key \in Keys /\ f.no \in Index
  BY DEF Fragments
<1>2. f.no \in 0 .. Pieces /\ f.no + 1 \in 0 .. Pieces /\ 1 \in 0 .. Pieces
  BY <1>1 DEF Index
<1>3. End(f) = (f.no + 1) * Unit
  BY <1>2 DEF End, Start
<1>4. Pieces * Unit \in Nat /\ Pieces * Unit <= MaxSize
  OBVIOUS
<1>5. Start(f) \in 0 .. MaxSize /\ End(f) \in 0 .. MaxSize
  BY <1>2, <1>3, <1>4, OffsetLemma DEF Start
<1>6. Address(End(f) + 1) = f.no + 1
  BY <1>2, <1>3, OffsetLemma
<1>7. Unit \in 0 .. MaxSize /\ Address(Unit + 1) = 1
  BY <1>2, <1>4, OffsetLemma
<1>8. QED
  BY <1>1, <1>2, <1>5, <1>6, <1>7 DEF Addr
-----------------------------------------------------------------------------
(* The operations on one bucket. *)
LEMMA EmptyLemma == OwnData(Empty) /\ ~Empty.used
<1> USE Ip4FragAssumption
<1>1. NoHole \in HoleType
  BY DEF NoHole, HoleType
<1>2. QED
  BY <1>1 DEF OwnData, Empty, BucketType

LEMMA PutLemma ==
  ASSUME NEW data \in [Index -> Keys \cup {Nil}], NEW i, NEW x \in Keys \cup {Nil}
  PROVE  /\ Put(data, i, x) \in [Index -> Keys \cup {Nil}]
         /\ \A j \in Index : Put(data, i, x)[j] \in {data[j], x}
BY DEF Put

LEMMA SeeLemma ==
  ASSUME NEW c, OwnData(c), NEW f \in Fragments
  PROVE  OwnData(See(c, f)) /\ See(c, f).used = c.used /\ See(c, f).key = c.key
<1> DEFINE seen == c.seen \cup {f.no}
           front == c.front /\ c.seen = 0 .. f.no - 1
           back == c.back /\ c.seen = f.no + 1 .. Pieces - 1
           d == See(c, f)
<1>1. seen \in SUBSET Index /\ front \in BOOLEAN /\ back \in BOOLEAN
  BY FragmentLemma DEF OwnData, BucketType
<1>2. d = [c EXCEPT !.seen = seen, !.front = front, !.back = back]
  BY Zenon DEF See
<1> HIDE DEF seen, front, back, d
<1>3. /\ d \in BucketType
      /\ d.used = c.used /\ d.active = c.active /\ d.key = c.key /\ d.data = c.data
  BY <1>1, <1>2 DEF OwnData, BucketType
<1>4. QED
  BY <1>3 DEF OwnData, d

LEMMA SeeFields ==
  ASSUME NEW c, OwnData(c), NEW f \in Fragments
  PROVE  LET d == See(c, f) IN
         /\ d.used = c.used /\ d.key = c.key
         /\ d.mem = c.mem /\ d.first = c.first /\ d.data = c.data
         /\ d.seen = c.seen \cup {f.no}
         /\ d.front = (c.front /\ c.seen = 0 .. f.no - 1)
         /\ d.back = (c.back /\ c.seen = f.no + 1 .. Pieces - 1)
<1> DEFINE seen == c.seen \cup {f.no}
           front == c.front /\ c.seen = 0 .. f.no - 1
           back == c.back /\ c.seen = f.no + 1 .. Pieces - 1
<1>1. See(c, f) = [c EXCEPT !.seen = seen, !.front = front, !.back = back]
  BY Zenon DEF See
<1> HIDE DEF seen, front, back
<1>2. LET d == [c EXCEPT !.seen = seen, !.front = front, !.back = back] IN
      /\ d.used = c.used /\ d.key = c.key
      /\ d.mem = c.mem /\ d.first = c.first /\ d.data = c.data
      /\ d.seen = seen /\ d.front = front /\ d.back = back
  BY DEF OwnData, BucketType
<1>3. QED
  BY <1>1, <1>2, Zenon DEF seen, front, back

LEMMA SetUpLemma ==
  ASSUME NEW c, OwnData(c), ~c.used, NEW f \in Fragments
  PROVE  LET d == SetUp(c, f) IN
         /\ OwnData(d) /\ d.used /\ d.key = f.key
         /\ d.first = IF f.no > 0 THEN 0 ELSE 1
         /\ d.mem[0] = IF f.no > 0
                       THEN [next |-> IF f.no # Pieces - 1 THEN 1 ELSE Nil,
                             start |-> 0, end |-> f.no * Unit - 1]
                       ELSE NoHole
         /\ d.mem[1] = IF f.no # Pieces - 1
                       THEN [next |-> Nil, start |-> Unit, end |-> MaxSize] ELSE NoHole
         /\ \A a \in Addr \ {0, 1} : d.mem[a] = NoHole
         /\ f.no # 1 \/ f.no = Pieces - 1 => d.data[f.no] = f.key
         /\ d.seen = c.seen \cup {f.no}
         /\ d.front = (c.front /\ c.seen = 0 .. f.no - 1)
         /\ d.back = (c.back /\ c.seen = f.no + 1 .. Pieces - 1)
<1> DEFINE before == Start(f) > 0
           behind == ~Last(f)
           tail   == Address(Unit + 1)
           first  == IF before THEN 0 ELSE tail
           front  == [next |-> IF behind THEN tail ELSE Nil, start |-> 0,
                      end |-> Start(f) - 1]
           back   == [next |-> Nil, start |-> Unit, end |-> MaxSize]
           mem == [a \in Addr |-> CASE a = 0 /\ before    -> front
                                    [] a = tail /\ behind -> back
                                    [] OTHER              -> NoHole]
           fill == Put(c.data, f.no, f.key)
           data == IF behind THEN Put(fill, tail, Nil) ELSE fill
           active == c.active + 1
           d == [c EXCEPT !.used = TRUE, !.active = active, !.key = f.key, !.first = first,
                          !.mem = mem, !.data = data]
           e == SetUp(c, f)
<1> USE Ip4FragAssumption
<1>1. /\ f.key \in Keys /\ f.no \in Index /\ f.no \in Nat /\ Unit \in 0 .. MaxSize
      /\ Start(f) \in 0 .. MaxSize /\ Start(f) = f.no * Unit
      /\ tail = 1 /\ 0 \in Addr /\ 1 \in Addr
  <2>1. /\ f.key \in Keys /\ f.no \in Index /\ Unit \in 0 .. MaxSize
        /\ Start(f) \in 0 .. MaxSize
    BY FragmentLemma
  <2>2. f.no \in Nat /\ 1 \in 0 .. Pieces
    BY <2>1 DEF Index
  <2>3. tail = 1
    BY <2>2, OffsetLemma
  <2>4. QED
    BY <2>1, <2>2, <2>3 DEF Start, Addr
<1>2. (before <=> f.no > 0) /\ (behind <=> f.no # Pieces - 1)
  <2>1. f.no = 0 => Start(f) = 0
    BY <1>1
  <2>2. f.no > 0 => 0 * Unit + Unit <= f.no * Unit /\ 0 * Unit \in Nat
    BY <1>1, MultipleLemma
  <2>3. f.no > 0 => Start(f) > 0
    BY <1>1, <2>2
  <2>4. QED
    BY <1>1, <2>1, <2>3 DEF Last
<1>3. e = See(d, f)
  BY Zenon DEF SetUp
<1> HIDE DEF before, behind, tail, e
<1>4. mem \in [Addr -> HoleType]
  <2>1. NoHole \in HoleType
    BY DEF NoHole, HoleType
  <2>2. front \in HoleType
    BY <1>1 DEF HoleType
  <2>3. back \in HoleType
    BY <1>1 DEF HoleType
  <2> HIDE DEF front, back
  <2>4. QED
    BY <2>1, <2>2, <2>3
<1>5. /\ mem[0] = IF before THEN front ELSE NoHole
      /\ mem[1] = IF behind THEN back ELSE NoHole
      /\ \A a \in Addr \ {0, 1} : mem[a] = NoHole
  <2> HIDE DEF front, back, NoHole
  <2>1. \A a \in Addr : mem[a] = CASE a = 0 /\ before    -> front
                                   [] a = 1 /\ behind    -> back
                                   [] OTHER              -> NoHole
    BY <1>1
  <2> HIDE DEF mem
  <2>2. QED
    BY <1>1, <2>1
<1>6. c \in BucketType /\ c.active = 0 /\ c.key = Nil /\ \A i \in Index : c.data[i] = Nil
  BY DEF OwnData
<1>7. /\ fill \in [Index -> Keys \cup {Nil}] /\ fill[f.no] = f.key
      /\ \A i \in Index : fill[i] \in {Nil, f.key}
  <2>1. c.data \in [Index -> Keys \cup {Nil}]
    BY <1>6 DEF BucketType
  <2>2. fill = [c.data EXCEPT ![f.no] = f.key]
    BY <1>1 DEF Put
  <2>3. QED
    BY <1>1, <1>6, <2>1, <2>2
<1>8. /\ data \in [Index -> Keys \cup {Nil}] /\ \A i \in Index : data[i] \in {Nil, f.key}
      /\ f.no # 1 \/ f.no = Pieces - 1 => data[f.no] = f.key
  <2> HIDE DEF fill
  <2>1. /\ Put(fill, tail, Nil) \in [Index -> Keys \cup {Nil}]
        /\ \A i \in Index : Put(fill, tail, Nil)[i] \in {fill[i], Nil}
        /\ f.no # 1 => Put(fill, tail, Nil)[f.no] = fill[f.no]
    BY <1>1, <1>7 DEF Put
  <2>2. QED
    BY <1>1, <1>2, <1>7, <2>1
<1>9. first \in Addr \cup {Nil} /\ active = 1 /\ first = IF f.no > 0 THEN 0 ELSE 1
  BY <1>1, <1>2, <1>6
<1> HIDE DEF mem, data, first, active
<1>10. /\ d \in BucketType
       /\ d.used /\ d.active = 1 /\ d.key = f.key /\ d.data = data
       /\ d.mem = mem /\ d.first = first /\ d.seen = c.seen
       /\ d.front = c.front /\ d.back = c.back
  BY <1>1, <1>4, <1>6, <1>8, <1>9 DEF BucketType
<1> HIDE DEF d
<1>11. OwnData(d)
  BY <1>1, <1>8, <1>10 DEF OwnData
<1>12. OwnData(e) /\ e.used /\ e.key = f.key
  BY <1>3, <1>10, <1>11, SeeLemma
<1>13. /\ e.mem = mem /\ e.first = first /\ e.data = data
       /\ e.seen = c.seen \cup {f.no}
       /\ e.front = (c.front /\ c.seen = 0 .. f.no - 1)
       /\ e.back = (c.back /\ c.seen = f.no + 1 .. Pieces - 1)
  <2>1. LET s == See(d, f) IN
        /\ s.mem = d.mem /\ s.first = d.first /\ s.data = d.data
        /\ s.seen = d.seen \cup {f.no}
        /\ s.front = (d.front /\ d.seen = 0 .. f.no - 1)
        /\ s.back = (d.back /\ d.seen = f.no + 1 .. Pieces - 1)
    BY <1>11, SeeFields
  <2>2. QED
    BY <1>3, <1>10, <2>1
<1>14. QED
  BY <1>1, <1>2, <1>5, <1>8, <1>9, <1>12, <1>13, Zenon DEF e, front, back

(* What the loop over the holes changes of a bucket: the list and the data, *)
(* never whose it is.                                                      *)
Kept(c, d) == OwnData(d) /\ d.used = c.used /\ d.key = c.key

LEMMA MemLemma ==
  ASSUME NEW c, OwnData(c), NEW mem \in [Addr -> HoleType]
  PROVE  Kept(c, [c EXCEPT !.mem = mem])
<1> DEFINE d == [c EXCEPT !.mem = mem]
<1>1. d \in BucketType
  BY DEF OwnData, BucketType
<1>2. /\ d.used = c.used /\ d.active = c.active /\ d.key = c.key /\ d.data = c.data
  BY DEF OwnData, BucketType
<1> HIDE DEF d
<1>3. Kept(c, d)
  BY <1>1, <1>2 DEF Kept, OwnData
<1>4. QED
  BY <1>3 DEF d

LEMMA FirstLemma ==
  ASSUME NEW c, OwnData(c), NEW first \in Addr \cup {Nil}
  PROVE  Kept(c, [c EXCEPT !.first = first])
<1> DEFINE d == [c EXCEPT !.first = first]
<1>1. d \in BucketType
  BY DEF OwnData, BucketType
<1>2. /\ d.used = c.used /\ d.active = c.active /\ d.key = c.key /\ d.data = c.data
  BY DEF OwnData, BucketType
<1> HIDE DEF d
<1>3. Kept(c, d)
  BY <1>1, <1>2 DEF Kept, OwnData
<1>4. QED
  BY <1>3 DEF d

LEMMA DataLemma ==
  ASSUME NEW c, OwnData(c), NEW i, NEW x \in Keys \cup {Nil}, x \in {Nil, c.key},
         NEW mem \in [Addr -> HoleType]
  PROVE  Kept(c, [c EXCEPT !.mem = mem, !.data = Put(@, i, x)])
<1> DEFINE data == Put(c.data, i, x)
           d == [c EXCEPT !.mem = mem, !.data = data]
<1>1. c.data \in [Index -> Keys \cup {Nil}]
  BY DEF OwnData, BucketType
<1>2. data \in [Index -> Keys \cup {Nil}] /\ \A j \in Index : data[j] \in {Nil, c.key}
  <2>1. data \in [Index -> Keys \cup {Nil}] /\ \A j \in Index : data[j] \in {c.data[j], x}
    BY <1>1, PutLemma
  <2> HIDE DEF data
  <2>2. QED
    BY <2>1 DEF OwnData
<1> HIDE DEF data
<1>3. d \in BucketType
  BY <1>2 DEF OwnData, BucketType
<1>4. /\ d.used = c.used /\ d.active = c.active /\ d.key = c.key /\ d.data = data
  BY DEF OwnData, BucketType
<1> HIDE DEF d
<1>5. Kept(c, d)
  BY <1>2, <1>3, <1>4 DEF Kept, OwnData
<1>6. QED
  BY <1>5, Zenon DEF d, data

(* A link of the list is set: the first one, or that of hole prev. *)
Link(c, prev, a) ==
  IF prev = Nil THEN [c EXCEPT !.first = a] ELSE [c EXCEPT !.mem[prev].next = a]

LEMMA LinkLemma ==
  ASSUME NEW c, OwnData(c), NEW prev \in Addr \cup {Nil}, NEW a \in Addr \cup {Nil}
  PROVE  Kept(c, Link(c, prev, a))
<1>1. CASE prev = Nil
  BY <1>1, FirstLemma DEF Link
<1>2. CASE prev # Nil
  <2> DEFINE mem == [c.mem EXCEPT ![prev].next = a]
  <2>1. c.mem \in [Addr -> HoleType] /\ prev \in Addr
    BY <1>2 DEF OwnData, BucketType
  <2>2. mem \in [Addr -> HoleType]
    BY <2>1 DEF HoleType
  <2>3. [c EXCEPT !.mem[prev].next = a] = [c EXCEPT !.mem = mem]
    BY DEF OwnData, BucketType
  <2> HIDE DEF mem
  <2>4. QED
    BY <1>2, <2>2, <2>3, MemLemma DEF Link
<1>3. QED
  BY <1>1, <1>2

LEMMA InsertLemma ==
  ASSUME NEW c, OwnData(c), NEW h \in HoleType, NEW prev \in Addr \cup {Nil},
         NEW f \in Fragments, End(f) < h.end
  PROVE  Kept(c, Insert(c, h, prev, f))
<1> DEFINE at == Address(End(f) + 1)
           next == IF prev = Nil THEN c.first ELSE c.mem[prev].next
           hole == [next |-> next, start |-> SplitBehind(f), end |-> h.end]
           mem == [c.mem EXCEPT ![at] = hole]
           d == [c EXCEPT !.mem[at] = hole, !.data = Put(@, at, Nil)]
<1> USE Ip4FragAssumption
<1>1. at \in Addr /\ End(f) \in 0 .. MaxSize
  BY FragmentLemma
<1>2. /\ c.mem \in [Addr -> HoleType]
      /\ c.first \in Addr \cup {Nil}
  BY DEF OwnData, BucketType
<1>3. next \in Addr \cup {Nil}
  BY <1>2 DEF HoleType
<1>4. SplitBehind(f) \in 0 .. MaxSize /\ h.end \in -1 .. MaxSize
  BY <1>1 DEF SplitBehind, HoleType
<1> HIDE DEF next
<1>5. hole \in HoleType
  BY <1>3, <1>4 DEF HoleType
<1> HIDE DEF hole, at
<1>6. mem \in [Addr -> HoleType]
  BY <1>1, <1>2, <1>5
<1>7. d = [c EXCEPT !.mem = mem, !.data = Put(@, at, Nil)]
  BY Zenon DEF OwnData, BucketType
<1> HIDE DEF mem, d
<1>8. Kept(c, d)
  BY <1>6, <1>7, DataLemma
<1>9. Insert(c, h, prev, f) = Link(d, prev, at)
  BY Zenon DEF Insert, Link, d, hole, next, at
<1>10. OwnData(d)
  BY <1>8 DEF Kept
<1>11. Kept(d, Insert(c, h, prev, f))
  BY <1>1, <1>9, <1>10, LinkLemma
<1>12. QED
  BY <1>8, <1>11 DEF Kept
-----------------------------------------------------------------------------
BucketsInv ==
  /\ DOMAIN bucket = Buckets
  /\ \A b \in Buckets : OwnData(bucket[b])

LEMMA InitBase == Init => BaseInv
<1> SUFFICES ASSUME Init PROVE BaseInv
  OBVIOUS
<1>1. DOMAIN bucket = Buckets /\ \A b \in Buckets : bucket[b] = Empty
  BY DEF Init
<1>2. WalkInv
  BY DEF Init, WalkInv, NoWalk
<1>3. QED
  BY <1>1, <1>2, EmptyLemma DEF BaseInv

(* One bucket is written, and stays with its datagram, or becomes vacant.   *)
LEMMA WriteLemma ==
  ASSUME BucketsInv, NEW b \in Buckets, NEW d, OwnData(d),
         d.used => bucket[b].used /\ d.key = bucket[b].key,
         bucket' = [bucket EXCEPT ![b] = d]
  PROVE  BucketsInv' /\ bucket'[b] = d
BY DEF BucketsInv

LEMMA FirstBase ==
  ASSUME BaseInv, NEW f \in Fragments, FirstOfChain(f)
  PROVE  BaseInv'
<1> DEFINE b == Lowest(Vacant)
           d == SetUp(bucket[b], f)
<1>1. b \in Buckets /\ ~bucket[b].used
  BY LowestLemma DEF FirstOfChain, Vacant
<1>3. bucket' = [bucket EXCEPT ![b] = d]
  BY DEF FirstOfChain
<1> HIDE DEF b
<1>4. OwnData(d) /\ d.used /\ d.key = f.key
  <2>1. OwnData(bucket[b])
    BY <1>1 DEF BaseInv
  <2>2. QED
    BY <1>1, <2>1, SetUpLemma
<1> HIDE DEF d
<1>5. WalkInv'
  BY DEF FirstOfChain, BaseInv, WalkInv, Idle
<1>7. QED
  BY <1>1, <1>3, <1>4, <1>5 DEF BaseInv

LEMMA NextBase ==
  ASSUME BaseInv, NEW f \in Fragments, NextOfChain(f)
  PROVE  BaseInv'
<1> DEFINE b == Lowest(Matching(f.key))
           d == See(bucket[b], f)
<1>1. b \in Buckets /\ bucket[b].used /\ bucket[b].key = f.key
  BY LowestLemma DEF NextOfChain, Matching
<1>2. /\ bucket' = [bucket EXCEPT ![b] = d]
      /\ walk' = [NoWalk EXCEPT !.b = b, !.frag = f, !.hole = bucket[b].first]
  BY DEF NextOfChain
<1> HIDE DEF b
<1>3. OwnData(d) /\ d.used = bucket[b].used /\ d.key = bucket[b].key
  BY <1>1, SeeLemma DEF BaseInv
<1> HIDE DEF d
<1>4. BucketsInv' /\ bucket'[b] = d
  BY <1>1, <1>2, <1>3, WriteLemma DEF BaseInv, BucketsInv
<1>5. bucket[b].first \in Addr \cup {Nil}
  BY <1>1 DEF BaseInv, OwnData, BucketType
<1>6. walk' = [b |-> b, frag |-> f, hole |-> bucket[b].first, prev |-> Nil, got |-> FALSE]
  BY <1>2 DEF NoWalk
<1>7. WalkInv'
  BY <1>1, <1>3, <1>4, <1>5, <1>6 DEF WalkInv
<1>8. QED
  BY <1>4, <1>7 DEF BaseInv, BucketsInv

LEMMA TurnBase ==
  ASSUME BaseInv, Turn
  PROVE  BaseInv'
<1> DEFINE b     == walk.b
           c     == bucket[b]
           f     == walk.frag
           h     == c.mem[walk.hole]
           found == Start(f) <= h.end /\ End(f) >= h.start
           unlinked == Unlink(c, h, walk.prev)
           Moved(d, at) ==
             /\ bucket' = [bucket EXCEPT ![b] = d]
             /\ walk' = [walk EXCEPT !.prev = at, !.hole = d.mem[at].next, !.got = @ \/ found]
<1> USE Ip4FragAssumption
<1>1. /\ b \in Buckets /\ b # Nil /\ f \in Fragments /\ OwnData(c)
      /\ c.used /\ c.key = f.key /\ walk.hole \in Addr
      /\ walk.prev \in Addr \cup {Nil}
  BY DEF Turn, Idle, BaseInv, WalkInv
<1>2. c.mem \in [Addr -> HoleType] /\ h \in HoleType
  BY <1>1 DEF OwnData, BucketType
<1>3. ASSUME NEW d, Kept(c, d), NEW at \in Addr, Moved(d, at)
      PROVE  BaseInv'
  <2> HIDE DEF found
  <2>1. BucketsInv' /\ bucket'[b] = d
    BY <1>1, <1>3, WriteLemma DEF Kept, BaseInv, BucketsInv
  <2>2. d.mem[at].next \in Addr \cup {Nil}
    BY <1>3 DEF Kept, OwnData, BucketType, HoleType
  <2>3. walk.got \/ found \in BOOLEAN
    BY DEF BaseInv, WalkInv, found
  <2>4. /\ walk' \in [b : Buckets \cup {Nil}, frag : Fragments \cup {Nil},
                     hole : Addr \cup {Nil}, prev : Addr \cup {Nil}, got : BOOLEAN]
        /\ walk'.b = b /\ walk'.frag = f
    BY <1>3, <2>2, <2>3 DEF BaseInv, WalkInv
  <2>5. WalkInv'
    BY <1>1, <1>3, <2>1, <2>4 DEF WalkInv, Kept
  <2>6. QED
    BY <2>1, <2>5 DEF BaseInv, BucketsInv
<1>4. Kept(c, c)
  BY <1>1 DEF Kept
<1>5. Kept(c, unlinked)
  <2>1. h.next \in Addr \cup {Nil}
    BY <1>2 DEF HoleType
  <2>2. unlinked = Link(c, walk.prev, h.next)
    BY Zenon DEF Unlink, Link
  <2>3. QED
    BY <1>1, <2>1, <2>2, LinkLemma
<1>6. CASE found /\ Start(f) > h.start
           /\ Moved([c EXCEPT !.mem[walk.hole].end = ShortenBefore(f)], walk.hole)
  <2> DEFINE e   == ShortenBefore(f)
             mem == [c.mem EXCEPT ![walk.hole].end = e]
  <2>1. e \in -1 .. MaxSize
    BY <1>1, FragmentLemma DEF ShortenBefore
  <2> HIDE DEF e
  <2>2. mem \in [Addr -> HoleType]
    BY <1>1, <1>2, <2>1 DEF HoleType
  <2>3. [c EXCEPT !.mem[walk.hole].end = e] = [c EXCEPT !.mem = mem]
    BY <1>1 DEF OwnData, BucketType
  <2> HIDE DEF mem
  <2>4. Kept(c, [c EXCEPT !.mem[walk.hole].end = e])
    BY <1>1, <2>2, <2>3, MemLemma
  <2>5. QED
    BY <1>1, <1>3, <1>6, <2>4 DEF e
<1>7. CASE found /\ End(f) < h.end
           /\ Moved(Insert(unlinked, h, walk.prev, f), Address(End(f) + 1))
  <2>1. Kept(unlinked, Insert(unlinked, h, walk.prev, f))
    BY <1>1, <1>2, <1>5, <1>7, InsertLemma DEF Kept
  <2>2. Kept(c, Insert(unlinked, h, walk.prev, f)) /\ Address(End(f) + 1) \in Addr
    BY <1>1, <1>5, <2>1, FragmentLemma DEF Kept
  <2>3. QED
    BY <1>3, <1>7, <2>2
<1>8. CASE Moved(c, walk.hole)
  BY <1>1, <1>3, <1>4, <1>8
<1>9. CASE Moved(unlinked, walk.hole)
  BY <1>1, <1>3, <1>5, <1>9
<1>10. QED
  BY <1>6, <1>7, <1>8, <1>9 DEF Turn

LEMMA FinishBase ==
  ASSUME BaseInv, Finish
  PROVE  BaseInv'
<1> DEFINE b    == walk.b
           c    == bucket[b]
           f    == walk.frag
           mem  == [a \in Addr |-> IF a \in Linked(c) THEN c.mem[a] ELSE NoHole]
           data == IF walk.got THEN Put(c.data, f.no, f.key) ELSE c.data
           d    == [c EXCEPT !.data = data, !.mem = mem]
<1> USE Ip4FragAssumption
<1>1. b \in Buckets /\ f \in Fragments /\ OwnData(c) /\ c.used /\ c.key = f.key
  BY DEF Finish, Idle, BaseInv, WalkInv
<1>2. bucket' = [bucket EXCEPT ![b] = IF c.first = Nil THEN Empty ELSE d]
  BY Zenon DEF Finish, Freed
<1>3. mem \in [Addr -> HoleType]
  <2>1. NoHole \in HoleType /\ c.mem \in [Addr -> HoleType]
    BY <1>1 DEF NoHole, HoleType, OwnData, BucketType
  <2>2. QED
    BY <2>1
<1> HIDE DEF mem
<1>4. Kept(c, d)
  <2>1. f.key \in Keys
    BY <1>1 DEF Fragments
  <2>2. data \in [Index -> Keys \cup {Nil}] /\ \A i \in Index : data[i] \in {Nil, c.key}
    <3>1. c.data \in [Index -> Keys \cup {Nil}] /\ \A i \in Index : c.data[i] \in {Nil, c.key}
      BY <1>1 DEF OwnData, BucketType
    <3>2. /\ Put(c.data, f.no, f.key) \in [Index -> Keys \cup {Nil}]
          /\ \A i \in Index : Put(c.data, f.no, f.key)[i] \in {c.data[i], f.key}
      BY <2>1, <3>1, PutLemma
    <3>3. QED
      BY <1>1, <3>1, <3>2
  <2> HIDE DEF data
  <2>3. d \in BucketType
    BY <1>1, <1>3, <2>2 DEF OwnData, BucketType
  <2>4. /\ d.used = c.used /\ d.active = c.active /\ d.key = c.key /\ d.data = data
    BY <1>1 DEF OwnData, BucketType
  <2> HIDE DEF d
  <2>5. QED
    BY <1>1, <2>2, <2>3, <2>4 DEF Kept, OwnData
<1> HIDE DEF d
<1>5. BucketsInv'
  BY <1>1, <1>2, <1>4, EmptyLemma, WriteLemma DEF Kept, BaseInv, BucketsInv
<1>6. WalkInv'
  BY DEF Finish, NoWalk, WalkInv
<1>7. QED
  BY <1>5, <1>6 DEF BaseInv, BucketsInv

LEMMA TimeoutBase ==
  ASSUME BaseInv, NEW b \in Buckets, Timeout(b)
  PROVE  BaseInv'
<1>1. bucket' = [bucket EXCEPT ![b] = Empty] /\ UNCHANGED walk /\ walk.b = Nil
  BY DEF Timeout, Freed, Idle
<1>2. BucketsInv'
  BY <1>1, EmptyLemma, WriteLemma DEF BaseInv, BucketsInv
<1>3. WalkInv'
  BY <1>1 DEF BaseInv, WalkInv
<1>4. QED
  BY <1>2, <1>3 DEF BaseInv, BucketsInv

LEMMA NextBaseInv == BaseInv /\ [Next]_vars => BaseInv'
<1> SUFFICES ASSUME BaseInv, [Next]_vars PROVE BaseInv'
  OBVIOUS
<1>1. CASE UNCHANGED vars
  BY <1>1 DEF vars, BaseInv, WalkInv
<1>2. CASE Next
  BY <1>2, FirstBase, NextBase, TurnBase, FinishBase, TimeoutBase DEF Next
<1>3. QED
  BY <1>1, <1>2
-----------------------------------------------------------------------------
(* The list of holes. *)
(* The hole of a descriptor reaches beyond its place. *)
LEMMA HoleLemma ==
  ASSUME NEW a \in Addr, NEW h \in HoleType, HoleOk(a, h)
  PROVE  /\ a * Unit \in Nat /\ h.start \in Nat
         /\ a * Unit <= h.start /\ h.start <= a * Unit + 1
         /\ h.end \in Nat /\ a * Unit + Unit - 1 <= h.end /\ h # NoHole
<1> USE Ip4FragAssumption
<1>1. a \in Nat /\ Pieces \in Nat /\ a <= Pieces
  BY DEF Addr
<1>2. a * Unit \in Nat /\ Pieces * Unit \in Nat /\ a * Unit <= Pieces * Unit
  BY <1>1, OffsetLemma
<1>3. h.start \in Nat /\ a * Unit <= h.start /\ h.start <= a * Unit + 1
  BY <1>2 DEF HoleOk
<1>4. h.end \in Nat /\ a * Unit + Unit - 1 <= h.end
  <2>1. CASE h.end = MaxSize
    <3>1. 1 < Pieces
      OBVIOUS
    <3>2. Unit <= Pieces * Unit
      <4>1. Unit = 1 * Unit
        OBVIOUS
      <4>2. 1 * Unit + Unit <= Pieces * Unit
        BY <3>1, MultipleLemma
      <4>3. QED
        BY <1>2, <4>1, <4>2
    <3>3. 2 * Pieces * Unit = Pieces * Unit + Pieces * Unit
      BY <1>1
    <3>4. a * Unit + Unit <= MaxSize
      BY <1>2, <3>2, <3>3
    <3>5. QED
      BY <1>2, <2>1, <3>4
  <2>2. ASSUME NEW k \in Index, a < k, h.end = k * Unit - 1
        PROVE  h.end \in Nat /\ a * Unit + Unit - 1 <= h.end
    <3>1. k \in Nat
      BY DEF Index
    <3>2. a * Unit + Unit <= k * Unit /\ k * Unit \in Nat
      BY <1>1, <2>2, <3>1, MultipleLemma
    <3>3. QED
      BY <1>2, <2>2, <3>2
  <2>3. QED
    BY <2>1, <2>2 DEF HoleOk
<1>5. h # NoHole
  BY <1>2, <1>4 DEF NoHole
<1>6. QED
  BY <1>2, <1>3, <1>4, <1>5

(* Which holes a fragment is found in, and on which side. *)
LEMMA FoundLemma ==
  ASSUME NEW f \in Fragments, NEW a \in Addr, NEW h \in HoleType, HoleOk(a, h)
  PROVE  /\ a = f.no => Start(f) <= h.end /\ End(f) >= h.start /\ Start(f) <= h.start
         /\ Start(f) > h.start => a < f.no
         /\ (End(f) >= h.start /\ Start(f) <= h.start) => a \in {f.no, f.no + 1}
         /\ (End(f) >= h.end /\ Start(f) <= h.start /\ End(f) >= h.start) => a = f.no
         /\ (End(f) < h.end /\ h.end # MaxSize) =>
              \E k \in Index : f.no + 1 < k /\ h.end = k * Unit - 1
         /\ f.no + 1 \in Addr /\ f.no \in Addr /\ f.no \in Nat
         /\ Start(f) = f.no * Unit /\ End(f) = (f.no + 1) * Unit
         /\ f.no * Unit \in Nat /\ End(f) = f.no * Unit + Unit
<1> USE Ip4FragAssumption
<1>1. a \in Nat /\ f.no \in Nat /\ f.no \in Index /\ f.no + 1 \in Addr /\ f.no \in Addr /\ Unit \in Nat
  BY FragmentLemma DEF Addr, Index
<1> DEFINE n == f.no
           A == a * Unit
           N == n * Unit
<1>2. A \in Nat /\ N \in Nat /\ (n + 1) * Unit = N + Unit
  BY <1>1, MultipleLemma
<1>3. Start(f) = N /\ End(f) = N + Unit
  BY DEF Start, End
<1>4. /\ h.start \in Nat /\ A <= h.start /\ h.start <= A + 1
      /\ h.end \in Nat /\ A + Unit - 1 <= h.end
  BY HoleLemma
<1>5. /\ a < n => A + Unit <= N
      /\ n < a => N + Unit <= A
      /\ n + 1 < a => N + Unit + Unit <= A
  <2>1. (a < n => A + Unit <= N) /\ (n < a => N + Unit <= A)
    BY <1>1, MultipleLemma
  <2>2. n + 1 < a => (n + 1) * Unit + Unit <= A
    BY <1>1, MultipleLemma
  <2>3. QED
    BY <1>2, <2>1, <2>2
<1>6. a = n => A = N
  OBVIOUS
<1> HIDE DEF A, N, n
<1>7. n \in Nat
  BY <1>1 DEF n
<1>8. a = n => Start(f) <= h.end /\ End(f) >= h.start /\ Start(f) <= h.start
  BY <1>1, <1>2, <1>3, <1>4, <1>6
<1>9. Start(f) > h.start => a < n
  BY <1>1, <1>2, <1>3, <1>4, <1>5, <1>6, <1>7
<1>10. (End(f) >= h.start /\ Start(f) <= h.start) => a \in {n, n + 1}
  <2>1. a < n => h.start < Start(f)
    BY <1>1, <1>2, <1>3, <1>4, <1>5
  <2>2. n + 1 < a => End(f) < h.start
    BY <1>1, <1>2, <1>3, <1>4, <1>5
  <2>3. QED
    BY <1>1, <1>2, <1>3, <1>4, <1>7, <2>1, <2>2
<1>11. (End(f) >= h.end /\ Start(f) <= h.start /\ End(f) >= h.start) => a = n
  <2>1. n < a => N + Unit + Unit - 1 <= h.end
    BY <1>1, <1>2, <1>4, <1>5
  <2>2. n < a => End(f) < h.end
    BY <1>1, <1>2, <1>3, <1>4, <2>1
  <2>3. a < n => h.start < Start(f)
    BY <1>1, <1>2, <1>3, <1>4, <1>5
  <2>4. QED
    BY <1>1, <1>2, <1>3, <1>4, <1>7, <2>2, <2>3
<1>12. ASSUME End(f) < h.end, h.end # MaxSize
       PROVE  \E k \in Index : n + 1 < k /\ h.end = k * Unit - 1
  <2>1. PICK k \in Index : a < k /\ h.end = k * Unit - 1
    BY <1>12 DEF HoleOk
  <2>2. k \in Nat
    BY DEF Index
  <2>3. ASSUME k <= n + 1 PROVE FALSE
    <3>1. k * Unit <= (n + 1) * Unit
      <4>1. CASE k = n + 1
        BY <4>1, <1>2, <1>3
      <4>2. CASE k < n + 1
        <5>1. k * Unit + Unit <= (n + 1) * Unit /\ k * Unit \in Nat /\ (n + 1) * Unit \in Nat
          BY <1>7, <2>2, <4>2, MultipleLemma
        <5>2. QED
          BY <1>1, <5>1
      <4>3. QED
        BY <1>7, <2>2, <2>3, <4>1, <4>2
    <3>2. k * Unit \in Nat
      BY <2>2
    <3>3. k * Unit <= End(f)
      BY <1>2, <1>3, <3>1 DEF n, N
    <3>4. QED
      BY <1>1, <1>2, <1>3, <1>12, <2>1, <3>2, <3>3
  <2>4. QED
    BY <1>7, <2>1, <2>2, <2>3
<1>13. QED
  BY <1>1, <1>2, <1>3, <1>8, <1>9, <1>10, <1>11, <1>12 DEF n, N
-----------------------------------------------------------------------------
(* One turn of the loop, at a hole that is on the list. *)
LEMMA HandLemma ==
  ASSUME NEW mem \in [Addr -> HoleType], NEW first, NEW no \in Index, NEW a \in Addr,
         NEW prev \in Addr \cup {Nil}, NEW P \in SUBSET Addr,
         ListOk(mem, first), Passed(mem, first, no, a, prev, P)
  PROVE  /\ a # Nil /\ a \in Nat /\ a \notin P
         /\ HoleOk(a, mem[a]) /\ mem[a] # NoHole
         /\ prev # Nil => prev \in Addr /\ prev < a /\ HoleOk(prev, mem[prev])
<1> USE Ip4FragAssumption
<1>1. a # Nil /\ a \in Nat /\ Addr \subseteq Nat
  BY DEF Addr
<1>2. a \notin P
  BY <1>1 DEF Passed
<1>3. mem[a] # NoHole
  <2>1. CASE first = a
    BY <1>1, <2>1 DEF ListOk
  <2>2. CASE first # a
    <3>1. first \in P /\ prev # Nil
      BY <2>2 DEF Passed
    <3>2. prev \in Addr /\ mem[prev].next = a
      BY <3>1 DEF Passed
    <3>3. QED
      BY <1>1, <3>2 DEF ListOk
  <2>3. QED
    BY <2>1, <2>2
<1>4. HoleOk(a, mem[a])
  BY <1>3 DEF ListOk
<1>5. ASSUME prev # Nil
      PROVE  prev \in Addr /\ prev < a /\ HoleOk(prev, mem[prev])
  <2>1. prev \in Addr /\ mem[prev].next = a
    BY <1>5 DEF Passed
  <2>2. mem[prev] # NoHole
    BY <1>1, <2>1 DEF NoHole
  <2>3. HoleOk(prev, mem[prev])
    BY <2>1, <2>2 DEF ListOk
  <2>4. QED
    BY <1>1, <2>1, <2>3 DEF HoleOk
<1>6. QED
  BY <1>1, <1>2, <1>3, <1>4, <1>5

(* The hole stays on the list. *)
LEMMA KeepLemma ==
  ASSUME NEW mem \in [Addr -> HoleType], NEW first, NEW no \in Index, NEW a \in Addr,
         NEW prev \in Addr \cup {Nil}, NEW P \in SUBSET Addr,
         ListOk(mem, first), Passed(mem, first, no, a, prev, P), a # no,
         NEW m \in [Addr -> HoleType],
         \A x \in Addr \ {a} : m[x] = mem[x],
         m[a].next = mem[a].next, HoleOk(a, m[a])
  PROVE  ListOk(m, first) /\ Passed(m, first, no, m[a].next, a, P \cup {a})
<1> USE Ip4FragAssumption
<1> DEFINE Q == P \cup {a}
           hole == m[a].next
<1>1. a # Nil /\ a \in Nat /\ a \notin P /\ Addr \subseteq Nat
  BY HandLemma DEF Addr
<1>2. \A x \in Addr : m[x].next = mem[x].next
  OBVIOUS
<1>3. \A x \in Addr : mem[x] # NoHole => m[x] # NoHole
  BY HoleLemma
<1>4. ListOk(m, first)
  <2>1. \A x \in Addr : m[x].next # Nil => m[x].next \in Addr
    BY DEF HoleType
  <2>2. ASSUME NEW x \in Addr, m[x].next # Nil PROVE m[m[x].next] # NoHole
    BY <1>2, <1>3, <2>1, <2>2 DEF ListOk
  <2>3. ASSUME first # Nil PROVE m[first] # NoHole
    <3>1. CASE first \in Addr
      BY <1>3, <2>3, <3>1 DEF ListOk
    <3>2. CASE first \notin Addr
      BY <3>2 DEF Passed
    <3>3. QED
      BY <3>1, <3>2
  <2>4. \A x \in Addr : m[x] = NoHole \/ HoleOk(x, m[x])
    BY DEF ListOk
  <2>5. QED
    BY <2>2, <2>3, <2>4 DEF ListOk
<1>5. no \notin Q
  BY DEF Passed
<1>6. hole # Nil => \A x \in Q : x < hole
  <2>1. hole # Nil => hole \in Addr /\ a < hole
    BY DEF HoleOk, HoleType
  <2>2. \A x \in P : x < a /\ x \in Nat
    BY <1>1 DEF Passed
  <2> HIDE DEF hole
  <2>3. ASSUME hole # Nil, NEW x \in Q PROVE x < hole
    <3>1. hole \in Nat /\ a < hole
      BY <1>1, <2>1, <2>3
    <3>2. x = a \/ (x < a /\ x \in Nat)
      BY <2>2
    <3>3. QED
      BY <1>1, <3>1, <3>2
  <2>4. QED
    BY <2>3
<1>7. first \in Q /\ \A x \in Q \ {a} : m[x].next \in Q
  BY <1>2 DEF Passed
<1>8. QED
  BY <1>1, <1>4, <1>5, <1>6, <1>7 DEF Passed

(* Descriptor g is h with another link. *)
Relinked(g, h, a) == g.next = a /\ g.start = h.start /\ g.end = h.end

(* The hole is taken off, which happens to the one of the fragment only. *)
LEMMA DropLemma ==
  ASSUME NEW mem \in [Addr -> HoleType], NEW first, NEW no \in Index, NEW a \in Addr,
         NEW prev \in Addr \cup {Nil}, NEW P \in SUBSET Addr,
         ListOk(mem, first), Passed(mem, first, no, a, prev, P), a = no,
         NEW m \in [Addr -> HoleType], NEW top,
         prev = Nil => m = mem /\ top = mem[a].next,
         prev # Nil => /\ top = first /\ Relinked(m[prev], mem[prev], mem[a].next)
                       /\ \A x \in Addr \ {prev} : m[x] = mem[x]
  PROVE  ListOk(m, top) /\ Passed(m, top, no, m[a].next, a, P)
<1> USE Ip4FragAssumption
<1> DEFINE hole == mem[a].next
<1>1. /\ a # Nil /\ a \in Nat /\ a \notin P /\ Addr \subseteq Nat /\ HoleOk(a, mem[a])
      /\ prev # Nil => prev \in Addr /\ prev < a /\ HoleOk(prev, mem[prev])
  BY HandLemma DEF Addr
<1>2. m[a] = mem[a] /\ (hole # Nil => hole \in Addr /\ a < hole /\ mem[hole] # NoHole)
  BY <1>1 DEF HoleOk, HoleType, ListOk
<1>3. ASSUME prev # Nil
      PROVE  /\ m[prev].next = hole /\ m[prev].start = mem[prev].start
             /\ m[prev].end = mem[prev].end /\ HoleOk(prev, m[prev])
  <2>2. /\ m[prev].next = hole /\ m[prev].start = mem[prev].start
        /\ m[prev].end = mem[prev].end
    BY <1>3 DEF Relinked
  <2>3. hole = Nil \/ prev < hole
    <3>1. hole # Nil => hole \in Nat /\ a < hole
      BY <1>1, <1>2
    <3>2. prev \in Nat /\ prev < a
      BY <1>1, <1>3
    <3> HIDE DEF hole
    <3>3. QED
      BY <1>1, <3>1, <3>2
  <2>4. QED
    BY <1>1, <1>3, <2>2, <2>3 DEF HoleOk
<1>4. \A x \in Addr : mem[x] # NoHole => m[x] # NoHole
  BY <1>1, <1>3, HoleLemma
<1>5. \A x \in Addr : m[x].next \in {mem[x].next, hole}
  BY <1>3
<1>6. ListOk(m, top)
  <2>1. \A x \in Addr : m[x] = NoHole \/ HoleOk(x, m[x])
    BY <1>3 DEF ListOk
  <2>2. \A x \in Addr : mem[x].next # Nil => mem[x].next \in Addr /\ mem[mem[x].next] # NoHole
    BY DEF ListOk, HoleType
  <2>3. ASSUME NEW x \in Addr, m[x].next # Nil PROVE m[m[x].next] # NoHole
    BY <1>2, <1>4, <1>5, <2>2, <2>3
  <2>4. ASSUME top # Nil PROVE m[top] # NoHole
    <3>1. CASE prev = Nil
      BY <1>2, <1>4, <2>4, <3>1
    <3>2. CASE prev # Nil
      <4>1. top \in Addr
        BY <3>2 DEF Passed
      <4>2. QED
        BY <1>4, <2>4, <3>2, <4>1 DEF ListOk
    <3>3. QED
      BY <3>1, <3>2
  <2>5. QED
    BY <2>1, <2>3, <2>4 DEF ListOk
<1>7. hole # Nil => \A x \in P : x < hole
  <2>1. \A x \in P : x \in Nat /\ x < a
    BY <1>1 DEF Passed
  <2>2. hole # Nil => hole \in Nat /\ a < hole
    BY <1>1, <1>2
  <2> HIDE DEF hole
  <2>3. QED
    BY <1>1, <2>1, <2>2
<1>8. prev # Nil => prev \in P
  BY <1>1 DEF Passed
<1>9. top \in P \cup {hole} /\ \A x \in P : m[x].next \in P \cup {hole}
  <2>1. CASE prev = Nil
    BY <2>1 DEF Passed
  <2>2. CASE prev # Nil
    BY <1>3, <1>8, <2>2 DEF Passed
  <2>3. QED
    BY <2>1, <2>2
<1>10. no \notin P
  BY DEF Passed
<1>11. QED
  BY <1>1, <1>2, <1>6, <1>7, <1>9, <1>10 DEF Passed

(* Hole a is the one of fragment no or the one behind it, and goes on. *)
GoesOn(no, a, at, h) ==
  /\ at = no + 1 /\ a \in {no, at}
  /\ h.end = MaxSize \/ \E k \in Index : no + 1 < k /\ h.end = k * Unit - 1

(* What is left of hole a, behind the fragment, becomes a hole after prev.  *)
SplitOff(m, mem, top, first, a, prev, at) ==
  /\ m[at].next = mem[a].next /\ m[at].start = at * Unit + 1 /\ m[at].end = mem[a].end
  /\ prev = Nil => top = at /\ \A x \in Addr \ {at} : m[x] = mem[x]
  /\ prev # Nil => /\ top = first /\ Relinked(m[prev], mem[prev], at)
                   /\ \A x \in Addr \ {at, prev} : m[x] = mem[x]

(* A new hole takes its place behind the fragment.  If that is where the    *)
(* next hole lies already, it will follow itself.                           *)
LEMMA SplitLemma ==
  ASSUME NEW mem \in [Addr -> HoleType], NEW first, NEW no \in Index, NEW a \in Addr,
         NEW prev \in Addr \cup {Nil}, NEW P \in SUBSET Addr,
         ListOk(mem, first), Passed(mem, first, no, a, prev, P),
         NEW at \in Addr, GoesOn(no, a, at, mem[a]),
         NEW m \in [Addr -> HoleType], NEW top, SplitOff(m, mem, top, first, a, prev, at)
  PROVE  IF mem[a].next = at THEN Stuck(m, no, m[at].next, at)
         ELSE ListOk(m, top) /\ Passed(m, top, no, m[at].next, at, P \cup {at})
<1> USE Ip4FragAssumption
<1> DEFINE hole == mem[a].next
           Q == P \cup {at}
<1>1. /\ a # Nil /\ a \in Nat /\ a \notin P /\ Addr \subseteq Nat /\ HoleOk(a, mem[a])
      /\ prev # Nil => prev \in Addr /\ prev < a /\ HoleOk(prev, mem[prev])
      /\ at \in Nat /\ at # Nil /\ no \in Nat /\ at = no + 1 /\ a \in {no, at}
  <2>1. /\ a # Nil /\ a \in Nat /\ a \notin P /\ HoleOk(a, mem[a])
        /\ prev # Nil => prev \in Addr /\ prev < a /\ HoleOk(prev, mem[prev])
    BY HandLemma
  <2>2. Addr \subseteq Nat /\ no \in Nat /\ at \in Nat /\ at # Nil
    BY DEF Addr, Index
  <2>3. QED
    BY <2>1, <2>2 DEF GoesOn
<1>2. m[at].next = hole /\ m[at].start = at * Unit + 1 /\ m[at].end = mem[a].end
  BY DEF SplitOff
<1>3. CASE hole = at
  BY <1>1, <1>2, <1>3 DEF Stuck
<1>4. CASE hole # at
  <2>1. hole # Nil => hole \in Addr /\ at < hole /\ mem[hole] # NoHole
    <3>1. hole # Nil => hole \in Addr /\ a < hole /\ mem[hole] # NoHole
      BY <1>1 DEF HoleOk, HoleType, ListOk
    <3> HIDE DEF hole
    <3>2. ASSUME hole \in Addr, a < hole PROVE at < hole
      BY <1>1, <1>4, <3>2
    <3>3. QED
      BY <3>1, <3>2
  <2>2. HoleOk(at, m[at])
    BY <1>1, <1>2, <2>1 DEF HoleOk, GoesOn
  <2>3. ASSUME prev # Nil
        PROVE  prev # at /\ m[prev].next = at /\ HoleOk(prev, m[prev])
    <3>1. mem[prev] \in HoleType /\ prev < a /\ prev \in Nat
      BY <1>1, <2>3
    <3>2. prev # at /\ prev < at
      BY <1>1, <3>1
    <3>3. /\ m[prev].next = at /\ m[prev].start = mem[prev].start
          /\ m[prev].end = mem[prev].end
      BY <2>3 DEF SplitOff, Relinked
    <3>4. QED
      BY <1>1, <2>3, <3>2, <3>3 DEF HoleOk
  <2>4. \A x \in Addr : mem[x] # NoHole => m[x] # NoHole
    BY <1>1, <2>2, <2>3, HoleLemma DEF SplitOff
  <2>5. \A x \in Addr : m[x].next \in {mem[x].next, hole, at}
    BY <1>2, <2>3 DEF SplitOff
  <2>6. m[at] # NoHole
    BY <2>2, HoleLemma
  <2>7. ListOk(m, top)
    <3>1. \A x \in Addr : m[x] = NoHole \/ HoleOk(x, m[x])
      BY <2>2, <2>3 DEF ListOk, SplitOff
    <3>2. \A x \in Addr : mem[x].next # Nil => mem[x].next \in Addr /\ mem[mem[x].next] # NoHole
      BY DEF ListOk, HoleType
    <3>3. ASSUME NEW x \in Addr, m[x].next # Nil PROVE m[m[x].next] # NoHole
      BY <2>1, <2>4, <2>5, <2>6, <3>2, <3>3
    <3>4. ASSUME top # Nil PROVE m[top] # NoHole
      <4>1. CASE prev = Nil
        BY <2>6, <4>1 DEF SplitOff
      <4>2. CASE prev # Nil
        <5>1. top \in Addr
          BY <4>2 DEF Passed, SplitOff
        <5>2. QED
          BY <2>4, <3>4, <4>2, <5>1 DEF ListOk, SplitOff
      <4>3. QED
        BY <4>1, <4>2
    <3>5. QED
      BY <3>1, <3>3, <3>4 DEF ListOk
  <2>8. \A x \in P : x < a /\ x < at /\ x \in Nat
    <3>1. \A x \in P : x < a /\ x \in Nat
      BY <1>1 DEF Passed
    <3>2. QED
      BY <1>1, <3>1
  <2>9. hole # Nil => \A x \in Q : x < hole
    <3> HIDE DEF hole
    <3>1. ASSUME hole # Nil, NEW x \in Q PROVE x < hole
      <4>1. hole \in Nat /\ at < hole
        BY <1>1, <2>1, <3>1
      <4>2. x = at \/ (x < at /\ x \in Nat)
        BY <2>8
      <4>3. QED
        BY <1>1, <4>1, <4>2
    <3>2. QED
      BY <3>1
  <2>10. no \notin Q
    BY <1>1 DEF Passed
  <2>11. at \notin P
    BY <1>1, <2>8
  <2>12. top \in Q /\ \A x \in P : m[x].next \in Q
    <3>1. CASE prev = Nil
      BY <3>1 DEF Passed, SplitOff
    <3>2. CASE prev \in P
      <4>1. prev # Nil
        BY <1>1, <3>2
      <4>2. top \in P /\ \A x \in P \ {prev} : mem[x].next \in P
        BY <3>2, <4>1 DEF Passed, SplitOff
      <4>3. QED
        BY <2>3, <2>11, <3>2, <4>1, <4>2 DEF SplitOff
    <3>3. CASE prev # Nil /\ prev \notin P
      <4>1. prev = no
        BY <3>3 DEF Passed
      <4>2. a = at
        BY <1>1, <3>3, <4>1
      <4>3. top \in Q /\ \A x \in P : mem[x].next \in Q
        BY <3>3, <4>2 DEF Passed, SplitOff
      <4>4. QED
        BY <2>11, <3>3, <4>3 DEF SplitOff
    <3>4. QED
      BY <3>1, <3>2, <3>3
  <2>13. QED
    BY <1>1, <1>2, <1>4, <2>7, <2>9, <2>10, <2>12 DEF Passed
<1>5. QED
  BY <1>3, <1>4
-----------------------------------------------------------------------------
(* What the operations leave of a bucket, field by field. *)
Same(c, d) ==
  /\ d.used = c.used /\ d.key = c.key /\ d.seen = c.seen
  /\ d.front = c.front /\ d.back = c.back


LEMMA LinkFields ==
  ASSUME NEW c, OwnData(c), NEW prev \in Addr \cup {Nil}, NEW a \in Addr \cup {Nil}
  PROVE  LET d == Link(c, prev, a) IN
         /\ Same(c, d) /\ d.data = c.data
         /\ prev = Nil => d.first = a /\ d.mem = c.mem
         /\ prev # Nil => /\ d.first = c.first
                          /\ Relinked(d.mem[prev], c.mem[prev], a)
                          /\ \A x \in Addr \ {prev} : d.mem[x] = c.mem[x]
<1>1. CASE prev = Nil
  BY <1>1 DEF Link, OwnData, BucketType, Same
<1>2. CASE prev # Nil
  <2> DEFINE mem == [c.mem EXCEPT ![prev].next = a]
  <2>1. c.mem \in [Addr -> HoleType] /\ prev \in Addr
    BY <1>2 DEF OwnData, BucketType
  <2>2. /\ Relinked(mem[prev], c.mem[prev], a)
        /\ \A x \in Addr \ {prev} : mem[x] = c.mem[x]
    BY <2>1 DEF Relinked, HoleType
  <2>3. [c EXCEPT !.mem[prev].next = a] = [c EXCEPT !.mem = mem]
    BY DEF OwnData, BucketType
  <2> HIDE DEF mem
  <2>4. LET d == [c EXCEPT !.mem = mem] IN
        Same(c, d) /\ d.data = c.data /\ d.first = c.first /\ d.mem = mem
    BY DEF OwnData, BucketType, Same
  <2>5. Link(c, prev, a) = [c EXCEPT !.mem = mem]
    BY <1>2, <2>3 DEF Link
  <2>6. QED
    BY <1>2, <2>2, <2>4, <2>5
<1>3. QED
  BY <1>1, <1>2

(* The hole after prev, and the place of the fragment itself, are apart. *)
LEMMA InsertFields ==
  ASSUME NEW c, OwnData(c), NEW h \in HoleType, NEW prev \in Addr \cup {Nil},
         NEW f \in Fragments, End(f) < h.end, prev # Address(End(f) + 1)
  PROVE  LET d  == Insert(c, h, prev, f)
             at == Address(End(f) + 1)
             next == IF prev = Nil THEN c.first ELSE c.mem[prev].next
         IN  /\ Same(c, d) /\ d.data = Put(c.data, at, Nil)
             /\ d.mem[at] = [next |-> next, start |-> End(f) + 1, end |-> h.end]
             /\ prev = Nil => d.first = at /\ \A x \in Addr \ {at} : d.mem[x] = c.mem[x]
             /\ prev # Nil => /\ d.first = c.first
                              /\ Relinked(d.mem[prev], c.mem[prev], at)
                              /\ \A x \in Addr \ {at, prev} : d.mem[x] = c.mem[x]
<1> DEFINE at == Address(End(f) + 1)
           next == IF prev = Nil THEN c.first ELSE c.mem[prev].next
           hole == [next |-> next, start |-> End(f) + 1, end |-> h.end]
           mem == [c.mem EXCEPT ![at] = hole]
           data == Put(c.data, at, Nil)
           d == [c EXCEPT !.mem[at] = hole, !.data = Put(@, at, Nil)]
           e == Insert(c, h, prev, f)
<1> USE Ip4FragAssumption
<1>1. at \in Addr /\ End(f) \in 0 .. MaxSize /\ prev # at
  BY FragmentLemma
<1>2. /\ c.mem \in [Addr -> HoleType]
      /\ c.first \in Addr \cup {Nil}
  BY DEF OwnData, BucketType
<1>3. next \in Addr \cup {Nil}
  BY <1>2 DEF HoleType
<1>4. End(f) + 1 \in 0 .. MaxSize /\ h.end \in -1 .. MaxSize
  BY <1>1 DEF HoleType
<1> HIDE DEF next
<1>5. hole \in HoleType
  BY <1>3, <1>4 DEF HoleType
<1>6. e = Link(d, prev, at)
  BY Zenon DEF Insert, Link, SplitBehind, next
<1> HIDE DEF hole, at, e
<1>7. mem \in [Addr -> HoleType] /\ mem[at] = hole /\ \A x \in Addr \ {at} : mem[x] = c.mem[x]
  BY <1>1, <1>2, <1>5
<1>8. d = [c EXCEPT !.mem = mem, !.data = Put(@, at, Nil)]
  BY Zenon DEF OwnData, BucketType
<1>9. d = [c EXCEPT !.mem = mem, !.data = data]
  BY <1>8, Zenon
<1> HIDE DEF mem, d
<1>10. OwnData(d)
  BY <1>7, <1>8, DataLemma DEF Kept
<1> HIDE DEF data
<1>11. Same(c, d) /\ d.mem = mem /\ d.first = c.first /\ d.data = data
  BY <1>9 DEF OwnData, BucketType, Same
<1>12. /\ Same(d, e) /\ e.data = d.data
       /\ prev = Nil => e.first = at /\ e.mem = d.mem
       /\ prev # Nil => /\ e.first = d.first
                        /\ Relinked(e.mem[prev], d.mem[prev], at)
                        /\ \A x \in Addr \ {prev} : e.mem[x] = d.mem[x]
  <2>1. prev \in Addr \cup {Nil} /\ at \in Addr \cup {Nil}
    BY <1>1
  <2>2. QED
    BY <1>6, <1>10, <2>1, LinkFields
<1>13. Same(c, e) /\ e.data = data
  BY <1>11, <1>12 DEF Same
<1>14. e.mem[at] = hole
  BY <1>1, <1>7, <1>11, <1>12
<1>15. prev = Nil => e.first = at /\ \A x \in Addr \ {at} : e.mem[x] = c.mem[x]
  BY <1>7, <1>11, <1>12
<1>16. prev # Nil => /\ e.first = c.first
                     /\ Relinked(e.mem[prev], c.mem[prev], at)
                     /\ \A x \in Addr \ {at, prev} : e.mem[x] = c.mem[x]
  BY <1>1, <1>7, <1>11, <1>12
<1>17. QED
  BY <1>13, <1>14, <1>15, <1>16, Zenon DEF e, at, hole, next, data
-----------------------------------------------------------------------------
(* The four kinds of turn, at hole a. *)
Found(f, h) == Start(f) <= h.end /\ End(f) >= h.start

LEMMA StuckLemma ==
  ASSUME NEW c, NEW f \in Fragments, NEW a, NEW prev, Stuck(c.mem, f.no, a, prev)
  PROVE  ~Found(f, c.mem[a]) /\ c.mem[a].next = a /\ prev = a
<1> USE Ip4FragAssumption
<1>1. f.no \in Nat
  BY FragmentLemma DEF Index
<1>2. f.no * Unit \in Nat /\ (f.no + 1) * Unit = f.no * Unit + Unit
  BY <1>1, MultipleLemma
<1>3. c.mem[a].start = (f.no + 1) * Unit + 1 /\ End(f) = f.no * Unit + Unit
  BY DEF Stuck, End, Start
<1>4. ~(End(f) >= c.mem[a].start)
  BY <1>2, <1>3
<1>5. QED
  BY <1>4 DEF Found, Stuck

LEMMA StayHoles ==
  ASSUME NEW c, OwnData(c), NEW f \in Fragments, NEW a \in Addr, NEW prev \in Addr \cup {Nil},
         LoopOk(c, f.no, a, prev), ~Found(f, c.mem[a])
  PROVE  LoopOk(c, f.no, c.mem[a].next, a)
<1>1. CASE Stuck(c.mem, f.no, a, prev)
  <2>1. c.mem[a].next = a /\ prev = a
    BY <1>1, StuckLemma
  <2>2. Stuck(c.mem, f.no, c.mem[a].next, a)
    BY <1>1, <2>1
  <2>3. QED
    BY <2>2 DEF LoopOk
<1>2. ASSUME ListOk(c.mem, c.first), NEW P \in SUBSET Addr,
             Passed(c.mem, c.first, f.no, a, prev, P)
      PROVE  LoopOk(c, f.no, c.mem[a].next, a)
  <2>1. c.mem \in [Addr -> HoleType] /\ f.no \in Index
    BY FragmentLemma DEF OwnData, BucketType
  <2>2. HoleOk(a, c.mem[a])
    BY <1>2, <2>1, HandLemma
  <2>3. c.mem[a] \in HoleType
    BY <2>1
  <2>4. a # f.no
    BY <2>2, <2>3, FoundLemma DEF Found
  <2>5. P \cup {a} \in SUBSET Addr
    OBVIOUS
  <2>6. Passed(c.mem, c.first, f.no, c.mem[a].next, a, P \cup {a})
    BY <1>2, <2>1, <2>2, <2>4, KeepLemma
  <2>7. QED
    BY <1>2, <2>5, <2>6 DEF LoopOk
<1>3. QED
  BY <1>1, <1>2 DEF LoopOk

LEMMA ShortenHoles ==
  ASSUME NEW c, OwnData(c), NEW f \in Fragments, NEW a \in Addr, NEW prev \in Addr \cup {Nil},
         LoopOk(c, f.no, a, prev), Found(f, c.mem[a]), Start(f) > c.mem[a].start,
         NEW d, d.first = c.first, d.mem = [c.mem EXCEPT ![a].end = ShortenBefore(f)]
  PROVE  LoopOk(d, f.no, d.mem[a].next, a)
<1> USE Ip4FragAssumption
<1>1. PICK P \in SUBSET Addr :
        ListOk(c.mem, c.first) /\ Passed(c.mem, c.first, f.no, a, prev, P)
  BY StuckLemma DEF LoopOk
<1>2. c.mem \in [Addr -> HoleType] /\ f.no \in Index
  BY FragmentLemma DEF OwnData, BucketType
<1>3. HoleOk(a, c.mem[a]) /\ c.mem[a] \in HoleType /\ a # Nil
  BY <1>1, <1>2, HandLemma
<1>4. a < f.no /\ Start(f) = f.no * Unit /\ a \in Nat /\ f.no \in Nat
  BY <1>3, FoundLemma DEF Addr
<1>5. ShortenBefore(f) \in -1 .. MaxSize
  BY FragmentLemma DEF ShortenBefore
<1>6. /\ d.mem \in [Addr -> HoleType]
      /\ d.mem[a].next = c.mem[a].next /\ d.mem[a].start = c.mem[a].start
      /\ d.mem[a].end = f.no * Unit - 1
      /\ \A x \in Addr \ {a} : d.mem[x] = c.mem[x]
  BY <1>2, <1>4, <1>5 DEF HoleType, ShortenBefore
<1>7. HoleOk(a, d.mem[a])
  BY <1>2, <1>3, <1>4, <1>6 DEF HoleOk
<1>8. /\ ListOk(d.mem, c.first)
      /\ Passed(d.mem, c.first, f.no, d.mem[a].next, a, P \cup {a})
  <2> DEFINE m == d.mem
             mem == c.mem
             first == c.first
             no == f.no
  <2>1. /\ mem \in [Addr -> HoleType] /\ no \in Index /\ a # no
        /\ ListOk(mem, first) /\ Passed(mem, first, no, a, prev, P)
        /\ m \in [Addr -> HoleType] /\ HoleOk(a, m[a])
        /\ \A x \in Addr \ {a} : m[x] = mem[x]
        /\ m[a].next = mem[a].next
    BY <1>1, <1>2, <1>4, <1>6, <1>7
  <2> HIDE DEF m, mem, first, no
  <2>2. ListOk(m, first) /\ Passed(m, first, no, m[a].next, a, P \cup {a})
    BY <2>1, KeepLemma
  <2>3. QED
    BY <2>2 DEF m, mem, first, no
<1>9. QED
  BY <1>8 DEF LoopOk

LEMMA DropHoles ==
  ASSUME NEW c, OwnData(c), NEW f \in Fragments, NEW a \in Addr, NEW prev \in Addr \cup {Nil},
         LoopOk(c, f.no, a, prev), Found(f, c.mem[a]),
         Start(f) <= c.mem[a].start, End(f) >= c.mem[a].end,
         NEW d, d = Unlink(c, c.mem[a], prev)
  PROVE  LoopOk(d, f.no, d.mem[a].next, a)
<1> USE Ip4FragAssumption
<1>1. PICK P \in SUBSET Addr :
        ListOk(c.mem, c.first) /\ Passed(c.mem, c.first, f.no, a, prev, P)
  BY StuckLemma DEF LoopOk
<1>2. c.mem \in [Addr -> HoleType] /\ f.no \in Index
  BY FragmentLemma DEF OwnData, BucketType
<1>3. HoleOk(a, c.mem[a]) /\ c.mem[a] \in HoleType
  BY <1>1, <1>2, HandLemma
<1>4. a = f.no
  BY <1>3, FoundLemma DEF Found
<1>5. c.mem[a].next \in Addr \cup {Nil}
  BY <1>3 DEF HoleType
<1>6. d = Link(c, prev, c.mem[a].next)
  BY Zenon DEF Unlink, Link
<1>7. OwnData(d)
  BY <1>5, <1>6, LinkLemma DEF Kept
<1>8. /\ prev = Nil => d.first = c.mem[a].next /\ d.mem = c.mem
      /\ prev # Nil => /\ d.first = c.first
                       /\ Relinked(d.mem[prev], c.mem[prev], c.mem[a].next)
                       /\ \A x \in Addr \ {prev} : d.mem[x] = c.mem[x]
  <2> DEFINE next == c.mem[a].next
  <2> HIDE DEF next
  <2>1. next \in Addr \cup {Nil} /\ d = Link(c, prev, next)
    BY <1>5, <1>6 DEF next
  <2>2. /\ prev = Nil => d.first = next /\ d.mem = c.mem
        /\ prev # Nil => /\ d.first = c.first
                         /\ Relinked(d.mem[prev], c.mem[prev], next)
                         /\ \A x \in Addr \ {prev} : d.mem[x] = c.mem[x]
    BY <2>1, LinkFields
  <2>3. QED
    BY <2>2 DEF next
<1>9. d.mem \in [Addr -> HoleType]
  BY <1>7 DEF OwnData, BucketType
<1>10. /\ ListOk(d.mem, d.first)
       /\ Passed(d.mem, d.first, f.no, d.mem[a].next, a, P)
  <2> DEFINE m == d.mem
             mem == c.mem
             no == f.no
             top == d.first
             first == c.first
  <2>1. /\ mem \in [Addr -> HoleType] /\ no \in Index /\ a = no
        /\ ListOk(mem, first) /\ Passed(mem, first, no, a, prev, P)
        /\ m \in [Addr -> HoleType]
    BY <1>1, <1>2, <1>4, <1>9
  <2>2. /\ prev = Nil => m = mem /\ top = mem[a].next
        /\ prev # Nil => /\ top = first /\ Relinked(m[prev], mem[prev], mem[a].next)
                         /\ \A x \in Addr \ {prev} : m[x] = mem[x]
    BY <1>8
  <2> HIDE DEF m, mem, first, no, top
  <2>3. ListOk(m, top) /\ Passed(m, top, no, m[a].next, a, P)
    BY <2>1, <2>2, DropLemma
  <2>4. QED
    BY <2>3 DEF m, mem, first, no, top
<1>11. QED
  BY <1>10 DEF LoopOk

LEMMA SplitHoles ==
  ASSUME NEW c, OwnData(c), NEW f \in Fragments, NEW a \in Addr, NEW prev \in Addr \cup {Nil},
         LoopOk(c, f.no, a, prev), Found(f, c.mem[a]),
         Start(f) <= c.mem[a].start, End(f) < c.mem[a].end,
         NEW d, d = Insert(Unlink(c, c.mem[a], prev), c.mem[a], prev, f),
         NEW at, at = Address(End(f) + 1)
  PROVE  LoopOk(d, f.no, d.mem[at].next, at)
<1> USE Ip4FragAssumption
<1> DEFINE u == Unlink(c, c.mem[a], prev)
<1>1. PICK P \in SUBSET Addr :
        ListOk(c.mem, c.first) /\ Passed(c.mem, c.first, f.no, a, prev, P)
  BY StuckLemma DEF LoopOk
<1>2. c.mem \in [Addr -> HoleType] /\ f.no \in Index
  BY FragmentLemma DEF OwnData, BucketType
<1>3. /\ HoleOk(a, c.mem[a]) /\ c.mem[a] \in HoleType /\ a \in Nat
      /\ prev # Nil => prev \in Addr /\ prev < a
  BY <1>1, <1>2, HandLemma
<1>4. /\ a \in {f.no, f.no + 1} /\ f.no \in Nat /\ f.no + 1 \in Addr
      /\ End(f) = (f.no + 1) * Unit
      /\ c.mem[a].end # MaxSize => \E k \in Index : f.no + 1 < k /\ c.mem[a].end = k * Unit - 1
  BY <1>3, FoundLemma DEF Found
<1>5. at = f.no + 1 /\ at \in Addr
  <2>1. f.no + 1 \in 0 .. Pieces
    BY <1>4 DEF Addr
  <2>2. QED
    BY <1>4, <2>1, OffsetLemma
<1>6. prev # at
  <2>1. Addr \subseteq Nat /\ at # Nil
    BY <1>4, <1>5 DEF Addr
  <2>2. prev # Nil => prev \in Nat /\ prev < a /\ a <= at
    BY <1>3, <1>4, <1>5, <2>1
  <2>3. QED
    BY <1>3, <1>5, <2>1, <2>2
<1>7. c.mem[a].next \in Addr \cup {Nil}
  BY <1>3 DEF HoleType
<1>8. u = Link(c, prev, c.mem[a].next)
  BY Zenon DEF Unlink, Link
<1> HIDE DEF u
<1>9. OwnData(u)
  BY <1>7, <1>8, LinkLemma DEF Kept
<1>10. /\ prev = Nil => u.first = c.mem[a].next /\ u.mem = c.mem
       /\ prev # Nil => /\ u.first = c.first
                        /\ Relinked(u.mem[prev], c.mem[prev], c.mem[a].next)
                        /\ \A x \in Addr \ {prev} : u.mem[x] = c.mem[x]
  BY <1>7, <1>8, LinkFields
<1>11. d = Insert(u, c.mem[a], prev, f)
  BY DEF u
<1> DEFINE h == c.mem[a]
<1>12. h \in HoleType /\ End(f) < h.end /\ d = Insert(u, h, prev, f) /\ at = Address(End(f) + 1)
  BY <1>3, <1>11
<1> HIDE DEF h
<1>13. OwnData(d)
  <2>1. Kept(u, d)
    BY <1>9, <1>12, InsertLemma
  <2>2. QED
    BY <2>1 DEF Kept
<1>14. d.mem \in [Addr -> HoleType]
  BY <1>13 DEF OwnData, BucketType
<1>15. /\ d.mem[at] = [next |-> IF prev = Nil THEN u.first ELSE u.mem[prev].next,
                       start |-> End(f) + 1, end |-> h.end]
       /\ prev = Nil => d.first = at /\ \A x \in Addr \ {at} : d.mem[x] = u.mem[x]
       /\ prev # Nil => /\ d.first = u.first
                        /\ Relinked(d.mem[prev], u.mem[prev], at)
                        /\ \A x \in Addr \ {at, prev} : d.mem[x] = u.mem[x]
  BY <1>6, <1>9, <1>12, InsertFields
<1> USE DEF h
<1>16. d.mem[at] = [next |-> c.mem[a].next, start |-> at * Unit + 1, end |-> c.mem[a].end]
  <2>1. End(f) + 1 = at * Unit + 1
    BY <1>4, <1>5
  <2>2. prev # Nil => u.mem[prev].next = c.mem[a].next
    BY <1>10 DEF Relinked
  <2>3. QED
    BY <1>10, <1>15, <2>1, <2>2
<1>17. prev = Nil => d.first = at /\ \A x \in Addr \ {at} : d.mem[x] = c.mem[x]
  BY <1>10, <1>15
<1>18. prev # Nil => /\ d.first = c.first
                     /\ Relinked(d.mem[prev], c.mem[prev], at)
                     /\ \A x \in Addr \ {at, prev} : d.mem[x] = c.mem[x]
  BY <1>10, <1>15 DEF Relinked
<1>19. IF c.mem[a].next = at THEN Stuck(d.mem, f.no, d.mem[at].next, at)
       ELSE ListOk(d.mem, d.first) /\ Passed(d.mem, d.first, f.no, d.mem[at].next, at, P \cup {at})
  <2>1. GoesOn(f.no, a, at, c.mem[a])
    BY <1>4, <1>5 DEF GoesOn
  <2>2. QED
    <3> DEFINE m == d.mem
               mem == c.mem
               no == f.no
               top == d.first
               first == c.first
    <3>1. /\ mem \in [Addr -> HoleType] /\ no \in Index
          /\ ListOk(mem, first) /\ Passed(mem, first, no, a, prev, P)
          /\ m \in [Addr -> HoleType] /\ at \in Addr /\ GoesOn(no, a, at, mem[a])
      BY <1>1, <1>2, <1>4, <1>5, <1>14, <2>1
    <3>2. SplitOff(m, mem, top, first, a, prev, at)
      BY <1>16, <1>17, <1>18 DEF SplitOff
    <3> HIDE DEF m, mem, first, no, top
    <3>3. IF mem[a].next = at THEN Stuck(m, no, m[at].next, at)
          ELSE ListOk(m, top) /\ Passed(m, top, no, m[at].next, at, P \cup {at})
      <4>1. a \in Addr /\ prev \in Addr \cup {Nil} /\ P \in SUBSET Addr
        OBVIOUS
      <4>2. QED
        BY ONLY <3>1, <3>2, <4>1, SplitLemma
    <3>4. QED
      BY <3>3 DEF m, mem, first, no, top
<1>20. QED
  <2>1. P \cup {at} \in SUBSET Addr
    BY <1>5
  <2>2. QED
    BY <1>19, <2>1 DEF LoopOk

LEMMA EmptyHoles == ListOk(Empty.mem, Empty.first)
BY DEF ListOk, Empty, NoHole

LEMMA InitHoles == Init => HolesInv
<1> SUFFICES ASSUME Init PROVE HolesInv
  OBVIOUS
<1>1. walk.b = Nil /\ \A b \in Buckets : bucket[b] = Empty
  BY DEF Init, NoWalk
<1>2. QED
  BY <1>1, EmptyHoles DEF HolesInv

LEMMA SetUpHoles ==
  ASSUME NEW c, OwnData(c), ~c.used, NEW f \in Fragments
  PROVE  ListOk(SetUp(c, f).mem, SetUp(c, f).first)
<1> USE Ip4FragAssumption
<1> DEFINE d == SetUp(c, f)
           mem == d.mem
           no == f.no
<1>1. /\ no \in Index /\ no \in Nat /\ 0 \in Addr /\ 1 \in Addr /\ Addr \subseteq Nat
      /\ 0 * Unit = 0 /\ 1 * Unit = Unit
  BY FragmentLemma DEF Index, Addr
<1>2. /\ d.first = IF no > 0 THEN 0 ELSE 1
      /\ mem[0] = IF no > 0 THEN [next |-> IF no # Pieces - 1 THEN 1 ELSE Nil,
                                  start |-> 0, end |-> no * Unit - 1]
                  ELSE NoHole
      /\ mem[1] = IF no # Pieces - 1 THEN [next |-> Nil, start |-> Unit, end |-> MaxSize]
                  ELSE NoHole
      /\ \A a \in Addr \ {0, 1} : mem[a] = NoHole
      /\ mem \in [Addr -> HoleType]
  BY SetUpLemma DEF OwnData, BucketType
<1> HIDE DEF d, mem, no
<1>3. no > 0 => HoleOk(0, mem[0])
  <2>1. ASSUME no > 0 PROVE HoleOk(0, mem[0])
    <3>1. mem[0].start = 0 /\ mem[0].end = no * Unit - 1 /\ mem[0].next \in {1, Nil}
      BY <1>2, <2>1
    <3>2. QED
      BY <1>1, <2>1, <3>1 DEF HoleOk
  <2>2. QED
    BY <2>1
<1>4. no # Pieces - 1 => HoleOk(1, mem[1]) /\ mem[1].next = Nil
  BY <1>1, <1>2 DEF HoleOk
<1>5. (no > 0 => mem[0] # NoHole) /\ (no # Pieces - 1 => mem[1] # NoHole)
  BY <1>1, <1>2, <1>3, <1>4, HoleLemma
<1>6. no = 0 => no # Pieces - 1
  OBVIOUS
<1>7. \A a \in Addr : mem[a] = NoHole \/ HoleOk(a, mem[a])
  BY <1>1, <1>2, <1>3, <1>4
<1>8. \A a \in Addr : mem[a].next # Nil => mem[a].next = 1 /\ no # Pieces - 1
  BY <1>1, <1>2 DEF NoHole
<1>9. d.first # Nil => mem[d.first] # NoHole
  BY <1>1, <1>2, <1>5, <1>6
<1>10. ListOk(mem, d.first)
  BY <1>5, <1>7, <1>8, <1>9 DEF ListOk
<1>11. QED
  BY <1>10 DEF mem, d

LEMMA FirstHoles ==
  ASSUME BaseInv, HolesInv, NEW f \in Fragments, FirstOfChain(f)
  PROVE  HolesInv'
<1> DEFINE b == Lowest(Vacant)
           d == SetUp(bucket[b], f)
<1>1. b \in Buckets /\ ~bucket[b].used
  BY LowestLemma DEF FirstOfChain, Vacant
<1>2. bucket' = [bucket EXCEPT ![b] = d] /\ walk' = walk /\ walk.b = Nil
  BY DEF FirstOfChain, Idle
<1> HIDE DEF b
<1>3. OwnData(bucket[b])
  BY <1>1 DEF BaseInv
<1>4. ListOk(d.mem, d.first)
  BY <1>1, <1>3, SetUpHoles
<1> HIDE DEF d
<1>5. \A e \in Buckets : bucket'[e] = bucket[e] \/ bucket'[e] = d
  BY <1>1, <1>2 DEF BaseInv
<1>6. \A e \in Buckets : ListOk(bucket'[e].mem, bucket'[e].first)
  BY <1>2, <1>4, <1>5, Ip4FragAssumption DEF HolesInv
<1>7. QED
  BY <1>2, <1>6 DEF HolesInv

LEMMA NextHoles ==
  ASSUME BaseInv, HolesInv, NEW f \in Fragments, NextOfChain(f)
  PROVE  HolesInv'
<1> DEFINE b == Lowest(Matching(f.key))
           c == bucket[b]
           d == See(c, f)
<1>1. b \in Buckets /\ walk.b = Nil /\ b # Nil
  BY LowestLemma, Ip4FragAssumption DEF NextOfChain, Matching, Idle
<1>2. /\ bucket' = [bucket EXCEPT ![b] = d]
      /\ walk' = [NoWalk EXCEPT !.b = b, !.frag = f, !.hole = c.first]
  BY DEF NextOfChain
<1> HIDE DEF b
<1>3. OwnData(c) /\ ListOk(c.mem, c.first)
  BY <1>1, Ip4FragAssumption DEF BaseInv, HolesInv
<1>4. d.mem = c.mem /\ d.first = c.first
  BY <1>3, SeeFields
<1>5. walk'.b = b /\ walk'.frag = f /\ walk'.hole = c.first /\ walk'.prev = Nil
  BY <1>2 DEF NoWalk
<1>6. LoopOk(d, f.no, c.first, Nil)
  <2>1. Passed(d.mem, d.first, f.no, c.first, Nil, {})
    BY <1>4 DEF Passed
  <2>2. {} \in SUBSET Addr
    OBVIOUS
  <2>3. QED
    BY <1>3, <1>4, <2>1, <2>2 DEF LoopOk
<1> HIDE DEF c, d
<1>7. bucket'[b] = d /\ \A e \in Buckets \ {b} : bucket'[e] = bucket[e]
  BY <1>1, <1>2 DEF BaseInv
<1>8. \A e \in Buckets \ {b} : ListOk(bucket[e].mem, bucket[e].first)
  BY <1>1, Ip4FragAssumption DEF HolesInv
<1>9. QED
  BY <1>1, <1>5, <1>6, <1>7, <1>8 DEF HolesInv

(* One turn at hole a makes d of bucket c, and goes on after at. *)
TurnTo(c, f, a, prev, d, at) ==
  LET h == c.mem[a] IN
  \/ ~Found(f, h) /\ d = c /\ at = a
  \/ /\ Found(f, h) /\ Start(f) > h.start
     /\ d = [c EXCEPT !.mem[a].end = ShortenBefore(f)] /\ at = a
  \/ /\ Found(f, h) /\ Start(f) <= h.start /\ End(f) >= h.end
     /\ d = Unlink(c, h, prev) /\ at = a
  \/ /\ Found(f, h) /\ Start(f) <= h.start /\ End(f) < h.end
     /\ d = Insert(Unlink(c, h, prev), h, prev, f) /\ at = Address(End(f) + 1)

LEMMA TurnLemma ==
  ASSUME BaseInv, Turn
  PROVE  /\ walk.b \in Buckets /\ walk.b # Nil /\ walk.frag \in Fragments
         /\ OwnData(bucket[walk.b]) /\ walk.hole \in Addr /\ walk.prev \in Addr \cup {Nil}
         /\ bucket[walk.b].used /\ bucket[walk.b].key = walk.frag.key
         /\ \E d, at :
              /\ TurnTo(bucket[walk.b], walk.frag, walk.hole, walk.prev, d, at)
              /\ bucket'[walk.b] = d
              /\ \A e \in Buckets \ {walk.b} : bucket'[e] = bucket[e]
              /\ walk'.b = walk.b /\ walk'.frag = walk.frag
              /\ walk'.prev = at /\ walk'.hole = d.mem[at].next
              /\ walk'.got = (walk.got \/ Found(walk.frag, bucket[walk.b].mem[walk.hole]))
<1> DEFINE b     == walk.b
           c     == bucket[b]
           f     == walk.frag
           h     == c.mem[walk.hole]
           found == Start(f) <= h.end /\ End(f) >= h.start
           unlinked == Unlink(c, h, walk.prev)
           Moved(d, at) ==
             /\ bucket' = [bucket EXCEPT ![b] = d]
             /\ walk' = [walk EXCEPT !.prev = at, !.hole = d.mem[at].next, !.got = @ \/ found]
           Goal(d, at) ==
             /\ TurnTo(c, f, walk.hole, walk.prev, d, at)
             /\ bucket'[b] = d /\ \A e \in Buckets \ {b} : bucket'[e] = bucket[e]
             /\ walk'.b = b /\ walk'.frag = f
             /\ walk'.prev = at /\ walk'.hole = d.mem[at].next
             /\ walk'.got = (walk.got \/ Found(f, h))
<1>1. /\ b \in Buckets /\ b # Nil /\ f \in Fragments /\ OwnData(c)
      /\ c.used /\ c.key = f.key /\ walk.hole \in Addr
      /\ walk.prev \in Addr \cup {Nil}
  BY DEF Turn, Idle, BaseInv, WalkInv
<1>2. found <=> Found(f, h)
  BY DEF Found
<1>3. ASSUME NEW d, NEW at, Moved(d, at), TurnTo(c, f, walk.hole, walk.prev, d, at)
      PROVE  \E x, y : Goal(x, y)
  <2>1. bucket'[b] = d /\ \A e \in Buckets \ {b} : bucket'[e] = bucket[e]
    BY <1>1, <1>3 DEF BaseInv
  <2>2. /\ walk'.b = b /\ walk'.frag = f
        /\ walk'.prev = at /\ walk'.hole = d.mem[at].next
        /\ walk'.got = (walk.got \/ found)
    <3> HIDE DEF found
    <3> DEFINE hole == d.mem[at].next
               got == walk.got \/ found
    <3>1. walk' = [walk EXCEPT !.prev = at, !.hole = hole, !.got = got]
      BY <1>3
    <3> HIDE DEF hole, got
    <3>2. walk'.b = b /\ walk'.frag = f /\ walk'.prev = at /\ walk'.hole = hole /\ walk'.got = got
      BY <3>1 DEF BaseInv, WalkInv
    <3>3. QED
      BY <3>2 DEF hole, got
  <2> HIDE DEF found
  <2>3. Goal(d, at)
    BY <1>2, <1>3, <2>1, <2>2
  <2>4. QED
    BY <2>3
<1> SUFFICES \E x, y : Goal(x, y)
  BY <1>1
<1> HIDE DEF Goal
<1>4. CASE ~found /\ Moved(c, walk.hole)
  <2> HIDE DEF Moved
  <2>1. TurnTo(c, f, walk.hole, walk.prev, c, walk.hole)
    BY <1>2, <1>4 DEF TurnTo
  <2>2. QED
    BY <1>3, <1>4, <2>1
<1>5. CASE found /\ Start(f) > h.start
           /\ Moved([c EXCEPT !.mem[walk.hole].end = ShortenBefore(f)], walk.hole)
  <2> DEFINE d == [c EXCEPT !.mem[walk.hole].end = ShortenBefore(f)]
  <2> HIDE DEF Moved
  <2>1. TurnTo(c, f, walk.hole, walk.prev, d, walk.hole)
    BY <1>2, <1>5 DEF TurnTo
  <2>2. Moved(d, walk.hole)
    BY <1>5
  <2> HIDE DEF d
  <2>3. QED
    BY <1>3, <2>1, <2>2
<1>6. CASE found /\ Start(f) <= h.start /\ End(f) >= h.end /\ Moved(unlinked, walk.hole)
  <2> HIDE DEF Moved
  <2>1. TurnTo(c, f, walk.hole, walk.prev, unlinked, walk.hole)
    BY <1>2, <1>6 DEF TurnTo
  <2>2. Moved(unlinked, walk.hole)
    BY <1>6
  <2> HIDE DEF unlinked
  <2>3. QED
    BY <1>3, <2>1, <2>2
<1>7. CASE found /\ Start(f) <= h.start /\ End(f) < h.end
           /\ Moved(Insert(unlinked, h, walk.prev, f), Address(End(f) + 1))
  <2> DEFINE d == Insert(unlinked, h, walk.prev, f)
             at == Address(End(f) + 1)
  <2> HIDE DEF Moved
  <2>1. TurnTo(c, f, walk.hole, walk.prev, d, at)
    BY <1>2, <1>7 DEF TurnTo
  <2>2. Moved(d, at)
    BY <1>7
  <2> HIDE DEF d, at
  <2>3. QED
    BY <1>3, <2>1, <2>2
<1>8. QED
  BY <1>4, <1>5, <1>6, <1>7 DEF Turn

LEMMA TurnToHoles ==
  ASSUME NEW c, OwnData(c), NEW f \in Fragments, NEW a \in Addr, NEW prev \in Addr \cup {Nil},
         LoopOk(c, f.no, a, prev), NEW d, NEW at, TurnTo(c, f, a, prev, d, at)
  PROVE  LoopOk(d, f.no, d.mem[at].next, at)
<1>1. CASE ~Found(f, c.mem[a]) /\ d = c /\ at = a
  BY <1>1, StayHoles
<1>2. CASE /\ Found(f, c.mem[a]) /\ Start(f) > c.mem[a].start
           /\ d = [c EXCEPT !.mem[a].end = ShortenBefore(f)] /\ at = a
  <2>1. d.first = c.first /\ d.mem = [c.mem EXCEPT ![a].end = ShortenBefore(f)]
    BY <1>2 DEF OwnData, BucketType
  <2>2. Found(f, c.mem[a]) /\ Start(f) > c.mem[a].start /\ at = a
    BY <1>2
  <2>3. LoopOk(d, f.no, d.mem[a].next, a)
    BY <2>1, <2>2, ShortenHoles
  <2>4. QED
    BY <2>2, <2>3
<1>3. CASE /\ Found(f, c.mem[a]) /\ Start(f) <= c.mem[a].start /\ End(f) >= c.mem[a].end
           /\ d = Unlink(c, c.mem[a], prev) /\ at = a
  BY <1>3, DropHoles
<1>4. CASE /\ Found(f, c.mem[a]) /\ Start(f) <= c.mem[a].start /\ End(f) < c.mem[a].end
           /\ d = Insert(Unlink(c, c.mem[a], prev), c.mem[a], prev, f)
           /\ at = Address(End(f) + 1)
  BY <1>4, SplitHoles
<1>5. QED
  BY <1>1, <1>2, <1>3, <1>4 DEF TurnTo

LEMMA TurnHoles ==
  ASSUME BaseInv, HolesInv, Turn
  PROVE  HolesInv'
<1>1. PICK d, at :
        /\ TurnTo(bucket[walk.b], walk.frag, walk.hole, walk.prev, d, at)
        /\ bucket'[walk.b] = d /\ \A e \in Buckets \ {walk.b} : bucket'[e] = bucket[e]
        /\ walk'.b = walk.b /\ walk'.frag = walk.frag
        /\ walk'.prev = at /\ walk'.hole = d.mem[at].next
  BY TurnLemma
<1>2. /\ walk.b \in Buckets /\ walk.b # Nil /\ walk.frag \in Fragments
      /\ OwnData(bucket[walk.b]) /\ walk.hole \in Addr /\ walk.prev \in Addr \cup {Nil}
  BY TurnLemma
<1>3. LoopOk(bucket[walk.b], walk.frag.no, walk.hole, walk.prev)
  BY <1>2 DEF HolesInv
<1>4. LoopOk(d, walk.frag.no, d.mem[at].next, at)
  BY <1>1, <1>2, <1>3, TurnToHoles
<1>5. QED
  BY <1>1, <1>2, <1>4 DEF HolesInv
-----------------------------------------------------------------------------
(* The list, by its definition as the least set that is closed. *)
LEMMA LinkedLemma ==
  ASSUME NEW c, OwnData(c)
  PROVE  /\ Linked(c) \subseteq Addr /\ c.first \in Linked(c) \cup {Nil}
         /\ \A a \in Linked(c) : c.mem[a].next \in Linked(c) \cup {Nil}
         /\ \A S \in SUBSET Addr :
              c.first \in S \cup {Nil} /\ (\A a \in S : c.mem[a].next \in S \cup {Nil})
                => Linked(c) \subseteq S
<1> DEFINE Closed == {S \in SUBSET Addr : /\ c.first \in S \cup {Nil}
                                          /\ \A a \in S : c.mem[a].next \in S \cup {Nil}}
<1>1. Linked(c) = {a \in Addr : \A S \in Closed : a \in S}
  BY DEF Linked
<1>2. c.first \in Addr \cup {Nil} /\ \A a \in Addr : c.mem[a].next \in Addr \cup {Nil}
  BY DEF OwnData, BucketType, HoleType
<1>3. c.first \in Linked(c) \cup {Nil}
  BY <1>1, <1>2
<1>4. ASSUME NEW a \in Linked(c) PROVE c.mem[a].next \in Linked(c) \cup {Nil}
  BY <1>1, <1>2, <1>4
<1>5. \A S \in Closed : Linked(c) \subseteq S
  BY <1>1
<1>6. QED
  BY <1>1, <1>3, <1>4, <1>5

LEMMA FinishHoles ==
  ASSUME BaseInv, HolesInv, Finish
  PROVE  HolesInv'
<1> DEFINE b    == walk.b
           c    == bucket[b]
           mem  == [a \in Addr |-> IF a \in Linked(c) THEN c.mem[a] ELSE NoHole]
           data == IF walk.got THEN Put(c.data, walk.frag.no, walk.frag.key) ELSE c.data
           d    == [c EXCEPT !.data = data, !.mem = mem]
<1> USE Ip4FragAssumption
<1>1. b \in Buckets /\ b # Nil /\ OwnData(c) /\ walk.hole = Nil /\ walk.frag \in Fragments
  BY DEF Finish, Idle, BaseInv, WalkInv
<1>2. bucket' = [bucket EXCEPT ![b] = IF c.first = Nil THEN Empty ELSE d] /\ walk'.b = Nil
  BY Zenon DEF Finish, Freed, NoWalk
<1>3. ListOk(c.mem, c.first)
  <2>1. LoopOk(c, walk.frag.no, Nil, walk.prev)
    BY <1>1 DEF HolesInv
  <2>2. ~Stuck(c.mem, walk.frag.no, Nil, walk.prev)
    BY <1>1, FragmentLemma DEF Stuck, Index
  <2>3. QED
    BY <2>1, <2>2 DEF LoopOk
<1>4. ListOk(mem, c.first)
  <2>1. \A a \in Addr : mem[a] = IF a \in Linked(c) THEN c.mem[a] ELSE NoHole
    OBVIOUS
  <2> HIDE DEF mem
  <2>2. \A a \in Addr : mem[a] = NoHole \/ HoleOk(a, mem[a])
    BY <1>3, <2>1 DEF ListOk
  <2>3. ASSUME NEW a \in Addr, mem[a].next # Nil PROVE mem[mem[a].next] # NoHole
    <3>1. a \in Linked(c) /\ mem[a] = c.mem[a]
      BY <2>1, <2>3 DEF NoHole
    <3>2. mem[a].next \in Linked(c) /\ mem[a].next \in Addr
      BY <1>1, <2>3, <3>1, LinkedLemma
    <3>3. c.mem[mem[a].next] # NoHole
      BY <1>3, <2>3, <3>1 DEF ListOk
    <3>4. QED
      BY <2>1, <3>2, <3>3
  <2>4. ASSUME c.first # Nil PROVE mem[c.first] # NoHole
    <3>1. c.first \in Linked(c) /\ c.first \in Addr
      BY <1>1, <2>4, LinkedLemma
    <3>2. QED
      BY <1>3, <2>1, <2>4, <3>1 DEF ListOk
  <2>5. QED
    BY <2>2, <2>3, <2>4 DEF ListOk
<1> HIDE DEF mem, data
<1>5. d.mem = mem /\ d.first = c.first
  BY <1>1 DEF OwnData, BucketType
<1> HIDE DEF d
<1>6. ListOk(bucket'[b].mem, bucket'[b].first)
  <2>1. CASE c.first = Nil
    <3>1. bucket'[b] = Empty
      BY <1>1, <1>2, <2>1 DEF BaseInv
    <3>2. QED
      BY <3>1, EmptyHoles
  <2>2. CASE c.first # Nil
    <3>1. bucket'[b] = d
      BY <1>1, <1>2, <2>2 DEF BaseInv
    <3>2. QED
      BY <1>4, <1>5, <3>1
  <2>3. QED
    BY <2>1, <2>2
<1>7. \A e \in Buckets \ {b} : bucket'[e] = bucket[e]
  BY <1>1, <1>2 DEF BaseInv
<1>8. QED
  BY <1>2, <1>6, <1>7 DEF HolesInv

LEMMA TimeoutHoles ==
  ASSUME BaseInv, HolesInv, NEW b \in Buckets, Timeout(b)
  PROVE  HolesInv'
<1>1. bucket' = [bucket EXCEPT ![b] = Empty] /\ UNCHANGED walk /\ walk.b = Nil
  BY DEF Timeout, Freed, Idle
<1>2. \A e \in Buckets : bucket'[e] = bucket[e] \/ bucket'[e] = Empty
  BY <1>1 DEF BaseInv
<1>3. \A e \in Buckets : ListOk(bucket'[e].mem, bucket'[e].first)
  BY <1>1, <1>2, EmptyHoles, Ip4FragAssumption DEF HolesInv
<1>4. QED
  BY <1>1, <1>3 DEF HolesInv

LEMMA NextHolesInv == BaseInv /\ HolesInv /\ [Next]_vars => HolesInv'
<1> SUFFICES ASSUME BaseInv, HolesInv, [Next]_vars PROVE HolesInv'
  OBVIOUS
<1>1. CASE UNCHANGED vars
  BY <1>1 DEF vars, HolesInv
<1>2. CASE Next
  BY <1>2, FirstHoles, NextHoles, TurnHoles, FinishHoles, TimeoutHoles DEF Next
<1>3. QED
  BY <1>1, <1>2
-----------------------------------------------------------------------------
(* The two orders of fragments. *)
LEMMA EmptyOrder == Ordered(Empty)
BY DEF Ordered, Empty

LEMMA InitOrder == Init => OrderInv
<1> SUFFICES ASSUME Init PROVE OrderInv
  OBVIOUS
<1>1. walk.b = Nil /\ \A b \in Buckets : bucket[b] = Empty
  BY DEF Init, NoWalk
<1>2. QED
  BY <1>1, EmptyOrder DEF OrderInv

LEMMA SetUpOrder ==
  ASSUME NEW c, OwnData(c), ~c.used, Ordered(c), NEW f \in Fragments
  PROVE  Ordered(SetUp(c, f))
<1> USE Ip4FragAssumption
<1> DEFINE d == SetUp(c, f)
           no == f.no
<1>1. /\ no \in Index /\ no \in Nat /\ no <= Pieces - 1 /\ Pieces - 1 \in Nat
      /\ Pieces \in Nat /\ Pieces > 1
  BY FragmentLemma DEF Index
<1>2. 1 * Unit = Unit
  OBVIOUS
<1>3. /\ d.used /\ d.key = f.key
      /\ d.first = IF no > 0 THEN 0 ELSE 1
      /\ d.mem[0] = IF no > 0 THEN [next |-> IF no # Pieces - 1 THEN 1 ELSE Nil,
                                    start |-> 0, end |-> no * Unit - 1]
                    ELSE NoHole
      /\ d.mem[1] = IF no # Pieces - 1 THEN [next |-> Nil, start |-> Unit, end |-> MaxSize]
                    ELSE NoHole
      /\ no # 1 \/ no = Pieces - 1 => d.data[no] = f.key
      /\ d.seen = c.seen \cup {no}
      /\ d.front = (c.front /\ c.seen = 0 .. no - 1)
      /\ d.back = (c.back /\ c.seen = no + 1 .. Pieces - 1)
  BY SetUpLemma
<1>4. c.seen = {}
  BY DEF Ordered
<1> HIDE DEF d, no
<1>5. ASSUME d.back PROVE \E k \in 1 .. Pieces - 1 : BackAt(d, k)
  <2>1. no = Pieces - 1
    <3>1. no + 1 .. Pieces - 1 = {}
      BY <1>3, <1>4, <1>5
    <3>2. no < Pieces - 1 => no + 1 \in no + 1 .. Pieces - 1
      BY <1>1
    <3>3. QED
      BY <1>1, <3>1, <3>2
  <2>2. no > 0 /\ d.seen = no .. Pieces - 1
    BY <1>1, <1>3, <1>4, <2>1
  <2>3. \A i \in no .. Pieces - 1 : d.data[i] = d.key
    BY <1>1, <1>3, <2>1
  <2>4. HoleBefore(d.mem, d.first, no)
    BY <1>3, <2>1, <2>2 DEF HoleBefore
  <2>5. BackAt(d, no)
    BY <2>2, <2>3, <2>4 DEF BackAt
  <2>6. no \in 1 .. Pieces - 1
    BY <1>1, <2>2
  <2>7. QED
    BY <2>5, <2>6
<1>6. ASSUME d.front PROVE \E k \in 1 .. Pieces : FrontAt(d, k)
  <2>1. no = 0
    <3>1. 0 .. no - 1 = {}
      BY <1>3, <1>4, <1>6
    <3>2. no > 0 => 0 \in 0 .. no - 1
      BY <1>1
    <3>3. QED
      BY <1>1, <3>1, <3>2
  <2>2. d.seen = 0 .. 1 - 1
    BY <1>3, <1>4, <2>1
  <2>3. \A i \in 0 .. 1 - 1 : d.data[i] = d.key
    BY <1>3, <2>1
  <2>4. no # Pieces - 1
    BY <1>1, <2>1
  <2>5. HoleBehind(d.mem, d.first, 1)
    BY <1>2, <1>3, <2>1, <2>4 DEF HoleBehind
  <2>6. FrontAt(d, 1)
    BY <2>2, <2>3, <2>5 DEF FrontAt
  <2>7. 1 \in 1 .. Pieces
    BY <1>1
  <2>8. QED
    BY <2>6, <2>7
<1>7. Ordered(d)
  BY <1>3, <1>5, <1>6 DEF Ordered
<1>8. QED
  BY <1>7 DEF d

LEMMA FirstOrder ==
  ASSUME BaseInv, OrderInv, NEW f \in Fragments, FirstOfChain(f)
  PROVE  OrderInv'
<1> DEFINE b == Lowest(Vacant)
           d == SetUp(bucket[b], f)
<1>1. b \in Buckets /\ ~bucket[b].used
  BY LowestLemma DEF FirstOfChain, Vacant
<1>2. bucket' = [bucket EXCEPT ![b] = d] /\ walk' = walk /\ walk.b = Nil
  BY DEF FirstOfChain, Idle
<1> HIDE DEF b
<1>3. OwnData(bucket[b]) /\ Ordered(bucket[b])
  BY <1>1, <1>2, Ip4FragAssumption DEF BaseInv, OrderInv
<1>4. Ordered(d)
  BY <1>1, <1>3, SetUpOrder
<1> HIDE DEF d
<1>5. \A e \in Buckets : bucket'[e] = bucket[e] \/ bucket'[e] = d
  BY <1>1, <1>2 DEF BaseInv
<1>6. \A e \in Buckets : Ordered(bucket'[e])
  BY <1>2, <1>4, <1>5, Ip4FragAssumption DEF OrderInv
<1>7. QED
  BY <1>2, <1>6 DEF OrderInv

(* The next fragment from behind or from the front finds the one hole. *)
LEMMA SeeOrder ==
  ASSUME NEW c, OwnData(c), c.used, Ordered(c), NEW f \in Fragments
  PROVE  LET d == See(c, f) IN
         /\ d.back => BackWalk(d, f.no, c.first, Nil, FALSE)
         /\ d.front => FrontWalk(d, f.no, c.first, Nil, FALSE)
<1> USE Ip4FragAssumption
<1> DEFINE d == See(c, f)
           no == f.no
<1>1. no \in Nat /\ no <= Pieces - 1 /\ Pieces \in Nat /\ Pieces > 1
  BY FragmentLemma DEF Index
<1>2. /\ d.key = c.key /\ d.mem = c.mem /\ d.first = c.first /\ d.data = c.data
      /\ d.seen = c.seen \cup {no}
      /\ d.front = (c.front /\ c.seen = 0 .. no - 1)
      /\ d.back = (c.back /\ c.seen = no + 1 .. Pieces - 1)
  BY SeeFields
<1> HIDE DEF d, no
<1>3. ASSUME d.back PROVE BackWalk(d, no, c.first, Nil, FALSE)
  <2>1. PICK k \in 1 .. Pieces - 1 : BackAt(c, k)
    BY <1>2, <1>3 DEF Ordered
  <2>2. c.seen = k .. Pieces - 1 /\ c.seen = no + 1 .. Pieces - 1
    BY <1>2, <1>3, <2>1 DEF BackAt
  <2>3. k = no + 1
    <3>1. k \in k .. Pieces - 1
      OBVIOUS
    <3>2. no + 1 <= k
      BY <1>1, <2>2, <3>1
    <3>3. no + 1 \in no + 1 .. Pieces - 1
      BY <1>1, <3>2
    <3>4. k <= no + 1
      BY <1>1, <2>2, <3>3
    <3>5. QED
      BY <1>1, <3>2, <3>4
  <2>4. no < Pieces - 1
    BY <1>1, <2>3
  <2>5. d.seen = no .. Pieces - 1
    BY <1>1, <1>2, <2>2, <2>4
  <2>6. \A i \in no + 1 .. Pieces - 1 : d.data[i] = d.key
    BY <1>2, <2>1, <2>3 DEF BackAt
  <2>7. HoleBefore(d.mem, d.first, no + 1) /\ c.first = 0
    BY <1>2, <2>1, <2>3 DEF BackAt, HoleBefore
  <2>8. QED
    BY <2>4, <2>5, <2>6, <2>7 DEF BackWalk
<1>4. ASSUME d.front PROVE FrontWalk(d, no, c.first, Nil, FALSE)
  <2>1. PICK k \in 1 .. Pieces : FrontAt(c, k)
    BY <1>2, <1>4 DEF Ordered
  <2>2. c.seen = 0 .. k - 1 /\ c.seen = 0 .. no - 1
    BY <1>2, <1>4, <2>1 DEF FrontAt
  <2>3. k = no
    <3>1. k - 1 \in 0 .. k - 1
      OBVIOUS
    <3>2. k - 1 <= no - 1
      BY <1>1, <2>2, <3>1
    <3>3. no - 1 \in 0 .. no - 1
      BY <1>1, <3>2
    <3>4. no - 1 <= k - 1
      BY <1>1, <2>2, <3>3
    <3>5. QED
      BY <1>1, <3>2, <3>4
  <2>4. no > 0
    BY <1>1, <2>3
  <2>5. d.seen = 0 .. no
    BY <1>1, <1>2, <2>2
  <2>6. \A i \in 0 .. no - 1 : d.data[i] = d.key
    BY <1>2, <2>1, <2>3 DEF FrontAt
  <2>7. HoleBehind(d.mem, d.first, no) /\ c.first = no
    BY <1>2, <2>1, <2>3 DEF FrontAt, HoleBehind
  <2>8. no # Nil
    BY <1>1
  <2>9. QED
    BY <2>4, <2>5, <2>6, <2>7, <2>8 DEF FrontWalk
<1>5. QED
  BY <1>3, <1>4 DEF d, no

LEMMA NextOrder ==
  ASSUME BaseInv, OrderInv, NEW f \in Fragments, NextOfChain(f)
  PROVE  OrderInv'
<1> DEFINE b == Lowest(Matching(f.key))
           c == bucket[b]
           d == See(c, f)
<1>1. b \in Buckets /\ walk.b = Nil /\ b # Nil /\ c.used
  BY LowestLemma, Ip4FragAssumption DEF NextOfChain, Matching, Idle
<1>2. /\ bucket' = [bucket EXCEPT ![b] = d]
      /\ walk' = [NoWalk EXCEPT !.b = b, !.frag = f, !.hole = c.first]
  BY DEF NextOfChain
<1> HIDE DEF b
<1>3. OwnData(c) /\ Ordered(c)
  BY <1>1, Ip4FragAssumption DEF BaseInv, OrderInv
<1>4. /\ walk'.b = b /\ walk'.frag = f /\ walk'.hole = c.first /\ walk'.prev = Nil
      /\ walk'.got = FALSE
  BY <1>2 DEF NoWalk
<1>5. /\ d.back => BackWalk(d, f.no, c.first, Nil, FALSE)
      /\ d.front => FrontWalk(d, f.no, c.first, Nil, FALSE)
  BY <1>1, <1>3, SeeOrder
<1> HIDE DEF c, d
<1>6. bucket'[b] = d /\ \A e \in Buckets \ {b} : bucket'[e] = bucket[e]
  BY <1>1, <1>2 DEF BaseInv
<1>7. \A e \in Buckets \ {b} : Ordered(bucket[e])
  BY <1>1, Ip4FragAssumption DEF OrderInv
<1>8. QED
  BY <1>1, <1>4, <1>5, <1>6, <1>7 DEF OrderInv

(* The only turn in such a chain, from behind and from the front. *)
LEMMA BackTurn ==
  ASSUME NEW c, OwnData(c), NEW f \in Fragments, NEW a \in Addr, NEW prev, NEW got,
         BackWalk(c, f.no, a, prev, got), NEW d, NEW at, TurnTo(c, f, a, prev, d, at)
  PROVE  /\ Same(c, d) /\ Found(f, c.mem[a])
         /\ BackWalk(d, f.no, d.mem[at].next, at, TRUE)
<1> USE Ip4FragAssumption
<1> DEFINE no == f.no
           h == c.mem[0]
<1>1. no \in Nat /\ 0 \in Addr /\ a # Nil
  BY FragmentLemma DEF Index, Addr
<1>2. no * Unit \in Nat /\ (no + 1) * Unit = no * Unit + Unit
  BY <1>1, MultipleLemma
<1>3. a = 0 /\ prev = Nil /\ HoleBefore(c.mem, c.first, no + 1)
  BY <1>1 DEF BackWalk
<1>4. c.first = 0 /\ h.next = Nil /\ h.start = 0 /\ h.end = no * Unit + Unit - 1
  BY <1>2, <1>3 DEF HoleBefore
<1>5. Start(f) = no * Unit /\ End(f) = no * Unit + Unit
  BY DEF Start, End
<1> HIDE DEF h
<1>6. Found(f, h) /\ End(f) >= h.end
  BY <1>2, <1>4, <1>5 DEF Found
<1>7. TurnTo(c, f, 0, Nil, d, at)
  BY <1>3
<1>8. CASE no > 0
  <2>1. Start(f) > h.start
    <3>1. 0 * Unit + Unit <= no * Unit /\ 0 * Unit \in Nat
      BY <1>1, <1>8, MultipleLemma
    <3>2. QED
      BY <1>2, <1>4, <1>5, <3>1
  <2>2. d = [c EXCEPT !.mem[0].end = ShortenBefore(f)] /\ at = 0
    BY <1>2, <1>4, <1>5, <1>6, <1>7, <2>1 DEF TurnTo, h
  <2>3. Same(c, d) /\ d.data = c.data /\ d.first = c.first
        /\ d.mem = [c.mem EXCEPT ![0].end = ShortenBefore(f)]
    BY <2>2 DEF Same, OwnData, BucketType
  <2>4. d.mem[0] = [next |-> Nil, start |-> 0, end |-> no * Unit - 1]
    <3>1. c.mem \in [Addr -> HoleType]
      BY DEF OwnData, BucketType
    <3>2. c.mem[0] = [next |-> Nil, start |-> 0, end |-> (no + 1) * Unit - 1]
      BY <1>3 DEF HoleBefore
    <3>3. d.mem[0] = [c.mem[0] EXCEPT !.end = ShortenBefore(f)]
      BY <1>1, <2>3, <3>1
    <3>4. QED
      BY <1>5, <3>2, <3>3 DEF ShortenBefore
  <2>5. HoleBefore(d.mem, d.first, no)
    BY <1>4, <2>3, <2>4 DEF HoleBefore
  <2>6. d.mem[at].next = Nil
    BY <2>2, <2>4
  <2>7. BackWalk(d, no, Nil, at, TRUE)
    BY <1>8, <2>3, <2>5 DEF BackWalk, Same
  <2>8. QED
    BY <1>3, <1>6, <2>3, <2>6, <2>7 DEF h
<1>9. CASE no = 0
  <2>1. Start(f) <= h.start
    BY <1>4, <1>5, <1>9
  <2>2. ~(Start(f) > h.start) /\ ~(End(f) < h.end)
    BY <1>2, <1>4, <1>5, <1>6, <2>1
  <2>3. d = Unlink(c, h, Nil) /\ at = 0
    BY <1>6, <1>7, <2>2 DEF TurnTo, h
  <2>4. d = [c EXCEPT !.first = Nil]
    BY <1>4, <2>3 DEF Unlink
  <2>5. Same(c, d) /\ d.data = c.data /\ d.first = Nil /\ d.mem = c.mem
    BY <2>4 DEF Same, OwnData, BucketType
  <2>6. d.mem[at].next = Nil
    BY <1>4, <2>3, <2>5 DEF h
  <2>7. BackWalk(d, no, Nil, at, TRUE)
    BY <1>9, <2>5 DEF BackWalk, Same
  <2>8. QED
    BY <1>3, <1>6, <2>5, <2>6, <2>7 DEF h
<1>10. no > 0 \/ no = 0
  BY <1>1
<1>11. QED
  BY <1>8, <1>9, <1>10, Zenon

LEMMA FrontTurn ==
  ASSUME NEW c, OwnData(c), NEW f \in Fragments, NEW a \in Addr, NEW prev, NEW got,
         FrontWalk(c, f.no, a, prev, got), NEW d, NEW at, TurnTo(c, f, a, prev, d, at)
  PROVE  /\ Same(c, d) /\ Found(f, c.mem[a])
         /\ FrontWalk(d, f.no, d.mem[at].next, at, TRUE)
<1> USE Ip4FragAssumption
<1> DEFINE no == f.no
           h == c.mem[a]
           u == Unlink(c, h, Nil)
           N == no * Unit
<1>1. no \in Nat /\ no \in Index /\ no + 1 \in Addr /\ no < Pieces /\ Addr \subseteq Nat
  BY FragmentLemma DEF Index, Addr
<1>2. N \in Nat /\ (no + 1) * Unit = N + Unit /\ N + Unit <= Pieces * Unit
  BY <1>1, MultipleLemma
<1>3. a = no /\ prev = Nil /\ a # Nil /\ HoleBehind(c.mem, c.first, no)
  BY <1>1 DEF FrontWalk
<1>4. c.first = no /\ h.next = Nil /\ h.start \in {N, N + 1} /\ h.end = MaxSize
  BY <1>3 DEF HoleBehind
<1>5. Start(f) = N /\ End(f) = N + Unit
  BY DEF Start, End
<1>6. N + Unit < MaxSize
  <2>1. 2 * Pieces * Unit = Pieces * Unit + Pieces * Unit /\ Pieces * Unit \in Nat
    OBVIOUS
  <2> DEFINE M == Pieces * Unit
  <2>2. M + M <= MaxSize /\ N + Unit <= M /\ M \in Nat
    BY <1>2, <2>1
  <2> HIDE DEF M, N
  <2>3. QED
    BY <1>2, <2>2
<1>7. c.mem \in [Addr -> HoleType] /\ h \in HoleType
  BY DEF OwnData, BucketType
<1> HIDE DEF h, N
<1>8. Found(f, h) /\ Start(f) <= h.start /\ End(f) < h.end
  BY <1>2, <1>4, <1>5, <1>6 DEF Found
<1>9. TurnTo(c, f, a, Nil, d, at)
  BY <1>3
<1>10. ~(Start(f) > h.start) /\ ~(End(f) >= h.end)
  BY <1>2, <1>4, <1>5, <1>6
<1>11. d = Insert(u, h, Nil, f) /\ at = Address(End(f) + 1)
  BY <1>8, <1>9, <1>10 DEF TurnTo, h
<1>12. at = no + 1 /\ at \in Addr /\ at # Nil
  <2>1. no + 1 \in 0 .. Pieces
    BY <1>1 DEF Addr
  <2>2. Address((no + 1) * Unit + 1) = no + 1
    BY <2>1, OffsetLemma
  <2>3. QED
    BY <1>1, <1>2, <1>5, <1>11, <2>2
<1>13. u = [c EXCEPT !.first = Nil]
  BY <1>4 DEF Unlink
<1>14. Same(c, u) /\ u.data = c.data /\ u.first = Nil /\ OwnData(u)
  <2>1. Same(c, u) /\ u.data = c.data /\ u.first = Nil
    BY <1>13 DEF Same, OwnData, BucketType
  <2>2. OwnData(u)
    BY <1>13, FirstLemma DEF Kept
  <2>3. QED
    BY <2>1, <2>2
<1> HIDE DEF u
<1>15. /\ Same(u, d) /\ d.data = Put(u.data, at, Nil) /\ d.first = at
       /\ d.mem[at] = [next |-> Nil, start |-> End(f) + 1, end |-> h.end]
  <2>1. /\ prev \in Addr \cup {Nil} /\ prev # Address(End(f) + 1)
        /\ d = Insert(u, h, prev, f)
    BY <1>3, <1>11, <1>12
  <2>2. /\ Same(u, d) /\ d.data = Put(u.data, at, Nil)
        /\ d.mem[at] = [next |-> IF prev = Nil THEN u.first ELSE u.mem[prev].next,
                        start |-> End(f) + 1, end |-> h.end]
        /\ prev = Nil => d.first = at /\ \A x \in Addr \ {at} : d.mem[x] = u.mem[x]
    BY <1>7, <1>8, <1>11, <1>14, <2>1, InsertFields
  <2>3. QED
    BY <1>3, <1>14, <2>2
<1>16. Same(c, d)
  BY <1>14, <1>15 DEF Same
<1>17. HoleBehind(d.mem, d.first, no + 1) /\ d.mem[at].next = Nil
  BY <1>2, <1>4, <1>5, <1>12, <1>15 DEF HoleBehind
<1>18. \A i \in 0 .. no - 1 : d.data[i] = c.data[i]
  <2>1. c.data \in [Index -> Keys \cup {Nil}]
    BY DEF OwnData, BucketType
  <2>2. d.data = Put(c.data, no + 1, Nil)
    BY <1>12, <1>14, <1>15
  <2>3. \A i \in 0 .. no - 1 : i \in Index /\ i # no + 1
    BY <1>1 DEF Index
  <2>4. QED
    BY <2>1, <2>2, <2>3 DEF Put
<1>19. FrontWalk(d, no, Nil, at, TRUE)
  BY <1>16, <1>17, <1>18 DEF FrontWalk, Same
<1>20. QED
  BY <1>8, <1>16, <1>17, <1>19 DEF h

(* A turn changes nothing of what came. *)
LEMMA TurnToSame ==
  ASSUME NEW c, OwnData(c), NEW f \in Fragments, NEW a \in Addr, NEW prev \in Addr \cup {Nil},
         LoopOk(c, f.no, a, prev), NEW d, NEW at, TurnTo(c, f, a, prev, d, at)
  PROVE  Same(c, d)
<1> USE Ip4FragAssumption
<1> DEFINE h == c.mem[a]
           u == Unlink(c, h, prev)
<1>1. c.mem \in [Addr -> HoleType] /\ h \in HoleType
  BY DEF OwnData, BucketType
<1>2. h.next \in Addr \cup {Nil}
  BY <1>1 DEF HoleType
<1>3. Same(c, u) /\ OwnData(u)
  <2>1. u = Link(c, prev, h.next)
    BY Zenon DEF Unlink, Link
  <2>2. Kept(c, u)
    BY <1>2, <2>1, LinkLemma
  <2>3. Same(c, u)
    BY <1>2, <2>1, LinkFields
  <2>4. QED
    BY <2>2, <2>3 DEF Kept
<1>4. CASE d = c
  BY <1>4 DEF Same
<1>5. CASE d = [c EXCEPT !.mem[a].end = ShortenBefore(f)]
  BY <1>5 DEF Same, OwnData, BucketType
<1>6. CASE d = u
  BY <1>3, <1>6
<1>7. CASE Found(f, h) /\ Start(f) <= h.start /\ End(f) < h.end /\ d = Insert(u, h, prev, f)
  <2>1. prev # Address(End(f) + 1)
    <3>1. PICK P \in SUBSET Addr :
            ListOk(c.mem, c.first) /\ Passed(c.mem, c.first, f.no, a, prev, P)
      BY <1>7, StuckLemma DEF LoopOk
    <3>2. f.no \in Index /\ c.mem \in [Addr -> HoleType]
      BY <1>1, FragmentLemma
    <3>3. HoleOk(a, h) /\ a \in Nat /\ (prev # Nil => prev \in Addr /\ prev < a)
      BY <3>1, <3>2, HandLemma
    <3>4. /\ a \in {f.no, f.no + 1} /\ f.no \in Nat /\ f.no + 1 \in Addr
          /\ End(f) = (f.no + 1) * Unit
      BY <1>1, <1>7, <3>3, FoundLemma DEF Found
    <3>5. Address(End(f) + 1) = f.no + 1
      BY <3>4, OffsetLemma DEF Addr
    <3>6. Addr \subseteq Nat /\ f.no + 1 # Nil
      BY <3>4 DEF Addr
    <3>7. QED
      BY <3>3, <3>4, <3>5, <3>6
  <2> HIDE DEF h, u
  <2>2. Same(u, d)
    BY <1>1, <1>3, <1>7, <2>1, InsertFields
  <2>3. QED
    BY <1>3, <2>2 DEF Same
<1>8. QED
  BY <1>4, <1>5, <1>6, <1>7 DEF TurnTo

LEMMA TurnOrder ==
  ASSUME BaseInv, HolesInv, OrderInv, Turn
  PROVE  OrderInv'
<1>1. PICK d, at :
        /\ TurnTo(bucket[walk.b], walk.frag, walk.hole, walk.prev, d, at)
        /\ bucket'[walk.b] = d /\ \A e \in Buckets \ {walk.b} : bucket'[e] = bucket[e]
        /\ walk'.b = walk.b /\ walk'.frag = walk.frag
        /\ walk'.prev = at /\ walk'.hole = d.mem[at].next
        /\ walk'.got = (walk.got \/ Found(walk.frag, bucket[walk.b].mem[walk.hole]))
  BY TurnLemma
<1>2. /\ walk.b \in Buckets /\ walk.b # Nil /\ walk.frag \in Fragments
      /\ OwnData(bucket[walk.b]) /\ walk.hole \in Addr /\ walk.prev \in Addr \cup {Nil}
  BY TurnLemma
<1>3. LoopOk(bucket[walk.b], walk.frag.no, walk.hole, walk.prev)
  BY <1>2 DEF HolesInv
<1> DEFINE c == bucket[walk.b]
<1>4. Same(c, d)
  BY <1>1, <1>2, <1>3, TurnToSame
<1>5. ASSUME d.back PROVE BackWalk(d, walk.frag.no, d.mem[at].next, at, TRUE) /\ walk'.got
  <2>1. BackWalk(c, walk.frag.no, walk.hole, walk.prev, walk.got)
    BY <1>2, <1>4, <1>5 DEF OrderInv, Same
  <2>2. Found(walk.frag, c.mem[walk.hole]) /\ BackWalk(d, walk.frag.no, d.mem[at].next, at, TRUE)
    BY <1>1, <1>2, <2>1, BackTurn
  <2>3. QED
    BY <1>1, <2>2
<1>6. ASSUME d.front PROVE FrontWalk(d, walk.frag.no, d.mem[at].next, at, TRUE) /\ walk'.got
  <2>1. FrontWalk(c, walk.frag.no, walk.hole, walk.prev, walk.got)
    BY <1>2, <1>4, <1>6 DEF OrderInv, Same
  <2>2. Found(walk.frag, c.mem[walk.hole]) /\ FrontWalk(d, walk.frag.no, d.mem[at].next, at, TRUE)
    BY <1>1, <1>2, <2>1, FrontTurn
  <2>3. QED
    BY <1>1, <2>2
<1>7. /\ d.back => BackWalk(d, walk.frag.no, walk'.hole, walk'.prev, walk'.got)
      /\ d.front => FrontWalk(d, walk.frag.no, walk'.hole, walk'.prev, walk'.got)
  BY <1>1, <1>5, <1>6 DEF BackWalk, FrontWalk
<1>8. QED
  BY <1>1, <1>2, <1>7 DEF OrderInv

(* The data of the last fragment is copied, and the list is left alone. *)
LEMMA FinishOrder ==
  ASSUME BaseInv, OrderInv, Finish
  PROVE  OrderInv'
<1> DEFINE b    == walk.b
           c    == bucket[b]
           f    == walk.frag
           no   == f.no
           mem  == [a \in Addr |-> IF a \in Linked(c) THEN c.mem[a] ELSE NoHole]
           data == IF walk.got THEN Put(c.data, f.no, f.key) ELSE c.data
           d    == [c EXCEPT !.data = data, !.mem = mem]
<1> USE Ip4FragAssumption
<1>1. /\ b \in Buckets /\ b # Nil /\ OwnData(c) /\ walk.hole = Nil /\ f \in Fragments
      /\ c.used /\ c.key = f.key
  BY DEF Finish, Idle, BaseInv, WalkInv
<1>2. bucket' = [bucket EXCEPT ![b] = IF c.first = Nil THEN Empty ELSE d] /\ walk'.b = Nil
  BY Zenon DEF Finish, Freed, NoWalk
<1>3. no \in Index /\ no \in Nat /\ no < Pieces /\ Pieces \in Nat
  BY <1>1, FragmentLemma DEF Index
<1>4. c.first # Nil => c.first \in Addr /\ mem[c.first] = c.mem[c.first]
  BY <1>1, LinkedLemma
<1>5. walk.got => data[no] = c.key /\ \A i \in Index \ {no} : data[i] = c.data[i]
  <2>1. c.data \in [Index -> Keys \cup {Nil}]
    BY <1>1 DEF OwnData, BucketType
  <2>2. QED
    BY <1>1, <1>3, <2>1 DEF Put
<1> HIDE DEF mem, data
<1>6. Same(c, d) /\ d.mem = mem /\ d.data = data /\ d.first = c.first
  BY <1>1 DEF OwnData, BucketType, Same
<1> HIDE DEF d, no
<1>7. ASSUME c.first # Nil, d.back PROVE \E k \in 1 .. Pieces - 1 : BackAt(d, k)
  <2>1. BackWalk(c, no, Nil, walk.prev, walk.got)
    BY <1>1, <1>6, <1>7 DEF OrderInv, Same, no
  <2>2. /\ c.seen = no .. Pieces - 1 /\ no < Pieces - 1 /\ walk.got /\ no # 0
        /\ \A i \in no + 1 .. Pieces - 1 : c.data[i] = c.key
        /\ HoleBefore(c.mem, c.first, no)
    BY <1>7, <2>1 DEF BackWalk
  <2>3. ASSUME NEW i \in no .. Pieces - 1 PROVE d.data[i] = d.key
    <3>1. i = no \/ (i \in no + 1 .. Pieces - 1 /\ i \in Index \ {no})
      BY <1>3 DEF Index
    <3>2. QED
      BY <1>5, <1>6, <2>2, <3>1 DEF Same
  <2>4. HoleBefore(d.mem, d.first, no)
    BY <1>4, <1>6, <1>7, <2>2 DEF HoleBefore
  <2>5. BackAt(d, no)
    BY <1>6, <2>2, <2>3, <2>4 DEF BackAt, Same
  <2>6. no \in 1 .. Pieces - 1
    BY <1>3, <2>2
  <2>7. QED
    BY <2>5, <2>6
<1>8. ASSUME c.first # Nil, d.front PROVE \E k \in 1 .. Pieces : FrontAt(d, k)
  <2>1. FrontWalk(c, no, Nil, walk.prev, walk.got)
    BY <1>1, <1>6, <1>8 DEF OrderInv, Same, no
  <2>2. /\ c.seen = 0 .. no /\ walk.got
        /\ \A i \in 0 .. no - 1 : c.data[i] = c.key
        /\ HoleBehind(c.mem, c.first, no + 1)
    BY <2>1 DEF FrontWalk
  <2>3. ASSUME NEW i \in 0 .. no PROVE d.data[i] = d.key
    <3>1. i = no \/ (i \in 0 .. no - 1 /\ i \in Index \ {no})
      BY <1>3 DEF Index
    <3>2. QED
      BY <1>5, <1>6, <2>2, <3>1 DEF Same
  <2>4. HoleBehind(d.mem, d.first, no + 1)
    <3>1. c.first = no + 1
      BY <2>2 DEF HoleBehind
    <3>2. d.mem[no + 1] = c.mem[no + 1]
      BY <1>4, <1>6, <1>8, <3>1
    <3>3. QED
      BY <1>6, <2>2, <3>2 DEF HoleBehind
  <2>5. FrontAt(d, no + 1)
    <3>1. (no + 1) - 1 = no
      BY <1>3
    <3>2. QED
      BY <1>6, <2>2, <2>3, <2>4, <3>1 DEF FrontAt, Same
  <2>6. no + 1 \in 1 .. Pieces
    BY <1>3
  <2>7. QED
    BY <2>5, <2>6
<1>9. Ordered(bucket'[b])
  <2>1. CASE c.first = Nil
    <3>1. bucket'[b] = Empty
      BY <1>1, <1>2, <2>1 DEF BaseInv
    <3>2. QED
      BY <3>1, EmptyOrder
  <2>2. CASE c.first # Nil
    <3>1. bucket'[b] = d
      BY <1>1, <1>2, <2>2 DEF BaseInv
    <3>2. Ordered(d)
      BY <1>1, <1>6, <1>7, <1>8, <2>2 DEF Ordered, Same
    <3>3. QED
      BY <3>1, <3>2
  <2>3. QED
    BY <2>1, <2>2
<1>10. \A e \in Buckets \ {b} : bucket'[e] = bucket[e]
  BY <1>1, <1>2 DEF BaseInv
<1>11. QED
  BY <1>2, <1>9, <1>10 DEF OrderInv

LEMMA TimeoutOrder ==
  ASSUME BaseInv, OrderInv, NEW b \in Buckets, Timeout(b)
  PROVE  OrderInv'
<1>1. bucket' = [bucket EXCEPT ![b] = Empty] /\ UNCHANGED walk /\ walk.b = Nil
  BY DEF Timeout, Freed, Idle
<1>2. \A e \in Buckets : bucket'[e] = bucket[e] \/ bucket'[e] = Empty
  BY <1>1 DEF BaseInv
<1>3. \A e \in Buckets : Ordered(bucket'[e])
  BY <1>1, <1>2, EmptyOrder, Ip4FragAssumption DEF OrderInv
<1>4. QED
  BY <1>1, <1>3 DEF OrderInv

LEMMA NextOrderInv == BaseInv /\ HolesInv /\ OrderInv /\ [Next]_vars => OrderInv'
<1> SUFFICES ASSUME BaseInv, HolesInv, OrderInv, [Next]_vars PROVE OrderInv'
  OBVIOUS
<1>1. CASE UNCHANGED vars
  BY <1>1 DEF vars, OrderInv
<1>2. CASE Next
  BY <1>2, FirstOrder, NextOrder, TurnOrder, FinishOrder, TimeoutOrder DEF Next
<1>3. QED
  BY <1>1, <1>2
-----------------------------------------------------------------------------
LEMMA InitIInv == Init => IInv
BY InitBase, InitHoles, InitOrder DEF IInv

LEMMA NextIInv == IInv /\ [Next]_vars => IInv'
BY NextBaseInv, NextHolesInv, NextOrderInv DEF IInv

LEMMA Invariance == Spec => []IInv
BY InitIInv, NextIInv, PTL DEF Spec

(* Every descriptor the handler writes lies in the data area and its hole   *)
(* in the datagram; frag_control counts the chains: the assertions of       *)
(* setup_first_frag() hold.                                                *)
THEOREM FragTypeCorrect == Spec => []TypeOK
<1>1. IInv => TypeOK
  BY DEF IInv, BaseInv, OwnData, BucketType, WalkInv, TypeOK
<1>2. QED
  BY <1>1, Invariance, PTL

(* No data of one datagram is ever found in the bucket of another one,      *)
(* whichever time out, complete and begin anew in between.                 *)
THEOREM DatagramsKeptApart == Spec => []KeysApart
<1>1. IInv => KeysApart
  BY DEF IInv, BaseInv, OwnData, KeysApart
<1>2. QED
  BY <1>1, Invariance, PTL

(* What happens to the one bucket that an action writes. *)
LEMMA OneChainLemma ==
  ASSUME BaseInv, OneChainPerKey, NEW b \in Buckets,
         \A e \in Buckets \ {b} : bucket'[e] = bucket[e],
         bucket'[b].used => bucket[b].used /\ bucket'[b].key = bucket[b].key
  PROVE  OneChainPerKey'
BY DEF OneChainPerKey

(* match_frag() finds the chain of a datagram whenever there is one, if the *)
(* key has no byte that nobody sets: no datagram is collected in two        *)
(* buckets.                                                                *)
THEOREM ChainsAreUnique == ASSUME ~KeyPadding PROVE Spec => []OneChainPerKey
<1>1. Init => OneChainPerKey
  BY DEF Init, Empty, OneChainPerKey
<1>2. IInv /\ OneChainPerKey /\ [Next]_vars => OneChainPerKey'
  <2> SUFFICES ASSUME BaseInv, OneChainPerKey, [Next]_vars PROVE OneChainPerKey'
    BY DEF IInv
  <2>1. ASSUME NEW f \in Fragments, FirstOfChain(f) PROVE OneChainPerKey'
    <3> DEFINE b == Lowest(Vacant)
               d == SetUp(bucket[b], f)
    <3>1. b \in Buckets /\ ~bucket[b].used
      BY <2>1, LowestLemma DEF FirstOfChain, Vacant
    <3>2. \A e \in Buckets : bucket[e].used => bucket[e].key # f.key
      BY <2>1 DEF FirstOfChain, Matching
    <3>3. bucket' = [bucket EXCEPT ![b] = d]
      BY <2>1 DEF FirstOfChain
    <3> HIDE DEF b
    <3>4. OwnData(bucket[b])
      BY <3>1 DEF BaseInv
    <3>5. d.used /\ d.key = f.key
      BY <3>1, <3>4, SetUpLemma
    <3> HIDE DEF d
    <3>6. bucket'[b] = d /\ \A e \in Buckets \ {b} : bucket'[e] = bucket[e]
      BY <3>1, <3>3 DEF BaseInv
    <3>7. QED
      BY <3>2, <3>5, <3>6 DEF OneChainPerKey
  <2>2. ASSUME NEW f \in Fragments, NextOfChain(f) PROVE OneChainPerKey'
    <3> DEFINE b == Lowest(Matching(f.key))
               d == See(bucket[b], f)
    <3>1. b \in Buckets /\ bucket' = [bucket EXCEPT ![b] = d]
      BY <2>2, LowestLemma DEF NextOfChain, Matching
    <3> HIDE DEF b
    <3>2. OwnData(bucket[b])
      BY <3>1 DEF BaseInv
    <3>3. d.used = bucket[b].used /\ d.key = bucket[b].key
      BY <3>2, SeeFields
    <3> HIDE DEF d
    <3>4. bucket'[b] = d /\ \A e \in Buckets \ {b} : bucket'[e] = bucket[e]
      BY <3>1 DEF BaseInv
    <3>5. QED
      BY <3>1, <3>3, <3>4, OneChainLemma
  <2>3. CASE Turn
    <3>1. /\ walk.b \in Buckets /\ walk.b # Nil
          /\ bucket[walk.b].used /\ bucket[walk.b].key = walk.frag.key
      BY <2>3, TurnLemma
    <3>2. /\ \A e \in Buckets \ {walk.b} : bucket'[e] = bucket[e]
          /\ walk'.b = walk.b /\ walk'.frag = walk.frag
      BY <2>3, TurnLemma
    <3>3. bucket'[walk.b].key = walk.frag.key
      <4>1. BaseInv'
        BY <2>3, TurnBase
      <4>2. walk'.b # Nil => bucket'[walk'.b].key = walk'.frag.key
        BY <4>1 DEF BaseInv, WalkInv
      <4>3. QED
        BY <3>1, <3>2, <4>2
    <3>4. QED
      BY <3>1, <3>2, <3>3, OneChainLemma
  <2>4. CASE Finish
    <3> DEFINE b == walk.b
               c == bucket[b]
    <3>1. b \in Buckets /\ c.used /\ OwnData(c)
      BY <2>4 DEF Finish, Idle, BaseInv, WalkInv
    <3>2. PICK data, mem :
            bucket' = [bucket EXCEPT ![b] =
              IF c.first = Nil THEN Empty ELSE [c EXCEPT !.data = data, !.mem = mem]]
      BY <2>4, Zenon DEF Finish, Freed
    <3>3. \A e \in Buckets \ {b} : bucket'[e] = bucket[e]
      BY <3>1, <3>2 DEF BaseInv
    <3>4. bucket'[b] = Empty \/ bucket'[b] = [c EXCEPT !.data = data, !.mem = mem]
      BY <3>1, <3>2 DEF BaseInv
    <3>5. [c EXCEPT !.data = data, !.mem = mem].key = c.key
      BY <3>1 DEF OwnData, BucketType
    <3>6. bucket'[b].used => bucket'[b].key = c.key
      BY <3>4, <3>5, EmptyLemma
    <3>7. QED
      BY <3>1, <3>3, <3>6, OneChainLemma
  <2>5. ASSUME NEW b \in Buckets, Timeout(b) PROVE OneChainPerKey'
    <3>1. bucket' = [bucket EXCEPT ![b] = Empty]
      BY <2>5 DEF Timeout, Freed
    <3>2. bucket'[b] = Empty /\ \A e \in Buckets \ {b} : bucket'[e] = bucket[e]
      BY <3>1 DEF BaseInv
    <3>3. QED
      BY <3>2, EmptyLemma, OneChainLemma
  <2>6. CASE UNCHANGED vars
    BY <2>6 DEF vars, OneChainPerKey
  <2>7. QED
    BY <2>1, <2>2, <2>3, <2>4, <2>5, <2>6 DEF Next
<1>3. QED
  BY <1>1, <1>2, Invariance, PTL DEF Spec

(* When the loop over the holes has ended, the hole whose descriptor lies   *)
(* where the data goes is off the list: "hole" is never overwritten while   *)
(* it is linked, in whichever order the fragments came.                    *)
THEOREM HolesStayIntact == Spec => []HolesIntact
<1>1. IInv => HolesIntact
  <2> SUFFICES ASSUME BaseInv, HolesInv, ~Idle, walk.hole = Nil
               PROVE  walk.frag.no \notin Linked(bucket[walk.b])
    BY DEF IInv, HolesIntact
  <2> DEFINE c == bucket[walk.b]
             no == walk.frag.no
  <2>1. walk.b \in Buckets /\ walk.b # Nil /\ walk.frag \in Fragments /\ OwnData(c)
    BY DEF Idle, BaseInv, WalkInv
  <2>2. LoopOk(c, no, Nil, walk.prev)
    BY <2>1 DEF HolesInv
  <2>3. ~Stuck(c.mem, no, Nil, walk.prev)
    BY <2>1, FragmentLemma, Ip4FragAssumption DEF Stuck, Index
  <2>4. PICK P \in SUBSET Addr : Passed(c.mem, c.first, no, Nil, walk.prev, P)
    BY <2>2, <2>3 DEF LoopOk
  <2>5. /\ no \notin P /\ c.first \in P \cup {Nil}
        /\ \A a \in P : c.mem[a].next \in P \cup {Nil}
    BY <2>4 DEF Passed
  <2>6. Linked(c) \subseteq P
    BY <2>1, <2>5, LinkedLemma
  <2>7. QED
    BY <2>5, <2>6
<1>2. QED
  BY <1>1, Invariance, PTL

LEMMA LoneHole ==
  ASSUME NEW c, OwnData(c), NEW a \in Addr, c.first = a, c.mem[a].next = Nil
  PROVE  Linked(c) = {a}
<1> DEFINE S == {a}
<1>1. a \in Linked(c)
  BY LinkedLemma, Ip4FragAssumption DEF Addr
<1>2. S \in SUBSET Addr /\ c.first \in S \cup {Nil} /\ \A x \in S : c.mem[x].next \in S \cup {Nil}
  OBVIOUS
<1> HIDE DEF S
<1>3. Linked(c) \subseteq S
  BY <1>2, LinkedLemma
<1>4. QED
  BY <1>1, <1>3 DEF S

LEMMA BackLemma ==
  ASSUME NEW c, OwnData(c), NEW k \in 1 .. Pieces - 1, BackAt(c, k)
  PROVE  /\ c.seen # Index
         /\ Linked(c) = {0}
         /\ c.mem[0] = [next |-> Nil, start |-> 0,
                        end |-> Unit * (Pieces - Cardinality(c.seen)) - 1]
         /\ \A i \in c.seen : c.data[i] = c.key
<1> USE Ip4FragAssumption
<1>1. /\ c.seen = k .. Pieces - 1 /\ c.first = 0 /\ \A i \in c.seen : c.data[i] = c.key
      /\ c.mem[0] = [next |-> Nil, start |-> 0, end |-> k * Unit - 1]
  BY DEF BackAt, HoleBefore
<1>2. 0 \in Index /\ 0 \in Addr /\ 0 # Nil /\ 0 \notin k .. Pieces - 1
  BY DEF Index, Addr
<1>3. Linked(c) = {0}
  <2>1. c.mem[0].next = Nil
    BY <1>1
  <2>2. QED
    BY <1>1, <1>2, <2>1, LoneHole
<1>4. Unit * (Pieces - Cardinality(c.seen)) = k * Unit
  <2>1. Cardinality(c.seen) = Pieces - 1 - k + 1
    <3>1. k \in Int /\ Pieces - 1 \in Int /\ ~(k > Pieces - 1)
      OBVIOUS
    <3>2. QED
      BY <1>1, <3>1, FS_Interval
  <2>2. Pieces - Cardinality(c.seen) = k
    BY <2>1
  <2>3. Unit * k = k * Unit
    OBVIOUS
  <2>4. QED
    BY <2>2, <2>3
<1>5. QED
  BY <1>1, <1>2, <1>3, <1>4

LEMMA FrontLemma ==
  ASSUME NEW c, OwnData(c), NEW k \in 1 .. Pieces, FrontAt(c, k)
  PROVE  /\ Cardinality(Linked(c)) = 1
         /\ \A a \in Linked(c) : /\ c.mem[a].start >= Unit * Cardinality(c.seen)
                                 /\ c.mem[a].end = MaxSize
         /\ \A i \in c.seen : c.data[i] = c.key
<1> USE Ip4FragAssumption
<1>1. /\ c.seen = 0 .. k - 1 /\ c.first = k /\ \A i \in c.seen : c.data[i] = c.key
      /\ c.mem[k].next = Nil /\ c.mem[k].end = MaxSize
      /\ c.mem[k].start \in {k * Unit, k * Unit + 1}
  BY DEF FrontAt, HoleBehind
<1>2. k \in Addr /\ k # Nil
  BY DEF Addr
<1>3. Linked(c) = {k}
  BY <1>1, <1>2, LoneHole
<1>4. Unit * Cardinality(c.seen) = k * Unit /\ k * Unit \in Nat
  <2>1. Cardinality(c.seen) = k
    <3>1. 0 \in Int /\ k - 1 \in Int /\ ~(0 > k - 1) /\ k - 1 - 0 + 1 = k
      OBVIOUS
    <3>2. QED
      BY <1>1, <3>1, FS_Interval
  <2>2. Unit * k = k * Unit /\ k * Unit \in Nat
    OBVIOUS
  <2>3. QED
    BY <2>1, <2>2
<1>5. c.mem[k].start >= Unit * Cardinality(c.seen)
  BY <1>1, <1>4
<1>6. Cardinality(Linked(c)) = 1
  BY <1>3, FS_Singleton
<1>7. QED
  BY <1>1, <1>3, <1>5, <1>6

(* A datagram whose fragments come in order, or last one first, has its     *)
(* data in place and exactly one hole, where the rest belongs; last one     *)
(* first it never rests complete in its bucket, it is delivered.           *)
THEOREM OrderedArrive == Spec => []OrderedFragments
<1>1. IInv => OrderedFragments
  <2> SUFFICES ASSUME BaseInv, OrderInv, NEW b \in Buckets, bucket[b].used, walk.b # b
               PROVE  LET c == bucket[b] IN
                      /\ c.back =>
                           /\ c.seen # Index
                           /\ Linked(c) = {0}
                           /\ c.mem[0] = [next |-> Nil, start |-> 0,
                                          end |-> Unit * (Pieces - Cardinality(c.seen)) - 1]
                           /\ \A i \in c.seen : c.data[i] = c.key
                      /\ c.front =>
                           /\ Cardinality(Linked(c)) = 1
                           /\ \A a \in Linked(c) :
                                /\ c.mem[a].start >= Unit * Cardinality(c.seen)
                                /\ c.mem[a].end = MaxSize
                           /\ \A i \in c.seen : c.data[i] = c.key
    BY DEF IInv, OrderedFragments, BackToFront, FrontToBack
  <2> DEFINE c == bucket[b]
  <2>1. OwnData(c) /\ Ordered(c)
    BY DEF BaseInv, OrderInv
  <2>2. (c.back => \E k \in 1 .. Pieces - 1 : BackAt(c, k))
        /\ (c.front => \E k \in 1 .. Pieces : FrontAt(c, k))
    BY <2>1 DEF Ordered
  <2> HIDE DEF c
  <2>3. ASSUME c.back
        PROVE  /\ c.seen # Index
               /\ Linked(c) = {0}
               /\ c.mem[0] = [next |-> Nil, start |-> 0,
                              end |-> Unit * (Pieces - Cardinality(c.seen)) - 1]
               /\ \A i \in c.seen : c.data[i] = c.key
    <3>1. PICK k \in 1 .. Pieces - 1 : BackAt(c, k)
      BY <2>2, <2>3
    <3>2. QED
      BY <2>1, <3>1, BackLemma
  <2>4. ASSUME c.front
        PROVE  /\ Cardinality(Linked(c)) = 1
               /\ \A a \in Linked(c) : /\ c.mem[a].start >= Unit * Cardinality(c.seen)
                                       /\ c.mem[a].end = MaxSize
               /\ \A i \in c.seen : c.data[i] = c.key
    <3>1. PICK k \in 1 .. Pieces : FrontAt(c, k)
      BY <2>2, <2>4
    <3>2. QED
      BY <2>1, <3>1, FrontLemma
  <2>5. QED
    BY <2>3, <2>4 DEF c
<1>2. QED
  BY <1>1, Invariance, PTL

(* Each turn of the loop goes on to a hole further up or to the end of the  *)
(* list, so that the loop can only go on for ever at one hole: a hole that  *)
(* follows itself.                                                         *)
THEOREM LoopAdvances ==
  Spec => [][Turn => LET next == walk'.hole IN
                     \/ next = Nil \/ walk.hole < next
                     \/ bucket'[walk.b].mem[next].next = next]_vars
<1>1. IInv /\ Turn => LET next == walk'.hole IN
                      \/ next = Nil \/ walk.hole < next
                      \/ bucket'[walk.b].mem[next].next = next
  <2> SUFFICES ASSUME BaseInv, HolesInv, Turn
               PROVE  LET next == walk'.hole IN
                      \/ next = Nil \/ walk.hole < next
                      \/ bucket'[walk.b].mem[next].next = next
    BY DEF IInv
  <2> USE Ip4FragAssumption
  <2> DEFINE c == bucket[walk.b]
             f == walk.frag
             a == walk.hole
             next == walk'.hole
  <2>1. PICK d, at :
          /\ TurnTo(c, f, a, walk.prev, d, at)
          /\ bucket'[walk.b] = d /\ \A e \in Buckets \ {walk.b} : bucket'[e] = bucket[e]
          /\ walk'.b = walk.b /\ walk'.frag = walk.frag
          /\ walk'.prev = at /\ next = d.mem[at].next
    BY TurnLemma
  <2>2. /\ walk.b \in Buckets /\ walk.b # Nil /\ f \in Fragments
        /\ OwnData(c) /\ a \in Addr /\ walk.prev \in Addr \cup {Nil}
    BY TurnLemma
  <2>3. LoopOk(c, f.no, a, walk.prev)
    BY <2>2 DEF HolesInv
  <2>4. LoopOk(d, f.no, next, at)
    BY <2>1, <2>2, <2>3, TurnToHoles
  <2>5. OwnData(d)
    BY <2>1, <2>2, TurnBase DEF BaseInv
  <2>6. at \in Addr /\ at >= a
    <3>1. CASE at = a
      BY <2>2, <3>1 DEF Addr
    <3>2. CASE at # a
      <4>1. Found(f, c.mem[a]) /\ at = Address(End(f) + 1)
            /\ Start(f) <= c.mem[a].start
        BY <2>1, <3>2 DEF TurnTo
      <4>2. PICK P \in SUBSET Addr :
              ListOk(c.mem, c.first) /\ Passed(c.mem, c.first, f.no, a, walk.prev, P)
        BY <2>2, <2>3, <4>1, StuckLemma DEF LoopOk
      <4>3. f.no \in Index /\ c.mem \in [Addr -> HoleType]
        BY <2>2, FragmentLemma DEF OwnData, BucketType
      <4>4. HoleOk(a, c.mem[a]) /\ a \in Nat /\ c.mem[a] \in HoleType
        BY <2>2, <4>2, <4>3, HandLemma
      <4>5. /\ a \in {f.no, f.no + 1} /\ f.no \in Nat /\ f.no + 1 \in Addr
            /\ End(f) = (f.no + 1) * Unit
        BY <2>2, <4>1, <4>4, FoundLemma DEF Found
      <4>6. at = f.no + 1
        BY <4>1, <4>5, OffsetLemma DEF Addr
      <4>7. QED
        BY <4>5, <4>6
    <3>3. QED
      BY <3>1, <3>2
  <2>7. CASE Stuck(d.mem, f.no, next, at)
    BY <2>1, <2>7 DEF Stuck
  <2>8. CASE ListOk(d.mem, d.first) /\ next # Nil
    <3>1. d.mem[at] # NoHole
      BY <2>1, <2>8 DEF NoHole
    <3>2. at < next
      BY <2>1, <2>6, <2>8, <3>1 DEF ListOk, HoleOk
    <3>3. next \in Nat /\ at \in Nat /\ a \in Nat
      BY <2>1, <2>2, <2>5, <2>6, <2>8 DEF OwnData, BucketType, HoleType, Addr
    <3> HIDE DEF next, a
    <3>4. a < next
      BY <2>6, <3>2, <3>3
    <3>5. QED
      BY <3>4 DEF next, a
  <2>9. QED
    BY <2>4, <2>7, <2>8 DEF LoopOk
<1>2. QED
  BY <1>1, Invariance, PTL
=============================================================================

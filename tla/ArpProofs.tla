----------------------------- MODULE ArpProofs -----------------------------
(***************************************************************************)
(* Proofs about the ARP cache and the route cache for all sizes, hosts and  *)
(* gateways: the sections of the two arrays stay in order, no host has two  *)
(* entries, the ARP array implements the table of ArpTable, and the routes  *)
(* that the daemon leaves have a gateway.                                  *)
(*                                                                         *)
(* The array lemmas say of each operation that it keeps an array well       *)
(* formed and what it does to the host it is about.  The invariant adds     *)
(* where the daemon may stand in its loops: between two steps of a loop its *)
(* index is still in the section it walks.  For the refinement the lemmas   *)
(* also say what becomes of the kind of every host's entry, and that an     *)
(* array with a free slot knows fewer hosts than it has slots.             *)
(***************************************************************************)
EXTENDS ArpRoute, WellFoundedInduction, FunctionTheorems, FiniteSetTheorems, TLAPS

CacheType ==
  [list : [Slots -> Entry], first_dynamic : 0 .. Size,
   first_free : 0 .. Size, first_pending : 0 .. Size]

InUse(c) == Slots \ Free(c)

(* An ARP array between two operations: CacheTypeOK, OneEntryPerHost and    *)
(* AddressOfHost of the array c, and a pending entry is of a host, too.     *)
WellFormed(c) ==
  /\ c \in CacheType
  /\ c.first_dynamic <= c.first_free /\ c.first_free <= c.first_pending
  /\ \A i, j \in InUse(c) : c.list[i].ip = c.list[j].ip => i = j
  /\ \A i \in 0 .. c.first_free - 1 :
       c.list[i].ip \in Hosts /\ c.list[i].mac = c.list[i].ip
  /\ \A i \in Pending(c) : c.list[i].ip \in Hosts

Absent(c, h) == \A i \in InUse(c) : c.list[i].ip # h
-----------------------------------------------------------------------------
(* The first slot with a host is the only one. *)
LEMMA SlotOfIsSlot ==
  ASSUME NEW c, WellFormed(c), NEW section, section \subseteq InUse(c),
         NEW h, In(c, section, h)
  PROVE  SlotOf(c, section, h) \in section /\ c.list[SlotOf(c, section, h)].ip = h
<1>1. PICK i \in section : c.list[i].ip = h
  BY DEF In
<1>2. \A j \in section : c.list[j].ip = h => i <= j
  BY <1>1, ArpCacheAssumption DEF WellFormed, InUse, Slots
<1>3. QED
  BY <1>1, <1>2 DEF SlotOf

(* The pointers are numbers, one not above the next. *)
LEMMA Bounds ==
  ASSUME NEW c, WellFormed(c)
  PROVE  /\ Size \in Nat /\ c.first_dynamic \in Nat /\ c.first_free \in Nat
         /\ c.first_pending \in Nat /\ c.first_dynamic <= c.first_free
         /\ c.first_free <= c.first_pending /\ c.first_pending <= Size
BY ArpCacheAssumption DEF WellFormed, CacheType

(* Every entry is of a host, and the kind of the entry is that of its slot. *)
Kind(c, i) == IF i < c.first_dynamic THEN "fixed"
              ELSE IF i < c.first_free THEN "dynamic" ELSE "pending"

LEMMA SectionsLemma ==
  ASSUME NEW c, WellFormed(c)
  PROVE  /\ Dynamic(c) \subseteq InUse(c) /\ Fixed(c) \subseteq InUse(c)
         /\ Pending(c) \subseteq InUse(c)
         /\ \A i \in InUse(c) : /\ Kind(c, i) = "fixed" => i \in Fixed(c)
                                /\ Kind(c, i) = "dynamic" => i \in Dynamic(c)
                                /\ Kind(c, i) = "pending" => i \in Pending(c)
         /\ \A i \in Fixed(c) : Kind(c, i) = "fixed"
         /\ \A i \in Dynamic(c) : Kind(c, i) = "dynamic"
         /\ \A i \in Pending(c) : Kind(c, i) = "pending"
BY Bounds DEF InUse, Free, Slots, Dynamic, Fixed, Pending, Kind

LEMMA HostLemma ==
  ASSUME NEW c, WellFormed(c), NEW i \in InUse(c)
  PROVE  c.list[i].ip \in Hosts
<1>1. i \in 0 .. c.first_free - 1 \/ i \in Pending(c)
  BY Bounds DEF InUse, Free, Slots, Pending
<1>2. QED
  BY <1>1 DEF WellFormed

LEMMA KindLemma ==
  ASSUME NEW c, WellFormed(c), NEW i \in InUse(c)
  PROVE  KindOf(c, c.list[i].ip) = Kind(c, i)
<1> DEFINE h == c.list[i].ip
<1>1. \A j \in InUse(c) : c.list[j].ip = h => j = i
  BY DEF WellFormed
<1> HIDE DEF h
<1>2. Kind(c, i) \in {"fixed", "dynamic", "pending"}
  BY DEF Kind
<1>3. /\ In(c, Fixed(c), h) <=> Kind(c, i) = "fixed"
      /\ In(c, Dynamic(c), h) <=> Kind(c, i) = "dynamic"
      /\ IsPending(c, h) <=> Kind(c, i) = "pending"
  <2>1. /\ In(c, Fixed(c), h) <=> i \in Fixed(c)
        /\ In(c, Dynamic(c), h) <=> i \in Dynamic(c)
        /\ IsPending(c, h) <=> i \in Pending(c)
    BY <1>1, SectionsLemma DEF In, IsPending, h
  <2>2. QED
    BY <2>1, SectionsLemma
<1>4. KindOf(c, h) = Kind(c, i)
  BY <1>2, <1>3 DEF KindOf
<1>5. QED
  BY <1>4 DEF h

LEMMA AbsentLemma ==
  ASSUME NEW c, WellFormed(c), NEW h, Absent(c, h)
  PROVE  KindOf(c, h) = "none"
BY SectionsLemma DEF KindOf, In, IsPending, Absent

(* The table of c with another kind for h. *)
With(c, h, kind) == [TableOf(c) EXCEPT ![h] = kind]

LEMMA WithLemma ==
  ASSUME NEW c, NEW d, NEW h, NEW kind, KindOf(d, h) = kind,
         \A g \in Hosts \ {h} : KindOf(d, g) = KindOf(c, g)
  PROVE  TableOf(d) = With(c, h, kind)
<1>1. With(c, h, kind) = [g \in Hosts |-> IF g = h THEN kind ELSE KindOf(c, g)]
  BY DEF With, TableOf
<1>2. \A g \in Hosts : KindOf(d, g) = IF g = h THEN kind ELSE KindOf(c, g)
  OBVIOUS
<1>3. QED
  BY <1>1, <1>2 DEF TableOf

(* A slot that falls free is not read any more. *)
LEMMA CleanLemma ==
  ASSUME NEW c, WellFormed(c)
  PROVE  /\ WellFormed(Clean(c))
         /\ Clean(c).first_dynamic = c.first_dynamic
         /\ Clean(c).first_free = c.first_free
         /\ Clean(c).first_pending = c.first_pending
         /\ \A h : Absent(c, h) => Absent(Clean(c), h)
         /\ TableOf(Clean(c)) = TableOf(c)
<1> DEFINE l == [i \in Slots |-> IF i \in Free(c) THEN NoEntry ELSE c.list[i]]
           d == Clean(c)
<1>1. l \in [Slots -> Entry]
  BY DEF WellFormed, CacheType, NoEntry, Entry
<1>2. d = [c EXCEPT !.list = l]
  BY DEF Clean
<1> HIDE DEF d
<1>3. d \in CacheType /\ d.list = l
  BY <1>1, <1>2 DEF WellFormed, CacheType
<1>4. /\ d.first_dynamic = c.first_dynamic /\ d.first_free = c.first_free
      /\ d.first_pending = c.first_pending
  BY <1>2 DEF WellFormed, CacheType
<1>5. \A i \in InUse(c) : d.list[i] = c.list[i]
  BY <1>3 DEF InUse
<1>6. InUse(d) = InUse(c)
  BY <1>4 DEF InUse, Free
<1>7. 0 .. d.first_free - 1 \subseteq InUse(c)
  BY <1>4, ArpCacheAssumption DEF WellFormed, CacheType, InUse, Free, Slots
<1>8. Pending(d) = Pending(c) /\ Pending(d) \subseteq InUse(c)
  BY <1>4, SectionsLemma DEF Pending
<1>9. WellFormed(d)
  BY <1>3, <1>4, <1>5, <1>6, <1>7, <1>8 DEF WellFormed
<1>10. TableOf(d) = TableOf(c)
  <2>1. Fixed(d) = Fixed(c) /\ Dynamic(d) = Dynamic(c)
    BY <1>4 DEF Fixed, Dynamic
  <2>2. \A h \in Hosts : /\ In(d, Fixed(d), h) <=> In(c, Fixed(c), h)
                         /\ In(d, Dynamic(d), h) <=> In(c, Dynamic(c), h)
                         /\ IsPending(d, h) <=> IsPending(c, h)
    BY <1>5, <1>8, <2>1, SectionsLemma DEF In, IsPending
  <2>3. \A h \in Hosts : KindOf(d, h) = KindOf(c, h)
    BY <2>2 DEF KindOf
  <2>4. QED
    BY <2>3 DEF TableOf
<1>11. QED
  BY <1>4, <1>5, <1>6, <1>9, <1>10 DEF d, Absent

(* Entries were moved, each from a slot of its own in the same section, and *)
(* slot i was left out: its host is gone, all others are as before.         *)
Moves(c, d, i, from) ==
  /\ d \in CacheType
  /\ d.first_dynamic <= d.first_free /\ d.first_free <= d.first_pending
  /\ i \in InUse(c) /\ from \in [InUse(d) -> InUse(c) \ {i}]
  /\ \A j, k \in InUse(d) : from[j] = from[k] => j = k
  /\ \A k \in InUse(c) \ {i} : \E j \in InUse(d) : from[j] = k
  /\ \A j \in InUse(d) : d.list[j] = c.list[from[j]]
  /\ \A j \in InUse(d) : Kind(d, j) = Kind(c, from[j])

LEMMA MoveLemma ==
  ASSUME NEW c, WellFormed(c), NEW d, NEW i, NEW from, Moves(c, d, i, from)
  PROVE  /\ WellFormed(d) /\ Absent(d, c.list[i].ip)
         /\ TableOf(d) = With(c, c.list[i].ip, "none")
<1> USE DEF Moves
<1>0. \A j \in 0 .. d.first_free - 1 : from[j] \in 0 .. c.first_free - 1
  <2>1. \A j \in 0 .. d.first_free - 1 : j \in InUse(d) /\ Kind(d, j) # "pending"
    BY ArpCacheAssumption DEF CacheType, InUse, Free, Slots, Kind
  <2>2. \A k \in InUse(c) : Kind(c, k) # "pending" => k \in 0 .. c.first_free - 1
    BY Bounds DEF InUse, Free, Slots, Kind
  <2>3. QED
    BY <2>1, <2>2
<1>1. \A j, k \in InUse(d) : d.list[j].ip = d.list[k].ip => j = k
  BY DEF WellFormed
<1>2. 0 .. d.first_free - 1 \subseteq InUse(d)
  BY ArpCacheAssumption DEF CacheType, InUse, Free, Slots
<1>3. \A j \in 0 .. d.first_free - 1 :
        d.list[j].ip \in Hosts /\ d.list[j].mac = d.list[j].ip
  BY <1>0, <1>2 DEF WellFormed
<1>4. Absent(d, c.list[i].ip)
  BY DEF WellFormed, Absent
<1>5. \A j \in Pending(d) : d.list[j].ip \in Hosts
  <2>1. Pending(d) \subseteq InUse(d)
    BY ArpCacheAssumption DEF CacheType, InUse, Free, Slots, Pending
  <2>2. QED
    BY <2>1, HostLemma
<1>6. WellFormed(d)
  BY <1>1, <1>3, <1>5 DEF WellFormed
<1>7. ASSUME NEW h \in Hosts, h # c.list[i].ip
      PROVE  KindOf(d, h) = KindOf(c, h)
  <2>1. CASE Absent(c, h)
    <3>1. Absent(d, h)
      BY <2>1 DEF Absent
    <3>2. QED
      BY <1>6, <2>1, <3>1, AbsentLemma
  <2>2. CASE ~Absent(c, h)
    <3>1. PICK k \in InUse(c) \ {i} : c.list[k].ip = h
      BY <1>7, <2>2 DEF Absent
    <3>2. PICK j \in InUse(d) : from[j] = k
      BY <3>1
    <3>3. d.list[j].ip = h /\ Kind(d, j) = Kind(c, k)
      BY <3>1, <3>2
    <3>4. QED
      BY <1>6, <3>1, <3>3, KindLemma
  <2>3. QED
    BY <2>1, <2>2
<1>8. TableOf(d) = With(c, c.list[i].ip, "none")
  BY <1>4, <1>6, <1>7, AbsentLemma, WithLemma
<1>9. QED
  BY <1>4, <1>6, <1>8

(* A pending entry is removed: the first one takes its place. *)
LEMMA RemovePendingLemma ==
  ASSUME NEW c, WellFormed(c), NEW i \in Pending(c)
  PROVE  /\ WellFormed(RemovePending(c, i))
         /\ RemovePending(c, i).first_pending = c.first_pending + 1
         /\ Absent(RemovePending(c, i), c.list[i].ip)
         /\ TableOf(RemovePending(c, i)) = With(c, c.list[i].ip, "none")
<1> DEFINE l == [c.list EXCEPT ![i] = c.list[c.first_pending]]
           p == c.first_pending + 1
           d == [c EXCEPT !.list[i] = c.list[c.first_pending], !.first_pending = @ + 1]
           from == [j \in InUse(d) |-> IF j = i THEN c.first_pending ELSE j]
<1>1. /\ i \in Slots /\ c.first_pending \in Slots /\ c.first_pending <= i
      /\ p \in 0 .. Size
  BY ArpCacheAssumption DEF WellFormed, CacheType, Pending, Slots
<1>2. l \in [Slots -> Entry]
  BY <1>1 DEF WellFormed, CacheType
<1>3. /\ d \in CacheType /\ d.list = l /\ d.first_pending = p
      /\ d.first_dynamic = c.first_dynamic /\ d.first_free = c.first_free
  BY <1>1, <1>2 DEF WellFormed, CacheType
<1> HIDE DEF d
<1>4. i \in InUse(c)
  BY <1>1 DEF WellFormed, CacheType, InUse, Free, Slots
<1>5. \A j \in InUse(d) : j \in InUse(c) /\ j \in Slots /\ j # c.first_pending
  BY <1>1, <1>3 DEF WellFormed, CacheType, InUse, Free, Slots
<1>6. c.first_pending \in InUse(c)
  BY <1>1 DEF WellFormed, CacheType, InUse, Free, Slots
<1>7. /\ WellFormed(d) /\ Absent(d, c.list[i].ip)
      /\ TableOf(d) = With(c, c.list[i].ip, "none")
  <2>1. from \in [InUse(d) -> InUse(c) \ {i}]
    BY <1>5, <1>6
  <2>2. \A j, k \in InUse(d) : from[j] = from[k] => j = k
    BY <1>5
  <2>3. \A j \in InUse(d) : d.list[j] = c.list[from[j]]
    BY <1>3, <1>5 DEF WellFormed, CacheType
  <2>4. d.first_dynamic <= d.first_free /\ d.first_free <= d.first_pending
    BY <1>1, <1>3, Bounds DEF Slots
  <2>5. \A k \in InUse(c) \ {i} : \E j \in InUse(d) : from[j] = k
    <3>1. ASSUME NEW k \in InUse(c), k # i, k # c.first_pending
          PROVE  k \in InUse(d) /\ from[k] = k
      BY <1>1, <1>3, <3>1, Bounds DEF InUse, Free, Slots
    <3>2. c.first_pending # i => i \in InUse(d) /\ from[i] = c.first_pending
      BY <1>1, <1>3, Bounds DEF InUse, Free, Slots
    <3>3. QED
      BY <3>1, <3>2
  <2>6. \A j \in InUse(d) : Kind(d, j) = Kind(c, from[j])
    BY <1>1, <1>3, <1>5, Bounds DEF InUse, Free, Slots, Kind
  <2> HIDE DEF from
  <2>7. Moves(c, d, i, from)
    BY <1>3, <1>4, <2>1, <2>2, <2>3, <2>4, <2>5, <2>6, Zenon DEF Moves
  <2>8. QED
    BY <2>7, MoveLemma
<1>8. RemovePending(c, i) = Clean(d)
  BY DEF RemovePending, d
<1>9. QED
  BY <1>3, <1>7, <1>8, CleanLemma

(* A dynamic entry is removed: the top one takes its place. *)
LEMMA RemoveDynamicLemma ==
  ASSUME NEW c, WellFormed(c), NEW i \in Dynamic(c)
  PROVE  /\ WellFormed(RemoveDynamic(c, i))
         /\ RemoveDynamic(c, i).first_dynamic = c.first_dynamic
         /\ RemoveDynamic(c, i).first_free = c.first_free - 1
         /\ RemoveDynamic(c, i).first_pending = c.first_pending
         /\ Absent(RemoveDynamic(c, i), c.list[i].ip)
         /\ TableOf(RemoveDynamic(c, i)) = With(c, c.list[i].ip, "none")
<1> DEFINE top == c.first_free - 1
           l == [c.list EXCEPT ![i] = c.list[top]]
           d == [c EXCEPT !.list[i] = c.list[c.first_free - 1], !.first_free = @ - 1]
           from == [j \in InUse(d) |-> IF j = i THEN top ELSE j]
<1>1. /\ i \in Slots /\ top \in Slots /\ i <= top /\ c.first_dynamic <= i
      /\ top \in 0 .. Size
  BY ArpCacheAssumption DEF WellFormed, CacheType, Dynamic, Slots
<1>2. l \in [Slots -> Entry]
  BY <1>1 DEF WellFormed, CacheType
<1>3. /\ d \in CacheType /\ d.list = l /\ d.first_free = top
      /\ d.first_dynamic = c.first_dynamic /\ d.first_pending = c.first_pending
  BY <1>1, <1>2 DEF WellFormed, CacheType
<1> HIDE DEF d
<1>4. i \in InUse(c)
  BY <1>1 DEF WellFormed, CacheType, InUse, Free, Slots
<1>5. \A j \in InUse(d) : j \in InUse(c) /\ j \in Slots /\ j # top
  BY <1>1, <1>3 DEF WellFormed, CacheType, InUse, Free, Slots
<1>6. top \in InUse(c)
  BY <1>1 DEF WellFormed, CacheType, InUse, Free, Slots
<1>7. /\ WellFormed(d) /\ Absent(d, c.list[i].ip)
      /\ TableOf(d) = With(c, c.list[i].ip, "none")
  <2>1. from \in [InUse(d) -> InUse(c) \ {i}]
    BY <1>5, <1>6
  <2>2. \A j, k \in InUse(d) : from[j] = from[k] => j = k
    BY <1>5
  <2>3. \A j \in InUse(d) : d.list[j] = c.list[from[j]]
    BY <1>3, <1>5 DEF WellFormed, CacheType
  <2>4. d.first_dynamic <= d.first_free /\ d.first_free <= d.first_pending
    BY <1>1, <1>3, Bounds DEF Slots
  <2>5. \A k \in InUse(c) \ {i} : \E j \in InUse(d) : from[j] = k
    <3>1. ASSUME NEW k \in InUse(c), k # i, k # top
          PROVE  k \in InUse(d) /\ from[k] = k
      BY <1>1, <1>3, <3>1, Bounds DEF InUse, Free, Slots
    <3>2. top # i => i \in InUse(d) /\ from[i] = top
      BY <1>1, <1>3, Bounds DEF InUse, Free, Slots
    <3>3. QED
      BY <3>1, <3>2
  <2>6. \A j \in InUse(d) : Kind(d, j) = Kind(c, from[j])
    BY <1>1, <1>3, <1>5, Bounds DEF InUse, Free, Slots, Kind
  <2> HIDE DEF from
  <2>7. Moves(c, d, i, from)
    BY <1>3, <1>4, <2>1, <2>2, <2>3, <2>4, <2>5, <2>6, Zenon DEF Moves
  <2>8. QED
    BY <2>7, MoveLemma
<1>8. RemoveDynamic(c, i) = Clean(d)
  BY DEF RemoveDynamic, d
<1>9. QED
  BY <1>3, <1>7, <1>8, CleanLemma

(* A fixed entry is removed: the top fixed one takes its place, and the top *)
(* dynamic one the place of that.                                          *)
LEMMA RemoveFixedLemma ==
  ASSUME NEW c, WellFormed(c), NEW i \in Fixed(c)
  PROVE  /\ WellFormed(RemoveFixed(c, i)) /\ Absent(RemoveFixed(c, i), c.list[i].ip)
         /\ TableOf(RemoveFixed(c, i)) = With(c, c.list[i].ip, "none")
<1> DEFINE fixed == c.first_dynamic - 1
           top == c.first_free - 1
           filled == [c.list EXCEPT ![i] = c.list[fixed]]
           l == IF fixed < top THEN [filled EXCEPT ![fixed] = filled[top]] ELSE filled
           d == [c EXCEPT !.list = l, !.first_dynamic = fixed, !.first_free = top]
           from == [j \in InUse(d) |->
                      IF j = fixed THEN top ELSE IF j = i THEN fixed ELSE j]
<1>1. /\ i \in Slots /\ fixed \in Slots /\ top \in Slots /\ i <= fixed /\ fixed <= top
      /\ fixed \in 0 .. Size /\ top \in 0 .. Size
  BY Bounds DEF Fixed, Slots
<1>2. l \in [Slots -> Entry]
  BY <1>1 DEF WellFormed, CacheType
<1> HIDE DEF l
<1>3. /\ d \in CacheType /\ d.list = l /\ d.first_free = top
      /\ d.first_dynamic = fixed /\ d.first_pending = c.first_pending
  BY <1>1, <1>2 DEF WellFormed, CacheType
<1> HIDE DEF d
<1>4. i \in InUse(c) /\ fixed \in InUse(c) /\ top \in InUse(c)
  BY <1>1, Bounds DEF InUse, Free, Slots
<1>5. \A j \in InUse(d) : j \in InUse(c) /\ j \in Slots /\ j # top
  BY <1>1, <1>3, Bounds DEF InUse, Free, Slots
<1>6. \A j \in InUse(d) : j = fixed => top # i /\ fixed < top
  BY <1>1, <1>5 DEF Slots
<1>7. /\ WellFormed(d) /\ Absent(d, c.list[i].ip)
      /\ TableOf(d) = With(c, c.list[i].ip, "none")
  <2>1. from \in [InUse(d) -> InUse(c) \ {i}]
    BY <1>4, <1>5, <1>6
  <2>2. \A j, k \in InUse(d) : from[j] = from[k] => j = k
    BY <1>5, <1>6
  <2>3. \A j \in InUse(d) : d.list[j] = c.list[from[j]]
    <3>1. \A j \in InUse(d) : j = fixed => l[j] = c.list[top]
      BY <1>1, <1>5, <1>6 DEF l, WellFormed, CacheType, Slots
    <3>2. \A j \in InUse(d) : j # fixed /\ j = i => l[j] = c.list[fixed]
      BY <1>1, <1>5 DEF l, WellFormed, CacheType
    <3>3. \A j \in InUse(d) : j # fixed /\ j # i => l[j] = c.list[j]
      BY <1>1, <1>5 DEF l, WellFormed, CacheType
    <3>4. QED
      BY <1>3, <3>1, <3>2, <3>3
  <2>4. d.first_dynamic <= d.first_free /\ d.first_free <= d.first_pending
    BY <1>1, <1>3, Bounds DEF Slots
  <2>5. \A k \in InUse(c) \ {i} : \E j \in InUse(d) : from[j] = k
    <3>1. ASSUME NEW k \in InUse(c), k # i, k # fixed, k # top
          PROVE  k \in InUse(d) /\ from[k] = k
      BY <1>1, <1>3, <3>1, Bounds DEF InUse, Free, Slots
    <3>2. fixed # i => i \in InUse(d) /\ from[i] = fixed
      BY <1>1, <1>3, Bounds DEF InUse, Free, Slots
    <3>3. top # i /\ top # fixed => fixed \in InUse(d) /\ from[fixed] = top
      BY <1>1, <1>3, Bounds DEF InUse, Free, Slots
    <3>4. QED
      BY <3>1, <3>2, <3>3
  <2>6. \A j \in InUse(d) : Kind(d, j) = Kind(c, from[j])
    BY <1>1, <1>3, <1>5, <1>6, Bounds DEF InUse, Free, Slots, Kind
  <2> HIDE DEF from
  <2>7. Moves(c, d, i, from)
    BY <1>3, <1>4, <2>1, <2>2, <2>3, <2>4, <2>5, <2>6, Zenon DEF Moves
  <2>8. QED
    BY <2>7, MoveLemma
<1>8. RemoveFixed(c, i) = Clean(d)
  BY DEF RemoveFixed, d, l
<1>9. QED
  BY <1>7, <1>8, CleanLemma

(* _arp_cache_del() removes the only entry that the host has. *)
LEMMA DelLemma ==
  ASSUME NEW c, WellFormed(c), NEW h
  PROVE  /\ WellFormed(Del(c, h)) /\ Absent(Del(c, h), h)
         /\ TableOf(Del(c, h)) = With(c, h, "none")
<1>1. /\ Dynamic(c) \subseteq InUse(c) /\ Fixed(c) \subseteq InUse(c)
      /\ Pending(c) \subseteq InUse(c)
      /\ InUse(c) \subseteq Dynamic(c) \cup Fixed(c) \cup Pending(c)
  BY Bounds DEF InUse, Free, Slots, Dynamic, Fixed, Pending
<1>2. CASE In(c, Dynamic(c), h)
  <2>1. Del(c, h) = RemoveDynamic(c, SlotOf(c, Dynamic(c), h))
    BY <1>2 DEF Del
  <2>2. QED
    BY <1>1, <1>2, <2>1, SlotOfIsSlot, RemoveDynamicLemma
<1>3. CASE ~In(c, Dynamic(c), h) /\ In(c, Fixed(c), h)
  <2>1. Del(c, h) = RemoveFixed(c, SlotOf(c, Fixed(c), h))
    BY <1>3 DEF Del
  <2>2. QED
    BY <1>1, <1>3, <2>1, SlotOfIsSlot, RemoveFixedLemma
<1>4. CASE ~In(c, Dynamic(c), h) /\ ~In(c, Fixed(c), h) /\ IsPending(c, h)
  <2>1. Del(c, h) = RemovePending(c, SlotOf(c, Pending(c), h))
    BY <1>4 DEF Del
  <2>2. QED
    BY <1>1, <1>4, <2>1, SlotOfIsSlot, RemovePendingLemma DEF IsPending
<1>5. CASE ~In(c, Dynamic(c), h) /\ ~In(c, Fixed(c), h) /\ ~IsPending(c, h)
  <2>1. Del(c, h) = c
    BY <1>5 DEF Del
  <2>2. Absent(c, h)
    BY <1>1, <1>5 DEF Absent, In, IsPending
  <2>3. TableOf(c) = With(c, h, "none")
    BY <2>2, AbsentLemma, WithLemma
  <2>4. QED
    BY <2>1, <2>2, <2>3
<1>6. QED
  BY <1>2, <1>3, <1>4, <1>5
-----------------------------------------------------------------------------
(* A host that has no entry gets one, in slot s; the others may have moved  *)
(* within their sections.                                                  *)
Inserts(c, d, h, s, from) ==
  /\ Absent(c, h) /\ h \in Hosts
  /\ d \in CacheType
  /\ d.first_dynamic <= d.first_free /\ d.first_free <= d.first_pending
  /\ s \in InUse(d) /\ d.list[s].ip = h
  /\ s < d.first_free => d.list[s].mac = h
  /\ from \in [InUse(d) \ {s} -> InUse(c)]
  /\ \A j, k \in InUse(d) \ {s} : from[j] = from[k] => j = k
  /\ \A k \in InUse(c) : \E j \in InUse(d) \ {s} : from[j] = k
  /\ \A j \in InUse(d) \ {s} : d.list[j] = c.list[from[j]]
  /\ \A j \in InUse(d) \ {s} : Kind(d, j) = Kind(c, from[j])

LEMMA InsertLemma ==
  ASSUME NEW c, WellFormed(c), NEW d, NEW h, NEW s, NEW from, Inserts(c, d, h, s, from)
  PROVE  WellFormed(d) /\ TableOf(d) = With(c, h, Kind(d, s))
<1> USE DEF Inserts
<1>0. \A j \in (0 .. d.first_free - 1) \ {s} : from[j] \in 0 .. c.first_free - 1
  <2>1. \A j \in 0 .. d.first_free - 1 : j \in InUse(d) /\ Kind(d, j) # "pending"
    BY ArpCacheAssumption DEF CacheType, InUse, Free, Slots, Kind
  <2>2. \A k \in InUse(c) : Kind(c, k) # "pending" => k \in 0 .. c.first_free - 1
    BY Bounds DEF InUse, Free, Slots, Kind
  <2>3. QED
    BY <2>1, <2>2
<1>1. \A j \in InUse(d) \ {s} : d.list[j].ip # h
  BY DEF Absent
<1>2. \A j, k \in InUse(d) : d.list[j].ip = d.list[k].ip => j = k
  BY <1>1 DEF WellFormed
<1>3. 0 .. d.first_free - 1 \subseteq InUse(d)
  BY ArpCacheAssumption DEF CacheType, InUse, Free, Slots
<1>4. \A j \in 0 .. d.first_free - 1 :
        d.list[j].ip \in Hosts /\ d.list[j].mac = d.list[j].ip
  <2>1. \A j \in (0 .. d.first_free - 1) \ {s} :
          d.list[j].ip \in Hosts /\ d.list[j].mac = d.list[j].ip
    BY <1>0, <1>3 DEF WellFormed
  <2>2. s \in 0 .. d.first_free - 1 => s < d.first_free
    BY DEF CacheType
  <2>3. QED
    BY <2>1, <2>2
<1>5. \A j \in Pending(d) : d.list[j].ip \in Hosts
  <2>1. Pending(d) \subseteq InUse(d)
    BY ArpCacheAssumption DEF CacheType, InUse, Free, Slots, Pending
  <2>2. QED
    BY <2>1, HostLemma
<1>6. WellFormed(d)
  BY <1>2, <1>4, <1>5 DEF WellFormed
<1>7. ASSUME NEW g \in Hosts \ {h}
      PROVE  KindOf(d, g) = KindOf(c, g)
  <2>1. CASE Absent(c, g)
    <3>1. Absent(d, g)
      BY <2>1 DEF Absent
    <3>2. QED
      BY <1>6, <2>1, <3>1, AbsentLemma
  <2>2. CASE ~Absent(c, g)
    <3>1. PICK k \in InUse(c) : c.list[k].ip = g
      BY <2>2 DEF Absent
    <3>2. PICK j \in InUse(d) \ {s} : from[j] = k
      BY <3>1
    <3>3. d.list[j].ip = g /\ Kind(d, j) = Kind(c, k)
      BY <3>1, <3>2
    <3>4. QED
      BY <1>6, <3>1, <3>3, KindLemma
  <2>3. QED
    BY <2>1, <2>2
<1>8. KindOf(d, h) = Kind(d, s)
  BY <1>6, KindLemma
<1>9. QED
  BY <1>6, <1>7, <1>8, WithLemma

(* The top dynamic entry makes room. *)
LEMMA DropTopLemma ==
  ASSUME NEW c, WellFormed(c), c.first_dynamic < c.first_free
  PROVE  LET d == [c EXCEPT !.first_free = @ - 1]
             g == c.list[c.first_free - 1].ip
         IN /\ WellFormed(d)
            /\ d.first_free = c.first_free - 1 /\ d.first_dynamic = c.first_dynamic
            /\ d.first_pending = c.first_pending
            /\ \A h : Absent(c, h) => Absent(d, h)
            /\ g \in Hosts /\ ~Absent(c, g) /\ KindOf(c, g) = "dynamic"
            /\ TableOf(d) = With(c, g, "none")
<1> DEFINE top == c.first_free - 1
           d == [c EXCEPT !.first_free = @ - 1]
           from == [j \in InUse(d) |-> j]
<1>1. top \in 0 .. Size
  BY Bounds
<1>2. /\ d \in CacheType /\ d.list = c.list /\ d.first_free = top
      /\ d.first_dynamic = c.first_dynamic /\ d.first_pending = c.first_pending
  BY <1>1 DEF WellFormed, CacheType
<1> HIDE DEF d
<1>3. d.first_dynamic <= d.first_free /\ d.first_free <= d.first_pending
  BY <1>2, Bounds
<1>4. InUse(d) = InUse(c) \ {top} /\ top \in InUse(c)
  BY <1>2, Bounds DEF InUse, Free, Slots
<1>5. \A j \in InUse(d) : Kind(d, j) = Kind(c, j)
  BY <1>2, <1>4, Bounds DEF InUse, Free, Slots, Kind
<1>6. Moves(c, d, top, from)
  <2>1. \A j \in InUse(d) : from[j] = j
    OBVIOUS
  <2>2. from \in [InUse(d) -> InUse(c) \ {top}]
    BY <1>4
  <2> HIDE DEF from
  <2>3. QED
    BY <1>2, <1>3, <1>4, <1>5, <2>1, <2>2 DEF Moves
<1>7. WellFormed(d) /\ TableOf(d) = With(c, c.list[top].ip, "none")
  BY <1>6, MoveLemma
<1>8. \A h : Absent(c, h) => Absent(d, h)
  BY <1>2, <1>4 DEF Absent
<1>9. Kind(c, top) = "dynamic"
  BY <1>4, Bounds DEF Kind
<1>10. /\ c.list[top].ip \in Hosts /\ ~Absent(c, c.list[top].ip)
       /\ KindOf(c, c.list[top].ip) = "dynamic"
  BY <1>4, <1>9, HostLemma, KindLemma DEF Absent
<1>11. QED
  BY <1>2, <1>7, <1>8, <1>10 DEF d

LEMMA PushPendingLemma ==
  ASSUME NEW c, WellFormed(c), c.first_free < c.first_pending,
         NEW h \in Hosts, Absent(c, h)
  PROVE  /\ WellFormed(PushPending(c, h))
         /\ TableOf(PushPending(c, h)) = With(c, h, "pending")
<1> DEFINE s == c.first_pending - 1
           l == [c.list EXCEPT ![s] = [ip |-> h, mac |-> None]]
           d == PushPending(c, h)
           from == [j \in InUse(d) \ {s} |-> j]
<1>1. s \in 0 .. Size /\ s \in Slots
  BY Bounds DEF Slots
<1>2. l \in [Slots -> Entry]
  BY <1>1 DEF WellFormed, CacheType, Entry
<1>3. /\ d \in CacheType /\ d.list = l /\ d.first_free = c.first_free
      /\ d.first_dynamic = c.first_dynamic /\ d.first_pending = s
  BY <1>1, <1>2 DEF WellFormed, CacheType, PushPending
<1> HIDE DEF d
<1>4. s \in InUse(d) /\ d.list[s].ip = h /\ ~(s < d.first_free) /\ Kind(d, s) = "pending"
  BY <1>1, <1>3, Bounds DEF InUse, Free, Slots, WellFormed, CacheType, Kind
<1>5. \A j \in InUse(d) \ {s} : /\ j \in InUse(c) /\ d.list[j] = c.list[j]
                               /\ Kind(d, j) = Kind(c, j)
  BY <1>1, <1>3, Bounds DEF InUse, Free, Slots, WellFormed, CacheType, Kind
<1>6. \A k \in InUse(c) : k \in InUse(d) \ {s}
  BY <1>1, <1>3, Bounds DEF InUse, Free, Slots
<1>7. d.first_dynamic <= d.first_free /\ d.first_free <= d.first_pending
  BY <1>3, Bounds
<1>8. Inserts(c, d, h, s, from)
  <2>1. \A j \in InUse(d) \ {s} : from[j] = j
    OBVIOUS
  <2>2. from \in [InUse(d) \ {s} -> InUse(c)]
    BY <1>5
  <2> HIDE DEF s, l, from
  <2>3. QED
    BY <1>3, <1>4, <1>5, <1>6, <1>7, <2>1, <2>2 DEF Inserts
<1>9. QED
  BY <1>4, <1>8, InsertLemma DEF d

(* LAN_start_lookup() *)
(* The host that loses its place to another one when the array is full. *)
Displaces(c, t, h, kind) ==
  \E g \in Hosts : /\ g # h /\ KindOf(c, g) = "dynamic"
                   /\ t = [With(c, g, "none") EXCEPT ![h] = kind]

LEMMA StartLookupLemma ==
  ASSUME NEW c, WellFormed(c), NEW h \in Hosts
  PROVE  LET d == StartLookup(c, h)
             room == c.first_free < c.first_pending
         IN /\ WellFormed(d)
            /\ \/ d = c
               \/ room /\ Absent(c, h) /\ TableOf(d) = With(c, h, "pending")
               \/ ~room /\ Absent(c, h) /\ Displaces(c, TableOf(d), h, "pending")
<1>1. ~Listed(c, h) => Absent(c, h)
  BY Bounds DEF Listed, Resolved, IsPending, In, Absent, InUse, Free, Pending, Slots
<1>2. CASE Listed(c, h) \/ ~Starts(c, h)
  BY <1>2 DEF StartLookup
<1>3. CASE ~Listed(c, h) /\ c.first_free < c.first_pending
  <2>1. StartLookup(c, h) = PushPending(c, h)
    BY <1>3 DEF StartLookup, Starts
  <2>2. QED
    BY <1>1, <1>3, <2>1, PushPendingLemma
<1>4. CASE ~Listed(c, h) /\ Starts(c, h) /\ ~(c.first_free < c.first_pending)
  <2> DEFINE d == [c EXCEPT !.first_free = @ - 1]
             g == c.list[c.first_free - 1].ip
  <2>1. c.first_dynamic < c.first_free
    BY <1>4 DEF Starts
  <2>2. StartLookup(c, h) = PushPending(d, h)
    BY <1>4 DEF StartLookup
  <2>3. /\ WellFormed(d) /\ Absent(d, h)
        /\ d.first_free = c.first_free - 1 /\ d.first_pending = c.first_pending
        /\ g \in Hosts /\ g # h /\ KindOf(c, g) = "dynamic"
        /\ TableOf(d) = With(c, g, "none")
    BY <1>1, <1>4, <2>1, DropTopLemma
  <2> HIDE DEF d, g
  <2>4. d.first_free < d.first_pending
    BY <2>3, Bounds
  <2>5. WellFormed(PushPending(d, h)) /\ TableOf(PushPending(d, h)) = With(d, h, "pending")
    BY <2>3, <2>4, PushPendingLemma
  <2>6. With(d, h, "pending") = [With(c, g, "none") EXCEPT ![h] = "pending"]
    BY <2>3 DEF With
  <2>7. Displaces(c, TableOf(PushPending(d, h)), h, "pending")
    BY <2>3, <2>5, <2>6 DEF Displaces
  <2>8. QED
    BY <1>1, <1>4, <2>2, <2>5, <2>7
<1>5. QED
  BY <1>2, <1>3, <1>4

LEMMA PushDynamicLemma ==
  ASSUME NEW c, WellFormed(c), NEW h \in Hosts, Absent(c, h)
  PROVE  LET d == PushDynamic(c, h, h)
             room == c.first_free < c.first_pending
         IN /\ WellFormed(d)
            /\ room => TableOf(d) = With(c, h, "dynamic")
            /\ ~room => d = c
<1> DEFINE s == c.first_free
           l == [c.list EXCEPT ![s] = [ip |-> h, mac |-> h]]
           d == [c EXCEPT !.list[s] = [ip |-> h, mac |-> h], !.first_free = @ + 1]
           from == [j \in InUse(d) \ {s} |-> j]
<1>1. CASE c.first_free >= c.first_pending
  BY <1>1, Bounds DEF PushDynamic
<1>2. CASE ~(c.first_free >= c.first_pending)
  <2>1. s + 1 \in 0 .. Size /\ s \in Slots
    BY <1>2, Bounds DEF Slots
  <2>2. l \in [Slots -> Entry]
    BY <2>1 DEF WellFormed, CacheType, Entry
  <2>3. /\ d \in CacheType /\ d.list = l /\ d.first_free = s + 1
        /\ d.first_dynamic = c.first_dynamic /\ d.first_pending = c.first_pending
    BY <2>1, <2>2 DEF WellFormed, CacheType
  <2> HIDE DEF d
  <2>4. /\ s \in InUse(d) /\ d.list[s].ip = h /\ d.list[s].mac = h
        /\ Kind(d, s) = "dynamic"
    BY <2>1, <2>3, Bounds DEF InUse, Free, Slots, WellFormed, CacheType, Kind
  <2>5. \A j \in InUse(d) \ {s} : /\ j \in InUse(c) /\ d.list[j] = c.list[j]
                                 /\ Kind(d, j) = Kind(c, j)
    BY <2>1, <2>3, Bounds DEF InUse, Free, Slots, WellFormed, CacheType, Kind
  <2>6. \A k \in InUse(c) : k \in InUse(d) \ {s}
    BY <1>2, <2>3, Bounds DEF InUse, Free, Slots
  <2>7. d.first_dynamic <= d.first_free /\ d.first_free <= d.first_pending
    BY <1>2, <2>3, Bounds
  <2>8. PushDynamic(c, h, h) = d /\ c.first_free < c.first_pending
    BY <1>2, Bounds DEF PushDynamic, d
  <2>9. Inserts(c, d, h, s, from)
    <3>1. \A j \in InUse(d) \ {s} : from[j] = j
      OBVIOUS
    <3>2. from \in [InUse(d) \ {s} -> InUse(c)]
      BY <2>5
    <3> HIDE DEF s, l, from
    <3>3. QED
      BY <2>3, <2>4, <2>5, <2>6, <2>7, <3>1, <3>2 DEF Inserts
  <2>10. WellFormed(d) /\ TableOf(d) = With(c, h, "dynamic")
    BY <2>4, <2>9, InsertLemma
  <2>11. QED
    BY <2>8, <2>10
<1>3. QED
  BY <1>1, <1>2

(* A fixed entry goes below the dynamic ones; the lowest of them is rolled  *)
(* up.                                                                     *)
LEMMA PushFixedRoomLemma ==
  ASSUME NEW c, WellFormed(c), c.first_free < c.first_pending,
         NEW h \in Hosts, Absent(c, h)
  PROVE  /\ WellFormed(PushFixed(c, h, h))
         /\ TableOf(PushFixed(c, h, h)) = With(c, h, "fixed")
<1> DEFINE s == c.first_dynamic
           up == c.first_free
           new == [ip |-> h, mac |-> h]
           roll == IF s < up THEN [c.list EXCEPT ![up] = c.list[s]] ELSE c.list
           l == [roll EXCEPT ![s] = new]
           d == [c EXCEPT !.list = l, !.first_dynamic = @ + 1, !.first_free = @ + 1]
           from == [j \in InUse(d) \ {s} |-> IF j = up THEN s ELSE j]
<1>1. s \in Slots /\ up \in Slots /\ s <= up /\ s + 1 \in 0 .. Size /\ up + 1 \in 0 .. Size
  BY Bounds DEF Slots
<1>2. l \in [Slots -> Entry]
  BY <1>1 DEF WellFormed, CacheType, Entry
<1>3. PushFixed(c, h, h) = d
  <2>1. ~(c.first_free >= c.first_pending)
    BY Bounds
  <2>2. QED
    BY <2>1, Zenon DEF PushFixed
<1> HIDE DEF l
<1>4. /\ d \in CacheType /\ d.list = l /\ d.first_free = up + 1
      /\ d.first_dynamic = s + 1 /\ d.first_pending = c.first_pending
  BY <1>1, <1>2 DEF WellFormed, CacheType
<1> HIDE DEF d
<1>5. s \in InUse(d)
  BY <1>1, <1>4, Bounds DEF InUse, Free, Slots
<1>6. l[s] = new
  BY <1>1 DEF l, WellFormed, CacheType
<1>7. \A j \in InUse(d) \ {s} : j \in Slots /\ (j = up => s < up)
                              /\ (j # up => j \in InUse(c))
  BY <1>1, <1>4, Bounds DEF InUse, Free, Slots
<1>8. s < up => s \in InUse(c)
  BY <1>1, Bounds DEF InUse, Free, Slots
<1>9. \A j \in InUse(d) \ {s} : l[j] = IF j = up THEN c.list[s] ELSE c.list[j]
  BY <1>1, <1>7 DEF l, WellFormed, CacheType
<1>10. d.list[s].ip = h /\ d.list[s].mac = h /\ Kind(d, s) = "fixed"
  BY <1>1, <1>4, <1>6 DEF Kind, Slots
<1>11. d.first_dynamic <= d.first_free /\ d.first_free <= d.first_pending
  BY <1>1, <1>4, Bounds DEF Slots
<1>12. Inserts(c, d, h, s, from)
  <2>1. from \in [InUse(d) \ {s} -> InUse(c)]
    BY <1>7, <1>8
  <2>2. \A j, k \in InUse(d) \ {s} : from[j] = from[k] => j = k
    BY <1>7
  <2>3. \A j \in InUse(d) \ {s} : d.list[j] = c.list[from[j]]
    BY <1>4, <1>9
  <2>4. \A k \in InUse(c) : \E j \in InUse(d) \ {s} : from[j] = k
    <3>1. ASSUME NEW k \in InUse(c), k # s
          PROVE  k \in InUse(d) \ {s} /\ from[k] = k
      BY <1>1, <1>4, <3>1, Bounds DEF InUse, Free, Slots
    <3>2. s \in InUse(c) => up \in InUse(d) \ {s} /\ from[up] = s
      BY <1>1, <1>4, Bounds DEF InUse, Free, Slots
    <3>3. QED
      BY <3>1, <3>2
  <2>5. \A j \in InUse(d) \ {s} : Kind(d, j) = Kind(c, from[j])
    BY <1>1, <1>4, <1>7, Bounds DEF InUse, Free, Slots, Kind
  <2> HIDE DEF s, l, from
  <2>6. QED
    BY <1>4, <1>5, <1>10, <1>11, <2>1, <2>2, <2>3, <2>4, <2>5, Zenon DEF Inserts
<1>13. WellFormed(d) /\ TableOf(d) = With(c, h, "fixed")
  BY <1>10, <1>12, InsertLemma
<1>14. QED
  BY <1>3, <1>13

LEMMA PushFixedLemma ==
  ASSUME NEW c, WellFormed(c), NEW h \in Hosts, Absent(c, h)
  PROVE  LET d == PushFixed(c, h, h)
             room == c.first_free < c.first_pending
         IN /\ WellFormed(d)
            /\ room => TableOf(d) = With(c, h, "fixed")
            /\ ~room => d = c \/ Displaces(c, TableOf(d), h, "fixed")
<1> DEFINE d == [c EXCEPT !.first_free = @ - 1]
           g == c.list[c.first_free - 1].ip
<1>1. CASE c.first_free < c.first_pending
  BY <1>1, PushFixedRoomLemma
<1>2. CASE ~(c.first_free < c.first_pending) /\ ~(c.first_dynamic < c.first_free)
  BY <1>2, Bounds DEF PushFixed
<1>3. CASE ~(c.first_free < c.first_pending) /\ c.first_dynamic < c.first_free
  <2>1. /\ WellFormed(d) /\ Absent(d, h)
        /\ d.first_free = c.first_free - 1 /\ d.first_pending = c.first_pending
        /\ g \in Hosts /\ g # h /\ KindOf(c, g) = "dynamic"
        /\ TableOf(d) = With(c, g, "none")
    BY <1>3, DropTopLemma
  <2>2. PushFixed(c, h, h) = PushFixed(d, h, h)
    <3>1. c.first_free >= c.first_pending /\ ~(d.first_free >= d.first_pending)
          /\ ~(c.first_dynamic >= c.first_free)
      BY <1>3, <2>1, Bounds
    <3>2. QED
      BY <3>1 DEF PushFixed
  <2> HIDE DEF d, g
  <2>3. d.first_free < d.first_pending
    BY <1>3, <2>1, Bounds
  <2>4. WellFormed(PushFixed(d, h, h)) /\ TableOf(PushFixed(d, h, h)) = With(d, h, "fixed")
    BY <2>1, <2>3, PushFixedRoomLemma
  <2>5. With(d, h, "fixed") = [With(c, g, "none") EXCEPT ![h] = "fixed"]
    BY <2>1 DEF With
  <2>6. Displaces(c, TableOf(PushFixed(d, h, h)), h, "fixed")
    BY <2>1, <2>4, <2>5 DEF Displaces
  <2>7. QED
    BY <1>3, <2>2, <2>4, <2>6
<1>4. QED
  BY <1>1, <1>2, <1>3

(* _arp_cache_add() *)
LEMMA AddLemma ==
  ASSUME NEW c, WellFormed(c), NEW h \in Hosts, NEW expires \in BOOLEAN
  PROVE  WellFormed(Add(c, h, h, expires))
BY DelLemma, PushDynamicLemma, PushFixedLemma DEF Add
-----------------------------------------------------------------------------
(* The same for the route array.  A host of our LAN may come to stand where *)
(* the host of a route should be (see Redirect), so that only those outside *)
(* of it have one route each.                                              *)
Address == Hosts \cup Remote \cup {None}

RoutesType ==
  [list : [RouteSlots -> [host : Address, gate : Address]],
   first_free : 0 .. RouteSize, first_pending : 0 .. RouteSize]

RoutesInUse(r) == DynamicRoutes(r) \cup PendingRoutes(r)

RoutesFormed(r) ==
  /\ r \in RoutesType
  /\ r.first_free <= r.first_pending
  /\ \A i, j \in RoutesInUse(r) :
       r.list[i].host \in Remote /\ r.list[i].host = r.list[j].host => i = j

NoRouteTo(r, x) == \A i \in RoutesInUse(r) : r.list[i].host # x

LEMMA RouteBounds ==
  ASSUME NEW r, RoutesFormed(r)
  PROVE  /\ RouteSize \in Nat /\ r.first_free \in Nat /\ r.first_pending \in Nat
         /\ r.first_free <= r.first_pending /\ r.first_pending <= RouteSize
         /\ RoutesInUse(r) = RouteSlots \ (r.first_free .. r.first_pending - 1)
BY ArpRouteAssumption
DEF RoutesFormed, RoutesType, RoutesInUse, DynamicRoutes, PendingRoutes, RouteSlots

LEMMA CleanRoutesLemma ==
  ASSUME NEW r, RoutesFormed(r)
  PROVE  /\ RoutesFormed(CleanRoutes(r))
         /\ CleanRoutes(r).first_free = r.first_free
         /\ CleanRoutes(r).first_pending = r.first_pending
         /\ \A x : NoRouteTo(r, x) => NoRouteTo(CleanRoutes(r), x)
<1> DEFINE l == [i \in RouteSlots |->
                   IF i \in r.first_free .. r.first_pending - 1 THEN NoRoute ELSE r.list[i]]
           d == CleanRoutes(r)
<1>1. l \in [RouteSlots -> [host : Address, gate : Address]]
  BY DEF RoutesFormed, RoutesType, NoRoute, Address
<1>2. d = [r EXCEPT !.list = l]
  BY DEF CleanRoutes
<1> HIDE DEF d
<1>3. /\ d \in RoutesType /\ d.list = l
      /\ d.first_free = r.first_free /\ d.first_pending = r.first_pending
  BY <1>1, <1>2 DEF RoutesFormed, RoutesType
<1>4. \A i \in RoutesInUse(r) : d.list[i] = r.list[i]
  BY <1>3, RouteBounds
<1>5. RoutesInUse(d) = RoutesInUse(r)
  BY <1>3 DEF RoutesInUse, DynamicRoutes, PendingRoutes
<1> HIDE DEF l
<1>6. RoutesFormed(d) /\ \A x : NoRouteTo(r, x) => NoRouteTo(d, x)
  BY <1>3, <1>4, <1>5 DEF RoutesFormed, NoRouteTo
<1>7. QED
  BY <1>3, <1>6 DEF d

LEMMA MoveRoutesLemma ==
  ASSUME NEW r, RoutesFormed(r), NEW d \in RoutesType, d.first_free <= d.first_pending,
         NEW i \in RoutesInUse(r),
         NEW from, from \in [RoutesInUse(d) -> RoutesInUse(r) \ {i}],
         \A j, k \in RoutesInUse(d) : from[j] = from[k] => j = k,
         \A j \in RoutesInUse(d) : d.list[j] = r.list[from[j]]
  PROVE  /\ RoutesFormed(d)
         /\ r.list[i].host \in Remote => NoRouteTo(d, r.list[i].host)
BY DEF RoutesFormed, NoRouteTo

LEMMA InsertRouteLemma ==
  ASSUME NEW r, RoutesFormed(r), NEW d \in RoutesType, d.first_free <= d.first_pending,
         NEW s \in RoutesInUse(d),
         d.list[s].host \in Remote => NoRouteTo(r, d.list[s].host),
         NEW from, from \in [RoutesInUse(d) \ {s} -> RoutesInUse(r)],
         \A j, k \in RoutesInUse(d) \ {s} : from[j] = from[k] => j = k,
         \A j \in RoutesInUse(d) \ {s} : d.list[j] = r.list[from[j]]
  PROVE  RoutesFormed(d)
<1>1. \A j \in RoutesInUse(d) \ {s} :
        d.list[s].host \in Remote => d.list[j].host # d.list[s].host
  BY DEF NoRouteTo
<1>2. QED
  BY <1>1 DEF RoutesFormed

LEMMA RemovePendingRouteLemma ==
  ASSUME NEW r, RoutesFormed(r), NEW i \in PendingRoutes(r)
  PROVE  LET d == RemovePendingRoute(r, i) IN
         /\ RoutesFormed(d)
         /\ d.first_free = r.first_free /\ d.first_pending = r.first_pending + 1
         /\ r.list[i].host \in Remote => NoRouteTo(d, r.list[i].host)
<1> DEFINE p == r.first_pending
           l == [r.list EXCEPT ![i] = r.list[p]]
           d == [r EXCEPT !.list[i] = r.list[r.first_pending], !.first_pending = @ + 1]
           from == [j \in RoutesInUse(d) |-> IF j = i THEN p ELSE j]
<1>1. i \in RouteSlots /\ p \in RouteSlots /\ p <= i /\ p + 1 \in 0 .. RouteSize
  BY RouteBounds DEF PendingRoutes, RouteSlots
<1>2. l \in [RouteSlots -> [host : Address, gate : Address]]
  BY <1>1 DEF RoutesFormed, RoutesType
<1>3. /\ d \in RoutesType /\ d.list = l
      /\ d.first_free = r.first_free /\ d.first_pending = p + 1
  BY <1>1, <1>2 DEF RoutesFormed, RoutesType
<1> HIDE DEF d
<1>4. i \in RoutesInUse(r) /\ p \in RoutesInUse(r)
  BY <1>1, RouteBounds DEF RouteSlots
<1>5. \A j \in RoutesInUse(d) : j \in RoutesInUse(r) /\ j \in RouteSlots /\ j # p
  BY <1>1, <1>3, RouteBounds
  DEF RoutesInUse, DynamicRoutes, PendingRoutes, RouteSlots
<1>6. \A j \in RoutesInUse(d) : d.list[j] = r.list[from[j]]
  BY <1>1, <1>3, <1>5 DEF RoutesFormed, RoutesType
<1>7. from \in [RoutesInUse(d) -> RoutesInUse(r) \ {i}]
  BY <1>4, <1>5
<1>8. \A j, k \in RoutesInUse(d) : from[j] = from[k] => j = k
  BY <1>5
<1>9. d.first_free <= d.first_pending
  BY <1>3, RouteBounds
<1> HIDE DEF l, from
<1>10. RoutesFormed(d) /\ (r.list[i].host \in Remote => NoRouteTo(d, r.list[i].host))
  BY <1>3, <1>4, <1>6, <1>7, <1>8, <1>9, MoveRoutesLemma
<1>11. RemovePendingRoute(r, i) = CleanRoutes(d)
  BY DEF RemovePendingRoute, d
<1>12. QED
  BY <1>3, <1>10, <1>11, CleanRoutesLemma

(* A dynamic route is removed, or the first one makes room for another: the *)
(* top one takes its place.                                                *)
LEMMA DropRouteLemma ==
  ASSUME NEW r, RoutesFormed(r), NEW i \in DynamicRoutes(r)
  PROVE  LET d == [r EXCEPT !.list[i] = r.list[r.first_free - 1], !.first_free = @ - 1] IN
         /\ RoutesFormed(d)
         /\ d.first_free = r.first_free - 1 /\ d.first_pending = r.first_pending
         /\ \A x : NoRouteTo(r, x) => NoRouteTo(d, x)
<1> DEFINE top == r.first_free - 1
           l == [r.list EXCEPT ![i] = r.list[top]]
           d == [r EXCEPT !.list[i] = r.list[r.first_free - 1], !.first_free = @ - 1]
           from == [j \in RoutesInUse(d) |-> IF j = i THEN top ELSE j]
<1>1. i \in RouteSlots /\ top \in RouteSlots /\ i <= top /\ top \in 0 .. RouteSize
  BY RouteBounds DEF DynamicRoutes, RouteSlots
<1>2. l \in [RouteSlots -> [host : Address, gate : Address]]
  BY <1>1 DEF RoutesFormed, RoutesType
<1>3. /\ d \in RoutesType /\ d.list = l
      /\ d.first_free = top /\ d.first_pending = r.first_pending
  BY <1>1, <1>2 DEF RoutesFormed, RoutesType
<1> HIDE DEF d
<1>4. i \in RoutesInUse(r) /\ top \in RoutesInUse(r)
  BY <1>1, RouteBounds DEF RouteSlots
<1>5. \A j \in RoutesInUse(d) : j \in RoutesInUse(r) /\ j \in RouteSlots /\ j # top
  BY <1>1, <1>3, RouteBounds
  DEF RoutesInUse, DynamicRoutes, PendingRoutes, RouteSlots
<1>6. \A j \in RoutesInUse(d) : d.list[j] = r.list[from[j]]
  BY <1>1, <1>3, <1>5 DEF RoutesFormed, RoutesType
<1>7. from \in [RoutesInUse(d) -> RoutesInUse(r) \ {i}]
  BY <1>4, <1>5
<1>8. \A j, k \in RoutesInUse(d) : from[j] = from[k] => j = k
  BY <1>5
<1>9. d.first_free <= d.first_pending
  BY <1>1, <1>3, RouteBounds DEF RouteSlots
<1> HIDE DEF l, from
<1>10. RoutesFormed(d)
  BY <1>3, <1>4, <1>6, <1>7, <1>8, <1>9, MoveRoutesLemma
<1>11. \A x : NoRouteTo(r, x) => NoRouteTo(d, x)
  BY <1>6, <1>7 DEF NoRouteTo
<1>12. QED
  BY <1>3, <1>10, <1>11 DEF d

LEMMA RemoveDynamicRouteLemma ==
  ASSUME NEW r, RoutesFormed(r), NEW i \in DynamicRoutes(r)
  PROVE  /\ RoutesFormed(RemoveDynamicRoute(r, i))
         /\ RemoveDynamicRoute(r, i).first_pending = r.first_pending
<1> DEFINE d == [r EXCEPT !.list[i] = r.list[r.first_free - 1], !.first_free = @ - 1]
<1>1. RoutesFormed(d) /\ d.first_pending = r.first_pending
  BY DropRouteLemma
<1>2. RemoveDynamicRoute(r, i) = CleanRoutes(d)
  BY DEF RemoveDynamicRoute
<1> HIDE DEF d
<1>3. QED
  BY <1>1, <1>2, CleanRoutesLemma

(* A new pending route, into a free slot. *)
PushRoute(r, x, g) ==
  [r EXCEPT !.list[r.first_pending - 1] = [host |-> x, gate |-> g], !.first_pending = @ - 1]

LEMMA PushRouteLemma ==
  ASSUME NEW r, RoutesFormed(r), r.first_free < r.first_pending,
         NEW x \in Address, NEW g \in Address, x \in Remote => NoRouteTo(r, x)
  PROVE  RoutesFormed(PushRoute(r, x, g))
<1> DEFINE s == r.first_pending - 1
           l == [r.list EXCEPT ![s] = [host |-> x, gate |-> g]]
           d == PushRoute(r, x, g)
           from == [j \in RoutesInUse(d) \ {s} |-> j]
<1>1. s \in RouteSlots /\ s \in 0 .. RouteSize
  BY RouteBounds DEF RouteSlots
<1>2. l \in [RouteSlots -> [host : Address, gate : Address]]
  BY <1>1 DEF RoutesFormed, RoutesType
<1>3. /\ d \in RoutesType /\ d.list = l
      /\ d.first_free = r.first_free /\ d.first_pending = s
  BY <1>1, <1>2 DEF RoutesFormed, RoutesType, PushRoute
<1> HIDE DEF d
<1>4. s \in RoutesInUse(d)
  BY <1>1, <1>3, RouteBounds DEF RoutesInUse, PendingRoutes, RouteSlots
<1>5. \A j \in RoutesInUse(d) \ {s} : j \in RoutesInUse(r) /\ j \in RouteSlots
  BY <1>1, <1>3, RouteBounds
  DEF RoutesInUse, DynamicRoutes, PendingRoutes, RouteSlots
<1>6. d.list[s].host = x
  BY <1>1, <1>3 DEF RoutesFormed, RoutesType
<1>7. from \in [RoutesInUse(d) \ {s} -> RoutesInUse(r)]
  BY <1>5
<1>8. \A j, k \in RoutesInUse(d) \ {s} : from[j] = from[k] => j = k
  OBVIOUS
<1>9. \A j \in RoutesInUse(d) \ {s} : d.list[j] = r.list[from[j]]
  BY <1>1, <1>3, <1>5 DEF RoutesFormed, RoutesType
<1>10. d.first_free <= d.first_pending
  BY <1>3, RouteBounds
<1> HIDE DEF s, l, from
<1>11. RoutesFormed(d)
  BY <1>3, <1>4, <1>6, <1>7, <1>8, <1>9, <1>10, InsertRouteLemma
<1>12. QED
  BY <1>11 DEF d

(* route_make_new_slot() *)
LEMMA MakeNewSlotLemma ==
  ASSUME NEW r, RoutesFormed(r), NEW x \in Address, NEW g \in Address,
         x \in Remote => NoRouteTo(r, x)
  PROVE  RoutesFormed(MakeNewSlot(r, x, g))
<1>1. CASE r.first_free < r.first_pending
  <2>1. MakeNewSlot(r, x, g) = PushRoute(r, x, g)
    <3>1. ~(r.first_free >= r.first_pending)
      BY <1>1, RouteBounds
    <3>2. QED
      BY <1>1, <3>1, Zenon DEF MakeNewSlot, PushRoute
  <2>2. QED
    BY <1>1, <2>1, PushRouteLemma
<1>2. CASE ~(r.first_free < r.first_pending) /\ r.first_free = 0
  BY <1>2, RouteBounds DEF MakeNewSlot
<1>3. CASE ~(r.first_free < r.first_pending) /\ r.first_free # 0
  <2> DEFINE d == [r EXCEPT !.list[0] = r.list[r.first_free - 1], !.first_free = @ - 1]
  <2>1. 0 \in DynamicRoutes(r)
    BY <1>3, RouteBounds DEF DynamicRoutes
  <2>2. /\ RoutesFormed(d) /\ d.first_free = r.first_free - 1
        /\ d.first_pending = r.first_pending /\ (x \in Remote => NoRouteTo(d, x))
    BY <2>1, DropRouteLemma
  <2>3. MakeNewSlot(r, x, g) = PushRoute(d, x, g)
    BY <1>3, <2>2, Zenon DEF MakeNewSlot, PushRoute
  <2> HIDE DEF d
  <2>4. d.first_free < d.first_pending
    BY <1>3, <2>2, RouteBounds
  <2>5. QED
    BY <2>2, <2>3, <2>4, PushRouteLemma
<1>4. QED
  BY <1>1, <1>2, <1>3

(* A pending route becomes dynamic, or stays dynamic with another gateway. *)
LEMMA PushDynamicRouteLemma ==
  ASSUME NEW r, RoutesFormed(r), r.first_free < r.first_pending,
         NEW re \in [host : Address, gate : Address],
         re.host \in Remote => NoRouteTo(r, re.host)
  PROVE  LET d == [r EXCEPT !.list[r.first_free] = re, !.first_free = @ + 1] IN
         RoutesFormed(d) /\ d.first_pending = r.first_pending
<1> DEFINE s == r.first_free
           l == [r.list EXCEPT ![s] = re]
           d == [r EXCEPT !.list[r.first_free] = re, !.first_free = @ + 1]
           from == [j \in RoutesInUse(d) \ {s} |-> j]
<1>1. s \in RouteSlots /\ s + 1 \in 0 .. RouteSize
  BY RouteBounds DEF RouteSlots
<1>2. l \in [RouteSlots -> [host : Address, gate : Address]]
  BY <1>1 DEF RoutesFormed, RoutesType
<1>3. /\ d \in RoutesType /\ d.list = l
      /\ d.first_free = s + 1 /\ d.first_pending = r.first_pending
  BY <1>1, <1>2 DEF RoutesFormed, RoutesType
<1> HIDE DEF d
<1>4. s \in RoutesInUse(d)
  BY <1>1, <1>3, RouteBounds DEF RoutesInUse, DynamicRoutes, RouteSlots
<1>5. \A j \in RoutesInUse(d) \ {s} : j \in RoutesInUse(r) /\ j \in RouteSlots
  BY <1>1, <1>3, RouteBounds
  DEF RoutesInUse, DynamicRoutes, PendingRoutes, RouteSlots
<1>6. d.list[s] = re
  BY <1>1, <1>3 DEF RoutesFormed, RoutesType
<1>7. from \in [RoutesInUse(d) \ {s} -> RoutesInUse(r)]
  BY <1>5
<1>8. \A j, k \in RoutesInUse(d) \ {s} : from[j] = from[k] => j = k
  OBVIOUS
<1>9. \A j \in RoutesInUse(d) \ {s} : d.list[j] = r.list[from[j]]
  BY <1>1, <1>3, <1>5 DEF RoutesFormed, RoutesType
<1>10. d.first_free <= d.first_pending
  BY <1>3, RouteBounds
<1> HIDE DEF s, l, from
<1>11. RoutesFormed(d)
  BY <1>3, <1>4, <1>6, <1>7, <1>8, <1>9, <1>10, InsertRouteLemma
<1>12. QED
  BY <1>3, <1>11 DEF d

LEMMA ChangeGateLemma ==
  ASSUME NEW r, RoutesFormed(r), NEW i \in RoutesInUse(r), NEW g \in Address
  PROVE  LET d == [r EXCEPT !.list[i].gate = g] IN
         RoutesFormed(d) /\ d.first_pending = r.first_pending
<1> DEFINE l == [r.list EXCEPT ![i].gate = g]
           d == [r EXCEPT !.list[i].gate = g]
<1>1. i \in RouteSlots
  BY RouteBounds
<1>2. /\ l \in [RouteSlots -> [host : Address, gate : Address]]
      /\ \A j \in RouteSlots : l[j].host = r.list[j].host
  BY <1>1 DEF RoutesFormed, RoutesType
<1>3. d = [r EXCEPT !.list = l]
  BY <1>1 DEF RoutesFormed, RoutesType
<1> HIDE DEF l, d
<1>4. /\ d \in RoutesType /\ d.list = l
      /\ d.first_free = r.first_free /\ d.first_pending = r.first_pending
  BY <1>2, <1>3 DEF RoutesFormed, RoutesType
<1>5. RoutesInUse(d) = RoutesInUse(r) /\ RoutesInUse(r) \subseteq RouteSlots
  BY <1>4, RouteBounds DEF RoutesInUse, DynamicRoutes, PendingRoutes
<1>6. RoutesFormed(d)
  BY <1>2, <1>4, <1>5 DEF RoutesFormed
<1>7. QED
  BY <1>4, <1>6 DEF d
-----------------------------------------------------------------------------
(* A set of numbers has a least one: the next gateway that fits. *)
LEMMA LeastLemma ==
  ASSUME NEW S, S \subseteq Nat, S # {}
  PROVE  Least(S) \in S
<1>1. PICK k \in S : \A l \in S : ~ (<<l, k>> \in OpToRel(<, Nat))
  BY NatLessThanWellFounded, WFMin
<1>2. \A l \in S : <<l, k>> \in OpToRel(<, Nat) <=> l < k
  BY Zenon DEF OpToRel
<1>3. \A l \in S : ~ (l < k)
  BY <1>1, <1>2, Zenon
<1>4. \A l \in S : k <= l
  BY <1>3
<1>5. QED
  BY <1>4 DEF Least

LEMMA GateLemma ==
  ASSUME NEW j \in Nat, NEW x, Fitting(j, x) # {}
  PROVE  Gates[Least(Fitting(j, x))].ip \in Hosts
<1>1. Len(Gates) \in Nat /\ \A k \in 1 .. Len(Gates) : Gates[k].ip \in Hosts
  <2> DEFINE Gate == [ip : Hosts, nets : SUBSET (Hosts \cup Remote)]
  <2>1. Gates \in Seq(Gate)
    BY ArpRouteAssumption
  <2>2. \A g \in Gate : g.ip \in Hosts
    OBVIOUS
  <2> HIDE DEF Gate
  <2>3. \A k \in 1 .. Len(Gates) : Gates[k] \in Gate
    BY <2>1
  <2>4. QED
    BY <2>1, <2>2, <2>3
<1>2. Fitting(j, x) \subseteq 1 .. Len(Gates)
  BY <1>1 DEF Fitting
<1>3. Least(Fitting(j, x)) \in 1 .. Len(Gates)
  BY <1>2, LeastLemma
<1>4. QED
  BY <1>1, <1>3
-----------------------------------------------------------------------------
(* Where the daemon may be: in the section that it walks, so that what it   *)
(* takes out there leaves the section in order.                            *)
Place ==
  /\ pos \in [loop : {"idle", "pending", "dynamic", "arp_done", "routes", "expiry"},
              i : Nat, dyn : BOOLEAN]
  /\ pos.loop = "pending" => cache.first_pending <= pos.i /\ pos.i <= Size
  /\ pos.loop = "dynamic" => cache.first_dynamic <= pos.i
  /\ pos.loop = "routes" => routes.first_pending <= pos.i /\ pos.i <= RouteSize

IInv == WellFormed(cache) /\ RoutesFormed(routes) /\ Place

LEMMA InitIInv == Init => IInv
<1> SUFFICES ASSUME Init PROVE IInv
  OBVIOUS
<1> USE ArpCacheAssumption, ArpRouteAssumption
<1>1. WellFormed(cache)
  <2>1. cache \in CacheType
    BY DEF Init, CacheInit, CacheType, Entry, NoEntry
  <2>2. InUse(cache) = {} /\ cache.first_free = 0 /\ Pending(cache) = {}
    BY DEF Init, CacheInit, InUse, Free, Slots, Pending
  <2>3. QED
    BY <2>1, <2>2 DEF Init, CacheInit, WellFormed
<1>2. RoutesFormed(routes)
  <2>1. routes \in RoutesType
    BY DEF Init, RoutesType, NoRoute, Address
  <2>2. RoutesInUse(routes) = {}
    BY DEF Init, RoutesInUse, DynamicRoutes, PendingRoutes
  <2>3. QED
    BY <2>1, <2>2 DEF Init, RoutesFormed
<1>3. Place
  BY DEF Init, CacheInit, Place
<1>4. QED
  BY <1>1, <1>2, <1>3 DEF IInv

(* Whatever comes between two runs of the daemon. *)
LEMMA CallsIInv ==
  ASSUME IInv, CacheCalls /\ UNCHANGED routes
  PROVE  IInv'
<1> USE DEF IInv
<1>1. pos.loop = "idle" /\ UNCHANGED pos
  BY DEF CacheCalls, Lookup, Reply, Request, AddEntry, DelEntry, Idle
<1>2. Place'
  BY <1>1 DEF Place
<1>3. WellFormed(cache')
  <2>1. PICK h \in Hosts : Lookup(h) \/ Reply(h) \/ Request(h) \/ AddEntry(h) \/ DelEntry(h)
    BY DEF CacheCalls
  <2>2. CASE Lookup(h)
    BY <2>2, StartLookupLemma DEF Lookup
  <2>3. CASE Reply(h)
    <3> DEFINE i == SlotOf(cache, Pending(cache), h)
    <3>1. Pending(cache) \subseteq InUse(cache)
      BY Bounds DEF Pending, InUse, Free, Slots
    <3>2. i \in Pending(cache)
      BY <2>3, <3>1, SlotOfIsSlot DEF Reply, IsPending
    <3>3. WellFormed(RemovePending(cache, i))
      BY <3>2, RemovePendingLemma
    <3>4. QED
      BY <2>3, <3>3, AddLemma DEF Reply
  <2>4. CASE Request(h)
    BY <2>4, AddLemma DEF Request
  <2>5. CASE AddEntry(h)
    BY <2>5, AddLemma DEF AddEntry
  <2>6. CASE DelEntry(h)
    BY <2>6, DelLemma DEF DelEntry
  <2>7. QED
    BY <2>1, <2>2, <2>3, <2>4, <2>5, <2>6
<1>4. QED
  BY <1>2, <1>3

(* The two loops of arp_check_timeouts(). *)
LEMMA TimeoutsIInv ==
  ASSUME IInv, CheckTimeouts /\ UNCHANGED routes
  PROVE  IInv'
<1> USE DEF IInv
<1>1. CASE DaemonStart
  BY <1>1, Bounds DEF DaemonStart, Place, Idle
<1>2. ASSUME NEW h \in Hosts, Expire(h)
      PROVE  IInv'
  <2>1. pos.i \in Pending(cache)
    BY <1>2, Bounds DEF Expire, At, Place, Pending
  <2>2. WellFormed(cache') /\ cache'.first_pending = cache.first_pending + 1
    BY <1>2, <2>1, RemovePendingLemma DEF Expire
  <2>3. Place'
    BY <1>2, <2>2, Bounds DEF Expire, At, Place, Advance
  <2>4. QED
    BY <2>2, <2>3
<1>3. CASE Wait
  BY <1>3, Bounds DEF Wait, At, Place, Advance
<1>4. CASE PendingDone
  <2> DEFINE d == cache.first_dynamic
  <2>1. d \in Nat
    BY Bounds
  <2>2. /\ pos' = IF pos.dyn THEN [pos EXCEPT !.loop = "dynamic", !.i = d]
                   ELSE [pos EXCEPT !.loop = "arp_done", !.i = 0]
        /\ UNCHANGED cache
    BY <1>4 DEF PendingDone
  <2> HIDE DEF d
  <2>3. /\ pos' \in [loop : {"idle", "pending", "dynamic", "arp_done", "routes", "expiry"},
                    i : Nat, dyn : BOOLEAN]
        /\ (pos'.loop = "dynamic" /\ pos'.i = d) \/ pos'.loop = "arp_done"
    BY <2>1, <2>2 DEF Place
  <2>4. Place'
    BY <2>1, <2>2, <2>3 DEF Place, d
  <2>5. QED
    BY <2>2, <2>4
<1>5. CASE Age
  <2>1. CASE Advance /\ UNCHANGED cache
    BY <1>5, <2>1, Bounds DEF Age, At, Place, Advance
  <2>2. CASE /\ cache' = RemoveDynamic(cache, pos.i)
             /\ IF pos.i < cache.first_free - 1 THEN UNCHANGED pos ELSE Advance
    <3>1. pos.i \in Dynamic(cache)
      BY <1>5, Bounds DEF Age, At, Place, Dynamic
    <3>2. WellFormed(cache') /\ cache'.first_dynamic = cache.first_dynamic
      BY <2>2, <3>1, RemoveDynamicLemma
    <3>3. Place'
      BY <1>5, <2>2, <3>2, Bounds DEF Age, At, Place, Advance
    <3>4. QED
      BY <3>2, <3>3
  <2>3. QED
    BY <1>5, <2>1, <2>2 DEF Age
<1>6. CASE AgeDone
  <2>1. Place'
    BY <1>6 DEF AgeDone, At, Place
  <2>2. QED
    BY <1>6, <2>1 DEF AgeDone
<1>7. QED
  BY <1>1, <1>2, <1>3, <1>4, <1>5, <1>6 DEF CheckTimeouts

(* route_check_timeouts() *)
LEMMA RoutesIInv ==
  ASSUME IInv, CheckRoutes
  PROVE  IInv'
<1> USE DEF IInv
<1>1. CASE RoutesStart
  <2> DEFINE p == routes.first_pending
  <2>1. p \in Nat /\ p <= RouteSize
    BY RouteBounds
  <2>2. pos' = [pos EXCEPT !.loop = "routes", !.i = p] /\ UNCHANGED <<cache, routes>>
    BY <1>1 DEF RoutesStart
  <2> HIDE DEF p
  <2>3. /\ pos' \in [loop : {"idle", "pending", "dynamic", "arp_done", "routes", "expiry"},
                    i : Nat, dyn : BOOLEAN]
        /\ pos'.loop = "routes" /\ pos'.i = p
    BY <2>1, <2>2 DEF Place
  <2>4. Place'
    BY <2>1, <2>2, <2>3 DEF Place, p
  <2>5. QED
    BY <2>2, <2>4
<1>2. CASE GateResolved
  <2> DEFINE re == routes.list[pos.i]
             r  == RemovePendingRoute(routes, pos.i)
  <2>1. pos.i \in PendingRoutes(routes) /\ pos.i \in RouteSlots
    BY <1>2, RouteBounds DEF GateResolved, At, Place, PendingRoutes, RouteSlots
  <2>2. /\ RoutesFormed(r) /\ r.first_free = routes.first_free
        /\ r.first_pending = routes.first_pending + 1
        /\ re.host \in Remote => NoRouteTo(r, re.host)
    BY <2>1, RemovePendingRouteLemma
  <2>3. re \in [host : Address, gate : Address]
    BY <2>1 DEF RoutesFormed, RoutesType
  <2>4. /\ UNCHANGED cache
        /\ routes' = [r EXCEPT !.list[r.first_free] = re, !.first_free = @ + 1]
        /\ KeepSlot(pos.i)
    BY <1>2 DEF GateResolved
  <2> HIDE DEF r, re
  <2>5. r.first_free < r.first_pending
    BY <2>2, RouteBounds
  <2>6. RoutesFormed(routes') /\ routes'.first_pending = routes.first_pending + 1
    BY <2>2, <2>3, <2>4, <2>5, PushDynamicRouteLemma
  <2>7. Place'
    BY <1>2, <2>4, <2>6, RouteBounds DEF GateResolved, At, KeepSlot, Place, Advance
  <2>8. QED
    BY <2>4, <2>6, <2>7
<1>3. CASE GateAwaited
  <2>1. Place'
    BY <1>3, RouteBounds DEF GateAwaited, At, Place, Advance
  <2>2. QED
    BY <1>3, <2>1 DEF GateAwaited
<1>4. CASE GateFailed
  <2> DEFINE re   == routes.list[pos.i]
             last == {k \in 1 .. Len(Gates) : Gates[k].ip = re.gate}
             from == IF last = {} THEN 0 ELSE Least(last)
             next == NextGates(from, re.host)
             gate == Gates[Least(next)].ip
  <2>0. pos.loop = "routes" /\ pos.i < RouteSize
    BY <1>4, Zenon DEF GateFailed, At
  <2>1. pos.i \in PendingRoutes(routes) /\ pos.i \in RoutesInUse(routes)
    <3> HIDE DEF re, last, from, next, gate
    <3>1. pos.i \in routes.first_pending .. RouteSize - 1
      BY <2>0, RouteBounds DEF Place
    <3>2. QED
      BY <3>1 DEF PendingRoutes, RoutesInUse
  <2>2. from \in Nat
    <3>1. last \subseteq Nat
      OBVIOUS
    <3>2. last # {} => Least(last) \in Nat
      BY <3>1, LeastLemma
    <3>3. QED
      BY <3>2
  <2>3. next # {} => gate \in Hosts
    BY <2>2, GateLemma DEF NextGates
  <2>4. CASE /\ next # {} /\ cache' = StartLookup(cache, gate)
             /\ routes' = [routes EXCEPT !.list[pos.i].gate = gate] /\ Advance
    <3> HIDE DEF re, last, from, next, gate
    <3>1. WellFormed(cache')
      BY <2>3, <2>4, StartLookupLemma
    <3>2. gate \in Address
      BY <2>3, <2>4 DEF Address
    <3>3. RoutesFormed(routes') /\ routes'.first_pending = routes.first_pending
      BY <2>1, <2>4, <3>2, ChangeGateLemma
    <3>4. Place'
      BY <2>0, <2>4, <3>3, RouteBounds DEF Place, Advance
    <3>5. QED
      BY <3>1, <3>3, <3>4
  <2>5. CASE /\ routes' = RemovePendingRoute(routes, pos.i)
             /\ KeepSlot(pos.i) /\ UNCHANGED cache
    <3> HIDE DEF re, last, from, next, gate
    <3>1. RoutesFormed(routes') /\ routes'.first_pending = routes.first_pending + 1
      BY <2>1, <2>5, RemovePendingRouteLemma
    <3>2. Place'
      BY <2>0, <2>5, <3>1, RouteBounds DEF KeepSlot, Place, Advance
    <3>3. QED
      BY <2>5, <3>1, <3>2
  <2>6. QED
    BY <1>4, <2>4, <2>5 DEF GateFailed
<1>5. CASE RoutesDone
  BY <1>5 DEF RoutesDone, At, Place
<1>6. CASE ExpireRoute
  <2>1. pos.loop = "expiry" /\ pos'.loop = "expiry" /\ UNCHANGED cache /\ Place'
    BY <1>6 DEF ExpireRoute, At, Place, Advance
  <2>2. pos.i \in DynamicRoutes(routes)
    BY <1>6, RouteBounds DEF ExpireRoute, Place, DynamicRoutes
  <2>3. RoutesFormed(routes')
    BY <1>6, <2>2, RemoveDynamicRouteLemma DEF ExpireRoute
  <2>4. QED
    BY <2>1, <2>3
<1>7. CASE ExpiryDone
  BY <1>7 DEF ExpiryDone, At, Place
<1>8. QED
  BY <1>1, <1>2, <1>3, <1>4, <1>5, <1>6, <1>7 DEF CheckRoutes

(* route_start_lookup() *)
LEMMA StartRouteIInv ==
  ASSUME IInv, NEW x \in Remote, StartRoute(x)
  PROVE  IInv'
<1> DEFINE gate == Gates[Least(Fitting(0, x))].ip
<1> USE DEF IInv
<1>1. gate \in Hosts
  BY GateLemma DEF StartRoute
<1>2. /\ cache' = StartLookup(cache, gate) /\ routes' = MakeNewSlot(routes, x, gate)
      /\ pos.loop = "idle" /\ UNCHANGED pos
  BY DEF StartRoute, Idle
<1>3. NoRouteTo(routes, x)
  BY DEF StartRoute, HasRoute, RouteIn, NoRouteTo, RoutesInUse
<1> HIDE DEF gate
<1>4. WellFormed(cache')
  BY <1>1, <1>2, StartLookupLemma
<1>5. RoutesFormed(routes')
  BY <1>1, <1>2, <1>3, MakeNewSlotLemma DEF Address
<1>6. Place'
  BY <1>2 DEF Place
<1>7. QED
  BY <1>4, <1>5, <1>6

(* _arp_register(): with the arguments swapped, too, no host gets a second  *)
(* route; the entry of a host of our LAN does not count as one.            *)
LEMMA RedirectIInv ==
  ASSUME IInv, NEW x \in Remote, NEW g \in Hosts, Redirect(g, x)
  PROVE  IInv'
<1> USE DEF IInv
<1>1. PICK i \in DynamicRoutes(routes) :
        /\ cache' = IF Resolved(cache, g) THEN cache ELSE StartLookup(cache, g)
        /\ routes' = IF Resolved(cache, g) THEN [routes EXCEPT !.list[i].gate = g]
                     ELSE MakeNewSlot(RemoveDynamicRoute(routes, i), g, x)
  <2> DEFINE first == CHOOSE k \in DynamicRoutes(routes) :
                        /\ routes.list[k].host = x
                        /\ \A l \in DynamicRoutes(routes) :
                             routes.list[l].host = x => k <= l
  <2>1. PICK k \in DynamicRoutes(routes) : routes.list[k].host = x
    BY DEF Redirect, RouteIn
  <2>2. \A l \in DynamicRoutes(routes) : routes.list[l].host = x => k <= l
    BY <2>1, RouteBounds DEF RoutesFormed, RoutesInUse, DynamicRoutes
  <2>3. first \in DynamicRoutes(routes)
    BY <2>1, <2>2
  <2>4. QED
    BY <2>3 DEF Redirect
<1>2. pos.loop = "idle" /\ UNCHANGED pos
  BY DEF Redirect, Idle
<1>3. WellFormed(cache')
  BY <1>1, StartLookupLemma
<1>4. g \in Address /\ x \in Address /\ g \notin Remote
  BY ArpRouteAssumption DEF Address
<1>5. RoutesFormed(routes')
  <2>1. CASE Resolved(cache, g)
    BY <1>1, <1>4, <2>1, ChangeGateLemma DEF RoutesInUse
  <2>2. CASE ~Resolved(cache, g)
    <3>1. RoutesFormed(RemoveDynamicRoute(routes, i))
      BY RemoveDynamicRouteLemma
    <3>2. QED
      BY <1>1, <1>4, <2>2, <3>1, MakeNewSlotLemma
  <2>3. QED
    BY <2>1, <2>2
<1>6. Place'
  BY <1>2 DEF Place
<1>7. QED
  BY <1>3, <1>5, <1>6

LEMMA Invariance == Spec => []IInv
<1>1. ASSUME IInv, [Next]_vars
      PROVE  IInv'
  <2>1. CASE UNCHANGED vars
    BY <1>1, <2>1 DEF vars, IInv, Place
  <2>2. CASE Next
    BY <1>1, <2>2, CallsIInv, TimeoutsIInv, RoutesIInv, StartRouteIInv, RedirectIInv
    DEF Next, Daemon
  <2>3. QED
    BY <1>1, <2>1, <2>2
<1>2. QED
  BY <1>1, InitIInv, PTL DEF Spec
-----------------------------------------------------------------------------
(* The sections of both arrays stay one above the other and the daemon's    *)
(* index in its section, for arrays of any size and any number of hosts.    *)
THEOREM ArpTypeCorrect == Spec => []TypeOK
<1>1. IInv => TypeOK
  BY ArpCacheAssumption, ArpRouteAssumption
  DEF IInv, WellFormed, CacheType, RoutesFormed, RoutesType, Place, TypeOK,
      CacheTypeOK, Address
<1>2. QED
  BY <1>1, Invariance, PTL

(* No sequence of requests, replies, additions, deletions and expiries, and *)
(* nothing the daemon does between them, gives a host two entries.         *)
THEOREM HostsHaveOneEntry == Spec => []OneEntryPerHost
<1>1. IInv => OneEntryPerHost
  BY DEF IInv, WellFormed, InUse, OneEntryPerHost
<1>2. QED
  BY <1>1, Invariance, PTL

(* An entry keeps the address that its host was heard with, wherever the    *)
(* array operations move it.                                               *)
THEOREM AddressesFollowHosts == Spec => []AddressOfHost
<1>1. IInv => AddressOfHost
  BY DEF IInv, WellFormed, AddressOfHost
<1>2. QED
  BY <1>1, Invariance, PTL

(* A host outside of our LAN never has two routes, in either section: this  *)
(* holds with redirects, too.                                              *)
THEOREM HostsHaveOneRoute == Spec => []OneRoutePerHost
<1>1. IInv => OneRoutePerHost
  BY DEF IInv, RoutesFormed, RoutesInUse, OneRoutePerHost
<1>2. QED
  BY <1>1, Invariance, PTL
-----------------------------------------------------------------------------
(* The refinement of ArpTable.  The table has a place for another host as   *)
(* long as the array has a free slot, for each entry is of a host of its   *)
(* own.                                                                    *)
KnownIn(c) == {h \in Hosts : KindOf(c, h) # "none"}

LEMMA KnownLemma ==
  ASSUME NEW c, WellFormed(c)
  PROVE  /\ IsFiniteSet(KnownIn(c))
         /\ Cardinality(KnownIn(c)) \in Nat /\ Cardinality(KnownIn(c)) <= Size
         /\ c.first_free < c.first_pending <=> Cardinality(KnownIn(c)) < Size
<1> DEFINE f == [i \in InUse(c) |-> c.list[i].ip]
<1>1. IsFiniteSet(Slots) /\ Cardinality(Slots) = Size
  BY ArpCacheAssumption, FS_Interval DEF Slots
<1>2. /\ IsFiniteSet(InUse(c)) /\ Cardinality(InUse(c)) <= Size
      /\ Cardinality(InUse(c)) = Size <=> InUse(c) = Slots
  BY <1>1, FS_Subset DEF InUse
<1>3. InUse(c) = Slots <=> ~(c.first_free < c.first_pending)
  <2>1. c.first_free < c.first_pending => c.first_free \in Slots /\ c.first_free \in Free(c)
    BY Bounds DEF Slots, Free
  <2>2. ~(c.first_free < c.first_pending) => Free(c) = {}
    BY Bounds DEF Free
  <2>3. QED
    BY <2>1, <2>2 DEF InUse
<1>4. \A h \in KnownIn(c) : \E i \in InUse(c) : c.list[i].ip = h
  BY AbsentLemma DEF KnownIn, Absent
<1>5. \A i \in InUse(c) : c.list[i].ip \in KnownIn(c)
  <2> SUFFICES ASSUME NEW i \in InUse(c) PROVE c.list[i].ip \in KnownIn(c)
    OBVIOUS
  <2>1. Kind(c, i) # "none"
    BY DEF Kind
  <2>2. QED
    BY <2>1, KindLemma, HostLemma DEF KnownIn
<1>6. f \in Bijection(InUse(c), KnownIn(c))
  <2>1. f \in [InUse(c) -> KnownIn(c)] /\ \A i \in InUse(c) : f[i] = c.list[i].ip
    BY <1>5
  <2>2. \A i, j \in InUse(c) : f[i] = f[j] => i = j
    BY <2>1 DEF WellFormed
  <2>3. \A h \in KnownIn(c) : \E i \in InUse(c) : f[i] = h
    BY <1>4, <2>1
  <2> HIDE DEF f
  <2>4. QED
    BY <2>1, <2>2, <2>3, Fun_IsBij
<1>7. IsFiniteSet(KnownIn(c)) /\ Cardinality(KnownIn(c)) = Cardinality(InUse(c))
  BY <1>2, <1>6, FS_Bijection DEF ExistsBijection
<1>8. Cardinality(KnownIn(c)) \in Nat
  BY <1>7, FS_CardinalityType
<1>9. QED
  BY <1>2, <1>3, <1>7, <1>8, ArpCacheAssumption

(* Without its own entry, there is room for h unless the table was full of  *)
(* others.                                                                 *)
LEMMA WithoutLemma ==
  ASSUME NEW c, WellFormed(c), NEW e, WellFormed(e), NEW h \in Hosts,
         TableOf(e) = With(c, h, "none")
  PROVE  /\ e.first_free < e.first_pending =>
              h \in KnownIn(c) \/ Cardinality(KnownIn(c)) < Size
         /\ ~(e.first_free < e.first_pending) =>
              h \notin KnownIn(c) /\ Cardinality(KnownIn(c)) = Size
<1>1. \A g \in Hosts : KindOf(e, g) = IF g = h THEN "none" ELSE KindOf(c, g)
  <2>1. \A g \in Hosts : TableOf(e)[g] = IF g = h THEN "none" ELSE TableOf(c)[g]
    BY DEF With, TableOf
  <2>2. QED
    BY <2>1 DEF TableOf
<1>2. KnownIn(e) = KnownIn(c) \ {h}
  BY <1>1 DEF KnownIn
<1>3. Cardinality(KnownIn(e)) = IF h \in KnownIn(c) THEN Cardinality(KnownIn(c)) - 1
                                ELSE Cardinality(KnownIn(c))
  BY <1>2, KnownLemma, FS_RemoveElement
<1>4. QED
  BY <1>3, KnownLemma, ArpCacheAssumption

LEMMA TableKnown ==
  /\ Table!Known = KnownIn(cache)
  /\ Table!Cardinality(KnownIn(cache)) = Cardinality(KnownIn(cache))
<1>1. Table!Known = KnownIn(cache)
  BY DEF Table!Known, KnownIn, TableOf
<1>2. Table!Cardinality(KnownIn(cache)) = Cardinality(KnownIn(cache))
  BY DEF Table!Cardinality, Cardinality
<1>3. QED
  BY <1>1, <1>2

LEMMA ForgetStep ==
  ASSUME NEW h \in Hosts, TableOf(cache') = With(cache, h, "none")
  PROVE  Table!TableNext
BY DEF Table!TableNext, Table!Forget, With

(* An array operation that needs a place for h, after what was known of h   *)
(* has been taken out.                                                     *)
LEMMA EnterStep ==
  ASSUME WellFormed(cache), NEW e, WellFormed(e), NEW h \in Hosts, NEW kind,
         TableOf(e) = With(cache, h, "none"),
         \/ e.first_free < e.first_pending /\ TableOf(cache') = With(e, h, kind)
         \/ ~(e.first_free < e.first_pending) /\ Displaces(e, TableOf(cache'), h, kind)
  PROVE  Table!Enter(h, kind)
<1>1. With(e, h, kind) = [TableOf(cache) EXCEPT ![h] = kind]
  BY DEF With, TableOf
<1>2. CASE e.first_free < e.first_pending
  <2>1. h \in KnownIn(cache) \/ Cardinality(KnownIn(cache)) < Size
    BY <1>2, WithoutLemma
  <2>2. QED
    BY <1>1, <1>2, <2>1, TableKnown DEF Table!Enter
<1>3. CASE ~(e.first_free < e.first_pending)
  <2>1. h \notin KnownIn(cache) /\ Cardinality(KnownIn(cache)) = Size
    BY <1>3, WithoutLemma
  <2>2. PICK g \in Hosts : /\ g # h /\ KindOf(e, g) = "dynamic"
                          /\ TableOf(cache') = [With(e, g, "none") EXCEPT ![h] = kind]
    BY <1>3 DEF Displaces
  <2>3. TableOf(cache)[g] = "dynamic"
    <3>1. TableOf(e)[g] = "dynamic" /\ TableOf(e)[g] = TableOf(cache)[g]
      BY <2>2 DEF With, TableOf
    <3>2. QED
      BY <3>1
  <2>4. TableOf(cache') = [TableOf(cache) EXCEPT ![h] = kind, ![g] = "none"]
    <3> DEFINE t == TableOf(cache)
    <3>1. t \in [Hosts -> {KindOf(cache, x) : x \in Hosts}] /\ DOMAIN t = Hosts
      BY DEF TableOf
    <3>2. TableOf(e) = [t EXCEPT ![h] = "none"]
      BY DEF With
    <3>3. TableOf(cache') = [[[t EXCEPT ![h] = "none"] EXCEPT ![g] = "none"] EXCEPT ![h] = kind]
      BY <2>2, <3>2 DEF With
    <3> HIDE DEF t
    <3>4. QED
      BY <2>2, <3>1, <3>3 DEF t
  <2>5. g \in KnownIn(cache)
    BY <2>3 DEF KnownIn, TableOf
  <2>6. QED
    BY <2>1, <2>3, <2>4, <2>5, TableKnown DEF Table!Enter
<1>4. QED
  BY <1>2, <1>3

(* LAN_start_lookup() *)
LEMMA AskStep ==
  ASSUME WellFormed(cache), NEW h \in Hosts, cache' = StartLookup(cache, h)
  PROVE  Table!TableNext \/ TableOf(cache') = TableOf(cache)
<1>1. CASE cache' = cache
  BY <1>1
<1>2. CASE ~(cache' = cache)
  <2>1. /\ Absent(cache, h)
        /\ \/ cache.first_free < cache.first_pending /\ TableOf(cache') = With(cache, h, "pending")
           \/ /\ ~(cache.first_free < cache.first_pending)
              /\ Displaces(cache, TableOf(cache'), h, "pending")
    BY <1>2, StartLookupLemma
  <2>2. KindOf(cache, h) = "none"
    BY <2>1, AbsentLemma
  <2>3. TableOf(cache) = With(cache, h, "none") /\ TableOf(cache)[h] = "none"
    BY <2>2, WithLemma DEF TableOf
  <2>4. Table!Enter(h, "pending")
    BY <2>1, <2>3, EnterStep
  <2>5. QED
    BY <2>3, <2>4 DEF Table!TableNext, Table!Ask
<1>3. QED
  BY <1>1, <1>2

(* _arp_cache_add(), after _arp_cache_del(), of an entry that expires *)
LEMMA LearnStep ==
  ASSUME WellFormed(cache), NEW e, WellFormed(e), NEW h \in Hosts, Absent(e, h),
         TableOf(e) = With(cache, h, "none"), cache' = PushDynamic(e, h, h)
  PROVE  Table!TableNext
<1>1. CASE e.first_free < e.first_pending
  <2>1. TableOf(cache') = With(e, h, "dynamic")
    BY <1>1, PushDynamicLemma
  <2>2. TableOf(cache') = [TableOf(cache) EXCEPT ![h] = "dynamic"]
    BY <2>1 DEF With, TableOf
  <2>3. h \in KnownIn(cache) \/ Cardinality(KnownIn(cache)) < Size
    BY <1>1, WithoutLemma
  <2>4. QED
    BY <2>2, <2>3, TableKnown DEF Table!TableNext, Table!Learn
<1>2. CASE ~(e.first_free < e.first_pending)
  <2>1. cache' = e
    BY <1>2, PushDynamicLemma
  <2>2. QED
    BY <2>1, ForgetStep
<1>3. QED
  BY <1>1, <1>2

(* _arp_cache_add(), after _arp_cache_del(), of a fixed entry *)
LEMMA FixStep ==
  ASSUME WellFormed(cache), NEW e, WellFormed(e), NEW h \in Hosts, Absent(e, h),
         TableOf(e) = With(cache, h, "none"), cache' = PushFixed(e, h, h)
  PROVE  Table!TableNext
<1>1. CASE cache' = e
  BY <1>1, ForgetStep
<1>2. CASE ~(cache' = e)
  <2>1. \/ e.first_free < e.first_pending /\ TableOf(cache') = With(e, h, "fixed")
        \/ ~(e.first_free < e.first_pending) /\ Displaces(e, TableOf(cache'), h, "fixed")
    BY <1>2, PushFixedLemma
  <2>2. Table!Enter(h, "fixed")
    BY <2>1, EnterStep
  <2>3. QED
    BY <2>2 DEF Table!TableNext, Table!Fix
<1>3. QED
  BY <1>1, <1>2

LEMMA AddStep ==
  ASSUME WellFormed(cache), NEW c, WellFormed(c), NEW h \in Hosts, NEW expires \in BOOLEAN,
         With(c, h, "none") = With(cache, h, "none"), cache' = Add(c, h, h, expires)
  PROVE  Table!TableNext
<1>1. /\ WellFormed(Del(c, h)) /\ Absent(Del(c, h), h)
      /\ TableOf(Del(c, h)) = With(cache, h, "none")
  BY DelLemma
<1>2. CASE expires
  BY <1>1, <1>2, LearnStep DEF Add
<1>3. CASE ~expires
  BY <1>1, <1>3, FixStep DEF Add
<1>4. QED
  BY <1>2, <1>3

(* The calls, and the daemon. *)
LEMMA CallsStep ==
  ASSUME IInv, CacheCalls
  PROVE  Table!TableNext \/ TableOf(cache') = TableOf(cache)
<1> USE DEF IInv
<1>1. PICK h \in Hosts : Lookup(h) \/ Reply(h) \/ Request(h) \/ AddEntry(h) \/ DelEntry(h)
  BY DEF CacheCalls
<1>2. CASE Lookup(h)
  BY <1>2, AskStep DEF Lookup
<1>3. CASE Reply(h)
  <2> DEFINE i == SlotOf(cache, Pending(cache), h)
             c == RemovePending(cache, i)
  <2>1. i \in Pending(cache) /\ cache.list[i].ip = h
    BY <1>3, SectionsLemma, SlotOfIsSlot DEF Reply, IsPending
  <2>2. WellFormed(c) /\ TableOf(c) = With(cache, h, "none")
    BY <2>1, RemovePendingLemma
  <2>3. cache' = Add(c, h, h, TRUE)
    BY <1>3 DEF Reply
  <2> HIDE DEF i, c
  <2>4. With(c, h, "none") = With(cache, h, "none")
    BY <2>2 DEF With, TableOf
  <2>5. QED
    BY <2>2, <2>3, <2>4, AddStep
<1>4. CASE Request(h)
  BY <1>4, AddStep DEF Request
<1>5. CASE AddEntry(h)
  BY <1>5, AddStep DEF AddEntry
<1>6. CASE DelEntry(h)
  BY <1>6, DelLemma, ForgetStep DEF DelEntry
<1>7. QED
  BY <1>1, <1>2, <1>3, <1>4, <1>5, <1>6

LEMMA TimeoutsStep ==
  ASSUME IInv, CheckTimeouts
  PROVE  Table!TableNext \/ TableOf(cache') = TableOf(cache)
<1> USE DEF IInv
<1>1. ASSUME NEW h \in Hosts, Expire(h)
      PROVE  Table!TableNext
  <2>1. pos.i \in Pending(cache)
    BY <1>1, Bounds DEF Expire, At, Place, Pending
  <2>2. TableOf(cache') = With(cache, h, "none")
    BY <1>1, <2>1, RemovePendingLemma DEF Expire
  <2>3. QED
    BY <2>2, ForgetStep
<1>2. CASE Age
  <2>1. CASE UNCHANGED cache
    BY <2>1
  <2>2. CASE cache' = RemoveDynamic(cache, pos.i)
    <3>1. pos.i \in Dynamic(cache)
      BY <1>2, Bounds DEF Age, At, Place, Dynamic
    <3>2. cache.list[pos.i].ip \in Hosts
      BY <3>1, SectionsLemma, HostLemma
    <3>3. QED
      BY <2>2, <3>1, <3>2, RemoveDynamicLemma, ForgetStep
  <2>3. QED
    BY <1>2, <2>1, <2>2 DEF Age
<1>3. CASE DaemonStart \/ Wait \/ PendingDone \/ AgeDone
  BY <1>3 DEF DaemonStart, Wait, PendingDone, AgeDone
<1>4. QED
  BY <1>1, <1>2, <1>3 DEF CheckTimeouts

(* The next gateway that a failed route is looked up over. *)
LEMMA GateFailedLookup ==
  ASSUME GateFailed
  PROVE  UNCHANGED cache \/ \E gate \in Hosts : cache' = StartLookup(cache, gate)
<1> DEFINE re   == routes.list[pos.i]
           last == {k \in 1 .. Len(Gates) : Gates[k].ip = re.gate}
           from == IF last = {} THEN 0 ELSE Least(last)
           next == NextGates(from, re.host)
           gate == Gates[Least(next)].ip
<1>1. from \in Nat
  <2>1. last \subseteq Nat
    OBVIOUS
  <2>2. last # {} => Least(last) \in Nat
    BY <2>1, LeastLemma
  <2>3. QED
    BY <2>2
<1>2. next # {} => gate \in Hosts
  BY <1>1, GateLemma DEF NextGates
<1>3. UNCHANGED cache \/ (next # {} /\ cache' = StartLookup(cache, gate))
  BY DEF GateFailed
<1> HIDE DEF gate, next
<1>4. QED
  BY <1>2, <1>3

LEMMA RoutesStep ==
  ASSUME IInv, CheckRoutes
  PROVE  Table!TableNext \/ TableOf(cache') = TableOf(cache)
<1> USE DEF IInv
<1>1. CASE GateFailed
  <2>1. \/ UNCHANGED cache
        \/ \E gate \in Hosts : cache' = StartLookup(cache, gate)
    BY <1>1, GateFailedLookup
  <2>2. QED
    BY <2>1, AskStep
<1>2. CASE ~GateFailed
  BY <1>2 DEF CheckRoutes, RoutesStart, GateResolved, GateAwaited, RoutesDone, ExpireRoute,
              ExpiryDone
<1>3. QED
  BY <1>1, <1>2

LEMMA TableStep ==
  ASSUME IInv, [Next]_vars
  PROVE  [Table!TableNext]_(TableOf(cache))
<1>1. ASSUME NEW x \in Remote, StartRoute(x)
      PROVE  Table!TableNext \/ TableOf(cache') = TableOf(cache)
  BY <1>1, GateLemma, AskStep DEF StartRoute, IInv
<1>2. ASSUME NEW x \in Remote, NEW g \in Hosts, Redirect(g, x)
      PROVE  Table!TableNext \/ TableOf(cache') = TableOf(cache)
  <2>1. cache' = cache \/ cache' = StartLookup(cache, g)
    BY <1>2 DEF Redirect
  <2>2. QED
    BY <2>1, AskStep DEF IInv
<1>3. CASE UNCHANGED vars
  BY <1>3 DEF vars
<1>4. QED
  BY <1>1, <1>2, <1>3, CallsStep, TimeoutsStep, RoutesStep DEF Next, Daemon

(* The array of pcarp.c, with its three sections and entries that move from *)
(* slot to slot, is a table: what a call or a timeout does, it does to one  *)
(* host, and to one learned host that it displaces when the array is full.  *)
THEOREM ArrayImplementsTable == Spec => CacheIsTable
<1>1. Init => Table!TableInit
  <2> SUFFICES ASSUME Init PROVE Table!TableInit
    OBVIOUS
  <2>1. WellFormed(cache) /\ InUse(cache) = {}
    BY InitIInv, ArpCacheAssumption DEF IInv, Init, CacheInit, InUse, Free, Slots
  <2>2. \A h \in Hosts : KindOf(cache, h) = "none"
    BY <2>1, AbsentLemma DEF Absent
  <2>3. QED
    BY <2>2 DEF Table!TableInit, TableOf
<1>2. IInv /\ [Next]_vars => [Table!TableNext]_(TableOf(cache))
  BY TableStep
<1>3. QED
  BY <1>1, <1>2, Invariance, PTL DEF Spec, CacheIsTable, Table!TableSpec
-----------------------------------------------------------------------------
(* The walk over the dynamic routes.  What it has passed is checked, though *)
(* a route may have come down into the slot that it stands on.             *)
Checked ==
  At("expiry") => \A j \in DynamicRoutes(routes) :
                    j < pos.i => Resolved(cache, routes.list[j].gate)

PosType ==
  [loop : {"idle", "pending", "dynamic", "arp_done", "routes", "expiry"},
   i : Nat, dyn : BOOLEAN]

(* Where the daemon comes to the walk from, and where it goes from there. *)
LEMMA LoopLemma ==
  ASSUME pos \in PosType, Next
  PROVE  /\ pos'.loop = "expiry" => RoutesDone \/ ExpireRoute
         /\ At("expiry") => ExpireRoute \/ ExpiryDone
         /\ At("expiry") /\ ExpireRoute => pos'.loop = "expiry"
<1> USE DEF At, PosType
<1>0. ExpireRoute => pos.loop = "expiry" /\ pos'.loop = "expiry"
  BY DEF ExpireRoute, Advance
<1>1. CASE CacheCalls \/ \E x \in Remote : StartRoute(x) \/ \E g \in Hosts : Redirect(g, x)
  <2>1. pos.loop = "idle" /\ pos' = pos
    BY <1>1 DEF CacheCalls, Lookup, Reply, Request, AddEntry, DelEntry, StartRoute, Redirect,
                Idle
  <2>2. ~ExpireRoute
    BY <2>1 DEF ExpireRoute
  <2>3. QED
    BY <2>1, <2>2
<1>2. CASE CheckTimeouts
  <2>1. pos.loop \in {"idle", "pending", "dynamic"} /\ pos'.loop \in {"pending", "dynamic", "arp_done"}
    <3>1. CASE DaemonStart
      BY <3>1 DEF DaemonStart, Idle
    <3>2. CASE Wait \/ \E h \in Hosts : Expire(h)
      BY <3>2 DEF Wait, Expire, Advance
    <3>3. CASE PendingDone
      BY <3>3 DEF PendingDone
    <3>4. CASE Age \/ AgeDone
      BY <3>4 DEF Age, AgeDone, Advance
    <3>5. QED
      BY <1>2, <3>1, <3>2, <3>3, <3>4 DEF CheckTimeouts
  <2>2. QED
    BY <2>1
<1>3. CASE RoutesStart \/ GateResolved \/ GateAwaited \/ GateFailed
  <2>1. pos.loop \in {"arp_done", "routes"} /\ pos'.loop = "routes"
    <3>1. CASE RoutesStart
      BY <3>1 DEF RoutesStart
    <3>2. CASE GateResolved
      BY <3>2 DEF GateResolved, KeepSlot, Advance
    <3>3. CASE GateAwaited
      BY <3>3 DEF GateAwaited, Advance
    <3>4. CASE GateFailed
      <4>1. pos.loop = "routes" /\ (Advance \/ UNCHANGED pos)
        BY <3>4, Zenon DEF GateFailed, KeepSlot
      <4>2. QED
        BY <4>1 DEF Advance
    <3>5. QED
      BY <1>3, <3>1, <3>2, <3>3, <3>4
  <2>2. QED
    BY <2>1
<1>4. CASE RoutesDone
  BY <1>4 DEF RoutesDone
<1>5. CASE ExpireRoute
  BY <1>0, <1>5
<1>6. CASE ExpiryDone
  <2>1. pos'.loop = "idle"
    BY <1>6 DEF ExpiryDone
  <2>2. QED
    BY <1>0, <1>6, <2>1
<1>7. QED
  BY <1>1, <1>2, <1>3, <1>4, <1>5, <1>6 DEF Next, Daemon, CheckRoutes

LEMMA KeptRoutesLemma ==
  ASSUME NEW r, RoutesFormed(r), NEW i \in DynamicRoutes(r)
  PROVE  LET d == RemoveDynamicRoute(r, i) IN
         /\ d.first_free = r.first_free - 1
         /\ \A j \in DynamicRoutes(d) : j # i => d.list[j] = r.list[j]
<1> DEFINE e == [r EXCEPT !.list[i] = r.list[r.first_free - 1], !.first_free = @ - 1]
           l == [r.list EXCEPT ![i] = r.list[r.first_free - 1]]
           d == RemoveDynamicRoute(r, i)
<1>1. RoutesFormed(e) /\ e.first_free = r.first_free - 1 /\ e.list = l
  BY DropRouteLemma DEF RoutesFormed, RoutesType
<1>2. d = CleanRoutes(e)
  BY DEF RemoveDynamicRoute
<1> HIDE DEF e, d
<1>3. /\ d.first_free = e.first_free
      /\ d.list = [k \in RouteSlots |-> IF k \in e.first_free .. e.first_pending - 1
                                        THEN NoRoute ELSE e.list[k]]
  BY <1>1, <1>2 DEF CleanRoutes, RoutesFormed, RoutesType
<1>4. \A j \in DynamicRoutes(d) : /\ j \in RouteSlots /\ j \in DOMAIN r.list
                                  /\ ~(j \in e.first_free .. e.first_pending - 1)
  BY <1>1, <1>3, RouteBounds DEF DynamicRoutes, RouteSlots, RoutesFormed, RoutesType
<1>5. QED
  BY <1>1, <1>3, <1>4 DEF d

LEMMA NextChecked ==
  ASSUME IInv, Checked, [Next]_vars
  PROVE  Checked'
<1> USE DEF IInv
<1>0. pos \in PosType
  BY DEF Place, PosType
<1>1. pos.i \in Nat
  BY <1>0 DEF PosType
<1>2. CASE RoutesDone
  <2>1. pos'.loop = "expiry" => pos'.i = 0
    BY <1>0, <1>2 DEF RoutesDone, PosType
  <2>2. routes'.first_free \in Nat
    BY <1>2, RouteBounds DEF RoutesDone
  <2>3. QED
    BY <2>1, <2>2 DEF Checked, At, DynamicRoutes
<1>3. CASE ExpireRoute
  <2>1. /\ pos.loop = "expiry" /\ pos.i \in DynamicRoutes(routes) /\ UNCHANGED cache
        /\ pos.i < routes.first_free
    BY <1>1, <1>3, RouteBounds DEF ExpireRoute, At, DynamicRoutes
  <2>2. CASE Resolved(cache, routes.list[pos.i].gate)
    <3>1. UNCHANGED routes /\ pos'.i = pos.i + 1
      BY <1>0, <1>3, <2>2 DEF ExpireRoute, Advance, PosType
    <3>2. \A j \in DynamicRoutes(routes) : j < pos.i + 1 => j < pos.i \/ j = pos.i
      BY <1>1, RouteBounds DEF DynamicRoutes
    <3>3. QED
      BY <2>1, <2>2, <3>1, <3>2 DEF Checked, At
  <2>3. CASE ~Resolved(cache, routes.list[pos.i].gate)
    <3> DEFINE d == RemoveDynamicRoute(routes, pos.i)
    <3>1. /\ routes' = d
          /\ \/ pos' = pos
             \/ ~(pos.i < routes.first_free - 1) /\ pos'.i = pos.i + 1
      BY <1>0, <1>3, <2>3 DEF ExpireRoute, Advance, PosType
    <3>2. /\ d.first_free = routes.first_free - 1
          /\ \A j \in DynamicRoutes(d) : j # pos.i => d.list[j] = routes.list[j]
      BY <2>1, KeptRoutesLemma
    <3> HIDE DEF d
    <3>3. \A j \in DynamicRoutes(d) : j \in DynamicRoutes(routes)
      BY <3>2, RouteBounds DEF DynamicRoutes
    <3>4. \A j \in DynamicRoutes(d) : j < pos'.i => j < pos.i
      BY <1>1, <2>1, <3>1, <3>2, RouteBounds DEF DynamicRoutes
    <3>5. \A j \in DynamicRoutes(d) : j < pos'.i => Resolved(cache, d.list[j].gate)
      BY <1>1, <2>1, <3>2, <3>3, <3>4 DEF Checked, At, DynamicRoutes
    <3>6. QED
      BY <2>1, <3>1, <3>5 DEF Checked
  <2>4. QED
    BY <2>2, <2>3
<1>4. CASE UNCHANGED vars
  BY <1>4 DEF vars, Checked, At
<1>5. CASE Next /\ ~RoutesDone /\ ~ExpireRoute
  <2>1. pos'.loop # "expiry"
    BY <1>0, <1>5, LoopLemma
  <2>2. QED
    BY <2>1 DEF Checked, At
<1>6. QED
  BY <1>2, <1>3, <1>4, <1>5

(* When route_check_timeouts() has walked the dynamic routes, each one left *)
(* has a gateway whose hardware address is known, although every removal    *)
(* moves another route into the hole.                                      *)
THEOREM RoutesLeftHaveGateways == Spec => RoutesExpireWithGateway
<1>1. Init => Checked
  BY DEF Init, CacheInit, Checked, At
<1>2. IInv /\ Checked /\ [Next]_vars => Checked'
  BY NextChecked
<1>3. IInv /\ Checked /\ [Next]_vars
        => [At("expiry") /\ pos'.loop = "idle" =>
              \A i \in DynamicRoutes(routes) : Resolved(cache, routes.list[i].gate)]_vars
  <2> SUFFICES ASSUME IInv, Checked, Next, At("expiry"), pos'.loop = "idle"
               PROVE  \A i \in DynamicRoutes(routes) : Resolved(cache, routes.list[i].gate)
    OBVIOUS
  <2>1. pos \in PosType
    BY DEF IInv, Place, PosType
  <2>2. ExpiryDone
    BY <2>1, LoopLemma
  <2>3. \A i \in DynamicRoutes(routes) : i < pos.i
    BY <2>1, <2>2, RouteBounds DEF IInv, ExpiryDone, DynamicRoutes, PosType
  <2>4. QED
    BY <2>3 DEF Checked
<1>4. QED
  BY <1>1, <1>2, <1>3, Invariance, PTL DEF Spec, RoutesExpireWithGateway
=============================================================================

--------------------------- MODULE TcpReasmProofs ---------------------------
(***************************************************************************)
(* Proofs about TcpReasm for a stream, a buffer and a sequence number space *)
(* of any size, if the numbers of the stream do not wrap (NoWrap).  Where   *)
(* they do, data_in_order() is wrong and InOrderDataIsStream is false: its  *)
(* comparison of plain sequence numbers is the place that needs NoWrap.     *)
(*                                                                         *)
(* None of the properties is inductive.  What they need is where the run of *)
(* out-of-order data lies (Run: behind a gap and inside the buffer), that   *)
(* its bytes are those of the stream too (Content), and that the peer was   *)
(* never offered more than the buffer holds (Offer): a FIN that the peer    *)
(* may send then always fits, so that it is not taken while its data is     *)
(* refused.                                                                 *)
(***************************************************************************)
EXTENDS TcpReasm, TLAPS

NoWrap == Isn + StreamLen + MaxRx + 1 < SeqMod

(* The receive fields, as Sock gives them to the helpers. *)
SockType ==
  [next : SeqNums, missed : SeqNums \X SeqNums, data : [Cells -> Bytes \cup {Junk}],
   len : Nat]

(* The in-order data ends at offset off of the stream. *)
Pointers(s, read, off) ==
  /\ off = read + s.len /\ off <= StreamLen
  /\ s.next = Isn + off
  /\ s.len <= MaxRx

(* The out-of-order data lies behind a gap, and ends inside the stream and  *)
(* the buffer.                                                             *)
Run(s, read, off) ==
  \/ s.missed = <<0, 0>>
  \/ /\ Isn + off < s.missed[1] /\ s.missed[1] < s.missed[2]
     /\ s.missed[2] <= Isn + StreamLen
     /\ s.missed[2] <= Isn + read + MaxRx

(* Cell c is in the in-order data or in the run. *)
Filled(s, read, c) ==
  c < s.len \/ (s.missed[1] <= Isn + read + c /\ Isn + read + c < s.missed[2])

Content(s, read) ==
  \A c \in Cells : /\ Filled(s, read, c) => s.data[c] = read + c + 1
                   /\ c >= MaxRx => s.data[c] = Junk

Good(s, read, off) ==
  /\ s \in SockType
  /\ Pointers(s, read, off) /\ Run(s, read, off) /\ Content(s, read)

(* The socket before the FIN counted in recv_next. *)
Base == [Sock EXCEPT !.next = Isn + Received]

Offer == adv_win \in 0 .. MaxRx /\ edge \in Nat /\ edge <= nread + MaxRx

IInv ==
  /\ nread \in Nat /\ got_fin \in BOOLEAN
  /\ Good(Base, nread, Received)
  /\ recv_next = Isn + Received + FinCount
  /\ got_fin => Received = StreamLen /\ missed_seq = <<0, 0>>
  /\ Offer
-----------------------------------------------------------------------------
(* Sequence numbers.  Within the stream they are the offsets, moved by Isn. *)
LEMMA ModLemma ==
  ASSUME NEW m \in Nat, NEW a \in Int, -m <= a, a < m, m > 0
  PROVE  a % m = IF a >= 0 THEN a ELSE a + m
OBVIOUS

LEMMA DiffLemma ==
  ASSUME NEW x \in SeqNums, NEW y \in SeqNums
  PROVE  Diff(x, y) \in SeqNums /\ Diff(x, y) = IF x >= y THEN x - y ELSE x - y + SeqMod
BY TcpReasmAssumption, ModLemma DEF Diff, SeqNums

LEMMA SignedLemma ==
  ASSUME NEW x \in SeqNums, NEW y \in SeqNums,
         x - y <= StreamLen + MaxRx, y - x <= StreamLen + MaxRx
  PROVE  Signed(Diff(x, y)) = x - y
<1> DEFINE k == StreamLen + MaxRx
           h == SeqMod \div 2
           d == Diff(x, y)
<1>1. k \in Nat /\ SeqMod \in Nat /\ SeqMod > 2 * (k + 1)
  BY TcpReasmAssumption
<1> HIDE DEF k
<1>2. h \in Int /\ k < h /\ h <= SeqMod - k
  BY <1>1
<1> HIDE DEF h
<1>3. x \in Int /\ y \in Int /\ x - y <= k /\ y - x <= k
  BY TcpReasmAssumption DEF SeqNums, k
<1>4. d = IF x >= y THEN x - y ELSE x - y + SeqMod
  BY DiffLemma
<1>5. Signed(d) = IF d < h THEN d ELSE d - SeqMod
  BY DEF Signed, h
<1> HIDE DEF d
<1>6. CASE x >= y
  BY <1>1, <1>2, <1>3, <1>4, <1>5, <1>6 DEF d
<1>7. CASE x < y
  BY <1>1, <1>2, <1>3, <1>4, <1>5, <1>7 DEF d
<1>8. QED
  BY <1>3, <1>6, <1>7

LEMMA SeqLemma ==
  ASSUME NoWrap, NEW off \in 0 .. StreamLen + MaxRx + 1
  PROVE  Seq(off) = Isn + off /\ Seq(off) \in SeqNums
BY TcpReasmAssumption, ModLemma DEF Seq, SeqNums, NoWrap

LEMMA SegmentLemma ==
  ASSUME NEW g \in Segments
  PROVE  /\ g.from \in Nat /\ g.to \in Nat /\ g.from <= g.to /\ g.to <= StreamLen
         /\ SegLen(g) = g.to - g.from /\ SegLen(g) \in Nat
         /\ g.fin \in BOOLEAN /\ (g.fin => g.to = StreamLen)
BY TcpReasmAssumption DEF Segments, SegLen
-----------------------------------------------------------------------------
(* The helpers of tcp_process_data(). *)
LEMMA MemCpyLemma ==
  ASSUME NEW buf \in [Cells -> Bytes \cup {Junk}], NEW g \in Segments,
         NEW at \in Nat, NEW from \in Nat, NEW n \in Nat, from + n <= SegLen(g)
  PROVE  /\ MemCpy(buf, at, g, from, n) \in [Cells -> Bytes \cup {Junk}]
         /\ \A c \in Cells : MemCpy(buf, at, g, from, n)[c] =
              IF at <= c /\ c < at + n THEN g.from + from + (c - at) + 1 ELSE buf[c]
<1>1. \A c \in Cells : at <= c /\ c < at + n =>
        SegByte(g, from + c - at) = g.from + from + (c - at) + 1
        /\ SegByte(g, from + c - at) \in Bytes
  BY TcpReasmAssumption, SegmentLemma DEF SegByte, Cells, Bytes
<1>2. QED
  BY <1>1 DEF MemCpy

LEMMA CopyInOrderLemma ==
  ASSUME NEW s \in SockType, NEW g \in Segments, NEW from \in Nat, NEW n \in Nat,
         from + n <= SegLen(g), s.next + n < SeqMod
  PROVE  LET r == CopyInOrder(s, g, from, n) IN
         /\ r \in SockType
         /\ r.next = s.next + n /\ r.len = s.len + n /\ r.missed = s.missed
         /\ \A c \in Cells : r.data[c] =
              IF s.len <= c /\ c < s.len + n THEN g.from + from + (c - s.len) + 1
                                             ELSE s.data[c]
<1> DEFINE data == MemCpy(s.data, s.len, g, from, n)
           next == (s.next + n) % SeqMod
           len  == s.len + n
           r    == [s EXCEPT !.data = data, !.next = next, !.len = len]
<1>1. s.len \in Nat /\ s.data \in [Cells -> Bytes \cup {Junk}] /\ s.next \in SeqNums
  BY DEF SockType
<1>2. /\ data \in [Cells -> Bytes \cup {Junk}]
      /\ \A c \in Cells : data[c] =
           IF s.len <= c /\ c < s.len + n THEN g.from + from + (c - s.len) + 1 ELSE s.data[c]
  BY <1>1, MemCpyLemma
<1>3. next = s.next + n /\ next \in SeqNums /\ len \in Nat
  BY <1>1, ModLemma, TcpReasmAssumption DEF SeqNums
<1>4. CopyInOrder(s, g, from, n) = r
  BY DEF CopyInOrder
<1> HIDE DEF data, next
<1>5. r \in SockType
  BY <1>2, <1>3 DEF SockType
<1>6. r.next = next /\ r.len = len /\ r.missed = s.missed /\ r.data = data
  BY DEF SockType
<1> HIDE DEF r
<1>7. QED
  BY <1>2, <1>3, <1>4, <1>5, <1>6

LEMMA AppendLemma ==
  ASSUME NEW s \in SockType, NEW g \in Segments, NEW from \in Nat, NEW n \in Nat,
         from + n <= SegLen(g), s.next <= s.missed[2], s.missed[2] + n < SeqMod
  PROVE  LET r  == AppendFrom(s, g, from, n)
             at == s.missed[2] - s.next + s.len IN
         /\ r \in SockType
         /\ r.next = s.next /\ r.len = s.len
         /\ r.missed[1] = s.missed[1] /\ r.missed[2] = s.missed[2] + n
         /\ \A c \in Cells : r.data[c] =
              IF at <= c /\ c < at + n THEN g.from + from + (c - at) + 1 ELSE s.data[c]
<1> DEFINE at     == Diff(s.missed[2], s.next) + s.len
           data   == MemCpy(s.data, at, g, from, n)
           missed == <<s.missed[1], (s.missed[2] + n) % SeqMod>>
           r      == [s EXCEPT !.data = data, !.missed = missed]
<1>1. /\ s.len \in Nat /\ s.data \in [Cells -> Bytes \cup {Junk}] /\ s.next \in SeqNums
      /\ s.missed[1] \in SeqNums /\ s.missed[2] \in SeqNums
  BY DEF SockType
<1>2. at = s.missed[2] - s.next + s.len /\ at \in Nat
  <2>1. s.missed[2] \in Nat /\ s.next \in Nat
    BY <1>1, TcpReasmAssumption DEF SeqNums
  <2>2. Diff(s.missed[2], s.next) = s.missed[2] - s.next
    BY <1>1, <2>1, DiffLemma
  <2>3. QED
    BY <1>1, <2>1, <2>2
<1>3. (s.missed[2] + n) % SeqMod = s.missed[2] + n /\ s.missed[2] + n \in SeqNums
  BY <1>1, ModLemma, TcpReasmAssumption DEF SeqNums
<1>4. AppendFrom(s, g, from, n) = r
  BY DEF AppendFrom
<1> HIDE DEF at
<1>5. /\ data \in [Cells -> Bytes \cup {Junk}]
      /\ \A c \in Cells : data[c] =
           IF at <= c /\ c < at + n THEN g.from + from + (c - at) + 1 ELSE s.data[c]
  BY <1>1, <1>2, MemCpyLemma
<1>6. missed \in SeqNums \X SeqNums /\ missed[1] = s.missed[1] /\ missed[2] = s.missed[2] + n
  BY <1>1, <1>3
<1> HIDE DEF data, missed
<1>7. r \in SockType
  BY <1>5, <1>6 DEF SockType
<1>8. r.next = s.next /\ r.len = s.len /\ r.missed = missed /\ r.data = data
  BY DEF SockType
<1> HIDE DEF r
<1>9. QED
  BY <1>2, <1>4, <1>5, <1>6, <1>7, <1>8

LEMMA PrependLemma ==
  ASSUME NEW s \in SockType, NEW g \in Segments, NEW n \in Nat, n <= SegLen(g),
         s.next + n <= s.missed[1]
  PROVE  LET r  == Prepend(s, g, n)
             at == s.missed[1] - s.next + s.len - n IN
         /\ r \in SockType
         /\ r.next = s.next /\ r.len = s.len
         /\ r.missed[1] = s.missed[1] - n /\ r.missed[2] = s.missed[2]
         /\ \A c \in Cells : r.data[c] =
              IF at <= c /\ c < at + n THEN g.from + (c - at) + 1 ELSE s.data[c]
<1> DEFINE at     == Diff(s.missed[1], s.next) + s.len - n
           data   == MemCpy(s.data, at, g, 0, n)
           missed == <<Diff(s.missed[1], n), s.missed[2]>>
           r      == [s EXCEPT !.data = data, !.missed = missed]
<1>1. /\ s.len \in Nat /\ s.data \in [Cells -> Bytes \cup {Junk}] /\ s.next \in SeqNums
      /\ s.missed[1] \in SeqNums /\ s.missed[2] \in SeqNums
  BY DEF SockType
<1>2. at = s.missed[1] - s.next + s.len - n /\ at \in Nat
  <2>1. s.missed[1] \in Nat /\ s.next \in Nat
    BY <1>1, TcpReasmAssumption DEF SeqNums
  <2>2. Diff(s.missed[1], s.next) = s.missed[1] - s.next
    BY <1>1, <2>1, DiffLemma
  <2>3. QED
    BY <1>1, <2>1, <2>2
<1>3. n \in SeqNums /\ s.missed[1] >= n
  BY <1>1, TcpReasmAssumption DEF SeqNums
<1>4. Diff(s.missed[1], n) = s.missed[1] - n /\ Diff(s.missed[1], n) \in SeqNums
  BY <1>1, <1>3, DiffLemma
<1>5. Prepend(s, g, n) = r
  BY DEF Prepend
<1> HIDE DEF at
<1>6. /\ data \in [Cells -> Bytes \cup {Junk}]
      /\ \A c \in Cells : data[c] =
           IF at <= c /\ c < at + n THEN g.from + 0 + (c - at) + 1 ELSE s.data[c]
  BY <1>1, <1>2, MemCpyLemma
<1>7. \A c \in Cells : data[c] =
        IF at <= c /\ c < at + n THEN g.from + (c - at) + 1 ELSE s.data[c]
  BY <1>6, SegmentLemma
<1>8. missed \in SeqNums \X SeqNums /\ missed[1] = s.missed[1] - n /\ missed[2] = s.missed[2]
  BY <1>1, <1>4
<1> HIDE DEF data, missed
<1>9. r \in SockType
  BY <1>6, <1>8 DEF SockType
<1>10. r.next = s.next /\ r.len = s.len /\ r.missed = missed /\ r.data = data
  BY DEF SockType
<1> HIDE DEF r
<1>11. QED
  BY <1>2, <1>5, <1>7, <1>8, <1>9, <1>10
-----------------------------------------------------------------------------
(* tcp_process_data(). *)
LEMMA GoodLemma ==
  ASSUME NEW s, NEW read \in Nat, NEW off, Good(s, read, off)
  PROVE  /\ s \in SockType /\ off \in Nat /\ off = read + s.len /\ off <= StreamLen
         /\ s.next = Isn + off /\ s.len \in Nat /\ s.len <= MaxRx
         /\ s.missed[1] \in Nat /\ s.missed[2] \in Nat
         /\ Missed(s) =>
              /\ Isn + off < s.missed[1] /\ s.missed[1] < s.missed[2]
              /\ s.missed[2] <= Isn + StreamLen /\ s.missed[2] <= Isn + read + MaxRx
         /\ ~Missed(s) => s.missed = <<0, 0>>
<1>1. s.len \in Nat /\ s.missed[1] \in Nat /\ s.missed[2] \in Nat
  BY TcpReasmAssumption DEF Good, SockType, SeqNums
<1>2. Missed(s) => s.missed # <<0, 0>>
  BY DEF Missed
<1>3. QED
  BY <1>1, <1>2, TcpReasmAssumption DEF Good, Pointers, Run, Missed

(* In-order data leaves the buffer good, with all of the segment in it. *)
LEMMA DataInOrderLemma ==
  ASSUME NoWrap, NEW read \in Nat, NEW off, NEW s, Good(s, read, off),
         NEW g \in Segments, NEW diff \in Nat, g.from + diff = off,
         off <= g.to, g.to <= read + MaxRx
  PROVE  \E new \in Nat : off <= new /\ g.to <= new /\ Good(DataInOrder(s, g, diff), read, new)
<1> DEFINE n     == SegLen(g) - diff
           gap   == Diff(s.missed[1], s.next)
           msEnd == Diff(s.missed[2], s.next)
           first == CopyInOrder(s, g, diff, gap)
           join  == [first EXCEPT !.len = @ + Width(s), !.next = s.missed[2],
                                  !.missed = <<0, 0>>]
           a     == s.missed[1] - Isn
           b     == s.missed[2] - Isn
<1> USE TcpReasmAssumption
<1>1. /\ s \in SockType /\ off \in Nat /\ off = read + s.len /\ off <= StreamLen
      /\ s.next = Isn + off /\ s.len \in Nat /\ s.len <= MaxRx
      /\ s.missed[1] \in Nat /\ s.missed[2] \in Nat
      /\ Missed(s) => off < a /\ a < b /\ b <= StreamLen /\ b <= read + MaxRx
      /\ ~Missed(s) => s.missed = <<0, 0>>
  <2>1. Isn \in Nat /\ StreamLen \in Nat /\ MaxRx \in Nat
    OBVIOUS
  <2>2. /\ s \in SockType /\ off \in Nat /\ off = read + s.len /\ off <= StreamLen
        /\ s.next = Isn + off /\ s.len \in Nat /\ s.len <= MaxRx
        /\ s.missed[1] \in Nat /\ s.missed[2] \in Nat
        /\ ~Missed(s) => s.missed = <<0, 0>>
    BY GoodLemma
  <2>3. ASSUME Missed(s)
        PROVE  off < a /\ a < b /\ b <= StreamLen /\ b <= read + MaxRx
    <3>1. /\ Isn + off < s.missed[1] /\ s.missed[1] < s.missed[2]
          /\ s.missed[2] <= Isn + StreamLen /\ s.missed[2] <= Isn + read + MaxRx
      BY <2>3, GoodLemma
    <3>2. QED
      BY <2>1, <2>2, <3>1
  <2>4. QED
    BY <2>2, <2>3
<1>2. g.from \in Nat /\ g.to \in Nat /\ g.to <= StreamLen /\ n = g.to - off /\ n \in Nat
      /\ diff + n <= SegLen(g)
  BY <1>1, SegmentLemma
<1>3. s.missed \in SeqNums \X SeqNums /\ s.next \in SeqNums
  BY <1>1 DEF SockType
<1>4. CASE ~Missed(s) \/ (s.next + n) % SeqMod < s.missed[1]
  <2> DEFINE r == CopyInOrder(s, g, diff, n)
  <2>1. s.next + n = Isn + g.to /\ s.next + n < SeqMod
    BY <1>1, <1>2 DEF NoWrap
  <2>2. Missed(s) => g.to < a
    <3>1. (s.next + n) % SeqMod = s.next + n
      BY <1>1, <1>2, <2>1, ModLemma
    <3>2. QED
      BY <1>1, <1>2, <1>4, <2>1, <3>1
  <2>3. /\ r \in SockType
        /\ r.next = s.next + n /\ r.len = s.len + n /\ r.missed = s.missed
        /\ \A c \in Cells : r.data[c] =
             IF s.len <= c /\ c < s.len + n THEN g.from + diff + (c - s.len) + 1
                                            ELSE s.data[c]
    BY <1>1, <1>2, <2>1, CopyInOrderLemma
  <2>4. DataInOrder(s, g, diff) = r
    BY <1>4 DEF DataInOrder
  <2> HIDE DEF r
  <2>5. Pointers(r, read, g.to)
    BY <1>1, <1>2, <2>1, <2>3 DEF Pointers
  <2>6. Run(r, read, g.to)
    BY <1>1, <1>2, <2>2, <2>3 DEF Run
  <2>7. Content(r, read)
    <3> SUFFICES ASSUME NEW c \in Cells
                 PROVE  /\ Filled(r, read, c) => r.data[c] = read + c + 1
                        /\ c >= MaxRx => r.data[c] = Junk
      BY DEF Content
    <3>1. c \in Nat
      BY DEF Cells
    <3>2. CASE s.len <= c /\ c < s.len + n
      BY <1>1, <1>2, <2>3, <3>1, <3>2
    <3>3. CASE ~(s.len <= c /\ c < s.len + n)
      <4>1. r.data[c] = s.data[c]
        BY <2>3, <3>3
      <4>2. Filled(r, read, c) => Filled(s, read, c)
        BY <1>1, <1>2, <2>3, <3>1, <3>3 DEF Filled
      <4>3. QED
        BY <4>1, <4>2 DEF Good, Content
    <3>4. QED
      BY <3>2, <3>3
  <2>8. QED
    BY <1>1, <1>2, <2>3, <2>4, <2>5, <2>6, <2>7 DEF Good
<1>5. CASE Missed(s) /\ ~((s.next + n) % SeqMod < s.missed[1])
  <2>1. s.next + n = Isn + g.to /\ s.next + n < SeqMod
    BY <1>1, <1>2 DEF NoWrap
  <2>2. a <= g.to
    <3>1. (s.next + n) % SeqMod = s.next + n
      BY <1>1, <1>2, <2>1, ModLemma
    <3>2. QED
      BY <1>1, <1>2, <1>5, <2>1, <3>1
  <2>3. off < a /\ a < b /\ b <= StreamLen /\ b <= read + MaxRx
    BY <1>1, <1>5
  <2>4. gap = a - off /\ gap \in Nat /\ msEnd = b - off /\ msEnd \in Nat /\ Width(s) = b - a
    <3>1. s.missed[1] \in SeqNums /\ s.missed[2] \in SeqNums
      BY <1>3
    <3>2. s.missed[1] > s.next /\ s.missed[2] > s.next /\ s.missed[2] > s.missed[1]
      BY <1>1, <2>3
    <3>3. gap = s.missed[1] - s.next /\ msEnd = s.missed[2] - s.next
          /\ Width(s) = s.missed[2] - s.missed[1]
      BY <1>1, <1>3, <3>1, <3>2, DiffLemma DEF Width
    <3>4. QED
      BY <1>1, <2>3, <3>3
  <2>5. /\ first \in SockType
        /\ first.next = s.next + gap /\ first.len = s.len + gap
        /\ first.missed = s.missed
        /\ \A c \in Cells : first.data[c] =
             IF s.len <= c /\ c < s.len + gap THEN g.from + diff + (c - s.len) + 1
                                              ELSE s.data[c]
    <3>1. SegLen(g) = n + diff /\ SegLen(g) \in Nat
      BY <1>2, SegmentLemma
    <3> HIDE DEF n, gap, msEnd
    <3>2. diff + gap <= SegLen(g) /\ s.next + gap < SeqMod
      BY <1>1, <1>2, <2>2, <2>3, <2>4, <3>1 DEF NoWrap
    <3>3. s \in SockType /\ gap \in Nat
      BY <1>1, <2>4
    <3>4. QED
      BY <3>2, <3>3, CopyInOrderLemma
  <2> HIDE DEF gap, msEnd, first, n
  <2>6. /\ join \in SockType
        /\ join.next = s.missed[2] /\ join.len = b - read /\ join.missed = <<0, 0>>
        /\ join.data = first.data
    <3> DEFINE len == first.len + Width(s)
    <3>1. len = b - read /\ len \in Nat
      BY <1>1, <2>3, <2>4, <2>5
    <3>2. s.missed[2] \in SeqNums /\ <<0, 0>> \in SeqNums \X SeqNums
      BY <1>3 DEF SeqNums
    <3> HIDE DEF len
    <3>3. join = [first EXCEPT !.len = len, !.next = s.missed[2], !.missed = <<0, 0>>]
      BY <2>5 DEF len, SockType
    <3> HIDE DEF join
    <3>4. join \in SockType
      BY <2>5, <3>1, <3>2, <3>3 DEF SockType
    <3>5. QED
      BY <2>5, <3>1, <3>3, <3>4 DEF SockType
  <2> HIDE DEF join
  <2>7. \A c \in Cells : /\ c < b - read => join.data[c] = read + c + 1
                         /\ c >= MaxRx => join.data[c] = Junk
    <3> SUFFICES ASSUME NEW c \in Cells
                 PROVE  /\ c < b - read => join.data[c] = read + c + 1
                        /\ c >= MaxRx => join.data[c] = Junk
      OBVIOUS
    <3>1. c \in Nat
      BY DEF Cells
    <3>2. CASE s.len <= c /\ c < s.len + gap
      BY <1>1, <1>2, <2>3, <2>4, <2>5, <2>6, <3>1, <3>2
    <3>3. CASE ~(s.len <= c /\ c < s.len + gap)
      <4>1. join.data[c] = s.data[c]
        BY <2>5, <2>6, <3>3
      <4>2. c < b - read => Filled(s, read, c)
        BY <1>1, <2>3, <2>4, <3>1, <3>3 DEF Filled
      <4>3. QED
        BY <4>1, <4>2 DEF Good, Content
    <3>4. QED
      BY <3>2, <3>3
  <2>8. Good(join, read, b)
    <3>1. Pointers(join, read, b)
      BY <1>1, <2>3, <2>6 DEF Pointers
    <3>2. Run(join, read, b)
      BY <2>6 DEF Run
    <3>3. Content(join, read)
      <4>1. \A c \in Cells : Filled(join, read, c) => c < b - read
        BY <2>6 DEF Filled, Cells
      <4>2. QED
        BY <2>7, <4>1 DEF Content
    <3>4. QED
      BY <2>6, <3>1, <3>2, <3>3 DEF Good
  <2>9. CASE ~(n > msEnd)
    <3>1. DataInOrder(s, g, diff) = join
      BY <1>5, <2>9 DEF DataInOrder, join, first, gap, msEnd, n
    <3>2. b \in Nat /\ off <= b /\ g.to <= b
      BY <1>1, <1>2, <2>3, <2>4, <2>9
    <3>3. QED
      BY <2>8, <3>1, <3>2
  <2>10. CASE n > msEnd
    <3> DEFINE r == CopyInOrder(join, g, diff + msEnd, n - msEnd)
               m == n - msEnd
    <3>1. m = g.to - b /\ m \in Nat /\ g.from + (diff + msEnd) = b /\ diff + msEnd \in Nat
          /\ (diff + msEnd) + m <= SegLen(g)
      BY <1>1, <1>2, <2>3, <2>4, <2>10
    <3>2. join.next + m = Isn + g.to /\ join.next + m < SeqMod
      BY <1>1, <1>2, <2>3, <2>6, <3>1 DEF NoWrap
    <3>3. /\ r \in SockType
          /\ r.next = join.next + m /\ r.len = join.len + m /\ r.missed = join.missed
          /\ \A c \in Cells : r.data[c] =
               IF join.len <= c /\ c < join.len + m
               THEN g.from + (diff + msEnd) + (c - join.len) + 1 ELSE join.data[c]
      BY <2>6, <3>1, <3>2, CopyInOrderLemma
    <3>4. DataInOrder(s, g, diff) = r
      BY <1>5, <2>10 DEF DataInOrder, join, first, gap, msEnd, n
    <3> HIDE DEF r, m
    <3>5. Pointers(r, read, g.to)
      BY <1>1, <1>2, <2>3, <2>6, <3>1, <3>2, <3>3 DEF Pointers
    <3>6. Run(r, read, g.to)
      BY <2>6, <3>3 DEF Run
    <3>7. Content(r, read)
      <4> SUFFICES ASSUME NEW c \in Cells
                   PROVE  /\ Filled(r, read, c) => r.data[c] = read + c + 1
                          /\ c >= MaxRx => r.data[c] = Junk
        BY DEF Content
      <4>1. c \in Nat
        BY DEF Cells
      <4>2. CASE join.len <= c /\ c < join.len + m
        BY <1>1, <1>2, <2>3, <2>6, <3>1, <3>3, <4>1, <4>2
      <4>3. CASE ~(join.len <= c /\ c < join.len + m)
        <5>1. r.data[c] = join.data[c]
          BY <3>3, <4>3
        <5>2. Filled(r, read, c) => c < b - read
          BY <1>1, <2>3, <2>6, <3>1, <3>3, <4>1, <4>3 DEF Filled
        <5>3. QED
          BY <2>7, <5>1, <5>2
      <4>4. QED
        BY <4>2, <4>3
    <3>8. QED
      BY <1>1, <1>2, <3>3, <3>4, <3>5, <3>6, <3>7 DEF Good
  <2>11. QED
    BY <2>9, <2>10
<1>6. QED
  BY <1>4, <1>5

(* Data that reaches back from the run, and data that goes on behind it. *)
LEMMA PrependGoodLemma ==
  ASSUME NoWrap, NEW read \in Nat, NEW off, NEW s, Good(s, read, off), Missed(s),
         NEW g \in Segments, off < g.from,
         NEW n \in Nat, n = s.missed[1] - Isn - g.from, n <= SegLen(g)
  PROVE  LET r == Prepend(s, g, n) IN
         Good(r, read, off) /\ Missed(r) /\ r.missed[2] = s.missed[2] /\ r.next = s.next
<1> DEFINE r == Prepend(s, g, n)
           a == s.missed[1]
           b == s.missed[2]
<1> USE TcpReasmAssumption
<1>1. /\ s \in SockType /\ off \in Nat /\ off = read + s.len /\ off <= StreamLen
      /\ s.next = Isn + off /\ s.len \in Nat /\ s.len <= MaxRx
      /\ a \in Nat /\ b \in Nat
      /\ Isn + off < a /\ a < b /\ b <= Isn + StreamLen /\ b <= Isn + read + MaxRx
  BY GoodLemma
<1>2. g.from \in Nat
  BY SegmentLemma
<1>3. s.next + n <= a
  BY <1>1, <1>2
<1>4. /\ r \in SockType
      /\ r.next = s.next /\ r.len = s.len
      /\ r.missed[1] = a - n /\ r.missed[2] = b
      /\ \A c \in Cells : r.data[c] =
           IF a - s.next + s.len - n <= c /\ c < a - s.next + s.len - n + n
           THEN g.from + (c - (a - s.next + s.len - n)) + 1 ELSE s.data[c]
  BY <1>1, <1>3, PrependLemma
<1> HIDE DEF r
<1>5. a - s.next + s.len - n = g.from - read /\ a - n = Isn + g.from
  BY <1>1, <1>2
<1>6. Pointers(r, read, off)
  BY <1>1, <1>4 DEF Pointers
<1>7. Run(r, read, off) /\ Missed(r)
  BY <1>1, <1>2, <1>4, <1>5 DEF Run, Missed
<1>8. Content(r, read)
  <2> SUFFICES ASSUME NEW c \in Cells
               PROVE  /\ Filled(r, read, c) => r.data[c] = read + c + 1
                      /\ c >= MaxRx => r.data[c] = Junk
    BY DEF Content
  <2>1. c \in Nat
    BY DEF Cells
  <2>2. CASE g.from - read <= c /\ c < g.from - read + n
    BY <1>1, <1>2, <1>4, <1>5, <2>1, <2>2
  <2>3. CASE ~(g.from - read <= c /\ c < g.from - read + n)
    <3>1. r.data[c] = s.data[c]
      BY <1>4, <1>5, <2>3
    <3>2. Filled(r, read, c) => Filled(s, read, c)
      BY <1>1, <1>2, <1>4, <1>5, <2>1, <2>3 DEF Filled
    <3>3. QED
      BY <3>1, <3>2 DEF Good, Content
  <2>4. QED
    BY <2>2, <2>3
<1>9. Good(r, read, off)
  BY <1>4, <1>6, <1>7, <1>8 DEF Good
<1>10. QED
  BY <1>4, <1>7, <1>9 DEF r

LEMMA AppendGoodLemma ==
  ASSUME NoWrap, NEW read \in Nat, NEW off, NEW s, Good(s, read, off), Missed(s),
         NEW g \in Segments, g.to <= read + MaxRx,
         NEW from \in Nat, NEW n \in Nat, g.from + from = s.missed[2] - Isn,
         from + n = SegLen(g)
  PROVE  Good(AppendFrom(s, g, from, n), read, off)
<1> DEFINE r == AppendFrom(s, g, from, n)
           a == s.missed[1]
           b == s.missed[2]
<1> USE TcpReasmAssumption
<1>1. /\ s \in SockType /\ off \in Nat /\ off = read + s.len /\ off <= StreamLen
      /\ s.next = Isn + off /\ s.len \in Nat /\ s.len <= MaxRx
      /\ a \in Nat /\ b \in Nat
      /\ Isn + off < a /\ a < b /\ b <= Isn + StreamLen /\ b <= Isn + read + MaxRx
  BY GoodLemma
<1>2. g.from \in Nat /\ g.to \in Nat /\ g.to <= StreamLen /\ SegLen(g) = g.to - g.from
  BY SegmentLemma
<1>3. s.next <= b /\ b + n = Isn + g.to /\ b + n < SeqMod
  BY <1>1, <1>2 DEF NoWrap
<1>4. from + n <= SegLen(g)
  BY <1>2
<1>5. /\ r \in SockType
      /\ r.next = s.next /\ r.len = s.len
      /\ r.missed[1] = a /\ r.missed[2] = b + n
      /\ \A c \in Cells : r.data[c] =
           IF b - s.next + s.len <= c /\ c < b - s.next + s.len + n
           THEN g.from + from + (c - (b - s.next + s.len)) + 1 ELSE s.data[c]
  BY <1>1, <1>3, <1>4, AppendLemma
<1> HIDE DEF r
<1>6. b - s.next + s.len = b - Isn - read
  BY <1>1
<1>7. Pointers(r, read, off)
  BY <1>1, <1>5 DEF Pointers
<1>8. Run(r, read, off)
  BY <1>1, <1>2, <1>3, <1>5 DEF Run
<1>9. Content(r, read)
  <2> SUFFICES ASSUME NEW c \in Cells
               PROVE  /\ Filled(r, read, c) => r.data[c] = read + c + 1
                      /\ c >= MaxRx => r.data[c] = Junk
    BY DEF Content
  <2>1. c \in Nat
    BY DEF Cells
  <2>2. CASE b - Isn - read <= c /\ c < b - Isn - read + n
    BY <1>1, <1>2, <1>3, <1>5, <1>6, <2>1, <2>2
  <2>3. CASE ~(b - Isn - read <= c /\ c < b - Isn - read + n)
    <3>1. r.data[c] = s.data[c]
      BY <1>5, <1>6, <2>3
    <3>2. Filled(r, read, c) => Filled(s, read, c)
      BY <1>1, <1>2, <1>3, <1>5, <2>1, <2>3 DEF Filled
    <3>3. QED
      BY <3>1, <3>2 DEF Good, Content
  <2>4. QED
    BY <2>2, <2>3
<1>10. Good(r, read, off)
  BY <1>5, <1>7, <1>8, <1>9 DEF Good
<1>11. QED
  BY <1>10 DEF r

(* The first out-of-order data begins the run. *)
LEMMA FirstRunLemma ==
  ASSUME NoWrap, NEW read \in Nat, NEW off, NEW s, Good(s, read, off), ~Missed(s),
         NEW g \in Segments, off < g.from, g.from < g.to, g.to <= read + MaxRx
  PROVE  Good(AppendFrom([s EXCEPT !.missed = <<Seq(g.from), Seq(g.from)>>], g, 0, SegLen(g)),
              read, off)
<1> DEFINE q == Seq(g.from)
           t == [s EXCEPT !.missed = <<q, q>>]
           n == SegLen(g)
           r == AppendFrom(t, g, 0, n)
<1> USE TcpReasmAssumption
<1>1. /\ s \in SockType /\ off \in Nat /\ off = read + s.len /\ off <= StreamLen
      /\ s.next = Isn + off /\ s.len \in Nat /\ s.len <= MaxRx
  BY GoodLemma
<1>2. g.from \in Nat /\ g.to \in Nat /\ g.to <= StreamLen /\ n = g.to - g.from /\ n \in Nat
  BY SegmentLemma
<1>3. q = Isn + g.from /\ q \in SeqNums
  <2>1. g.from \in 0 .. StreamLen + MaxRx + 1
    BY <1>2
  <2>2. QED
    BY <2>1, SeqLemma
<1> HIDE DEF q
<1>4. t \in SockType /\ t.next = s.next /\ t.len = s.len /\ t.data = s.data
      /\ t.missed[1] = q /\ t.missed[2] = q
  BY <1>1, <1>3 DEF SockType
<1> HIDE DEF t
<1>5. t.next <= q /\ q + n = Isn + g.to /\ q + n < SeqMod /\ 0 + n <= SegLen(g)
  BY <1>1, <1>2, <1>3, <1>4 DEF NoWrap
<1>6. /\ r \in SockType
      /\ r.next = t.next /\ r.len = t.len
      /\ r.missed[1] = q /\ r.missed[2] = q + n
      /\ \A c \in Cells : r.data[c] =
           IF q - t.next + t.len <= c /\ c < q - t.next + t.len + n
           THEN g.from + 0 + (c - (q - t.next + t.len)) + 1 ELSE t.data[c]
  BY <1>2, <1>4, <1>5, AppendLemma
<1> HIDE DEF r
<1>7. q - t.next + t.len = g.from - read
  BY <1>1, <1>2, <1>3, <1>4
<1>8. Pointers(r, read, off)
  BY <1>1, <1>4, <1>6 DEF Pointers
<1>9. Run(r, read, off)
  BY <1>1, <1>2, <1>3, <1>5, <1>6 DEF Run
<1>10. Content(r, read)
  <2> SUFFICES ASSUME NEW c \in Cells
               PROVE  /\ Filled(r, read, c) => r.data[c] = read + c + 1
                      /\ c >= MaxRx => r.data[c] = Junk
    BY DEF Content
  <2>1. c \in Nat
    BY DEF Cells
  <2>2. CASE g.from - read <= c /\ c < g.from - read + n
    BY <1>1, <1>2, <1>6, <1>7, <2>1, <2>2
  <2>3. CASE ~(g.from - read <= c /\ c < g.from - read + n)
    <3>1. r.data[c] = s.data[c]
      BY <1>4, <1>6, <1>7, <2>3
    <3>2. Filled(r, read, c) => Filled(s, read, c)
      BY <1>1, <1>2, <1>3, <1>4, <1>5, <1>6, <2>1, <2>3 DEF Filled
    <3>3. QED
      BY <3>1, <3>2 DEF Good, Content
  <2>4. QED
    BY <2>2, <2>3
<1>11. Good(r, read, off)
  BY <1>6, <1>8, <1>9, <1>10 DEF Good
<1>12. QED
  BY <1>11 DEF r, t, q

LEMMA DataOutOfOrderLemma ==
  ASSUME NoWrap, NEW read \in Nat, NEW off, NEW s, Good(s, read, off),
         NEW g \in Segments, off < g.from, g.from < g.to, g.to <= read + MaxRx
  PROVE  Good(DataOutOfOrder(s, g, g.from - off), read, off)
<1> DEFINE n      == SegLen(g)
           diff   == g.from - off
           seqnum == Seq(g.from)
           left   == Diff(s.missed[1], s.next)
           right  == Diff(s.missed[2], s.next)
           p      == Prepend(s, g, left - diff)
           pre    == IF diff < left /\ left <= diff + n THEN p ELSE s
           first  == AppendFrom([s EXCEPT !.missed = <<seqnum, seqnum>>], g, 0, n)
           six    == AppendFrom(s, g, 0, n)
           eight  == AppendFrom(pre, g, right - diff, diff + n - right)
<1> USE TcpReasmAssumption
<1>1. DataOutOfOrder(s, g, diff) =
        IF ~Missed(s) THEN first
        ELSE IF seqnum = s.missed[2] THEN six
             ELSE IF diff <= right /\ right < diff + n THEN eight ELSE pre
  BY Zenon DEF DataOutOfOrder, first, six, eight, pre, p, n, seqnum, left, right
<1>2. CASE ~Missed(s)
  BY <1>1, <1>2, FirstRunLemma
<1>3. CASE Missed(s)
  <2>1. /\ off \in Nat /\ s.next = Isn + off /\ s \in SockType
        /\ s.missed[1] \in Nat /\ s.missed[2] \in Nat
        /\ Isn + off < s.missed[1] /\ s.missed[1] < s.missed[2]
    BY <1>3, GoodLemma
  <2>2. g.from \in Nat /\ g.to \in Nat /\ g.to <= StreamLen /\ n = g.to - g.from /\ n \in Nat
    BY SegmentLemma
  <2>3. left = s.missed[1] - Isn - off /\ right = s.missed[2] - Isn - off
    <3>1. s.missed[1] \in SeqNums /\ s.missed[2] \in SeqNums /\ s.next \in SeqNums
      BY <2>1 DEF SockType
    <3>2. left = s.missed[1] - s.next /\ right = s.missed[2] - s.next
      BY <2>1, <3>1, DiffLemma
    <3>3. QED
      BY <2>1, <3>2
  <2>4. seqnum = Isn + g.from
    <3>1. g.from \in 0 .. StreamLen + MaxRx + 1
      BY <2>2
    <3>2. QED
      BY <3>1, SeqLemma
  <2> HIDE DEF n, seqnum, left, right
  <2>5. Good(pre, read, off) /\ Missed(pre) /\ pre.missed[2] = s.missed[2]
    <3>1. CASE diff < left /\ left <= diff + n
      <4>1. left - diff \in Nat /\ left - diff = s.missed[1] - Isn - g.from /\ left - diff <= n
        BY <2>1, <2>2, <2>3, <3>1
      <4>2. Good(p, read, off) /\ Missed(p) /\ p.missed[2] = s.missed[2]
        BY <1>3, <4>1, PrependGoodLemma DEF n
      <4>3. QED
        BY <3>1, <4>2
    <3>2. CASE ~(diff < left /\ left <= diff + n)
      BY <1>3, <3>2
    <3>3. QED
      BY <3>1, <3>2
  <2> HIDE DEF p, pre
  <2>6. seqnum = s.missed[2] => Good(six, read, off)
    <3> SUFFICES ASSUME seqnum = s.missed[2] PROVE Good(six, read, off)
      OBVIOUS
    <3>1. g.from + 0 = s.missed[2] - Isn /\ 0 + n = SegLen(g)
      BY <2>2, <2>4 DEF n
    <3>2. QED
      BY <1>3, <2>2, <3>1, AppendGoodLemma
  <2>7. diff <= right /\ right < diff + n => Good(eight, read, off)
    <3> SUFFICES ASSUME diff <= right, right < diff + n PROVE Good(eight, read, off)
      OBVIOUS
    <3> DEFINE f == right - diff
               m == diff + n - right
    <3>1. f \in Nat /\ m \in Nat /\ g.from + f = pre.missed[2] - Isn
      BY <2>1, <2>2, <2>3, <2>5
    <3>2. f + m = SegLen(g)
      BY <2>1, <2>2, <2>3 DEF n
    <3> HIDE DEF f, m
    <3>3. Good(AppendFrom(pre, g, f, m), read, off)
      BY <2>5, <3>1, <3>2, AppendGoodLemma
    <3>4. QED
      BY <3>3 DEF f, m
  <2> HIDE DEF six, eight, first
  <2>8. QED
    BY <1>1, <1>3, <2>5, <2>6, <2>7
<1>4. QED
  BY <1>2, <1>3

LEMMA BaseLemma ==
  ASSUME IInv, ~got_fin
  PROVE  Sock = Base /\ Good(Sock, nread, Received)
<1>1. recv_next = Isn + Received
  BY TcpReasmAssumption DEF IInv, FinCount, Good, Pointers
<1>2. Sock = Base
  BY <1>1 DEF Base, Sock
<1>3. QED
  BY <1>2 DEF IInv

(* What the tests of tcp_process_data() say in offsets of the stream.       *)
LEMMA LdiffLemma ==
  ASSUME NoWrap, IInv, ~got_fin, NEW g \in Segments
  PROVE  /\ Ldiff(g) = Received - g.from
         /\ ~Outside(g) => Received <= g.to /\ g.to <= nread + MaxRx
         /\ Outside(g) /\ Received <= g.to => nread + MaxRx < g.to
<1> USE TcpReasmAssumption
<1> DEFINE s == Sock
<1>1. /\ s \in SockType /\ Received \in Nat /\ Received = nread + rx_datalen
      /\ Received <= StreamLen /\ recv_next = Isn + Received
      /\ rx_datalen \in Nat /\ rx_datalen <= MaxRx
  <2>1. Good(s, nread, Received) /\ nread \in Nat
    BY BaseLemma DEF IInv
  <2>2. s.len = rx_datalen /\ s.next = recv_next
    BY DEF Sock
  <2> HIDE DEF s
  <2>3. QED
    BY <2>1, <2>2, GoodLemma
<1>2. /\ g.from \in Nat /\ g.to \in Nat /\ g.from <= g.to /\ g.to <= StreamLen
      /\ SegLen(g) = g.to - g.from
  BY SegmentLemma
<1>3. Ldiff(g) = Received - g.from
  <2>1. recv_next \in SeqNums
    BY <1>1 DEF SockType, Sock
  <2>2. Seq(g.from) = Isn + g.from /\ Seq(g.from) \in SeqNums
    <3>1. g.from \in 0 .. StreamLen + MaxRx + 1
      BY <1>2
    <3>2. QED
      BY <3>1, SeqLemma
  <2>3. recv_next - Seq(g.from) <= StreamLen + MaxRx /\ Seq(g.from) - recv_next <= StreamLen + MaxRx
    BY <1>1, <1>2, <2>2
  <2>4. Signed(Diff(recv_next, Seq(g.from))) = recv_next - Seq(g.from)
    BY <2>1, <2>2, <2>3, SignedLemma
  <2>5. QED
    BY <1>1, <1>2, <2>2, <2>4 DEF Ldiff
<1>4. SegLen(g) - Ldiff(g) = g.to - Received
  BY <1>1, <1>2, <1>3
<1> DEFINE d == g.to - Received
<1>5. d % SeqMod = IF d >= 0 THEN d ELSE d + SeqMod
  <2>1. d \in Int /\ -SeqMod <= d /\ d < SeqMod /\ SeqMod > 0 /\ SeqMod \in Nat
    BY <1>1, <1>2
  <2> HIDE DEF d
  <2>2. QED
    BY <2>1, ModLemma
<1>6. Outside(g) <=> (d % SeqMod > MaxRx - rx_datalen \/ Received - g.from > SegLen(g))
  BY <1>3, <1>4, Zenon DEF Outside, d
<1>7. CASE d >= 0
  <2>1. d = g.to - Received /\ nread \in Nat
    BY DEF IInv
  <2> HIDE DEF d
  <2>2. Outside(g) <=> d > MaxRx - rx_datalen
    BY <1>1, <1>2, <1>5, <1>6, <1>7, <2>1
  <2>3. d > MaxRx - rx_datalen <=> g.to > nread + MaxRx
    BY <1>1, <1>2, <2>1
  <2>4. QED
    BY <1>1, <1>2, <1>3, <1>7, <2>1, <2>2, <2>3
<1>8. CASE d < 0
  <2>1. d + SeqMod > MaxRx - rx_datalen
    BY <1>1, <1>2
  <2>2. Outside(g)
    BY <1>1, <1>2, <1>5, <1>6, <1>8, <2>1
  <2>3. QED
    BY <1>1, <1>2, <1>3, <1>8, <2>2
<1>9. QED
  BY <1>1, <1>2, <1>7, <1>8

LEMMA ProcessDataLemma ==
  ASSUME NoWrap, IInv, ~got_fin, NEW g \in Segments
  PROVE  \E new \in Nat :
           /\ Received <= new /\ Good(ProcessData(g), nread, new)
           /\ ~OutOfOrder(g) /\ g.from <= new /\ g.to <= nread + MaxRx => g.to <= new
<1> USE TcpReasmAssumption
<1>1. Good(Sock, nread, Received) /\ nread \in Nat
  BY BaseLemma DEF IInv
<1>2. Received \in Nat
  BY <1>1, GoodLemma
<1>3. /\ g.from \in Nat /\ g.to \in Nat /\ g.from <= g.to /\ g.to <= StreamLen
      /\ SegLen(g) = g.to - g.from
  BY SegmentLemma
<1>4. Ldiff(g) = Received - g.from
  BY LdiffLemma
<1>5. CASE SegLen(g) = 0 \/ Outside(g)
  <2>1. ProcessData(g) = Sock
    BY <1>5 DEF ProcessData
  <2>2. g.from <= Received /\ g.to <= nread + MaxRx => g.to <= Received
    <3>1. Outside(g) /\ Received <= g.to => nread + MaxRx < g.to
      BY LdiffLemma
    <3>2. MaxRx \in Nat
      OBVIOUS
    <3>3. QED
      BY <1>1, <1>2, <1>3, <1>5, <3>1, <3>2
  <2>3. QED
    BY <1>1, <1>2, <2>1, <2>2
<1>6. CASE SegLen(g) # 0 /\ ~Outside(g) /\ Ldiff(g) >= 0
  <2>1. Received <= g.to /\ g.to <= nread + MaxRx
    BY <1>6, LdiffLemma
  <2>2. ProcessData(g) = DataInOrder(Sock, g, Received - g.from)
    BY <1>4, <1>6 DEF ProcessData
  <2>3. Received - g.from \in Nat /\ g.from + (Received - g.from) = Received
    BY <1>2, <1>3, <1>4, <1>6
  <2>4. \E new \in Nat : Received <= new /\ g.to <= new
          /\ Good(DataInOrder(Sock, g, Received - g.from), nread, new)
    BY <1>1, <1>2, <2>1, <2>3, DataInOrderLemma
  <2>5. QED
    BY <2>2, <2>4
<1>7. CASE SegLen(g) # 0 /\ ~Outside(g) /\ ~(Ldiff(g) >= 0)
  <2>1. g.to <= nread + MaxRx
    BY <1>7, LdiffLemma
  <2>2. Received < g.from /\ g.from < g.to /\ -Ldiff(g) = g.from - Received
    BY <1>2, <1>3, <1>4, <1>7
  <2>3. ProcessData(g) = DataOutOfOrder(Sock, g, g.from - Received)
    BY <1>7, <2>2 DEF ProcessData
  <2>4. Good(DataOutOfOrder(Sock, g, g.from - Received), nread, Received)
    BY <1>1, <2>1, <2>2, DataOutOfOrderLemma
  <2>5. OutOfOrder(g)
    BY <1>2, <1>3, <1>4, <1>7, <2>2 DEF OutOfOrder
  <2>6. QED
    BY <1>2, <2>3, <2>4, <2>5
<1>8. QED
  BY <1>5, <1>6, <1>7
-----------------------------------------------------------------------------
(* The actions. *)
Forward == recv_next' >= recv_next /\ edge' >= edge

LEMMA InitIInv == ASSUME NoWrap, Init PROVE IInv
<1> USE TcpReasmAssumption
<1>1. Received = 0 /\ FinCount = 0
  BY DEF Init, Received, FinCount
<1>2. Base = [next |-> Isn, missed |-> <<0, 0>>, data |-> [c \in Cells |-> Junk], len |-> 0]
  BY <1>1 DEF Init, Base, Sock
<1>3. Base \in SockType
  <2>1. Isn \in SeqNums /\ <<0, 0>> \in SeqNums \X SeqNums
    BY DEF SeqNums
  <2>2. [c \in Cells |-> Junk] \in [Cells -> Bytes \cup {Junk}]
    OBVIOUS
  <2>3. QED
    BY <1>2, <2>1, <2>2 DEF SockType
<1>4. Pointers(Base, 0, 0) /\ Run(Base, 0, 0)
  BY <1>2 DEF Pointers, Run
<1>5. Content(Base, 0)
  BY <1>2 DEF Content, Filled, Cells
<1>6. Good(Base, nread, Received)
  BY <1>1, <1>3, <1>4, <1>5 DEF Init, Good
<1>7. Offer /\ recv_next = Isn + Received + FinCount
  BY <1>1 DEF Init, Offer
<1>8. QED
  BY <1>6, <1>7 DEF Init, IInv

(* An acknowledgement offers what is free, and takes nothing back. *)
LEMMA AdvertiseLemma ==
  ASSUME IInv, NEW read \in Nat, nread' = read, nread <= read, NEW len \in 0 .. MaxRx,
         Advertise(read, len) \/ UNCHANGED <<adv_win, edge>>
  PROVE  Offer' /\ edge' >= edge
<1>1. /\ nread \in Nat /\ adv_win \in 0 .. MaxRx /\ edge \in Nat /\ edge <= nread + MaxRx
      /\ MaxRx \in Nat
  BY TcpReasmAssumption DEF IInv, Offer
<1>2. edge <= read + MaxRx
  BY <1>1
<1>3. CASE Advertise(read, len)
  <2>1. adv_win' = MaxRx - len /\ edge' = read + MaxRx
    BY <1>1, <1>3 DEF Advertise
  <2>2. adv_win' \in 0 .. MaxRx /\ edge' \in Nat /\ edge' <= read + MaxRx /\ edge' >= edge
    BY <1>1, <1>2, <2>1
  <2>3. QED
    BY <2>2 DEF Offer
<1>4. CASE UNCHANGED <<adv_win, edge>>
  <2>1. adv_win' = adv_win /\ edge' = edge
    BY <1>4
  <2>2. edge >= edge
    BY <1>1
  <2>3. QED
    BY <1>1, <1>2, <2>1, <2>2 DEF Offer
<1>5. QED
  BY <1>3, <1>4

LEMMA ReceiveLemma ==
  ASSUME NoWrap, IInv, ~got_fin, nread' = nread, got_fin' \in BOOLEAN,
         NEW new \in Nat, NEW s, Good(s, nread, new), Received <= new,
         missed_seq' = s.missed, rx_data' = s.data, rx_datalen' = s.len,
         recv_next' = s.next + FinCount',
         got_fin' => new = StreamLen /\ ~Missed(s),
         Advertise(nread, rx_datalen') \/ UNCHANGED <<adv_win, edge>>
  PROVE  IInv' /\ Forward
<1> USE TcpReasmAssumption
<1>1. /\ s \in SockType /\ new = nread + s.len /\ new <= StreamLen
      /\ s.next = Isn + new /\ s.len \in Nat /\ s.len <= MaxRx
      /\ ~Missed(s) => s.missed = <<0, 0>>
  BY GoodLemma DEF IInv
<1>2. Received' = new
  BY <1>1 DEF Received
<1>3. Base' = s
  <2>1. s = [next |-> s.next, missed |-> s.missed, data |-> s.data, len |-> s.len]
    BY <1>1 DEF SockType
  <2>2. Base' = [next |-> Isn + Received', missed |-> missed_seq', data |-> rx_data',
                 len |-> rx_datalen']
    BY DEF Base, Sock
  <2>3. QED
    BY <1>1, <1>2, <2>1, <2>2
<1>4. Offer' /\ edge' >= edge
  <2>1. nread \in Nat /\ nread <= nread /\ s.len \in 0 .. MaxRx
    BY <1>1 DEF IInv
  <2>2. Advertise(nread, s.len) \/ UNCHANGED <<adv_win, edge>>
    OBVIOUS
  <2>3. QED
    BY <2>1, <2>2, AdvertiseLemma
<1>5. recv_next' >= recv_next
  <2>1. Good(Sock, nread, Received) /\ nread \in Nat
    BY BaseLemma DEF IInv
  <2>2. Received \in Nat /\ Sock.next = Isn + Received
    BY <2>1, GoodLemma
  <2>3. recv_next = Isn + Received
    BY <2>2 DEF Sock
  <2>4. FinCount' \in {0, 1}
    BY DEF FinCount
  <2>5. QED
    BY <1>1, <2>2, <2>3, <2>4
<1>6. QED
  BY <1>1, <1>2, <1>3, <1>4, <1>5 DEF IInv, Forward

LEMMA ArriveDataIInv ==
  ASSUME NoWrap, IInv, NEW g \in Segments, ArriveData(g)
  PROVE  IInv' /\ Forward
<1>1. ~got_fin /\ ~got_fin' /\ nread' = nread /\ got_fin' = got_fin
  BY DEF ArriveData
<1>2. PICK new \in Nat : Received <= new /\ Good(ProcessData(g), nread, new)
  BY <1>1, ProcessDataLemma
<1>3. recv_next' = ProcessData(g).next + FinCount'
  <2>1. ProcessData(g).next = Isn + new
    BY <1>2, GoodLemma DEF IInv
  <2>2. QED
    BY <1>1, <2>1, TcpReasmAssumption DEF ArriveData, Receive, FinCount
<1>4. QED
  BY <1>1, <1>2, <1>3, ReceiveLemma DEF ArriveData, Receive, IInv

LEMMA ArriveFinIInv ==
  ASSUME NoWrap, IInv, NEW g \in Segments, Legal(g), ArriveFin(g)
  PROVE  IInv' /\ Forward
<1> USE TcpReasmAssumption
<1> DEFINE s == ProcessData(g)
           t == [s EXCEPT !.next = (@ + 1) % SeqMod]
<1>1. ~got_fin /\ nread' = nread /\ g.fin /\ ~OutOfOrder(g)
      /\ (Advertise(nread, rx_datalen') \/ UNCHANGED <<adv_win, edge>>)
  BY DEF ArriveFin
<1>2. PICK new \in Nat :
        /\ Received <= new /\ Good(s, nread, new)
        /\ g.from <= new /\ g.to <= nread + MaxRx => g.to <= new
  BY <1>1, ProcessDataLemma
<1>3. /\ s \in SockType /\ new <= StreamLen /\ s.next = Isn + new
  BY <1>2, GoodLemma DEF IInv
<1>4. CASE FinInWindow(s.next, g) /\ ~Missed(s)
  <2>1. g.from <= new
    <3>1. g.from \in Nat /\ g.from <= StreamLen
      BY SegmentLemma
    <3>2. Seq(g.from) = Isn + g.from /\ Seq(g.from) \in SeqNums
      <4>1. g.from \in 0 .. StreamLen + MaxRx + 1
        BY <3>1
      <4>2. QED
        BY <4>1, SeqLemma
    <3>3. s.next \in SeqNums
      BY <1>3 DEF SockType
    <3>4. s.next - Seq(g.from) <= StreamLen + MaxRx /\ Seq(g.from) - s.next <= StreamLen + MaxRx
      BY <1>3, <3>1, <3>2
    <3>5. Signed(Diff(s.next, Seq(g.from))) = s.next - Seq(g.from)
      BY <3>2, <3>3, <3>4, SignedLemma
    <3>6. s.next - Seq(g.from) >= 0
      BY <1>4, <3>5 DEF FinInWindow
    <3>7. QED
      BY <1>3, <3>1, <3>2, <3>6
  <2>2. g.to = StreamLen /\ g.to <= nread + MaxRx
    <3>1. g.to = StreamLen /\ g.to \in Nat
      BY <1>1, SegmentLemma
    <3>2. g.to <= edge /\ edge \in Nat /\ edge <= nread + MaxRx /\ nread \in Nat
      BY <1>1 DEF Legal, IInv, Offer
    <3>3. QED
      BY <3>1, <3>2
  <2>3. new = StreamLen
    BY <1>2, <1>3, <2>1, <2>2
  <2>4. Receive(t) /\ got_fin'
    BY <1>4 DEF ArriveFin
  <2>5. t.next = s.next + 1 /\ t.missed = s.missed /\ t.data = s.data /\ t.len = s.len
    <3>1. (s.next + 1) % SeqMod = s.next + 1
      <4>1. s.next + 1 \in Int /\ -SeqMod <= s.next + 1 /\ s.next + 1 < SeqMod
            /\ s.next + 1 >= 0 /\ SeqMod > 0 /\ SeqMod \in Nat
        BY <1>3 DEF NoWrap
      <4>2. QED
        BY <4>1, ModLemma
    <3> HIDE DEF s
    <3>2. QED
      BY <1>3, <3>1 DEF SockType
  <2> HIDE DEF s, t
  <2>6. recv_next' = s.next + FinCount' /\ missed_seq' = s.missed /\ rx_data' = s.data
        /\ rx_datalen' = s.len
    BY <2>4, <2>5 DEF Receive, FinCount
  <2>7. got_fin' \in BOOLEAN
    BY <1>4 DEF ArriveFin, s
  <2>8. QED
    BY <1>1, <1>2, <1>4, <2>3, <2>6, <2>7, ReceiveLemma
<1>5. CASE ~(FinInWindow(s.next, g) /\ ~Missed(s))
  <2>1. Receive(s) /\ got_fin' = got_fin
    BY <1>5, Zenon DEF ArriveFin
  <2> HIDE DEF s
  <2>2. recv_next' = s.next + FinCount' /\ missed_seq' = s.missed /\ rx_data' = s.data
        /\ rx_datalen' = s.len
    BY <1>1, <1>3, <2>1 DEF Receive, FinCount
  <2>3. got_fin' \in BOOLEAN /\ ~got_fin'
    BY <1>1, <2>1 DEF IInv
  <2>4. QED
    BY <1>1, <1>2, <2>2, <2>3, ReceiveLemma
<1>6. QED
  BY <1>4, <1>5

LEMMA SendAckIInv ==
  ASSUME NoWrap, IInv, SendAck
  PROVE  IInv' /\ Forward
<1>1. UNCHANGED <<recv_next, missed_seq, rx_data, rx_datalen, got_fin, nread>>
      /\ Advertise(nread, rx_datalen)
  BY DEF SendAck
<1>2. Base' = Base /\ Received' = Received /\ FinCount' = FinCount
  BY <1>1 DEF Base, Sock, Received, FinCount
<1>3. Good(Base, nread, Received) /\ nread \in Nat /\ Base.len = rx_datalen
  BY DEF IInv, Base, Sock
<1>4. rx_datalen \in 0 .. MaxRx /\ Received \in Nat
  BY <1>3, GoodLemma, TcpReasmAssumption
<1>5. Offer' /\ edge' >= edge
  BY <1>1, <1>3, <1>4, AdvertiseLemma
<1>6. recv_next' >= recv_next
  BY <1>1, <1>4, TcpReasmAssumption DEF IInv, FinCount
<1>7. QED
  BY <1>1, <1>2, <1>5, <1>6 DEF IInv, Forward

(* tcp_read() moves the in-order data that is left, and the gap and the run *)
(* behind it.                                                              *)
LEMMA ReadIInv ==
  ASSUME NoWrap, IInv, Read
  PROVE  IInv' /\ Forward
<1> USE TcpReasmAssumption
<1> DEFINE width == IF Missed(Sock) THEN Diff(missed_seq[2], recv_next) ELSE 0
           b == missed_seq[2] - Isn
<1>1. PICK n \in 1 .. rx_datalen :
        /\ rx_data' = [c \in Cells |-> IF c < rx_datalen - n + width THEN rx_data[c + n]
                                                                     ELSE rx_data[c]]
        /\ rx_datalen' = rx_datalen - n
        /\ nread' = nread + n
  BY DEF Read
<1>2. UNCHANGED <<recv_next, missed_seq, got_fin>>
  BY DEF Read
<1>3. Good(Base, nread, Received) /\ nread \in Nat
  BY DEF IInv
<1>4. Base.len = rx_datalen /\ Base.missed = missed_seq /\ Base.data = rx_data
      /\ (Missed(Base) <=> Missed(Sock)) /\ Base.next = Isn + Received
  BY DEF Base, Sock, Missed
<1>5. /\ Received \in Nat /\ Received = nread + rx_datalen /\ Received <= StreamLen
      /\ rx_datalen \in Nat /\ rx_datalen <= MaxRx
      /\ missed_seq[1] \in Nat /\ missed_seq[2] \in Nat
      /\ Missed(Sock) =>
              /\ Isn + Received < missed_seq[1] /\ missed_seq[1] < missed_seq[2]
              /\ missed_seq[2] <= Isn + StreamLen /\ missed_seq[2] <= Isn + nread + MaxRx
      /\ ~Missed(Sock) => missed_seq = <<0, 0>>
  <2> HIDE DEF Base
  <2>1. /\ Received \in Nat /\ Received = nread + Base.len /\ Received <= StreamLen
        /\ Base.len \in Nat /\ Base.len <= MaxRx
        /\ Base.missed[1] \in Nat /\ Base.missed[2] \in Nat
        /\ Missed(Base) =>
              /\ Isn + Received < Base.missed[1] /\ Base.missed[1] < Base.missed[2]
              /\ Base.missed[2] <= Isn + StreamLen /\ Base.missed[2] <= Isn + nread + MaxRx
        /\ ~Missed(Base) => Base.missed = <<0, 0>>
    BY <1>3, GoodLemma
  <2>2. QED
    BY <1>4, <2>1, Zenon
<1>6. /\ missed_seq \in SeqNums \X SeqNums /\ rx_data \in [Cells -> Bytes \cup {Junk}]
      /\ Base.next \in SeqNums
  BY <1>3, <1>4 DEF Good, SockType
<1>7. width = IF Missed(Sock) THEN b - Received ELSE 0
  <2>1. CASE Missed(Sock)
    <3>1. ~got_fin
      BY <2>1 DEF IInv, Missed, Sock
    <3>2. recv_next = Base.next
      BY <3>1, BaseLemma DEF Sock
    <3>3. missed_seq[2] \in SeqNums /\ recv_next \in SeqNums
      BY <1>6, <3>2
    <3>4. missed_seq[2] >= recv_next
      BY <1>4, <1>5, <2>1, <3>2
    <3>5. Diff(missed_seq[2], recv_next) = missed_seq[2] - recv_next
      BY <3>3, <3>4, DiffLemma
    <3>6. QED
      BY <1>4, <1>5, <2>1, <3>2, <3>5
  <2>2. QED
    BY <2>1
<1> DEFINE read == nread + n
           len  == rx_datalen - n
           move == len + width
           r    == [Base EXCEPT !.data = rx_data', !.len = len]
<1>8. /\ n \in Nat /\ n > 0 /\ n <= rx_datalen /\ read \in Nat /\ len \in Nat
      /\ Received = read + len
  BY <1>3, <1>5
<1>9. move \in Nat /\ move + n <= MaxRx
      /\ (Missed(Sock) => move = b - read) /\ (~Missed(Sock) => move = len)
  BY <1>3, <1>5, <1>7, <1>8
<1> HIDE DEF width
<1>10. \A c \in Cells : rx_data'[c] = IF c < move THEN rx_data[c + n] ELSE rx_data[c]
  BY <1>1
<1>11. rx_data' \in [Cells -> Bytes \cup {Junk}]
  <2>1. \A c \in Cells : c < move => c + n \in Cells
    BY <1>8, <1>9 DEF Cells
  <2>2. rx_data' = [c \in Cells |-> IF c < move THEN rx_data[c + n] ELSE rx_data[c]]
    BY <1>1
  <2> HIDE DEF move
  <2>3. QED
    BY <1>6, <2>1, <2>2
<1>12. /\ r.data = rx_data' /\ r.len = len /\ r.missed = missed_seq
       /\ r.next = Isn + Received /\ r \in SockType
  <2>1. Base \in SockType
    BY <1>3 DEF Good
  <2> HIDE DEF len, Base
  <2>2. QED
    BY <1>4, <1>8, <1>11, <2>1 DEF SockType
<1>13. Received' = Received /\ FinCount' = FinCount
  <2>1. Received' = read + len
    BY <1>1 DEF Received
  <2>2. QED
    BY <1>2, <1>8, <2>1 DEF FinCount
<1>14. Base' = r
  <2>1. Base' = [next |-> Isn + Received', missed |-> missed_seq', data |-> rx_data',
                 len |-> rx_datalen']
    BY DEF Base, Sock
  <2> HIDE DEF r
  <2>2. r = [next |-> r.next, missed |-> r.missed, data |-> r.data, len |-> r.len]
    BY <1>12 DEF SockType
  <2>3. QED
    BY <1>1, <1>2, <1>12, <1>13, <2>1, <2>2
<1> HIDE DEF r, move, len, read
<1>15. Pointers(r, read, Received)
  BY <1>5, <1>8, <1>12 DEF Pointers, len
<1>16. Run(r, read, Received)
  <2>1. read >= nread
    BY <1>3, <1>8 DEF read
  <2>2. CASE Missed(Sock)
    BY <1>3, <1>5, <1>8, <1>12, <2>1, <2>2 DEF Run
  <2>3. CASE ~Missed(Sock)
    BY <1>5, <1>12, <2>3 DEF Run
  <2>4. QED
    BY <2>2, <2>3
<1>17. Content(r, read)
  <2> SUFFICES ASSUME NEW c \in Cells
               PROVE  /\ Filled(r, read, c) => r.data[c] = read + c + 1
                      /\ c >= MaxRx => r.data[c] = Junk
    BY DEF Content
  <2>1. c \in Nat
    BY DEF Cells
  <2>2. ASSUME Filled(r, read, c) PROVE r.data[c] = read + c + 1
    <3>1. c < move
      BY <1>3, <1>5, <1>7, <1>8, <1>9, <1>12, <2>1, <2>2 DEF Filled, Missed, Sock
    <3>2. c + n \in Cells
      BY <1>8, <1>9, <2>1, <3>1 DEF Cells
    <3>3. Filled(Base, nread, c + n)
      <4>1. c < len => c + n < rx_datalen
        BY <1>5, <1>8, <2>1 DEF len
      <4>2. Isn + read + c = Isn + nread + (c + n)
        BY <1>3, <1>8, <2>1 DEF read
      <4>3. QED
        BY <1>4, <1>12, <2>2, <4>1, <4>2 DEF Filled
    <3>4. rx_data[c + n] = nread + (c + n) + 1
      BY <1>3, <1>4, <3>2, <3>3 DEF Good, Content
    <3>5. QED
      BY <1>3, <1>8, <1>10, <1>12, <2>1, <3>1, <3>4 DEF read
  <2>3. ASSUME c >= MaxRx PROVE r.data[c] = Junk
    <3>1. ~(c < move)
      BY <1>8, <1>9, <2>1, <2>3
    <3>2. rx_data[c] = Junk
      BY <1>3, <1>4, <2>3 DEF Good, Content
    <3>3. QED
      BY <1>10, <1>12, <3>1, <3>2
  <2>4. QED
    BY <2>2, <2>3
<1>18. Offer' /\ edge' >= edge
  <2>1. nread' = read /\ nread <= read /\ rx_datalen' = len
    BY <1>1, <1>3, <1>8 DEF read, len
  <2>2. len \in 0 .. MaxRx
    BY <1>5, <1>8 DEF len
  <2>3. Advertise(read, len) \/ UNCHANGED <<adv_win, edge>>
    BY <2>1 DEF Read
  <2>4. QED
    BY <1>8, <2>1, <2>2, <2>3, AdvertiseLemma
<1>19. nread' = read /\ Good(r, read, Received)
  BY <1>1, <1>12, <1>15, <1>16, <1>17 DEF Good, read
<1>20. recv_next' = recv_next /\ recv_next \in Int
  BY <1>2, <1>5 DEF IInv, FinCount
<1>21. recv_next' >= recv_next
  BY <1>20
<1>22. QED
  BY <1>2, <1>8, <1>13, <1>14, <1>18, <1>19, <1>21 DEF IInv, Forward

LEMMA NextIInv ==
  ASSUME NoWrap, IInv, [Next]_vars
  PROVE  IInv' /\ (Forward \/ UNCHANGED vars)
<1>1. ASSUME NEW g \in Segments, Legal(g), ArriveData(g) \/ ArriveFin(g)
      PROVE  IInv' /\ Forward
  BY <1>1, ArriveDataIInv, ArriveFinIInv
<1>2. CASE Read \/ SendAck
  BY <1>2, ReadIInv, SendAckIInv
<1>3. CASE UNCHANGED vars
  BY <1>3 DEF vars, IInv, Base, Sock, Received, FinCount, Offer
<1>4. QED
  BY <1>1, <1>2, <1>3 DEF Next, Arrive

LEMMA Invariance == ASSUME NoWrap PROVE Spec => []IInv
<1>1. Init => IInv
  BY InitIInv
<1>2. IInv /\ [Next]_vars => IInv'
  BY NextIInv
<1>3. QED
  BY <1>1, <1>2, PTL DEF Spec

(* What the invariant says of the variables. *)
LEMMA IInvLemma ==
  ASSUME NoWrap, IInv
  PROVE  /\ Received \in Nat /\ Received = nread + rx_datalen /\ Received <= StreamLen
         /\ rx_datalen \in Nat /\ rx_datalen <= MaxRx
         /\ missed_seq \in SeqNums \X SeqNums /\ rx_data \in [Cells -> Bytes \cup {Junk}]
         /\ FinCount \in {0, 1} /\ recv_next = Isn + Received + FinCount
         /\ recv_next \in SeqNums /\ recv_next = Seq(Received + FinCount)
         /\ \A c \in Cells : /\ c < rx_datalen => rx_data[c] = nread + c + 1
                             /\ c >= MaxRx => rx_data[c] = Junk
<1> USE TcpReasmAssumption
<1>1. Good(Base, nread, Received) /\ nread \in Nat
  BY DEF IInv
<1>2. Base.len = rx_datalen /\ Base.missed = missed_seq /\ Base.data = rx_data
  BY DEF Base, Sock
<1> HIDE DEF Base
<1>3. /\ Received \in Nat /\ Received = nread + rx_datalen /\ Received <= StreamLen
      /\ rx_datalen \in Nat /\ rx_datalen <= MaxRx
  BY <1>1, <1>2, GoodLemma
<1>4. missed_seq \in SeqNums \X SeqNums /\ rx_data \in [Cells -> Bytes \cup {Junk}]
  BY <1>1, <1>2 DEF Good, SockType
<1>5. FinCount \in {0, 1} /\ recv_next = Isn + Received + FinCount
  BY DEF IInv, FinCount
<1>6. recv_next \in SeqNums /\ recv_next = Seq(Received + FinCount)
  <2>1. Received + FinCount \in 0 .. StreamLen + MaxRx + 1
    BY <1>3, <1>5
  <2>2. QED
    BY <1>3, <1>5, <2>1, SeqLemma
<1>7. \A c \in Cells : /\ c < rx_datalen => rx_data[c] = nread + c + 1
                       /\ c >= MaxRx => rx_data[c] = Junk
  BY <1>1, <1>2 DEF Good, Content, Filled
<1>8. QED
  BY <1>3, <1>4, <1>5, <1>6, <1>7
-----------------------------------------------------------------------------
(* The fields of the socket have the values of their types; what is stored  *)
(* in the buffer is a byte of the stream.                                   *)
THEOREM ReasmTypeCorrect == ASSUME NoWrap PROVE Spec => []TypeOK
<1>1. IInv => TypeOK
  BY IInvLemma DEF IInv, Offer, TypeOK
<1>2. QED
  BY <1>1, Invariance, PTL

(* rx_datalen and recv_next stay together, through every overlap, and never *)
(* pass the end of the stream.                                              *)
THEOREM PointersStayTogether == ASSUME NoWrap PROVE Spec => []PointersAgree
<1>1. IInv => PointersAgree
  BY IInvLemma DEF PointersAgree
<1>2. QED
  BY <1>1, Invariance, PTL

(* However the stream is cut, reordered and repeated, the application reads *)
(* its bytes in order, none twice and none left out.                        *)
THEOREM StreamIsRead == ASSUME NoWrap PROVE Spec => []InOrderDataIsStream
<1>1. IInv => InOrderDataIsStream
  <2> SUFFICES ASSUME IInv, NEW k \in 0 .. rx_datalen - 1
               PROVE  rx_data[k] = nread + k + 1
    BY DEF InOrderDataIsStream
  <2>1. rx_datalen \in Nat /\ rx_datalen <= MaxRx
    BY IInvLemma
  <2>2. k \in Cells /\ k < rx_datalen
    BY <2>1, TcpReasmAssumption DEF Cells
  <2>3. QED
    BY <2>2, IInvLemma
<1>2. QED
  BY <1>1, Invariance, PTL

(* tcp_process_data() never writes behind the receive buffer, in order or   *)
(* out of order.                                                           *)
THEOREM BufferNotOverrun == ASSUME NoWrap PROVE Spec => []NoOverrun
<1>1. IInv => NoOverrun
  BY IInvLemma DEF NoOverrun
<1>2. QED
  BY <1>1, Invariance, PTL

(* tcp_estab_state() takes a FIN only when it has all the data before it.   *)
THEOREM EofIsAtTheEnd == ASSUME NoWrap PROVE Spec => []EofAfterAllData
<1>1. IInv => EofAfterAllData
  BY DEF IInv, EofAfterAllData
<1>2. QED
  BY <1>1, Invariance, PTL

(* An acknowledgement is never withdrawn, nor a window that was offered.    *)
THEOREM NothingTakenBack == ASSUME NoWrap PROVE Spec => NeverTakenBack
<1> DEFINE Bounds == /\ recv_next \in SeqNums
                     /\ recv_next <= Isn + StreamLen + 1
<1>1. IInv => Bounds
  BY IInvLemma, TcpReasmAssumption
<1>2. IInv /\ Bounds /\ Bounds' /\ [Next]_vars
        => [Signed(Diff(recv_next', recv_next)) >= 0 /\ edge' >= edge]_vars
  <2> SUFFICES ASSUME IInv, [Next]_vars, ~UNCHANGED vars, Bounds, Bounds'
               PROVE  Signed(Diff(recv_next', recv_next)) >= 0 /\ edge' >= edge
    OBVIOUS
  <2>1. Forward
    BY NextIInv
  <2>2. ASSUME NEW x \in SeqNums, NEW y \in SeqNums, y <= x, x <= Isn + StreamLen + 1, Isn <= y
        PROVE  Signed(Diff(x, y)) >= 0
    <3>1. x \in Int /\ y \in Int
      BY TcpReasmAssumption DEF SeqNums
    <3>2. x - y <= StreamLen + MaxRx /\ y - x <= StreamLen + MaxRx
      BY <3>1, <2>2, TcpReasmAssumption
    <3>3. Signed(Diff(x, y)) = x - y
      BY <3>2, SignedLemma
    <3>4. QED
      BY <3>1, <3>3, <2>2
  <2>3. Isn <= recv_next
    BY IInvLemma, TcpReasmAssumption
  <2>4. QED
    BY <2>1, <2>2, <2>3 DEF Forward
<1>3. QED
  BY <1>1, <1>2, Invariance, PTL DEF Spec, NeverTakenBack
=============================================================================

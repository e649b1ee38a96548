---------------------------- MODULE AvailProofs -----------------------------
(***************************************************************************)
(* Proofs about the memory that setup hands to the VM, for any memory map  *)
(* in order, any holes and any size of phys_avail: it is the unused RAM,   *)
(* page by page, and each page is counted once.  The invariant says which  *)
(* pages have been looked at, that the segments lie apart and in order,    *)
(* and that the counters are the sizes of the sets of pages behind them.   *)
(***************************************************************************)
EXTENDS PhysAvail, FiniteSetTheorems, TLAPS

(* The pages of the first k segments of s.                                 *)
Upto(s, k) == UNION {s[i].lo .. (s[i].hi - 1) : i \in 1 .. k}
Apart(s) == \A i, j \in 1 .. Len(s) : i < j => s[i].hi < s[j].lo

AvailTypes ==
    /\ pc \in {"scan", "trim", "count", "done", "panic"}
    /\ physmap \in Seq(Ranges) /\ holes \in SUBSET Ranges /\ endPage \in Nat
    /\ Len(physmap) > 0 /\ \A i \in 1 .. Len(physmap) : physmap[i].lo <= physmap[i].hi
    /\ \A i, j \in 1 .. Len(physmap) : i < j => physmap[i].hi <= physmap[j].lo
    /\ seg \in Nat \ {0} /\ pa \in Nat /\ physmem \in Nat
    /\ phys_avail \in Seq(Ranges) /\ Len(phys_avail) \in 1 .. Cap
    /\ \A i \in 1 .. Len(phys_avail) : phys_avail[i].lo <= phys_avail[i].hi
    /\ Apart(phys_avail)
    /\ page_count = <<page_count[1], page_count[2]>>

(* The pages looked at so far.                                             *)
Seen ==
    pc = "scan" =>
    /\ seg <= Len(physmap) /\ pa \in physmap[seg].lo .. physmap[seg].hi
    /\ Last(phys_avail).hi <= pa
    /\ Len(phys_avail) < Cap => Pages(phys_avail) = {p \in Available : p < endPage /\ p < pa}
All ==
    /\ pc = "trim" /\ Len(phys_avail) < Cap =>
          Pages(phys_avail) = {p \in Available : p < endPage}
    /\ pc \in {"count", "done"} /\ Len(phys_avail) < Cap =>
          Pages(phys_avail) = {p \in Available : p < endPage - MsgBuf}

(* The pages counted so far.                                               *)
System(S) == {p \in S : ~Game(p)}
Games(S) == {p \in S : Game(p)}
Sums ==
    /\ IsFiniteSet(Pages(phys_avail))
    /\ pc \in {"scan", "trim"} => physmem = Cardinality(Pages(phys_avail))
    /\ pc \in {"scan", "trim"} => page_count = <<0, 0>>
    /\ pc \in {"count", "done"} =>
          /\ physmem = Cardinality(Pages(phys_avail)) + MsgBuf
          /\ seg \in 1 .. (Len(phys_avail) + 1)
          /\ page_count[1] = Cardinality(System(Upto(phys_avail, seg - 1)))
          /\ page_count[2] = Cardinality(Games(Upto(phys_avail, seg - 1)))
    /\ pc = "done" => seg = Len(phys_avail) + 1

AvailInv == AvailTypes /\ Seen /\ All /\ Sums

-----------------------------------------------------------------------------
(* The number of pages of a range, and of two sets of pages.               *)
LEMMA RangeSize ==
    ASSUME NEW a \in Int, NEW b \in Int
    PROVE  IsFiniteSet(a .. (b - 1)) /\ (a <= b => Cardinality(a .. (b - 1)) = b - a)
<1>1. b - 1 \in Int
  OBVIOUS
<1>2. PICK c \in Int : c = b - 1
  BY <1>1
<1>3. IsFiniteSet(a .. c) /\ Cardinality(a .. c) = IF a > c THEN 0 ELSE c - a + 1
  BY FS_Interval
<1>4. a <= b => Cardinality(a .. c) = b - a
  <2>1. CASE a > c
    BY <1>2, <1>3, <2>1
  <2>2. CASE ~(a > c)
    BY <1>2, <1>3, <2>2
  <2> QED
    BY <2>1, <2>2
<1> QED
  BY <1>2, <1>3, <1>4

LEMMA Together ==
    ASSUME NEW A, NEW B, IsFiniteSet(A), IsFiniteSet(B), A \cap B = {}
    PROVE  /\ IsFiniteSet(A \cup B) /\ Cardinality(A \cup B) = Cardinality(A) + Cardinality(B)
           /\ Cardinality(A) \in Nat /\ Cardinality(B) \in Nat
<1>1. /\ IsFiniteSet(A \cup B)
      /\ Cardinality(A \cup B) = Cardinality(A) + Cardinality(B) - Cardinality(A \cap B)
  BY FS_Union
<1>2. Cardinality(A \cap B) = 0
  BY FS_EmptySet
<1>3. Cardinality(A) \in Nat /\ Cardinality(B) \in Nat
  BY FS_CardinalityType
<1> QED
  BY <1>1, <1>2, <1>3

LEMMA OneMore ==
    ASSUME NEW A, NEW x, IsFiniteSet(A), x \notin A
    PROVE  IsFiniteSet(A \cup {x}) /\ Cardinality(A \cup {x}) = Cardinality(A) + 1
  BY FS_AddElement

LEMMA Part ==
    ASSUME NEW A, IsFiniteSet(A), NEW B, B \subseteq A
    PROVE  IsFiniteSet(B)
  BY FS_Subset

-----------------------------------------------------------------------------
Good(s) ==
    /\ s \in Seq(Ranges) /\ Len(s) > 0
    /\ \A i \in 1 .. Len(s) : s[i].lo <= s[i].hi
    /\ Apart(s)

LEMMA Ends ==
    ASSUME NEW s \in Seq(Ranges), NEW i \in 1 .. Len(s)
    PROVE  s[i] \in Ranges /\ s[i].lo \in Nat /\ s[i].hi \in Nat
<1>1. PICK x : x = s[i]
  OBVIOUS
<1>2. x \in Ranges
  BY <1>1
<1> QED
  BY <1>1, <1>2 DEF Ranges

LEMMA InPages ==
    ASSUME NEW s \in Seq(Ranges), NEW p
    PROVE  /\ p \in Pages(s) <=> p \in Int /\ \E i \in 1 .. Len(s) : s[i].lo <= p /\ p < s[i].hi
           /\ p \in Pages(s) => p \in Nat
<1>1. \A i \in 1 .. Len(s) : s[i].lo \in Nat /\ s[i].hi \in Nat
  BY Ends
<1>2. \A i \in 1 .. Len(s) :
        p \in s[i].lo .. (s[i].hi - 1) <=> p \in Int /\ s[i].lo <= p /\ p < s[i].hi
  BY <1>1
<1>3. p \in Pages(s) <=> \E i \in 1 .. Len(s) : p \in s[i].lo .. (s[i].hi - 1)
  BY DEF Pages
<1> QED
  BY <1>1, <1>2, <1>3

LEMMA InUpto ==
    ASSUME NEW s \in Seq(Ranges), NEW k \in 0 .. Len(s), NEW p
    PROVE  p \in Upto(s, k) <=> p \in Int /\ \E i \in 1 .. k : s[i].lo <= p /\ p < s[i].hi
<1>1. \A i \in 1 .. k : s[i].lo \in Nat /\ s[i].hi \in Nat
  BY Ends
<1>2. \A i \in 1 .. k :
        p \in s[i].lo .. (s[i].hi - 1) <=> p \in Int /\ s[i].lo <= p /\ p < s[i].hi
  BY <1>1
<1>3. p \in Upto(s, k) <=> \E i \in 1 .. k : p \in s[i].lo .. (s[i].hi - 1)
  BY DEF Upto
<1> QED
  BY <1>2, <1>3

LEMMA LastRange ==
    ASSUME NEW s, Good(s)
    PROVE  /\ Len(s) \in Nat /\ Len(s) \in 1 .. Len(s) /\ Last(s) = s[Len(s)]
           /\ Last(s).lo \in Nat /\ Last(s).hi \in Nat /\ Last(s).lo <= Last(s).hi
           /\ \A i \in 1 .. Len(s) : s[i].hi <= Last(s).hi
           /\ \A p \in Pages(s) : p < Last(s).hi
<1>1. /\ Len(s) \in Nat /\ Len(s) \in 1 .. Len(s) /\ s[Len(s)] \in Ranges
      /\ \A i \in 1 .. Len(s) : s[i] \in Ranges
  BY DEF Good
<1>2. \A i \in 1 .. Len(s) : s[i].lo \in Nat /\ s[i].hi \in Nat /\ s[i].lo <= s[i].hi
  BY <1>1 DEF Ranges, Good
<1>3. \A i \in 1 .. Len(s) : s[i].hi <= s[Len(s)].hi
  <2> SUFFICES ASSUME NEW i \in 1 .. Len(s) PROVE s[i].hi <= s[Len(s)].hi
    OBVIOUS
  <2>1. CASE i = Len(s)
    BY <1>2, <2>1
  <2>2. CASE i < Len(s)
    <3>1. s[i].hi < s[Len(s)].lo
      BY <1>1, <2>2 DEF Good, Apart
    <3> QED
      BY <1>1, <1>2, <3>1
  <2> QED
    BY <1>1, <2>1, <2>2
<1>4. \A p \in Pages(s) : p < s[Len(s)].hi
  <2> SUFFICES ASSUME NEW p \in Pages(s) PROVE p < s[Len(s)].hi
    OBVIOUS
  <2>1. PICK i \in 1 .. Len(s) : p \in Int /\ s[i].lo <= p /\ p < s[i].hi
    BY InPages DEF Good
  <2> QED
    BY <1>1, <1>2, <1>3, <2>1
<1> QED
  BY <1>1, <1>2, <1>3, <1>4 DEF Last

(* A page at the end of the last segment, and one past it.                 *)
LEMMA Extended ==
    ASSUME NEW s, Good(s), NEW r, r = Extend(s)
    PROVE  /\ Good(r) /\ Len(r) = Len(s) /\ Last(r).hi = Last(s).hi + 1
           /\ Pages(r) = Pages(s) \cup {Last(s).hi}
<1>1. PICK n : n = Len(s)
  OBVIOUS
<1>2. /\ n \in Nat /\ n \in 1 .. n /\ s \in Seq(Ranges) /\ Last(s) = s[n]
      /\ s[n].lo \in Nat /\ s[n].hi \in Nat
      /\ \A i \in 1 .. n : s[i] \in Ranges
  BY <1>1, LastRange DEF Good
<1>3. r = [s EXCEPT ![n] = [s[n] EXCEPT !.hi = s[n].hi + 1]]
  BY <1>1 DEF Extend
<1>4. [s[n] EXCEPT !.hi = s[n].hi + 1] \in Ranges
  <2>1. PICK x : x = s[n]
    OBVIOUS
  <2>2. x \in Ranges
    BY <1>2, <2>1
  <2>3. [x EXCEPT !.hi = x.hi + 1] \in Ranges
    BY <2>2 DEF Ranges
  <2> QED
    BY <2>1, <2>3
<1>5. r \in Seq(Ranges) /\ Len(r) = n
  BY <1>1, <1>2, <1>3, <1>4
<1>6. /\ \A i \in 1 .. n : i # n => r[i] = s[i]
      /\ r[n].lo = s[n].lo /\ r[n].hi = s[n].hi + 1
  BY <1>1, <1>2, <1>3 DEF Ranges
<1>7. \A i \in 1 .. n : /\ s[i].lo \in Nat /\ s[i].hi \in Nat /\ s[i].lo <= s[i].hi
                        /\ r[i].lo = s[i].lo /\ r[i].lo <= r[i].hi
                        /\ (i < n => r[i].hi = s[i].hi)
  BY <1>1, <1>2, <1>6 DEF Good, Ranges
<1>8. Apart(r)
  <2>1. \A i, j \in 1 .. n : i < j => s[i].hi < s[j].lo
    BY <1>1 DEF Good, Apart
  <2> QED
    BY <1>2, <1>5, <1>7, <2>1 DEF Apart
<1>9. Good(r)
  BY <1>2, <1>5, <1>7, <1>8 DEF Good
<1>10. Pages(r) = Pages(s) \cup {s[n].hi}
  <2> SUFFICES ASSUME NEW p PROVE p \in Pages(r) <=> p \in Pages(s) \/ p = s[n].hi
    OBVIOUS
  <2>1. p \in Pages(r) <=> p \in Int /\ \E i \in 1 .. n : r[i].lo <= p /\ p < r[i].hi
    BY <1>5, InPages
  <2>2. p \in Pages(s) <=> p \in Int /\ \E i \in 1 .. n : s[i].lo <= p /\ p < s[i].hi
    BY <1>1, <1>2, InPages
  <2>3. s[n].lo <= s[n].hi
    BY <1>2, <1>7
  <2> QED
    <3>2. CASE p = s[n].hi
      <4>1. p \in Int /\ r[n].lo <= p /\ p < r[n].hi
        BY <1>2, <1>6, <2>3, <3>2
      <4> QED
        BY <1>2, <2>1, <3>2, <4>1
    <3>3. CASE p # s[n].hi
      <4>1. ASSUME p \in Int, NEW i \in 1 .. n
            PROVE  r[i].lo <= p /\ p < r[i].hi <=> s[i].lo <= p /\ p < s[i].hi
        <5>1. CASE i = n
          BY <1>2, <1>6, <3>3, <4>1, <5>1
        <5>2. CASE i # n
          BY <1>6, <5>2
        <5> QED
          BY <5>1, <5>2
      <4> QED
        BY <2>1, <2>2, <3>3, <4>1
    <3> QED
      BY <3>2, <3>3
<1> QED
  BY <1>1, <1>2, <1>5, <1>6, <1>9, <1>10 DEF Last

LEMMA Appended ==
    ASSUME NEW s, Good(s), NEW q \in Nat, q > Last(s).hi, NEW r, r = Append(s, Seg(q, q + 1))
    PROVE  /\ Good(r) /\ Len(r) = Len(s) + 1 /\ Last(r).hi = q + 1
           /\ Pages(r) = Pages(s) \cup {q}
<1>1. PICK n : n = Len(s)
  OBVIOUS
<1>2. /\ n \in Nat /\ n > 0 /\ s \in Seq(Ranges)
      /\ \A i \in 1 .. n : s[i].hi < q
  <2>1. s \in Seq(Ranges) /\ Len(s) > 0
    BY DEF Good
  <2>2. \A i \in 1 .. Len(s) : s[i].hi \in Nat
    BY <2>1, Ends
  <2>3. Last(s).hi \in Nat /\ \A i \in 1 .. Len(s) : s[i].hi <= Last(s).hi
    BY LastRange
  <2> QED
    BY <1>1, <2>1, <2>2, <2>3
<1>3. Seg(q, q + 1) \in Ranges /\ Seg(q, q + 1).lo = q /\ Seg(q, q + 1).hi = q + 1
  BY DEF Ranges, Seg
<1>4. /\ r \in Seq(Ranges) /\ Len(r) = n + 1 /\ r[n + 1] = Seg(q, q + 1)
      /\ \A i \in 1 .. n : r[i] = s[i]
  BY <1>1, <1>2, <1>3
<1>5. \A i \in 1 .. (n + 1) : i \in 1 .. n \/ i = n + 1
  BY <1>2
<1>6. \A i \in 1 .. (n + 1) : r[i].lo <= r[i].hi
  BY <1>1, <1>2, <1>3, <1>4, <1>5 DEF Good
<1>7. Apart(r)
  <2> SUFFICES ASSUME NEW i \in 1 .. (n + 1), NEW j \in 1 .. (n + 1), i < j
               PROVE  r[i].hi < r[j].lo
    BY <1>4 DEF Apart
  <2>1. i \in 1 .. n
    BY <1>2
  <2>2. CASE j = n + 1
    BY <1>2, <1>3, <1>4, <2>1, <2>2
  <2>3. CASE j \in 1 .. n
    BY <1>1, <1>4, <2>1, <2>3 DEF Good, Apart
  <2> QED
    BY <1>5, <2>2, <2>3
<1>8. Good(r)
  BY <1>2, <1>4, <1>6, <1>7 DEF Good
<1>9. Pages(r) = Pages(s) \cup {q}
  <2> SUFFICES ASSUME NEW p PROVE p \in Pages(r) <=> p \in Pages(s) \/ p = q
    OBVIOUS
  <2>1. p \in Pages(r) <=> p \in Int /\ \E i \in 1 .. (n + 1) : r[i].lo <= p /\ p < r[i].hi
    BY <1>4, InPages
  <2>2. p \in Pages(s) <=> p \in Int /\ \E i \in 1 .. n : s[i].lo <= p /\ p < s[i].hi
    BY <1>1, <1>2, InPages
  <2>3. p \in Int => (q <= p /\ p < q + 1 <=> p = q)
    OBVIOUS
  <2>4. (\E i \in 1 .. (n + 1) : r[i].lo <= p /\ p < r[i].hi) <=>
          (\E i \in 1 .. n : s[i].lo <= p /\ p < s[i].hi) \/ (q <= p /\ p < q + 1)
    <3>1. n + 1 \in 1 .. (n + 1) /\ \A i \in 1 .. n : i \in 1 .. (n + 1)
      BY <1>2
    <3> QED
      BY <1>3, <1>4, <1>5, <3>1
  <2> QED
    <3>1. q \in Int
      OBVIOUS
    <3>2. CASE p \in Int
      BY <2>1, <2>2, <2>3, <2>4, <3>2
    <3>3. CASE p \notin Int
      BY <2>1, <2>2, <3>1, <3>3
    <3> QED
      BY <3>2, <3>3
<1> QED
  BY <1>1, <1>3, <1>4, <1>8, <1>9 DEF Last

(* The last segment without its end.                                       *)
LEMMA Trimmed ==
    ASSUME NEW s, Good(s), NEW r, Last(s).hi > Last(s).lo + 1 + MsgBuf,
           r = [s EXCEPT ![Len(s)].hi = @ - MsgBuf]
    PROVE  /\ Good(r) /\ Len(r) = Len(s)
           /\ Pages(r) = {p \in Pages(s) : p < Last(s).hi - MsgBuf}
           /\ Pages(s) = Pages(r) \cup ((Last(s).hi - MsgBuf) .. (Last(s).hi - 1))
           /\ Pages(r) \cap ((Last(s).hi - MsgBuf) .. (Last(s).hi - 1)) = {}
<1>1. PICK n, b : n = Len(s) /\ b = s[n].hi
  OBVIOUS
<1>2. /\ n \in Nat /\ n \in 1 .. n /\ s \in Seq(Ranges) /\ Last(s) = s[n]
      /\ s[n].lo \in Nat /\ b \in Nat
      /\ \A i \in 1 .. n : s[i] \in Ranges
  BY <1>1, LastRange DEF Good
<1>3. r = [s EXCEPT ![n] = [s[n] EXCEPT !.hi = b - MsgBuf]]
  BY <1>1
<1>0. MsgBuf \in Nat /\ b > s[n].lo + 1 + MsgBuf
  BY <1>1, <1>2, AvailAssumption
<1>4. [s[n] EXCEPT !.hi = b - MsgBuf] \in Ranges
  <2>1. PICK x : x = s[n]
    OBVIOUS
  <2>2. x \in Ranges
    BY <1>2, <2>1
  <2>3. b - MsgBuf \in Nat
    BY <1>0, <1>2
  <2>4. [x EXCEPT !.hi = b - MsgBuf] \in Ranges
    BY <2>2, <2>3 DEF Ranges
  <2> QED
    BY <2>1, <2>4
<1>5. r \in Seq(Ranges) /\ Len(r) = n
  BY <1>1, <1>2, <1>3, <1>4
<1>6. /\ \A i \in 1 .. n : i # n => r[i] = s[i]
      /\ r[n].lo = s[n].lo /\ r[n].hi = b - MsgBuf
  BY <1>1, <1>2, <1>3 DEF Ranges
<1>7. \A i \in 1 .. n : /\ s[i].lo \in Nat /\ s[i].hi \in Nat /\ s[i].lo <= s[i].hi
                        /\ r[i].lo = s[i].lo /\ r[i].lo <= r[i].hi
                        /\ (i < n => r[i].hi = s[i].hi)
  <2>1. \A i \in 1 .. n : s[i].lo \in Nat /\ s[i].hi \in Nat /\ s[i].lo <= s[i].hi
    BY <1>1, <1>2, Ends DEF Good
  <2>2. s[n].lo <= b - MsgBuf
    BY <1>0, <1>2
  <2> SUFFICES ASSUME NEW i \in 1 .. n
               PROVE r[i].lo = s[i].lo /\ r[i].lo <= r[i].hi /\ (i < n => r[i].hi = s[i].hi)
    BY <2>1
  <2>3. CASE i = n
    BY <1>2, <1>6, <2>2, <2>3
  <2>4. CASE i # n
    BY <1>6, <2>1, <2>4
  <2> QED
    BY <2>3, <2>4
<1>8. \A i, j \in 1 .. n : i < j => s[i].hi < s[j].lo
  BY <1>1 DEF Good, Apart
<1>9. Good(r)
  <2>1. Apart(r)
    BY <1>2, <1>5, <1>7, <1>8 DEF Apart
  <2> QED
    BY <1>2, <1>5, <1>7, <2>1 DEF Good
<1>10. \A p : p \in Pages(r) <=> p \in Pages(s) /\ p < b - MsgBuf
  <2> SUFFICES ASSUME NEW p PROVE p \in Pages(r) <=> p \in Pages(s) /\ p < b - MsgBuf
    OBVIOUS
  <2>1. p \in Pages(r) <=> p \in Int /\ \E i \in 1 .. n : r[i].lo <= p /\ p < r[i].hi
    BY <1>5, InPages
  <2>2. p \in Pages(s) <=> p \in Int /\ \E i \in 1 .. n : s[i].lo <= p /\ p < s[i].hi
    BY <1>1, <1>2, InPages
  <2>3. ASSUME p \in Int, NEW i \in 1 .. n
        PROVE  r[i].lo <= p /\ p < r[i].hi <=> s[i].lo <= p /\ p < s[i].hi /\ p < b - MsgBuf
    <3>1. CASE i = n
      BY <1>0, <1>1, <1>2, <1>6, <2>3, <3>1
    <3>2. CASE i # n
      <4>1. s[i].hi < s[n].lo
        BY <1>2, <1>8, <3>2
      <4> QED
        <5>1. s[i].hi <= b - MsgBuf /\ s[i].hi \in Nat /\ s[i].lo \in Nat
          BY <1>0, <1>2, <1>7, <4>1
        <5>2. b - MsgBuf \in Int /\ (p < s[i].hi => p < b - MsgBuf)
          BY <1>0, <1>2, <2>3, <5>1
        <5> QED
          BY <1>6, <3>2, <5>2
    <3> QED
      BY <3>1, <3>2
  <2> QED
    BY <2>1, <2>2, <2>3
<1>11. \A p \in (b - MsgBuf) .. (b - 1) : p \in Pages(s) /\ ~(p < b - MsgBuf)
  <2> SUFFICES ASSUME NEW p \in (b - MsgBuf) .. (b - 1) PROVE p \in Pages(s) /\ ~(p < b - MsgBuf)
    OBVIOUS
  <2>1. p \in Int /\ s[n].lo <= p /\ p < s[n].hi /\ ~(p < b - MsgBuf)
    BY <1>0, <1>1, <1>2
  <2> QED
    BY <1>1, <1>2, <2>1, InPages
<1>12. \A p \in Pages(s) : p \in Nat /\ p < b
  BY <1>1, <1>2, LastRange, InPages
<1>13. \A p \in Pages(s) : ~(p < b - MsgBuf) => p \in (b - MsgBuf) .. (b - 1)
  BY <1>0, <1>2, <1>12
<1>14. Last(s).hi = b
  BY <1>1, <1>2
<1> HIDE DEF Pages
<1>15. Pages(r) = {p \in Pages(s) : p < b - MsgBuf}
  BY <1>10
<1>16. Pages(s) = Pages(r) \cup ((b - MsgBuf) .. (b - 1))
  BY <1>10, <1>11, <1>13, Zenon
<1>17. Pages(r) \cap ((b - MsgBuf) .. (b - 1)) = {}
  BY <1>10, <1>11, Zenon
<1> QED
  BY <1>1, <1>5, <1>9, <1>14, <1>15, <1>16, <1>17

(* The next segment is counted with those before it.                       *)
LEMMA CountedNext ==
    ASSUME NEW s, Good(s), NEW k \in 1 .. Len(s)
    PROVE  /\ Upto(s, k) = Upto(s, k - 1) \cup (s[k].lo .. (s[k].hi - 1))
           /\ Upto(s, k - 1) \cap (s[k].lo .. (s[k].hi - 1)) = {}
<1>1. s \in Seq(Ranges) /\ k - 1 \in 0 .. Len(s) /\ k \in 0 .. Len(s) /\ Len(s) \in Nat
  BY DEF Good
<1>2. \A i \in 1 .. k : i \in 1 .. (k - 1) \/ i = k
  OBVIOUS
<1>3. k \in 1 .. k /\ \A i \in 1 .. (k - 1) : i \in 1 .. k
  OBVIOUS
<1>4. Upto(s, k) = Upto(s, k - 1) \cup (s[k].lo .. (s[k].hi - 1))
  BY <1>2, <1>3 DEF Upto
<1>5. Upto(s, k - 1) \cap (s[k].lo .. (s[k].hi - 1)) = {}
  <2> SUFFICES ASSUME NEW p \in Upto(s, k - 1), p \in s[k].lo .. (s[k].hi - 1) PROVE FALSE
    OBVIOUS
  <2>1. PICK i \in 1 .. (k - 1) : p \in Int /\ p < s[i].hi
    BY <1>1, InUpto
  <2>2. s[i].hi < s[k].lo
    BY <1>1, <2>1 DEF Good, Apart
  <2>3. s[i].hi \in Nat /\ s[k].lo \in Nat /\ s[k].hi \in Nat
    BY <1>1, Ends
  <2> QED
    BY <2>1, <2>2, <2>3
<1> QED
  BY <1>4, <1>5

LEMMA AllCounted ==
    ASSUME NEW s \in Seq(Ranges)
    PROVE  Upto(s, Len(s)) = Pages(s) /\ Upto(s, 0) = {}
<1>1. DOMAIN s = 1 .. Len(s)
  OBVIOUS
<1>2. Upto(s, Len(s)) = Pages(s)
  BY <1>1 DEF Upto, Pages
<1>3. 1 .. 0 = {}
  OBVIOUS
<1>4. Upto(s, 0) = {}
  BY <1>3 DEF Upto
<1> QED
  BY <1>2, <1>4

LEMMA UptoFinite ==
    ASSUME NEW s, Good(s), NEW k \in 0 .. Len(s), IsFiniteSet(Pages(s))
    PROVE  IsFiniteSet(Upto(s, k))
<1>1. s \in Seq(Ranges) /\ Len(s) \in Nat
  BY DEF Good
<1>2. \A i \in 1 .. k : i \in 1 .. Len(s)
  BY <1>1
<1>3. Upto(s, k) \subseteq Pages(s)
  BY <1>1, <1>2 DEF Upto, Pages
<1> QED
  BY <1>3, Part

-----------------------------------------------------------------------------
(* Unused asks of a page what Available says of it.                        *)
LEMMA Free ==
    ASSUME holes \in SUBSET Ranges, physmap \in Seq(Ranges), NEW p
    PROVE  p \in Available <=> p \in Pages(physmap) /\ Unused(p)
<1>1. \A h \in holes : h.lo \in Nat /\ h.hi \in Nat
  BY DEF Ranges
<1>2. p \in Pages(physmap) => p \in Nat
  BY InPages
<1>3. ASSUME p \in Nat
      PROVE  (\A h \in holes : p \notin h.lo .. (h.hi - 1)) <=> Unused(p)
  BY <1>1, <1>3 DEF Unused
<1> QED
  BY <1>2, <1>3 DEF Available

LEMMA AvailStart == AvailInit => AvailInv
<1> SUFFICES ASSUME AvailInit PROVE AvailInv
  OBVIOUS
<1>1. PICK m \in PhysMaps : physmap = [m EXCEPT ![1].lo = 1]
  BY DEF AvailInit
<1>2. /\ m \in Seq(Ranges) /\ Len(m) > 0 /\ Len(m) \in Nat /\ 1 \in 1 .. Len(m)
      /\ \A i \in 1 .. Len(m) : m[i].lo < m[i].hi
      /\ \A i, j \in 1 .. Len(m) : i < j => m[i].hi <= m[j].lo
  BY AvailAssumption
<1>3. physmap = [m EXCEPT ![1] = [m[1] EXCEPT !.lo = 1]]
  BY <1>1
<1>4. \A i \in 1 .. Len(m) : m[i] \in Ranges /\ m[i].lo \in Nat /\ m[i].hi \in Nat
  BY <1>2, Ends
<1>5. [m[1] EXCEPT !.lo = 1] \in Ranges
  <2>1. PICK x : x = m[1]
    OBVIOUS
  <2>2. x \in Ranges
    BY <1>2, <1>4, <2>1
  <2>3. [x EXCEPT !.lo = 1] \in Ranges
    BY <2>2 DEF Ranges
  <2> QED
    BY <2>1, <2>3
<1>6. physmap \in Seq(Ranges) /\ Len(physmap) = Len(m)
  BY <1>2, <1>3, <1>5
<1>7. /\ physmap[1].lo = 1 /\ physmap[1].hi = m[1].hi
      /\ \A i \in 1 .. Len(m) : i # 1 => physmap[i] = m[i]
  <2>1. PICK x : x = m[1]
    OBVIOUS
  <2>2. x \in Ranges
    BY <1>2, <1>4, <2>1
  <2>3. [x EXCEPT !.lo = 1].lo = 1 /\ [x EXCEPT !.lo = 1].hi = x.hi
    BY <2>2 DEF Ranges
  <2> QED
    BY <1>2, <1>3, <2>1, <2>3
<1>8. \A i \in 1 .. Len(m) : physmap[i].lo <= physmap[i].hi /\ physmap[i].hi = m[i].hi
  BY <1>2, <1>4, <1>7
<1>9. \A i, j \in 1 .. Len(m) : i < j => physmap[i].hi <= physmap[j].lo
  BY <1>2, <1>7, <1>8
<1>10. /\ pc = "scan" /\ seg = 1 /\ pa = 1 /\ phys_avail = <<Seg(1, 1)>> /\ physmem = 0
       /\ page_count = <<0, 0>> /\ holes \in SUBSET Ranges /\ endPage \in Nat
  BY <1>7, AvailAssumption DEF AvailInit
<1>11. /\ Seg(1, 1) \in Ranges /\ Seg(1, 1).lo = 1 /\ Seg(1, 1).hi = 1
  BY DEF Seg, Ranges
<1>12. phys_avail \in Seq(Ranges) /\ Len(phys_avail) = 1 /\ phys_avail[1] = Seg(1, 1)
  BY <1>10, <1>11
<1>13. AvailTypes
  <2>1. Apart(phys_avail)
    BY <1>12 DEF Apart
  <2>2. Cap >= 1 /\ Cap \in Nat
    BY AvailAssumption
  <2>3. page_count[1] = 0 /\ page_count[2] = 0
    BY <1>10
  <2>4. \A i \in 1 .. Len(phys_avail) : phys_avail[i].lo <= phys_avail[i].hi
    BY <1>11, <1>12
  <2> QED
    BY <1>2, <1>6, <1>8, <1>9, <1>10, <1>12, <2>1, <2>2, <2>3, <2>4 DEF AvailTypes
<1>14. Pages(phys_avail) = {}
  BY <1>11, <1>12, InPages
<1>15. Seen
  <2>1. \A p \in Available : ~(p < 1)
    <3> SUFFICES ASSUME NEW p \in Available, p < 1 PROVE FALSE
      OBVIOUS
    <3>1. p \in Pages(physmap)
      BY DEF Available
    <3>2. PICK i \in 1 .. Len(m) : p \in Int /\ physmap[i].lo <= p
      BY <1>6, <3>1, InPages
    <3>3. physmap[i].lo >= 1 /\ physmap[i].lo \in Int
      <4>1. CASE i = 1
        BY <1>7, <4>1
      <4>2. CASE i # 1
        <5>1. 1 < i /\ m[1].lo < m[1].hi /\ m[1].hi <= m[i].lo
          BY <1>2, <4>2
        <5> QED
          BY <1>2, <1>4, <1>7, <4>2, <5>1
      <4> QED
        BY <4>1, <4>2
    <3> QED
      BY <3>2, <3>3
  <2>2. {p \in Available : p < endPage /\ p < pa} = {}
    BY <1>10, <2>1
  <2>3. pa \in physmap[seg].lo .. physmap[seg].hi
    <3>1. physmap[1].hi \in Nat /\ physmap[1].lo <= physmap[1].hi
      BY <1>2, <1>4, <1>8
    <3> QED
      BY <1>7, <1>10, <3>1
  <2>4. Last(phys_avail).hi = 1
    BY <1>11, <1>12 DEF Last
  <2> QED
    BY <1>2, <1>6, <1>10, <1>14, <2>2, <2>3, <2>4 DEF Seen
<1>16. Sums
  BY <1>10, <1>14, FS_EmptySet DEF Sums
<1> QED
  BY <1>10, <1>13, <1>15, <1>16 DEF AvailInv, All

(* What NextSegment leaves to be looked at.                                *)
LEMMA Moves ==
    ASSUME AvailInv, pc = "scan", NextSegment
    PROVE  /\ seg' \in Nat \ {0} /\ pa' \in Nat /\ pc' \in {"scan", "trim"}
           /\ pc' = "scan" => /\ seg' <= Len(physmap)
                              /\ pa' \in physmap[seg'].lo .. physmap[seg'].hi /\ pa <= pa'
           /\ pa >= EndOf(physmap[seg]) =>
                /\ pc' = "scan" =>
                      \A p \in Available : p < endPage /\ p < pa' <=> p < endPage /\ p < pa
                /\ pc' = "trim" => \A p \in Available : p < endPage <=> p < endPage /\ p < pa
<1>1. /\ seg <= Len(physmap) /\ pa \in physmap[seg].lo .. physmap[seg].hi
  BY DEF AvailInv, Seen
<1>2. /\ physmap \in Seq(Ranges) /\ Len(physmap) \in Nat /\ seg \in Nat \ {0} /\ pa \in Nat
      /\ endPage \in Nat /\ holes \in SUBSET Ranges
      /\ \A i \in 1 .. Len(physmap) : physmap[i].lo <= physmap[i].hi
      /\ \A i, j \in 1 .. Len(physmap) : i < j => physmap[i].hi <= physmap[j].lo
  BY DEF AvailInv, AvailTypes
<1>3. \A i \in 1 .. Len(physmap) : physmap[i].lo \in Nat /\ physmap[i].hi \in Nat
  BY <1>2, Ends
<1>4. seg \in 1 .. Len(physmap)
  BY <1>1, <1>2
<1>5. pa >= EndOf(physmap[seg]) => pa >= endPage \/ pa >= physmap[seg].hi
  BY <1>2, <1>3, <1>4 DEF EndOf
<1>6. \A p \in Available : p \in Nat /\ \E i \in 1 .. Len(physmap) : physmap[i].lo <= p /\ p < physmap[i].hi
  BY <1>2, InPages DEF Available
<1>7. CASE seg < Len(physmap)
  <2>1. seg' = seg + 1 /\ pc' = "scan" /\ pa' = physmap[seg + 1].lo
    BY <1>7 DEF NextSegment
  <2>2. seg + 1 \in 1 .. Len(physmap) /\ seg < seg + 1
    BY <1>2, <1>4, <1>7
  <2>3. physmap[seg].hi <= physmap[seg + 1].lo /\ physmap[seg + 1].lo <= physmap[seg + 1].hi
    BY <1>2, <1>4, <2>2
  <2>4. pa <= pa' /\ pa' \in Nat /\ pa' \in physmap[seg'].lo .. physmap[seg'].hi
    BY <1>1, <1>3, <1>4, <2>1, <2>2, <2>3
  <2>5. ASSUME pa >= EndOf(physmap[seg]), NEW p \in Available, p < endPage, p < pa' PROVE p < pa
    <3>1. PICK i \in 1 .. Len(physmap) : physmap[i].lo <= p /\ p < physmap[i].hi
      BY <1>6
    <3>2. p \in Nat
      BY <1>6
    <3>3. i <= seg
      <4> SUFFICES ASSUME i > seg PROVE FALSE
        BY <1>2
      <4>1. i = seg + 1 \/ seg + 1 < i
        BY <1>2
      <4>2. physmap[seg + 1].lo <= physmap[i].lo
        <5>1. CASE i = seg + 1
          BY <1>3, <5>1
        <5>2. CASE seg + 1 < i
          <6>1. physmap[seg + 1].hi <= physmap[i].lo
            BY <1>2, <2>2, <5>2
          <6> QED
            BY <1>3, <2>2, <2>3, <6>1
        <5> QED
          BY <4>1, <5>1, <5>2
      <4> QED
        BY <1>3, <2>1, <2>2, <2>5, <3>1, <3>2, <4>2
    <3>4. physmap[i].hi <= physmap[seg].hi
      <4>1. CASE i = seg
        BY <1>3, <4>1
      <4>2. CASE i < seg
        <5>1. physmap[i].hi <= physmap[seg].lo /\ physmap[seg].lo <= physmap[seg].hi
          BY <1>2, <1>4, <4>2
        <5> QED
          BY <1>3, <1>4, <5>1
      <4> QED
        BY <1>2, <3>3, <4>1, <4>2
    <3> QED
      BY <1>2, <1>3, <1>4, <1>5, <2>5, <3>1, <3>2, <3>4
  <2>6. \A p \in Available : p < endPage /\ p < pa => p < pa'
    BY <1>2, <1>6, <2>4
  <2> QED
    BY <1>2, <2>1, <2>2, <2>4, <2>5, <2>6
<1>8. CASE ~(seg < Len(physmap))
  <2>1. seg' = seg + 1 /\ pc' = "trim" /\ pa' = 0 /\ seg = Len(physmap)
    BY <1>1, <1>2, <1>8 DEF NextSegment
  <2>2. ASSUME pa >= EndOf(physmap[seg]), NEW p \in Available, p < endPage PROVE p < pa
    <3>1. PICK i \in 1 .. Len(physmap) : physmap[i].lo <= p /\ p < physmap[i].hi
      BY <1>6
    <3>2. p \in Nat
      BY <1>6
    <3>4. physmap[i].hi <= physmap[seg].hi
      <4>1. CASE i = seg
        BY <1>3, <4>1
      <4>2. CASE i < seg
        <5>1. physmap[i].hi <= physmap[seg].lo /\ physmap[seg].lo <= physmap[seg].hi
          BY <1>2, <1>4, <4>2
        <5> QED
          BY <1>3, <1>4, <5>1
      <4> QED
        BY <1>2, <2>1, <4>1, <4>2
    <3> QED
      BY <1>2, <1>3, <1>4, <1>5, <2>2, <3>1, <3>2, <3>4
  <2> QED
    BY <1>2, <2>1, <2>2
<1> QED
  BY <1>7, <1>8

LEMMA Inputs ==
    ASSUME UNCHANGED <<physmap, holes>>
    PROVE  Available' = Available /\ \A p : Unused(p)' = Unused(p)
  BY DEF Available, Pages, Unused

LEMMA IsGood ==
    ASSUME AvailTypes
    PROVE  /\ Good(phys_avail) /\ Len(phys_avail) \in 1 .. Cap /\ Cap \in Nat /\ MsgBuf \in Nat
           /\ Len(phys_avail) \in Nat /\ phys_avail \in Seq(Ranges)
  BY AvailAssumption DEF AvailTypes, Good

(* The types, from the shape of phys_avail and the place in physmap.       *)
LEMMA TypesKept ==
    ASSUME AvailTypes, UNCHANGED <<physmap, holes>>, endPage' \in Nat,
           pc' \in {"scan", "trim", "count", "done", "panic"},
           seg' \in Nat \ {0}, pa' \in Nat, physmem' \in Nat,
           Good(phys_avail'), Len(phys_avail') <= Cap,
           page_count' = <<page_count'[1], page_count'[2]>>
    PROVE  AvailTypes'
<1>1. /\ phys_avail' \in Seq(Ranges) /\ Len(phys_avail') > 0 /\ Apart(phys_avail')
      /\ \A i \in 1 .. Len(phys_avail') : phys_avail'[i].lo <= phys_avail'[i].hi
  BY DEF Good
<1>2. Len(phys_avail') \in Nat /\ Len(phys_avail') \in 1 .. Cap
  BY <1>1, AvailAssumption
<1>3. Apart(phys_avail)'
  BY <1>1 DEF Apart
<1> QED
  BY <1>1, <1>2, <1>3 DEF AvailTypes

LEMMA ScanInv == ASSUME AvailInv, Scan PROVE AvailInv'
<1>1. /\ pc = "scan" /\ pa < EndOf(physmap[seg]) /\ AddAvail
      /\ IF Full THEN NextSegment ELSE pa' = pa + 1 /\ UNCHANGED <<seg, pc>>
      /\ UNCHANGED <<physmap, holes, endPage, page_count>>
  BY DEF Scan, input
<1>2. AvailTypes /\ Seen /\ Sums
  BY DEF AvailInv
<1>3. /\ Good(phys_avail) /\ Len(phys_avail) \in 1 .. Cap /\ Cap \in Nat
      /\ Len(phys_avail) \in Nat /\ phys_avail \in Seq(Ranges)
  BY <1>2, IsGood
<1>4. /\ seg <= Len(physmap) /\ pa \in physmap[seg].lo .. physmap[seg].hi
      /\ Last(phys_avail).hi <= pa
      /\ Len(phys_avail) < Cap => Pages(phys_avail) = {p \in Available : p < endPage /\ p < pa}
  BY <1>1, <1>2 DEF Seen
<1>5. /\ physmap \in Seq(Ranges) /\ seg \in 1 .. Len(physmap) /\ pa \in Nat /\ endPage \in Nat
      /\ holes \in SUBSET Ranges /\ physmem \in Nat /\ seg \in Nat \ {0}
      /\ page_count = <<page_count[1], page_count[2]>>
  BY <1>2, <1>4 DEF AvailTypes
<1>6. physmap[seg].lo \in Nat /\ physmap[seg].hi \in Nat
  BY <1>5, Ends
<1>7. pa < endPage /\ pa < physmap[seg].hi /\ pa + 1 \in physmap[seg].lo .. physmap[seg].hi
  BY <1>1, <1>4, <1>5, <1>6 DEF EndOf
<1>8. pa \in Pages(physmap)
  BY <1>4, <1>5, <1>6, <1>7, InPages
<1>9. pa \in Available <=> Unused(pa)
  BY <1>5, <1>8, Free
<1>10. \A p \in Available : p \in Nat
  BY <1>5, InPages DEF Available
<1>11. Available' = Available
  BY <1>1, Inputs
<1>12. /\ IsFiniteSet(Pages(phys_avail)) /\ physmem = Cardinality(Pages(phys_avail))
       /\ page_count = <<0, 0>>
  BY <1>1, <1>2 DEF Sums
<1>13. CASE ~Unused(pa)
  <2>1. /\ UNCHANGED <<phys_avail, physmem>> /\ ~Full
    BY <1>1, <1>13 DEF AddAvail, Full
  <2>2. pa' = pa + 1 /\ UNCHANGED <<seg, pc>>
    BY <1>1, <2>1
  <2>3. AvailTypes'
    BY <1>1, <1>2, <1>3, <1>5, <2>1, <2>2, TypesKept
  <2>4. {p \in Available : p < endPage /\ p < pa + 1} = {p \in Available : p < endPage /\ p < pa}
    BY <1>5, <1>9, <1>10, <1>13
  <2>5. Seen'
    <3>1. Last(phys_avail).hi \in Nat
      BY <1>3, LastRange
    <3>2. Last(phys_avail).hi <= pa + 1
      BY <1>4, <1>5, <3>1
    <3>3. Pages(phys_avail)' = Pages(phys_avail) /\ Last(phys_avail)' = Last(phys_avail)
      BY <2>1 DEF Pages, Last
    <3> QED
      BY <1>1, <1>4, <1>7, <1>11, <2>1, <2>2, <2>4, <3>2, <3>3 DEF Seen
  <2>6. All' /\ Sums'
    <3>1. Pages(phys_avail)' = Pages(phys_avail)
      BY <2>1 DEF Pages
    <3> QED
      BY <1>1, <1>12, <2>1, <2>2, <3>1 DEF All, Sums
  <2> QED
    BY <2>3, <2>5, <2>6 DEF AvailInv
<1>14. CASE Full
  <2>1. UNCHANGED <<phys_avail, physmem>> /\ NextSegment /\ Len(phys_avail) = Cap
    BY <1>1, <1>14 DEF AddAvail, Full
  <2>2. /\ seg' \in Nat \ {0} /\ pa' \in Nat /\ pc' \in {"scan", "trim"}
        /\ pc' = "scan" => /\ seg' <= Len(physmap)
                           /\ pa' \in physmap[seg'].lo .. physmap[seg'].hi /\ pa <= pa'
    BY <1>1, <2>1, Moves
  <2>3. AvailTypes'
    BY <1>1, <1>2, <1>3, <1>5, <2>1, <2>2, TypesKept
  <2>4. Seen'
    <3>1. Last(phys_avail).hi \in Nat
      BY <1>3, LastRange
    <3>2. pc' = "scan" => Last(phys_avail).hi <= pa'
      BY <1>4, <1>5, <2>2, <3>1
    <3>3. Last(phys_avail)' = Last(phys_avail) /\ ~(Len(phys_avail') < Cap)
      BY <1>3, <2>1 DEF Last
    <3> QED
      BY <1>1, <2>2, <3>2, <3>3 DEF Seen
  <2>5. All' /\ Sums'
    <3>1. Pages(phys_avail)' = Pages(phys_avail) /\ ~(Len(phys_avail') < Cap)
      BY <1>3, <2>1 DEF Pages
    <3> QED
      BY <1>1, <1>12, <2>1, <2>2, <3>1 DEF All, Sums
  <2> QED
    BY <2>3, <2>4, <2>5 DEF AvailInv
<1>15. CASE Unused(pa) /\ ~Full
  <2>1. /\ physmem' = physmem + 1 /\ pa' = pa + 1 /\ UNCHANGED <<seg, pc>>
        /\ phys_avail' = IF pa = Last(phys_avail).hi THEN Extend(phys_avail)
                         ELSE Append(phys_avail, Seg(pa, pa + 1))
    BY <1>1, <1>15 DEF AddAvail
  <2>2. /\ Good(phys_avail') /\ Len(phys_avail') <= Cap /\ Last(phys_avail').hi = pa + 1
        /\ Pages(phys_avail') = Pages(phys_avail) \cup {pa}
        /\ Len(phys_avail') \in Nat /\ Len(phys_avail') >= Len(phys_avail)
    <3>1. CASE pa = Last(phys_avail).hi
      BY <1>3, <2>1, <3>1, Extended
    <3>2. CASE pa # Last(phys_avail).hi
      <4>1. Last(phys_avail).hi \in Nat /\ pa > Last(phys_avail).hi
        <5>1. Last(phys_avail).hi \in Nat
          BY <1>3, LastRange
        <5> QED
          BY <1>4, <1>5, <3>2, <5>1
      <4>2. Len(phys_avail) < Cap
        BY <1>3, <1>15, <3>2 DEF Full
      <4>3. phys_avail' = Append(phys_avail, Seg(pa, pa + 1))
        BY <2>1, <3>2
      <4>4. /\ Good(phys_avail') /\ Len(phys_avail') = Len(phys_avail) + 1
            /\ Last(phys_avail').hi = pa + 1 /\ Pages(phys_avail') = Pages(phys_avail) \cup {pa}
        BY <1>3, <1>5, <4>1, <4>3, Appended
      <4> QED
        BY <1>3, <4>2, <4>4
    <3> QED
      BY <3>1, <3>2
  <2>3. AvailTypes'
    BY <1>1, <1>2, <1>5, <2>1, <2>2, TypesKept
  <2>4. Pages(phys_avail)' = Pages(phys_avail') /\ Last(phys_avail)' = Last(phys_avail')
    BY DEF Pages, Last
  <2>5. Seen'
    <3>1. Len(phys_avail') < Cap =>
            Pages(phys_avail') = {p \in Available : p < endPage /\ p < pa + 1}
      <4> SUFFICES ASSUME Len(phys_avail') < Cap
                   PROVE  Pages(phys_avail') = {p \in Available : p < endPage /\ p < pa + 1}
        OBVIOUS
      <4>1. Pages(phys_avail) = {p \in Available : p < endPage /\ p < pa}
        BY <1>3, <1>4, <2>2
      <4>2. \A p \in Available : p < pa + 1 <=> p < pa \/ p = pa
        BY <1>5, <1>10
      <4>3. pa \in Available /\ pa < endPage
        BY <1>7, <1>9, <1>15
      <4> QED
        BY <2>2, <4>1, <4>2, <4>3
    <3>2. pa + 1 <= pa + 1
      BY <1>5
    <3> QED
      BY <1>1, <1>4, <1>7, <1>11, <2>1, <2>2, <2>4, <3>1, <3>2 DEF Seen
  <2>6. Sums'
    <3>1. pa \notin Pages(phys_avail)
      <4>1. \A p \in Pages(phys_avail) : p < Last(phys_avail).hi
        BY <1>3, LastRange
      <4>2. Last(phys_avail).hi \in Nat
        BY <1>3, LastRange
      <4> QED
        BY <1>4, <1>5, <4>1, <4>2
    <3>2. /\ IsFiniteSet(Pages(phys_avail'))
          /\ Cardinality(Pages(phys_avail')) = physmem + 1
      BY <1>12, <2>2, <3>1, OneMore
    <3> QED
      BY <1>1, <1>12, <2>1, <2>4, <3>2 DEF Sums
  <2> QED
    BY <1>1, <2>1, <2>3, <2>5, <2>6 DEF AvailInv, All
<1> QED
  BY <1>13, <1>14, <1>15

LEMMA ScanEndsInv == ASSUME AvailInv, ScanEnds PROVE AvailInv'
<1>1. /\ pc = "scan" /\ pa >= EndOf(physmap[seg]) /\ NextSegment
      /\ UNCHANGED <<physmap, holes, endPage, phys_avail, physmem, page_count>>
  BY DEF ScanEnds, input
<1>2. AvailTypes /\ Seen /\ Sums
  BY DEF AvailInv
<1>3. /\ Good(phys_avail) /\ Len(phys_avail) \in 1 .. Cap /\ Cap \in Nat
      /\ pa \in Nat /\ endPage \in Nat /\ physmem \in Nat
      /\ page_count = <<page_count[1], page_count[2]>>
  BY <1>2, IsGood DEF AvailTypes
<1>4. /\ Last(phys_avail).hi <= pa
      /\ Len(phys_avail) < Cap => Pages(phys_avail) = {p \in Available : p < endPage /\ p < pa}
  BY <1>1, <1>2 DEF Seen
<1>5. /\ seg' \in Nat \ {0} /\ pa' \in Nat /\ pc' \in {"scan", "trim"}
      /\ pc' = "scan" => /\ seg' <= Len(physmap)
                         /\ pa' \in physmap[seg'].lo .. physmap[seg'].hi /\ pa <= pa'
                         /\ \A p \in Available : p < endPage /\ p < pa' <=> p < endPage /\ p < pa
      /\ pc' = "trim" => \A p \in Available : p < endPage <=> p < endPage /\ p < pa
  BY <1>1, Moves
<1>6. AvailTypes'
  BY <1>1, <1>2, <1>3, <1>5, TypesKept
<1>7. /\ Pages(phys_avail)' = Pages(phys_avail) /\ Last(phys_avail)' = Last(phys_avail)
      /\ Available' = Available
  BY <1>1, Inputs DEF Pages, Last
<1>8. Seen'
  <2>1. Last(phys_avail).hi \in Nat
    BY <1>3, LastRange
  <2>2. pc' = "scan" => Last(phys_avail).hi <= pa'
    BY <1>3, <1>4, <1>5, <2>1
  <2>3. pc' = "scan" /\ Len(phys_avail) < Cap =>
          Pages(phys_avail) = {p \in Available : p < endPage /\ p < pa'}
    BY <1>4, <1>5
  <2> QED
    BY <1>1, <1>5, <1>7, <2>2, <2>3 DEF Seen
<1>9. All'
  <2>1. pc' = "trim" /\ Len(phys_avail) < Cap => Pages(phys_avail) = {p \in Available : p < endPage}
    BY <1>4, <1>5
  <2> QED
    BY <1>1, <1>5, <1>7, <2>1 DEF All
<1>10. Sums'
  BY <1>1, <1>2, <1>5, <1>7 DEF Sums
<1> QED
  BY <1>6, <1>8, <1>9, <1>10 DEF AvailInv

LEMMA TrimInv == ASSUME AvailInv, Trim PROVE AvailInv'
<1>1. /\ pc = "trim" /\ seg' = 1 /\ UNCHANGED <<physmap, holes, pa, physmem, page_count>>
  BY DEF Trim
<1>2. AvailTypes /\ All /\ Sums
  BY DEF AvailInv
<1>3. /\ Good(phys_avail) /\ Len(phys_avail) \in 1 .. Cap /\ Cap \in Nat /\ MsgBuf \in Nat
      /\ pa \in Nat /\ endPage \in Nat /\ physmem \in Nat
      /\ page_count = <<page_count[1], page_count[2]>>
      /\ phys_avail \in Seq(Ranges) /\ Len(phys_avail) \in Nat
  BY <1>2, IsGood DEF AvailTypes
<1>4. /\ IsFiniteSet(Pages(phys_avail)) /\ physmem = Cardinality(Pages(phys_avail))
      /\ page_count = <<0, 0>>
  BY <1>1, <1>2 DEF Sums
<1>5. CASE Last(phys_avail).hi <= Last(phys_avail).lo + 1 + MsgBuf
  <2>1. pc' = "panic" /\ UNCHANGED <<endPage, phys_avail>>
    BY <1>5 DEF Trim
  <2>2. AvailTypes'
    BY <1>1, <1>2, <1>3, <2>1, TypesKept
  <2>3. Pages(phys_avail)' = Pages(phys_avail)
    BY <2>1 DEF Pages
  <2> QED
    BY <1>4, <2>1, <2>2, <2>3 DEF AvailInv, Seen, All, Sums
<1>6. CASE ~(Last(phys_avail).hi <= Last(phys_avail).lo + 1 + MsgBuf)
  <2>1. /\ endPage' = Last(phys_avail).hi /\ pc' = "count"
        /\ phys_avail' = [phys_avail EXCEPT ![Len(phys_avail)].hi = @ - MsgBuf]
    BY <1>6 DEF Trim
  <2>2. PICK b : b = Last(phys_avail).hi
    OBVIOUS
  <2>3. b \in Nat /\ b > Last(phys_avail).lo + 1 + MsgBuf /\ Last(phys_avail).lo \in Nat
    BY <1>3, <1>6, <2>2, LastRange
  <2>4. /\ Good(phys_avail') /\ Len(phys_avail') = Len(phys_avail)
        /\ Pages(phys_avail') = {p \in Pages(phys_avail) : p < b - MsgBuf}
        /\ Pages(phys_avail) = Pages(phys_avail') \cup ((b - MsgBuf) .. (b - 1))
        /\ Pages(phys_avail') \cap ((b - MsgBuf) .. (b - 1)) = {}
    <3>1. PICK s : s = phys_avail
      OBVIOUS
    <3>2. PICK r : r = phys_avail'
      OBVIOUS
    <3>3. /\ Good(s) /\ Last(s).hi = b /\ Last(s).hi > Last(s).lo + 1 + MsgBuf
          /\ r = [s EXCEPT ![Len(s)].hi = @ - MsgBuf]
      BY <1>3, <2>1, <2>2, <2>3, <3>1, <3>2
    <3>4. /\ Good(r) /\ Len(r) = Len(s)
          /\ Pages(r) = {p \in Pages(s) : p < Last(s).hi - MsgBuf}
          /\ Pages(s) = Pages(r) \cup ((Last(s).hi - MsgBuf) .. (Last(s).hi - 1))
          /\ Pages(r) \cap ((Last(s).hi - MsgBuf) .. (Last(s).hi - 1)) = {}
      BY <3>3, Trimmed
    <3> QED
      BY <3>1, <3>2, <3>3, <3>4
  <2>5. AvailTypes'
    <3>1. Len(phys_avail') <= Cap
      BY <1>3, <2>4
    <3> QED
      BY <1>1, <1>2, <1>3, <2>1, <2>2, <2>3, <2>4, <3>1, TypesKept
  <2>6. Pages(phys_avail)' = Pages(phys_avail') /\ Available' = Available
    BY <1>1, Inputs DEF Pages
  <2>7. All'
    <3>1. ASSUME Len(phys_avail) < Cap
          PROVE  Pages(phys_avail') = {p \in Available : p < b - MsgBuf}
      <4>1. Pages(phys_avail) = {p \in Available : p < endPage}
        BY <1>1, <1>2, <3>1 DEF All
      <4>2. \A p \in Available : p \in Nat
        BY <1>2, InPages DEF Available, AvailTypes
      <4>3. b - 1 \in Pages(phys_avail) /\ b - 1 < endPage
        <5>1. b - 1 \in Pages(phys_avail)
          <6>1. /\ Len(phys_avail) \in 1 .. Len(phys_avail)
                /\ Last(phys_avail) = phys_avail[Len(phys_avail)]
            BY <1>3, LastRange
          <6>2. b - 1 \in Int /\ Last(phys_avail).lo <= b - 1 /\ b - 1 < b
            BY <1>3, <2>3
          <6> QED
            BY <1>3, <2>2, <6>1, <6>2, InPages
        <5> QED
          BY <4>1, <5>1
      <4>4. b <= endPage
        BY <1>3, <2>3, <4>3
      <4>5. \A p \in Available : p < b - MsgBuf => p < endPage
        BY <1>3, <2>3, <4>2, <4>4
      <4> QED
        BY <2>4, <4>1, <4>5
    <3> QED
      BY <2>1, <2>2, <2>4, <2>6, <3>1 DEF All
  <2>8. Sums'
    <3>1. /\ IsFiniteSet((b - MsgBuf) .. (b - 1))
          /\ Cardinality((b - MsgBuf) .. (b - 1)) = MsgBuf
      <4>1. b - MsgBuf \in Int /\ b \in Int /\ b - MsgBuf <= b /\ b - (b - MsgBuf) = MsgBuf
        BY <1>3, <2>3
      <4> QED
        BY <4>1, RangeSize
    <3>2. IsFiniteSet(Pages(phys_avail'))
      BY <1>4, <2>4, Part
    <3>3. /\ Cardinality(Pages(phys_avail)) = Cardinality(Pages(phys_avail')) + MsgBuf
      BY <2>4, <3>1, <3>2, Together
    <3>4. Upto(phys_avail', 0) = {}
      <4>1. phys_avail' \in Seq(Ranges)
        BY <2>4 DEF Good
      <4> QED
        BY <4>1, AllCounted
    <3>5. System({}) = {} /\ Games({}) = {} /\ Cardinality({}) = 0
      BY FS_EmptySet DEF System, Games
    <3>6. /\ page_count'[1] = Cardinality(System(Upto(phys_avail', seg' - 1)))
          /\ page_count'[2] = Cardinality(Games(Upto(phys_avail', seg' - 1)))
      <4>1. seg' - 1 = 0 /\ page_count'[1] = 0 /\ page_count'[2] = 0
        BY <1>1, <1>4
      <4> QED
        BY <3>4, <3>5, <4>1
    <3>7. /\ System(Upto(phys_avail, seg - 1))' = System(Upto(phys_avail', seg' - 1))
          /\ Games(Upto(phys_avail, seg - 1))' = Games(Upto(phys_avail', seg' - 1))
      BY DEF System, Games, Upto
    <3>8. seg' \in 1 .. (Len(phys_avail') + 1)
      BY <1>1, <1>3, <2>4
    <3> QED
      BY <1>1, <1>4, <2>1, <2>6, <3>2, <3>3, <3>6, <3>7, <3>8 DEF Sums
  <2> QED
    BY <2>1, <2>5, <2>7, <2>8 DEF AvailInv, Seen
<1> QED
  BY <1>5, <1>6

LEMMA CountInv == ASSUME AvailInv, Count PROVE AvailInv'
<1>1. /\ pc = "count" /\ UNCHANGED <<physmap, holes, endPage, pa, phys_avail, physmem>>
  BY DEF Count, input
<1>2. AvailTypes /\ All /\ Sums
  BY DEF AvailInv
<1>3. /\ Good(phys_avail) /\ Len(phys_avail) \in 1 .. Cap /\ Cap \in Nat
      /\ pa \in Nat /\ endPage \in Nat /\ physmem \in Nat /\ seg \in Nat \ {0}
      /\ page_count = <<page_count[1], page_count[2]>>
      /\ phys_avail \in Seq(Ranges) /\ Len(phys_avail) \in Nat
  BY <1>2, IsGood DEF AvailTypes
<1>4. /\ IsFiniteSet(Pages(phys_avail)) /\ physmem = Cardinality(Pages(phys_avail)) + MsgBuf
      /\ seg \in 1 .. (Len(phys_avail) + 1)
      /\ page_count[1] = Cardinality(System(Upto(phys_avail, seg - 1)))
      /\ page_count[2] = Cardinality(Games(Upto(phys_avail, seg - 1)))
  BY <1>1, <1>2 DEF Sums
<1>5. Pages(phys_avail)' = Pages(phys_avail) /\ Available' = Available
  BY <1>1, Inputs DEF Pages
<1>6. CASE seg <= Len(phys_avail)
  <2>1. page_count' = CountSegment(phys_avail[seg]) /\ seg' = seg + 1 /\ pc' = pc
    BY <1>6 DEF Count
  <2> DEFINE R == phys_avail[seg].lo .. (phys_avail[seg].hi - 1)
  <2>2. /\ page_count' = <<page_count'[1], page_count'[2]>>
        /\ page_count'[1] = page_count[1] + Cardinality(System(R))
        /\ page_count'[2] = page_count[2] + Cardinality(Games(R))
    BY <2>1 DEF CountSegment, System, Games
  <2>3. seg \in 1 .. Len(phys_avail) /\ seg - 1 \in 0 .. Len(phys_avail)
    BY <1>3, <1>6
  <2>4. /\ Upto(phys_avail, seg) = Upto(phys_avail, seg - 1) \cup R
        /\ Upto(phys_avail, seg - 1) \cap R = {}
    BY <1>3, <2>3, CountedNext
  <2>5. IsFiniteSet(Upto(phys_avail, seg - 1)) /\ IsFiniteSet(R)
    <3>1. phys_avail[seg].lo \in Int /\ phys_avail[seg].hi \in Int
      BY <1>3, <2>3, Ends
    <3>2. IsFiniteSet(R)
      BY <3>1, RangeSize
    <3> QED
      BY <1>3, <1>4, <2>3, <3>2, UptoFinite
  <2> HIDE DEF R
  <2>6. PICK U : U = Upto(phys_avail, seg - 1)
    OBVIOUS
  <2>7. /\ System(U \cup R) = System(U) \cup System(R) /\ System(U) \cap System(R) = {}
        /\ Games(U \cup R) = Games(U) \cup Games(R) /\ Games(U) \cap Games(R) = {}
        /\ System(U) \subseteq U /\ System(R) \subseteq R
        /\ Games(U) \subseteq U /\ Games(R) \subseteq R
    BY <2>4, <2>6 DEF System, Games
  <2>8. /\ IsFiniteSet(System(U)) /\ IsFiniteSet(System(R))
        /\ IsFiniteSet(Games(U)) /\ IsFiniteSet(Games(R))
    BY <2>5, <2>6, <2>7, Part
  <2>9. Cardinality(System(U \cup R)) = Cardinality(System(U)) + Cardinality(System(R))
    BY <2>7, <2>8, Together
  <2>10. Cardinality(Games(U \cup R)) = Cardinality(Games(U)) + Cardinality(Games(R))
    BY <2>7, <2>8, Together
  <2>11. AvailTypes'
    <3>1. seg' \in Nat \ {0} /\ Len(phys_avail') <= Cap
      BY <1>1, <1>3, <2>1
    <3> QED
      BY <1>1, <1>2, <1>3, <2>1, <2>2, <3>1, TypesKept
  <2>12. seg' - 1 = seg /\ seg' \in 1 .. (Len(phys_avail) + 1)
    BY <1>3, <2>1, <2>3
  <2>13. /\ System(Upto(phys_avail, seg - 1))' = System(U \cup R)
         /\ Games(Upto(phys_avail, seg - 1))' = Games(U \cup R)
    BY <1>1, <2>4, <2>6, <2>12 DEF System, Games, Upto
  <2>14. Sums'
    BY <1>1, <1>4, <1>5, <2>1, <2>2, <2>6, <2>9, <2>10, <2>12, <2>13 DEF Sums
  <2>15. All'
    BY <1>1, <1>2, <1>5, <2>1 DEF All
  <2> QED
    BY <1>1, <2>1, <2>11, <2>14, <2>15 DEF AvailInv, Seen
<1>7. CASE ~(seg <= Len(phys_avail))
  <2>1. pc' \in {"done", "panic"} /\ UNCHANGED <<page_count, seg>>
    BY <1>7 DEF Count
  <2>2. AvailTypes'
    <3>1. Len(phys_avail') <= Cap
      BY <1>1, <1>3
    <3> QED
      BY <1>1, <1>2, <1>3, <2>1, <3>1, TypesKept
  <2>3. seg = Len(phys_avail) + 1
    BY <1>3, <1>4, <1>7
  <2>4. /\ System(Upto(phys_avail, seg - 1))' = System(Upto(phys_avail, seg - 1))
        /\ Games(Upto(phys_avail, seg - 1))' = Games(Upto(phys_avail, seg - 1))
    BY <1>1, <2>1 DEF System, Games, Upto
  <2>5. Sums'
    BY <1>1, <1>4, <1>5, <2>1, <2>3, <2>4 DEF Sums
  <2>6. All'
    BY <1>1, <1>2, <1>5, <2>1 DEF All
  <2> QED
    BY <2>1, <2>2, <2>5, <2>6 DEF AvailInv, Seen
<1> QED
  BY <1>6, <1>7

LEMMA AvailStep == AvailInv /\ [AvailNext]_availVars => AvailInv'
<1>1. ASSUME AvailInv, UNCHANGED availVars PROVE AvailInv'
  <2>1. UNCHANGED <<pc, physmap, holes, endPage, seg, pa, phys_avail, physmem, page_count>>
    BY <1>1 DEF availVars
  <2>2. /\ Pages(phys_avail)' = Pages(phys_avail) /\ Available' = Available
        /\ Last(phys_avail)' = Last(phys_avail) /\ Apart(phys_avail)' = Apart(phys_avail)
        /\ System(Upto(phys_avail, seg - 1))' = System(Upto(phys_avail, seg - 1))
        /\ Games(Upto(phys_avail, seg - 1))' = Games(Upto(phys_avail, seg - 1))
    BY <2>1, Inputs DEF Pages, Last, Apart, System, Games, Upto
  <2>3. AvailTypes'
    BY <1>1, <2>1, <2>2 DEF AvailInv, AvailTypes
  <2>4. Seen' /\ All'
    BY <1>1, <2>1, <2>2 DEF AvailInv, Seen, All
  <2>5. Sums'
    BY <1>1, <2>1, <2>2 DEF AvailInv, Sums
  <2> QED
    BY <2>3, <2>4, <2>5 DEF AvailInv
<1> QED
  BY <1>1, ScanInv, ScanEndsInv, TrimInv, CountInv DEF AvailNext

(* For any memory map in order, any holes and any size of phys_avail: what *)
(* setup hands to the VM is exactly the unused RAM below the message       *)
(* buffer, and Vm::new counts each page of it once.                        *)
THEOREM AvailExact == AvailSpec => []ExactlyTheUnused
<1>1. AvailInv => ExactlyTheUnused
  <2> SUFFICES ASSUME AvailInv PROVE ExactlyTheUnused
    OBVIOUS
  <2>1. /\ Good(phys_avail) /\ Len(phys_avail) \in Nat /\ phys_avail \in Seq(Ranges)
        /\ Apart(phys_avail)
    BY IsGood DEF AvailInv, AvailTypes
  <2>2. \A i \in 1 .. (Len(phys_avail) - 1) : phys_avail[i].hi < phys_avail[i + 1].lo
    <3> SUFFICES ASSUME NEW i \in 1 .. (Len(phys_avail) - 1)
                 PROVE  phys_avail[i].hi < phys_avail[i + 1].lo
      OBVIOUS
    <3>1. i \in 1 .. Len(phys_avail) /\ i + 1 \in 1 .. Len(phys_avail) /\ i < i + 1
      BY <2>1
    <3> QED
      BY <2>1, <3>1 DEF Apart
  <2>3. Scanned /\ Len(phys_avail) < Cap =>
          Pages(phys_avail) = {p \in Available : p < endPage - MsgBuf}
    BY DEF AvailInv, All, Scanned
  <2>4. ASSUME pc = "done"
        PROVE  /\ page_count[1] + page_count[2] + MsgBuf = physmem
               /\ page_count[2] = Cardinality({p \in Pages(phys_avail) : Game(p)})
    <3>1. /\ IsFiniteSet(Pages(phys_avail)) /\ physmem = Cardinality(Pages(phys_avail)) + MsgBuf
          /\ seg = Len(phys_avail) + 1
          /\ page_count[1] = Cardinality(System(Upto(phys_avail, seg - 1)))
          /\ page_count[2] = Cardinality(Games(Upto(phys_avail, seg - 1)))
      BY <2>4 DEF AvailInv, Sums
    <3>2. Upto(phys_avail, seg - 1) = Pages(phys_avail)
      <4>1. seg - 1 = Len(phys_avail)
        BY <2>1, <3>1
      <4> QED
        BY <2>1, <4>1, AllCounted
    <3>3. PICK P : P = Pages(phys_avail)
      OBVIOUS
    <3>4. /\ P = System(P) \cup Games(P) /\ System(P) \cap Games(P) = {}
          /\ System(P) \subseteq P /\ Games(P) \subseteq P
      BY DEF System, Games
    <3>5. IsFiniteSet(System(P)) /\ IsFiniteSet(Games(P))
      BY <3>1, <3>3, <3>4, Part
    <3>6. Cardinality(P) = Cardinality(System(P)) + Cardinality(Games(P))
      BY <3>4, <3>5, Together
    <3> QED
      BY <3>1, <3>2, <3>3, <3>6 DEF Games
  <2> QED
    BY <2>2, <2>3, <2>4 DEF ExactlyTheUnused
<1> QED
  BY <1>1, AvailStart, AvailStep, PTL DEF AvailSpec
=============================================================================

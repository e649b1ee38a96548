----------------------------- MODULE PageProofs -----------------------------
(***************************************************************************)
(* What callers of an address space see, page by page, and what the kernel *)
(* may rely on for the memory of a module.                                 *)
(***************************************************************************)
EXTENDS ModuleMemory, VmSpaceProofs

(* A call looks for the last allocation that begins at or below an         *)
(* address: there is one.  LastBelow proves it, at the end of the module.  *)
Lasts ==
    \A A : \A n \in Int :
        A # {} /\ (\A a \in A : a.addr \in Int /\ a.addr <= n) =>
            \E a \in A : \A b \in A : b.addr <= a.addr

(* Where the allocations are.                                              *)
LEMMA Stored ==
    ASSUME SpaceInv
    PROVE  /\ allocations \subseteq Alloc /\ Apart(allocations)
           /\ \A a \in allocations :
                 /\ a.addr \in Int /\ a.end \in Int /\ a.addr < a.end
                 /\ Extent(a) \subseteq Units
           /\ \A a, b \in allocations : a.addr < b.addr => a.end <= b.addr
  <1>1. \A a \in allocations : a \in Live /\ a \in Alloc
    BY DEF SpaceInv, Live
  <1>2. \A a \in allocations : a.addr \in Int /\ a.end \in Int
    BY <1>1 DEF Alloc
  <1>3. \A a \in allocations : a.addr < a.end /\ Extent(a) \subseteq Units
    BY <1>1 DEF SpaceInv, Placed
  <1>4. ASSUME NEW a \in allocations, NEW b \in allocations, a.addr < b.addr, b.addr < a.end
        PROVE  FALSE
    <2>1. b.addr \in Extent(a) /\ b.addr \in Extent(b)
      BY <1>2, <1>3, <1>4 DEF Extent
    <2>2. a # b
      BY <1>2, <1>4
    <2> QED
      BY <2>1, <2>2 DEF SpaceInv, Apart
  <1> QED
    BY <1>1, <1>2, <1>3, <1>4 DEF SpaceInv

(* StartFromMut: when there is an allocation at the first address, a call  *)
(* works on those that have a page in its range, and otherwise on none.    *)
Hit(lo, hi) == {a \in allocations : Extent(a) \cap (lo .. hi - 1) # {}}

LEMMA HitIs ==
    ASSUME Lasts, SpaceInv, NEW lo \in Int, NEW hi \in Int, lo < hi
    PROVE  \/ InRange(lo, hi) = {}
           \/ InRange(lo, hi) = Hit(lo, hi) /\ \E a \in allocations : lo \in Extent(a)
  <1> DEFINE below == {a \in allocations : a.addr <= lo}
             last == CHOOSE a \in below : \A b \in below : b.addr <= a.addr
  <1>1. \A a \in allocations : a.addr \in Int /\ a.end \in Int /\ a.addr < a.end
    BY Stored
  <1>2. StartFrom(lo) = IF below = {} \/ last.end <= lo THEN {}
                        ELSE {a \in allocations : a.addr >= last.addr}
    BY DEF StartFrom
  <1>3. below # {} => last \in below /\ \A b \in below : b.addr <= last.addr
    BY <1>1, Zenon DEF Lasts
  <1> HIDE DEF last
  <1>4. CASE below = {} \/ last.end <= lo
    BY <1>2, <1>4 DEF InRange
  <1>5. CASE ~(below = {} \/ last.end <= lo)
    <2>1. last \in allocations /\ last.addr <= lo /\ lo < last.end
      BY <1>1, <1>3, <1>5
    <2>2. lo \in Extent(last)
      BY <1>1, <2>1 DEF Extent
    <2>3. \A a \in allocations : a \in InRange(lo, hi) <=> last.addr <= a.addr /\ a.addr < hi
      BY <1>1, <1>2, <1>5, <2>1 DEF InRange
    <2>4. ASSUME NEW a \in allocations, last.addr <= a.addr, a.addr < hi PROVE a \in Hit(lo, hi)
      <3>1. CASE a.addr <= lo
        <4>1. a.addr = last.addr
          BY <1>1, <1>3, <1>5, <2>1, <2>4, <3>1
        <4>2. a.addr \in Extent(a) /\ a.addr \in Extent(last)
          BY <1>1, <2>1, <4>1 DEF Extent
        <4>3. a = last
          BY <2>1, <4>2, Stored DEF Apart
        <4>4. lo \in lo .. hi - 1
          OBVIOUS
        <4> QED
          BY <2>1, <2>2, <4>3, <4>4 DEF Hit
      <3>2. CASE ~(a.addr <= lo)
        <4>1. a.addr \in Extent(a) \cap (lo .. hi - 1)
          BY <1>1, <2>4, <3>2 DEF Extent
        <4> QED
          BY <4>1 DEF Hit
      <3> QED
        BY <3>1, <3>2
    <2>5. ASSUME NEW a \in Hit(lo, hi) PROVE last.addr <= a.addr /\ a.addr < hi
      <3>1. a \in allocations
        BY DEF Hit
      <3>2. PICK u : u \in Extent(a) \cap (lo .. hi - 1)
        BY DEF Hit
      <3>3. u \in Int /\ a.addr <= u /\ u < a.end /\ lo <= u /\ u < hi
        BY <1>1, <3>1, <3>2 DEF Extent
      <3>4. a.addr < last.addr => a.end <= last.addr
        BY <2>1, <3>1, Stored
      <3> QED
        BY <1>1, <2>1, <3>1, <3>3, <3>4
    <2>6. InRange(lo, hi) = Hit(lo, hi)
      BY <2>3, <2>4, <2>5, InRangeStored DEF Hit
    <2> QED
      BY <2>1, <2>2, <2>6
  <1> QED
    BY <1>4, <1>5

LEMMA HitSome ==
    ASSUME Lasts, SpaceInv, NEW lo \in Int, NEW hi \in Int, lo < hi,
           NEW c \in allocations, lo \in Extent(c)
    PROVE  InRange(lo, hi) # {}
  <1> DEFINE below == {a \in allocations : a.addr <= lo}
             last == CHOOSE a \in below : \A b \in below : b.addr <= a.addr
  <1>1. \A a \in allocations : a.addr \in Int /\ a.end \in Int /\ a.addr < a.end
    BY Stored
  <1>2. StartFrom(lo) = IF below = {} \/ last.end <= lo THEN {}
                        ELSE {a \in allocations : a.addr >= last.addr}
    BY DEF StartFrom
  <1>3. c \in below
    BY <1>1 DEF Extent
  <1>4. last \in below /\ \A b \in below : b.addr <= last.addr
    BY <1>1, <1>3, Zenon DEF Lasts
  <1> HIDE DEF last
  <1>5. last \in allocations /\ last.addr <= lo /\ c.addr <= last.addr /\ lo < c.end
    BY <1>1, <1>3, <1>4 DEF Extent
  <1>6. lo < last.end
    <2>1. last.addr \in Extent(c) /\ last.addr \in Extent(last)
      BY <1>1, <1>5 DEF Extent
    <2>2. last = c
      BY <1>5, <2>1, Stored DEF Apart
    <2> QED
      BY <1>5, <2>2
  <1>7. last \in StartFrom(lo) /\ last.addr < hi
    BY <1>1, <1>2, <1>3, <1>5, <1>6
  <1> QED
    BY <1>7 DEF InRange

(* The page at an address of a set of allocations.                         *)
PageIn(A, u) == PageOf({a \in A : u \in Extent(a)})

LEMMA PageIs ==
    ASSUME NEW A, A \subseteq Alloc, Apart(A), NEW u
    PROVE  /\ \A a \in A : u \in Extent(a) => PageIn(A, u) = [prot |-> a.prot, name |-> a.name]
           /\ (\A a \in A : u \notin Extent(a)) => PageIn(A, u) = Paged!Unmapped
           /\ PageIn(A, u) # Paged!Unmapped <=> \E a \in A : u \in Extent(a)
  <1> DEFINE S == {a \in A : u \in Extent(a)}
  <1>1. ASSUME NEW a \in A, u \in Extent(a)
        PROVE  PageIn(A, u) = [prot |-> a.prot, name |-> a.name]
    <2>1. \A b \in S : b = a
      BY <1>1 DEF Apart
    <2>2. (CHOOSE b \in S : TRUE) = a /\ S # {}
      BY <1>1, <2>1
    <2> QED
      BY <2>2, Zenon DEF PageIn, PageOf
  <1>2. (\A a \in A : u \notin Extent(a)) => PageIn(A, u) = Paged!Unmapped
    <2>1. (\A a \in A : u \notin Extent(a)) => S = {}
      OBVIOUS
    <2> QED
      BY <2>1 DEF PageIn, PageOf, Paged!Unmapped
  <1>3. ASSUME NEW a \in A, u \in Extent(a) PROVE PageIn(A, u) # Paged!Unmapped
    <2>1. PageIn(A, u).prot = a.prot
      BY <1>1, <1>3
    <2>2. Paged!Unmapped.prot = {"unmapped"}
      BY DEF Paged!Unmapped
    <2>3. a.prot \subseteq ALL
      BY DEF Alloc
    <2>4. "unmapped" \notin ALL
      BY DEF ALL, CPU_MASK
    <2> QED
      BY <2>1, <2>2, <2>3, <2>4
  <1> QED
    BY <1>1, <1>2, <1>3

LEMMA PageAtIs ==
    ASSUME NEW u
    PROVE  PageAt(u) = PageIn(allocations, u) /\ PageAt(u)' = PageIn(allocations', u)
  BY DEF PageAt, PageIn, PageOf, Extent

(* A recut changes the pages of the targets that are in the range, to what *)
(* the new parts say, and no others.                                       *)
LEMMA RecutPages ==
    ASSUME NEW A, NEW T, NEW K, NEW lo \in Int, NEW hi \in Int, lo <= hi,
           A \subseteq Alloc, T \subseteq A, Apart(A), \A a \in A : a.addr < a.end,
           Inside(K, T, lo, hi), NEW B, B = Recut(A, T, lo, hi, K)
    PROVE  /\ B \subseteq Alloc /\ Apart(B)
           /\ \A u : (\A a \in A : u \notin Extent(a)) => PageIn(B, u) = PageIn(A, u)
           /\ \A a \in A : \A u \in Extent(a) :
                 a \notin T \/ u \notin lo .. hi - 1 => PageIn(B, u) = PageIn(A, u)
           /\ \A k \in K : \A u \in Extent(k) :
                 PageIn(B, u) = [prot |-> k.prot, name |-> k.name]
           /\ K = {} => \A a \in T : \A u \in Extent(a) \cap (lo .. hi - 1) :
                 PageIn(B, u) = Paged!Unmapped
  <1>1. /\ \A b \in B : /\ b \in Alloc
                        /\ \E a \in A : Extent(b) \subseteq Extent(a)
                        /\ \/ b \in K
                           \/ \E a \in A :
                                 /\ Extent(b) \subseteq Extent(a)
                                 /\ a \in T => Extent(b) \cap (lo .. hi - 1) = {}
        /\ Apart(B)
    BY RecutIs
  <1>2. B \subseteq Alloc
    BY <1>1
  <1>3. ASSUME NEW u, \A a \in A : u \notin Extent(a) PROVE PageIn(B, u) = PageIn(A, u)
    <2>1. \A b \in B : u \notin Extent(b)
      BY <1>1, <1>3
    <2> QED
      BY <1>1, <1>2, <1>3, <2>1, PageIs
  <1>4. ASSUME NEW a \in A, NEW u \in Extent(a), a \notin T \/ u \notin lo .. hi - 1
        PROVE  PageIn(B, u) = PageIn(A, u)
    <2>1. \E b \in B : u \in Extent(b) /\ b.prot = a.prot /\ b.name = a.name
      <3>1. CASE a \notin T
        BY <3>1 DEF Recut
      <3>2. CASE a \in T
        <4>1. PICK b \in Outside(a, lo, hi) : u \in Extent(b)
          BY <1>4, <3>2, OutsideIs
        <4>2. b \in B
          BY <3>2, <4>1 DEF Recut
        <4>3. b.prot = a.prot /\ b.name = a.name
          BY OutsideIs
        <4> QED
          BY <4>1, <4>2, <4>3
      <3> QED
        BY <3>1, <3>2
    <2>2. PICK b \in B : u \in Extent(b) /\ b.prot = a.prot /\ b.name = a.name
      BY <2>1
    <2>3. PageIn(B, u) = [prot |-> b.prot, name |-> b.name]
      BY <1>1, <1>2, <2>2, PageIs
    <2>4. PageIn(A, u) = [prot |-> a.prot, name |-> a.name]
      BY PageIs
    <2> QED
      BY <2>2, <2>3, <2>4
  <1>5. ASSUME NEW k \in K, NEW u \in Extent(k)
        PROVE  PageIn(B, u) = [prot |-> k.prot, name |-> k.name]
    <2>1. k \in B
      BY DEF Recut
    <2> QED
      BY <1>1, <1>2, <2>1, PageIs
  <1>6. ASSUME K = {}, NEW a \in T, NEW u \in Extent(a) \cap (lo .. hi - 1)
        PROVE  PageIn(B, u) = Paged!Unmapped
    <2>1. ASSUME NEW b \in B, u \in Extent(b) PROVE FALSE
      <3>1. PICK c \in A : /\ Extent(b) \subseteq Extent(c)
                           /\ c \in T => Extent(b) \cap (lo .. hi - 1) = {}
        BY <1>1, <1>6
      <3>2. c = a
        BY <2>1, <3>1 DEF Apart
      <3> QED
        BY <2>1, <3>1, <3>2
    <2> QED
      BY <1>1, <1>2, <2>1, PageIs
  <1> QED
    BY <1>1, <1>2, <1>3, <1>4, <1>5, <1>6

(* mprotect and mname: each page of a target that is in the range becomes  *)
(* what f makes of it.                                                     *)
LEMMA UpdatePages ==
    ASSUME SpaceInv, NEW T, NEW K, NEW lo \in Int, NEW hi \in Int, lo <= hi, NEW f,
           T \subseteq allocations, Remade(K, T, lo, hi, f),
           allocations' = Recut(allocations, T, lo, hi, K)
    PROVE  /\ \A u : (\A a \in allocations : u \notin Extent(a)) => PageAt(u)' = PageAt(u)
           /\ \A a \in allocations : \A u \in Extent(a) :
                 a \notin T \/ u \notin lo .. hi - 1 => PageAt(u)' = PageAt(u)
           /\ \A a \in T : \A u \in Extent(a) \cap (lo .. hi - 1) :
                 \E b \in Alloc : /\ b.prot = a.prot /\ b.name = a.name
                                  /\ PageAt(u)' = [prot |-> f[b].prot, name |-> f[b].name]
  <1>1. /\ Inside(K, T, lo, hi)
        /\ \A a \in T : \A u \in Extent(a) \cap (lo .. hi - 1) : \E k \in K : u \in Extent(k)
        /\ \A k \in K : \E a \in T : \E b \in Alloc :
               /\ k = f[b] /\ b.prot = a.prot /\ b.name = a.name
               /\ Extent(k) = Extent(a) \cap (lo .. hi - 1)
    <2>1. Inside(K, T, lo, hi)
      BY RemadeIs
    <2>2. \A a \in T : \A u \in Extent(a) \cap (lo .. hi - 1) : \E k \in K : u \in Extent(k)
      BY RemadeIs
    <2>3. ASSUME NEW k \in K
          PROVE  \E a \in T : \E b \in Alloc :
                     /\ k = f[b] /\ b.prot = a.prot /\ b.name = a.name
                     /\ Extent(k) = Extent(a) \cap (lo .. hi - 1)
      <3>1. \E a \in T : \E b \in Alloc :
                /\ k = f[b]
                /\ b.storage = a.storage /\ b.prot = a.prot /\ b.name = a.name
                /\ Extent(k) = Extent(a) \cap (lo .. hi - 1)
        BY RemadeIs
      <3> QED
        BY <3>1, Zenon
    <2> QED
      BY <2>1, <2>2, <2>3, Zenon
  <1>2. /\ allocations \subseteq Alloc /\ Apart(allocations)
        /\ \A a \in allocations : a.addr < a.end
    BY Stored
  <1>3. PICK B : B = allocations'
    OBVIOUS
  <1>4. B = Recut(allocations, T, lo, hi, K)
    BY <1>3
  <1>5. /\ \A u : (\A a \in allocations : u \notin Extent(a)) => PageIn(B, u) = PageIn(allocations, u)
        /\ \A a \in allocations : \A u \in Extent(a) :
              a \notin T \/ u \notin lo .. hi - 1 => PageIn(B, u) = PageIn(allocations, u)
        /\ \A k \in K : \A u \in Extent(k) :
              PageIn(B, u) = [prot |-> k.prot, name |-> k.name]
    BY <1>1, <1>2, <1>4, RecutPages
  <1>6. \A u : PageAt(u) = PageIn(allocations, u) /\ PageAt(u)' = PageIn(B, u)
    BY <1>3, PageAtIs
  <1>7. ASSUME NEW a \in T, NEW u \in Extent(a) \cap (lo .. hi - 1)
        PROVE  \E b \in Alloc : /\ b.prot = a.prot /\ b.name = a.name
                                /\ PageIn(B, u) = [prot |-> f[b].prot, name |-> f[b].name]
    <2>1. PICK k \in K : u \in Extent(k)
      BY <1>1
    <2>2. PICK c \in T : \E b \in Alloc :
               /\ k = f[b] /\ b.prot = c.prot /\ b.name = c.name
               /\ Extent(k) = Extent(c) \cap (lo .. hi - 1)
      BY <1>1
    <2>3. c = a
      BY <1>2, <2>1, <2>2 DEF Apart
    <2> QED
      BY <1>5, <2>1, <2>2, <2>3
  <1> QED
    BY <1>5, <1>6, <1>7

(* update finds no gap between the first address and a page it changes.    *)
LEMMA NoGap ==
    ASSUME Lasts, SpaceInv, NEW lo \in Int, NEW hi \in Int, lo < hi,
           InRange(lo, hi) # {}, Contiguous(InRange(lo, hi)),
           NEW u \in lo .. hi - 1, NEW v \in lo .. u,
           \E a \in allocations : u \in Extent(a)
    PROVE  \E a \in allocations : v \in Extent(a)
  <1> SUFFICES ASSUME \A a \in allocations : v \notin Extent(a) PROVE FALSE
    OBVIOUS
  <1>1. InRange(lo, hi) = Hit(lo, hi) /\ \E a \in allocations : lo \in Extent(a)
    BY HitIs
  <1>2. \A a \in allocations : a.addr \in Int /\ a.end \in Int /\ a.addr < a.end
    BY Stored
  <1>3. u \in Int /\ v \in Int /\ lo <= v /\ v <= u /\ u < hi
    OBVIOUS
  <1> DEFINE A == {a \in Hit(lo, hi) : a.addr <= v}
  <1>4. PICK p \in allocations : lo \in Extent(p)
    BY <1>1
  <1>5. p \in A
    <2>1. lo \in lo .. hi - 1 /\ p.addr <= lo
      BY <1>2, <1>4 DEF Extent
    <2> QED
      BY <1>2, <1>3, <1>4, <2>1 DEF Hit
  <1>6. \A a \in A : a \in allocations /\ a.addr \in Int /\ a.addr <= v
    BY <1>2 DEF Hit
  <1> HIDE DEF A
  <1>7. PICK c \in A : \A b \in A : b.addr <= c.addr
    BY <1>3, <1>5, <1>6 DEF Lasts
  <1>8. c.end <= v
    BY <1>2, <1>3, <1>6 DEF Extent
  <1>9. PICK q \in allocations : u \in Extent(q)
    OBVIOUS
  <1>10. q.addr <= u /\ u < q.end
    BY <1>2, <1>3, <1>9 DEF Extent
  <1>11. q \in Hit(lo, hi)
    BY <1>9 DEF Hit
  <1>12. q.addr > v
    BY <1>2, <1>3, <1>9, <1>10 DEF Extent
  <1>13. PICK b \in Hit(lo, hi) : b.addr = c.end
    <2>1. c \in Hit(lo, hi) /\ q.addr > c.addr
      BY <1>2, <1>3, <1>6, <1>9, <1>12 DEF A
    <2> QED
      BY <1>1, <1>11, <2>1 DEF Contiguous
  <1>14. b \in A /\ b.addr > c.addr
    BY <1>2, <1>6, <1>8, <1>13 DEF A
  <1> QED
    BY <1>2, <1>6, <1>7, <1>14

(* mprotect, page by page.                                                 *)
LEMMA MprotectPages ==
    ASSUME Lasts, SpaceInv, NEW first \in Int, NEW len \in Nat, NEW prot \in SUBSET ALL,
           mprotect(first, len, prot),
           NEW end, end = align_virtual_page(first + len)
    PROVE  /\ end \in Int /\ first < end
           /\ InRange(first, end) # {} /\ Contiguous(InRange(first, end))
           /\ \A u : PageAt(u)' =
                 IF u \in first .. end - 1 /\ PageAt(u) # Paged!Unmapped
                 THEN [prot |-> prot, name |-> PageAt(u).name] ELSE PageAt(u)
  <1>1. end \in Int /\ first < end
    BY AlignUp DEF mprotect, Aligned
  <1>2. InRange(first, end) # {} /\ Contiguous(InRange(first, end))
    BY DEF mprotect, update
  <1>3. InRange(first, end) = Hit(first, end)
    BY <1>1, <1>2, HitIs
  <1>4. PICK T : T = {a \in Hit(first, end) : a.prot # prot}
    BY Zenon
  <1>5. PICK K : K = UNION {{[a EXCEPT !.prot = prot] : a \in Part(b, first, end)} : b \in T}
    BY Zenon
  <1>6. PICK f : f = [b \in Alloc |-> [b EXCEPT !.prot = prot]]
    OBVIOUS
  <1>7. T \subseteq allocations
    BY <1>4 DEF Hit
  <1>8. allocations' = Recut(allocations, T, first, end, K)
    BY <1>3, <1>4, <1>5 DEF mprotect, update, Recut
  <1>9. Remade(K, T, first, end, f)
    BY <1>1, <1>5, <1>6, <1>7, ProtectRemade, Zenon
  <1>10. \A b \in Alloc : f[b].prot = prot /\ f[b].name = b.name
    BY <1>6 DEF Alloc
  <1>11. /\ \A u : (\A a \in allocations : u \notin Extent(a)) => PageAt(u)' = PageAt(u)
         /\ \A a \in allocations : \A u \in Extent(a) :
               a \notin T \/ u \notin first .. end - 1 => PageAt(u)' = PageAt(u)
         /\ \A a \in T : \A u \in Extent(a) \cap (first .. end - 1) :
               \E b \in Alloc : /\ b.prot = a.prot /\ b.name = a.name
                                /\ PageAt(u)' = [prot |-> f[b].prot, name |-> f[b].name]
    BY <1>1, <1>7, <1>8, <1>9, UpdatePages
  <1>12. ASSUME NEW u
         PROVE  PageAt(u)' = IF u \in first .. end - 1 /\ PageAt(u) # Paged!Unmapped
                             THEN [prot |-> prot, name |-> PageAt(u).name] ELSE PageAt(u)
    <2>1. /\ \A a \in allocations : u \in Extent(a) => PageAt(u) = [prot |-> a.prot, name |-> a.name]
          /\ PageAt(u) # Paged!Unmapped <=> \E a \in allocations : u \in Extent(a)
      BY PageIs, PageAtIs, Stored
    <2>2. CASE \A a \in allocations : u \notin Extent(a)
      BY <1>11, <2>1, <2>2
    <2>3. ASSUME NEW a \in allocations, u \in Extent(a), u \notin first .. end - 1
          PROVE  PageAt(u)' = PageAt(u)
      BY <1>11, <2>3
    <2>4. ASSUME NEW a \in allocations, u \in Extent(a), u \in first .. end - 1
          PROVE  PageAt(u)' = [prot |-> prot, name |-> a.name]
      <3>1. a \in Hit(first, end)
        BY <2>4 DEF Hit
      <3>2. CASE a.prot = prot
        <4>1. a \notin T
          BY <1>4, <3>2
        <4> QED
          BY <1>11, <2>1, <2>4, <3>2, <4>1
      <3>3. CASE a.prot # prot
        <4>1. a \in T
          BY <1>4, <3>1, <3>3
        <4> QED
          BY <1>10, <1>11, <2>4, <4>1
      <3> QED
        BY <3>2, <3>3
    <2> QED
      BY <2>1, <2>2, <2>3, <2>4
  <1> QED
    BY <1>1, <1>2, <1>12
LEMMA MnamePages ==
    ASSUME Lasts, SpaceInv, NEW first \in Int, NEW len \in Nat, NEW name \in AllNames,
           mname(first, len, name),
           NEW end, end = align_virtual_page(first + len)
    PROVE  /\ end \in Int /\ first < end
           /\ InRange(first, end) # {} /\ Contiguous(InRange(first, end))
           /\ \A u : PageAt(u)' =
                 IF u \in first .. end - 1 /\ PageAt(u) # Paged!Unmapped
                 THEN [prot |-> PageAt(u).prot, name |-> name] ELSE PageAt(u)
  <1>1. end \in Int /\ first < end
    BY AlignUp DEF mname, Aligned
  <1>2. InRange(first, end) # {} /\ Contiguous(InRange(first, end))
    BY DEF mname, update
  <1>3. InRange(first, end) = Hit(first, end)
    BY <1>1, <1>2, HitIs
  <1>4. PICK T : T = {a \in Hit(first, end) : a.name # name}
    BY Zenon
  <1>5. PICK K : K = UNION {{[a EXCEPT !.name = name] : a \in Part(b, first, end)} : b \in T}
    OBVIOUS
  <1>6. PICK f : f = [b \in Alloc |-> [b EXCEPT !.name = name]]
    BY Zenon
  <1>7. T \subseteq allocations
    BY <1>4 DEF Hit
  <1>8. allocations' = Recut(allocations, T, first, end, K)
    BY <1>3, <1>4, <1>5 DEF mname, update, Recut
  <1>9. Remade(K, T, first, end, f)
    BY <1>1, <1>5, <1>6, <1>7, NameRemade, Zenon
  <1>10. \A b \in Alloc : f[b].prot = b.prot /\ f[b].name = name
    BY <1>6 DEF Alloc
  <1>11. /\ \A u : (\A a \in allocations : u \notin Extent(a)) => PageAt(u)' = PageAt(u)
         /\ \A a \in allocations : \A u \in Extent(a) :
               a \notin T \/ u \notin first .. end - 1 => PageAt(u)' = PageAt(u)
         /\ \A a \in T : \A u \in Extent(a) \cap (first .. end - 1) :
               \E b \in Alloc : /\ b.prot = a.prot /\ b.name = a.name
                                /\ PageAt(u)' = [prot |-> f[b].prot, name |-> f[b].name]
    BY <1>1, <1>7, <1>8, <1>9, UpdatePages
  <1>12. ASSUME NEW u
         PROVE  PageAt(u)' = IF u \in first .. end - 1 /\ PageAt(u) # Paged!Unmapped
                             THEN [prot |-> PageAt(u).prot, name |-> name] ELSE PageAt(u)
    <2>1. /\ \A a \in allocations : u \in Extent(a) => PageAt(u) = [prot |-> a.prot, name |-> a.name]
          /\ PageAt(u) # Paged!Unmapped <=> \E a \in allocations : u \in Extent(a)
      BY PageIs, PageAtIs, Stored
    <2>2. CASE \A a \in allocations : u \notin Extent(a)
      BY <1>11, <2>1, <2>2
    <2>3. ASSUME NEW a \in allocations, u \in Extent(a), u \notin first .. end - 1
          PROVE  PageAt(u)' = PageAt(u)
      BY <1>11, <2>3
    <2>4. ASSUME NEW a \in allocations, u \in Extent(a), u \in first .. end - 1
          PROVE  PageAt(u)' = [prot |-> a.prot, name |-> name]
      <3>1. a \in Hit(first, end)
        BY <2>4 DEF Hit
      <3>2. CASE a.name = name
        <4>1. a \notin T
          BY <1>4, <3>2
        <4> QED
          BY <1>11, <2>1, <2>4, <3>2, <4>1
      <3>3. CASE a.name # name
        <4>1. a \in T
          BY <1>4, <3>1, <3>3
        <4> QED
          BY <1>10, <1>11, <2>4, <4>1
      <3> QED
        BY <3>2, <3>3
    <2> QED
      BY <2>1, <2>2, <2>3, <2>4
  <1> QED
    BY <1>1, <1>2, <1>12

(* munmap, page by page: the pages of the range are unmapped if the first  *)
(* is mapped, and nothing happens otherwise.                               *)
LEMMA MunmapPages ==
    ASSUME Lasts, SpaceInv, NEW first \in Int, NEW len \in Nat, munmap(first, len),
           NEW end, end = align_virtual_page(first + len)
    PROVE  /\ end \in Int /\ first < end
           /\ \/ /\ \A a \in allocations : first \notin Extent(a)
                 /\ \A u : PageAt(u)' = PageAt(u)
              \/ /\ \E a \in allocations : first \in Extent(a)
                 /\ \A u : PageAt(u)' = IF u \in first .. end - 1 THEN Paged!Unmapped
                                                                   ELSE PageAt(u)
  <1>1. end \in Int /\ first < end
    BY AlignUp DEF munmap, Aligned
  <1>2. PICK T : T = InRange(first, end)
    OBVIOUS
  <1>3. T \subseteq allocations
    BY <1>2, InRangeStored
  <1>4. PICK B : B = allocations'
    OBVIOUS
  <1>5. B = Recut(allocations, T, first, end, {})
    BY <1>2, <1>4 DEF munmap, Recut
  <1>6. /\ allocations \subseteq Alloc /\ Apart(allocations)
        /\ \A a \in allocations : a.addr < a.end
    BY Stored
  <1>7. Inside({}, T, first, end)
    BY DEF Inside, Apart
  <1>8. /\ \A u : (\A a \in allocations : u \notin Extent(a)) =>
              PageIn(B, u) = PageIn(allocations, u)
        /\ \A a \in allocations : \A u \in Extent(a) :
              a \notin T \/ u \notin first .. end - 1 => PageIn(B, u) = PageIn(allocations, u)
        /\ \A a \in T : \A u \in Extent(a) \cap (first .. end - 1) :
              PageIn(B, u) = Paged!Unmapped
    BY <1>1, <1>3, <1>5, <1>6, <1>7, RecutPages
  <1>9. \A u : PageAt(u) = PageIn(allocations, u) /\ PageAt(u)' = PageIn(B, u)
    BY <1>4, PageAtIs
  <1>10. CASE T = {}
    <2>1. \A a \in allocations : first \notin Extent(a)
      BY <1>1, <1>2, <1>10, HitSome
    <2> QED
      BY <1>1, <1>8, <1>9, <1>10, <2>1
  <1>11. CASE T # {}
    <2>1. T = Hit(first, end) /\ \E a \in allocations : first \in Extent(a)
      BY <1>1, <1>2, <1>11, HitIs
    <2>2. ASSUME NEW u
          PROVE  PageIn(B, u) = IF u \in first .. end - 1 THEN Paged!Unmapped
                                                           ELSE PageIn(allocations, u)
      <3>1. CASE \A a \in allocations : u \notin Extent(a)
        BY <1>6, <1>8, <3>1, PageIs
      <3>2. ASSUME NEW a \in allocations, u \in Extent(a), u \notin first .. end - 1
            PROVE  PageIn(B, u) = PageIn(allocations, u)
        BY <1>8, <3>2
      <3>3. ASSUME NEW a \in allocations, u \in Extent(a), u \in first .. end - 1
            PROVE  PageIn(B, u) = Paged!Unmapped
        <4>1. a \in T
          BY <2>1, <3>3 DEF Hit
        <4> QED
          BY <1>8, <3>3, <4>1
      <3> QED
        BY <3>1, <3>2, <3>3
    <2> QED
      BY <1>1, <1>9, <2>1, <2>2
  <1> QED
    BY <1>10, <1>11

(* The insertion at the end of mmap, page by page.                         *)
LEMMA InsertPages ==
    ASSUME SpaceInv, NEW t \in Threads, NEW a \in pending[t],
           allocations' = allocations \cup {a}
    PROVE  /\ a \in Alloc /\ a.addr < a.end /\ Extent(a) \subseteq Units
           /\ \A b \in allocations : Extent(b) \cap Extent(a) = {}
           /\ \A u : PageAt(u)' = IF u \in Extent(a) THEN [prot |-> a.prot, name |-> a.name]
                                                     ELSE PageAt(u)
  <1>1. a \in Alloc /\ a \in Live /\ \A b \in allocations : b \in Live /\ b # a
    BY DEF SpaceInv, Live, Fresh
  <1>2. a.addr < a.end /\ Extent(a) \subseteq Units
    BY <1>1 DEF SpaceInv, Placed
  <1>3. \A b \in allocations : Extent(b) \cap Extent(a) = {}
    BY <1>1, SpaceDisjoint DEF Disjoint
  <1>4. allocations \subseteq Alloc /\ Apart(allocations)
    BY Stored
  <1>5. PICK B : B = allocations'
    OBVIOUS
  <1>6. B \subseteq Alloc /\ Apart(B) /\ B = allocations \cup {a}
    BY <1>1, <1>3, <1>4, <1>5 DEF Apart
  <1>7. ASSUME NEW u
        PROVE  PageIn(B, u) = IF u \in Extent(a) THEN [prot |-> a.prot, name |-> a.name]
                                                 ELSE PageIn(allocations, u)
    <2>1. CASE u \in Extent(a)
      BY <1>6, <2>1, PageIs
    <2>2. CASE u \notin Extent(a)
      <3>1. {b \in B : u \in Extent(b)} = {b \in allocations : u \in Extent(b)}
        BY <1>6, <2>2
      <3> QED
        BY <2>2, <3>1, Zenon DEF PageIn
    <2> QED
      BY <2>1, <2>2
  <1>8. \A u : PageAt(u) = PageIn(allocations, u) /\ PageAt(u)' = PageIn(B, u)
    BY <1>5, PageAtIs
  <1> QED
    BY <1>1, <1>2, <1>3, <1>7, <1>8

-----------------------------------------------------------------------------
(* The pages that a range of a caller touches.                             *)

LEMMA Quotient ==
    ASSUME NEW x \in Int, NEW d \in Nat \ {0}, x % d = 0
    PROVE  \E k \in Int : x = d * k
  <1>1. x \div d \in Int /\ x = d * (x \div d) + (x % d)
    OBVIOUS
  <1>2. x = d * (x \div d)
    BY <1>1
  <1> QED
    BY <1>1, <1>2, Zenon

(* Rounding up does not go past a page boundary.                           *)
LEMMA AlignBelow ==
    ASSUME NEW u \in Int, NEW x \in Int, u <= x, x % PAGE = 0
    PROVE  align_virtual_page(u) <= x
  <1>1. PAGE \in Nat /\ PAGE > 0 /\ PAGE \in Nat \ {0}
    BY VmAssumption
  <1>2. PICK q \in Int, r \in 0 .. PAGE - 1 : u = PAGE * q + r /\ r = u % PAGE
    <2>1. u = PAGE * (u \div PAGE) + (u % PAGE) /\ u \div PAGE \in Int /\ u % PAGE \in 0 .. PAGE - 1
      BY <1>1
    <2> QED
      BY <2>1
  <1>3. PICK k \in Int : x = PAGE * k
    BY <1>1, Quotient
  <1>4. CASE r = 0
    <2>1. (PAGE - r) % PAGE = 0
      BY <1>1, <1>4
    <2> QED
      BY <1>2, <2>1 DEF align_virtual_page
  <1>5. CASE r # 0
    <2>1. (PAGE - r) % PAGE = PAGE - r
      BY <1>1, <1>2, <1>5
    <2>2. align_virtual_page(u) = PAGE * q + PAGE
      BY <1>1, <1>2, <2>1 DEF align_virtual_page
    <2>3. PAGE * k > PAGE * q
      BY <1>1, <1>2, <1>3, <1>5
    <2>4. k > q
      BY <1>1, <2>3
    <2>5. PAGE * k >= PAGE * (q + 1)
      BY <1>1, <2>4
    <2> QED
      BY <1>1, <1>3, <2>2, <2>5
  <1> QED
    BY <1>4, <1>5

LEMMA NextMultiple ==
    ASSUME NEW i \in Int, NEW j \in Int, PAGE * i < PAGE * j
    PROVE  PAGE * i + PAGE <= PAGE * j
  <1>1. PAGE \in Nat /\ PAGE > 0
    BY VmAssumption
  <1>2. i < j
    BY <1>1
  <1>3. i + 1 <= j
    BY <1>2
  <1>4. PAGE * (i + 1) <= PAGE * j
    BY <1>1, <1>3
  <1> QED
    BY <1>1, <1>4

LEMMA PageStartIs ==
    ASSUME NEW u \in Int
    PROVE  \E k \in Int : PageStart(u) = PAGE * k /\ PAGE * k <= u /\ u < PAGE * k + PAGE
  <1>1. PAGE \in Nat /\ PAGE > 0
    BY VmAssumption
  <1>2. u = PAGE * (u \div PAGE) + (u % PAGE) /\ u \div PAGE \in Int /\ u % PAGE \in 0 .. PAGE - 1
    BY <1>1
  <1>3. PICK k \in Int, r \in 0 .. PAGE - 1 : u = PAGE * k + r /\ r = u % PAGE
    BY <1>2
  <1>4. PAGE * k \in Int
    BY <1>1
  <1>5. PageStart(u) = PAGE * k /\ PAGE * k <= u /\ u < PAGE * k + PAGE
    BY <1>1, <1>3, <1>4 DEF PageStart
  <1> QED
    BY <1>5

LEMMA AlignIs ==
    ASSUME NEW u \in Int
    PROVE  \E k \in Int : align_virtual_page(u) = PAGE * k
  <1>1. PAGE \in Nat /\ PAGE > 0
    BY VmAssumption
  <1>2. PICK k \in Int : PageStart(u) = PAGE * k
    BY PageStartIs
  <1>3. u % PAGE \in 0 .. PAGE - 1 /\ PAGE * k \in Int /\ PAGE * (k + 1) = PAGE * k + PAGE
    BY <1>1
  <1>4. u = PAGE * k + (u % PAGE)
    BY <1>2, <1>3 DEF PageStart
  <1>5. CASE u % PAGE = 0
    <2>1. (PAGE - (u % PAGE)) % PAGE = 0
      BY <1>1, <1>5
    <2> QED
      BY <1>3, <1>4, <1>5, <2>1 DEF align_virtual_page
  <1>6. CASE u % PAGE # 0
    <2>1. (PAGE - (u % PAGE)) % PAGE = PAGE - (u % PAGE)
      BY <1>1, <1>3, <1>6
    <2>2. align_virtual_page(u) = PAGE * (k + 1)
      BY <1>1, <1>3, <1>4, <2>1 DEF align_virtual_page
    <2> QED
      BY <2>2
  <1> QED
    BY <1>5, <1>6

(* They are those up to the first boundary that is not before its end.     *)
LEMMA TouchedIs ==
    ASSUME NEW addr \in Int, NEW len \in Int, NEW k \in Int, NEW end \in Int, end = PAGE * k,
           addr + len <= end, end < addr + len + PAGE
    PROVE  Touched(addr, len) = Units \cap (PageStart(addr) .. end - 1)
  <1>1. PAGE \in Nat /\ PAGE > 0 /\ Units \subseteq Int
    BY VmAssumption DEF Units
  <1>2. PICK i \in Int : PageStart(addr) = PAGE * i
    BY PageStartIs
  <1>3. ASSUME NEW u \in Units
        PROVE  (PageStart(addr) <= PageStart(u) /\ PageStart(u) < addr + len)
                 <=> u \in PageStart(addr) .. end - 1
    <2>1. PICK j \in Int : PageStart(u) = PAGE * j /\ PAGE * j <= u /\ u < PAGE * j + PAGE
      BY <1>1, PageStartIs
    <2>2. PICK x \in Int, y \in Int, z \in Int : x = PAGE * i /\ y = PAGE * j /\ z = PAGE * k
      BY <1>1
    <2>3. (y < x => y + PAGE <= x) /\ (y < z => y + PAGE <= z)
      BY <2>2, NextMultiple
    <2>4. y <= u /\ u < y + PAGE /\ end = z /\ u \in Int
      BY <1>1, <2>1, <2>2
    <2>5. (x <= y /\ y < addr + len) <=> u \in x .. z - 1
      BY <1>1, <2>3, <2>4
    <2> QED
      BY <1>2, <2>1, <2>2, <2>4, <2>5
  <1> QED
    BY <1>3 DEF Touched

(* The range of munmap and mprotect, which begins at a page.               *)
LEMMA TouchedByCall ==
    ASSUME NEW first \in Int, NEW len \in Nat, Aligned(first, len),
           NEW end, end = align_virtual_page(first + len)
    PROVE  Touched(first, len) = Units \cap (first .. end - 1)
  <1>1. PICK k \in Int : end = PAGE * k
    BY AlignIs
  <1>2. end \in Int /\ first + len <= end /\ end < first + len + PAGE
    BY AlignUp
  <1>3. PageStart(first) = first
    BY DEF PageStart, Aligned
  <1> QED
    BY <1>1, <1>2, <1>3, TouchedIs

(* The range of sys_mname, which is rounded to pages.                      *)
LEMMA TouchedByName ==
    ASSUME NEW addr \in Int, NEW len \in Nat, NEW r, r = addr % PAGE,
           NEW end, end = align_virtual_page(addr - r + align_virtual_page(r + len))
    PROVE  Touched(addr, len) = Units \cap (addr - r .. end - 1)
  <1>1. PAGE \in Nat /\ PAGE > 0 /\ r \in Int /\ addr - r = PageStart(addr)
    BY VmAssumption DEF PageStart
  <1>2. PICK i \in Int : PageStart(addr) = PAGE * i
    BY PageStartIs
  <1>3. PICK j \in Int : align_virtual_page(r + len) = PAGE * j
    <2>1. r + len \in Int
      BY <1>1
    <2> QED
      BY <2>1, AlignIs, Zenon
  <1>4. PICK x \in Int, y \in Int : x = PAGE * i /\ y = PAGE * j
    BY <1>1
  <1>5. r + len <= y /\ y < r + len + PAGE
    BY <1>1, <1>3, <1>4, AlignUp
  <1>6. end = align_virtual_page(x + y) /\ addr - r = x
    BY <1>1, <1>2, <1>3, <1>4
  <1>7. PICK k \in Int : end = PAGE * k
    BY <1>6, AlignIs
  <1>8. end \in Int /\ x + y <= end /\ end < x + y + PAGE
    BY <1>6, AlignUp
  <1>9. x + y = PAGE * (i + j)
    BY <1>1, <1>4
  <1>10. ~(x + y < end)
    <2>1. i + j \in Int
      OBVIOUS
    <2>2. x + y < end => x + y + PAGE <= end
      BY <1>7, <1>9, <2>1, NextMultiple
    <2> QED
      BY <1>1, <1>8, <2>2
  <1>11. addr + len <= end /\ end < addr + len + PAGE
    BY <1>1, <1>5, <1>6, <1>8, <1>10
  <1> QED
    <2>1. Touched(addr, len) = Units \cap (PageStart(addr) .. end - 1)
      BY <1>7, <1>8, <1>11, TouchedIs
    <2> QED
      BY <1>1, <2>1

-----------------------------------------------------------------------------
(* The calls as steps of PageMap.                                          *)

Seen == [u \in Units |-> PageAt(u)]

LEMMA PagedStep ==
    ASSUME Paged!Call(Seen, Seen', call')
    PROVE  Paged!Next
  BY DEF Paged!Next, Seen

LEMMA SeenMapped ==
    ASSUME SpaceInv
    PROVE  /\ \A u \in Units : u \in Paged!Mapped(Seen) <=> \E a \in allocations : u \in Extent(a)
           /\ \A u \in Units : u \in Paged!Mapped(Seen) <=> PageAt(u) # Paged!Unmapped
           /\ \A u \in Units : Seen[u] = PageAt(u) /\ Seen'[u] = PageAt(u)'
           /\ Seen' = [u \in Units |-> PageAt(u)']
           /\ Paged!Mapped(Seen) \subseteq Units /\ Paged!Pages = Units
  <1>1. Paged!Pages = Units
    BY DEF Paged!Pages, Units
  <1>2. \A u \in Units : Seen[u] = PageAt(u) /\ Seen'[u] = PageAt(u)'
    BY DEF Seen
  <1>3. \A u \in Units : PageAt(u) # Paged!Unmapped <=> \E a \in allocations : u \in Extent(a)
    BY PageIs, PageAtIs, Stored
  <1>4. Paged!Mapped(Seen) = {u \in Units : Seen[u] # Paged!Unmapped}
    BY <1>1 DEF Paged!Mapped
  <1>5. Seen' = [u \in Units |-> PageAt(u)']
    BY DEF Seen
  <1> QED
    BY <1>1, <1>2, <1>3, <1>4, <1>5

(* What a call on a range finds: all that is mapped if the first page is,  *)
(* and nothing otherwise.                                                  *)
LEMMA FoundAll ==
    ASSUME SpaceInv, NEW first \in Int, NEW end \in Int, first < end,
           NEW S, S = Units \cap (first .. end - 1),
           NEW a \in allocations, first \in Extent(a)
    PROVE  /\ first \in Paged!Found(Seen, S)
           /\ \A u \in Units : u \in Paged!Found(Seen, S) <=>
                 u \in first .. end - 1 /\ PageAt(u) # Paged!Unmapped
  <1>1. first \in Units
    BY Stored
  <1>2. first \in S /\ first \in Paged!Mapped(Seen) /\ \A v \in S : first <= v
    BY <1>1, SeenMapped
  <1>3. Paged!Found(Seen, S) = S \cap Paged!Mapped(Seen)
    BY <1>2, Zenon DEF Paged!Found
  <1> QED
    BY <1>2, <1>3, SeenMapped

LEMMA FoundNone ==
    ASSUME SpaceInv, NEW first \in Units, NEW end \in Int, first < end,
           NEW S, S = Units \cap (first .. end - 1),
           \A a \in allocations : first \notin Extent(a)
    PROVE  Paged!Found(Seen, S) = {}
  <1>1. first \in Int
    BY DEF Units
  <1>2. first \in S /\ first \notin Paged!Mapped(Seen)
    BY <1>1, SeenMapped
  <1>3. ASSUME NEW f \in S \cap Paged!Mapped(Seen), \A v \in S : f <= v PROVE FALSE
    <2>1. f <= first /\ first <= f /\ f \in Int
      BY <1>1, <1>2, <1>3
    <2> QED
      BY <1>1, <1>2, <1>3, <2>1
  <1> QED
    BY <1>3, Zenon DEF Paged!Found

(* update, on a range without a gap.                                       *)
LEMMA UpdateFinds ==
    ASSUME Lasts, SpaceInv, NEW first \in Int, NEW end \in Int, first < end,
           InRange(first, end) # {}, Contiguous(InRange(first, end)),
           NEW S, S = Units \cap (first .. end - 1)
    PROVE  /\ Paged!Whole(Seen, S)
           /\ \A u \in Units : u \in Paged!Found(Seen, S) <=>
                 u \in first .. end - 1 /\ PageAt(u) # Paged!Unmapped
  <1>1. PICK a \in allocations : first \in Extent(a)
    BY HitIs
  <1>2. /\ first \in Paged!Found(Seen, S)
        /\ \A u \in Units : u \in Paged!Found(Seen, S) <=>
              u \in first .. end - 1 /\ PageAt(u) # Paged!Unmapped
    BY <1>1, FoundAll
  <1>3. ASSUME NEW u \in Paged!Found(Seen, S), NEW v \in S, v <= u
        PROVE  v \in Paged!Mapped(Seen)
    <2>1. u \in Units /\ u \in Paged!Mapped(Seen) /\ u \in first .. end - 1
      BY <1>2, <1>3, SeenMapped DEF Paged!Found
    <2>2. v \in Units /\ v \in first .. u
      BY <1>3, <2>1
    <2>3. \E c \in allocations : u \in Extent(c)
      BY <2>1, SeenMapped
    <2>4. \E c \in allocations : v \in Extent(c)
      BY <2>1, <2>2, <2>3, NoGap
    <2> QED
      BY <2>2, <2>4, SeenMapped
  <1> QED
    BY <1>2, <1>3, Zenon DEF Paged!Whole

LEMMA MprotectStep ==
    ASSUME Lasts, SpaceInv, NEW first \in Int, NEW len \in Nat, NEW prot \in SUBSET ALL,
           mprotect(first, len, prot)
    PROVE  Paged!Next
  <1>1. PICK end : end = align_virtual_page(first + len)
    OBVIOUS
  <1>2. /\ end \in Int /\ first < end
        /\ InRange(first, end) # {} /\ Contiguous(InRange(first, end))
        /\ \A u : PageAt(u)' = IF u \in first .. end - 1 /\ PageAt(u) # Paged!Unmapped
                               THEN [prot |-> prot, name |-> PageAt(u).name] ELSE PageAt(u)
    BY <1>1, MprotectPages
  <1>3. PICK S : S = Touched(first, len)
    OBVIOUS
  <1>4. S = Units \cap (first .. end - 1)
    BY <1>1, <1>3, TouchedByCall DEF mprotect
  <1>5. call'.op = "protect" /\ call'.on = S /\ call'.page.prot = prot
    BY <1>3 DEF mprotect, Calls
  <1>6. PICK F : F = Paged!Found(Seen, S)
    OBVIOUS
  <1>7. /\ Paged!Whole(Seen, S)
        /\ \A u \in Units : u \in F <=> u \in first .. end - 1 /\ PageAt(u) # Paged!Unmapped
    BY <1>2, <1>4, <1>6, UpdateFinds
  <1>8. Seen' = [u \in Units |->
            IF u \in F THEN [prot |-> prot, name |-> Seen[u].name] ELSE Seen[u]]
    BY <1>2, <1>7, SeenMapped
  <1>9. Paged!Protect(Seen, Seen', call')
    BY <1>5, <1>6, <1>7, <1>8, SeenMapped DEF Paged!Protect
  <1> QED
    BY <1>9, PagedStep DEF Paged!Call

LEMMA MnameStep ==
    ASSUME Lasts, SpaceInv, NEW addr \in Int, NEW len \in Nat, NEW name \in AllNames,
           sys_mname(addr, len, name)
    PROVE  Paged!Next
  <1>a. PICK r : r = addr % PAGE
    OBVIOUS
  <1>b. PAGE \in Nat \ {0}
    BY VmAssumption
  <1>c. r \in Nat /\ addr - r \in Int /\ r + len \in Nat
    BY <1>a, <1>b
  <1>d. PICK first, n : first = addr - r /\ n = align_virtual_page(r + len)
    OBVIOUS
  <1>e. first \in Int /\ n \in Nat
    BY <1>c, <1>d, AlignUp
  <1>f. mname(first, n, name)
    BY <1>a, <1>d, Zenon DEF sys_mname
  <1>1. PICK end : end = align_virtual_page(first + n)
    OBVIOUS
  <1>2. /\ end \in Int /\ first < end
        /\ InRange(first, end) # {} /\ Contiguous(InRange(first, end))
        /\ \A u : PageAt(u)' = IF u \in first .. end - 1 /\ PageAt(u) # Paged!Unmapped
                               THEN [prot |-> PageAt(u).prot, name |-> name] ELSE PageAt(u)
    BY <1>1, <1>e, <1>f, MnamePages
  <1>3. PICK S : S = Touched(addr, len)
    OBVIOUS
  <1>4. S = Units \cap (first .. end - 1)
    BY <1>1, <1>3, <1>a, <1>d, TouchedByName
  <1>5. call'.op = "name" /\ call'.on = S /\ call'.page.name = name
    BY <1>3 DEF sys_mname, Calls
  <1>6. PICK F : F = Paged!Found(Seen, S)
    OBVIOUS
  <1>7. /\ Paged!Whole(Seen, S)
        /\ \A u \in Units : u \in F <=> u \in first .. end - 1 /\ PageAt(u) # Paged!Unmapped
    BY <1>2, <1>4, <1>6, <1>e, UpdateFinds
  <1>8. Seen' = [u \in Units |->
            IF u \in F THEN [prot |-> Seen[u].prot, name |-> name] ELSE Seen[u]]
    BY <1>2, <1>7, SeenMapped
  <1>9. Paged!Name(Seen, Seen', call')
    BY <1>5, <1>6, <1>7, <1>8, SeenMapped DEF Paged!Name
  <1> QED
    BY <1>9, PagedStep DEF Paged!Call

LEMMA MunmapStep ==
    ASSUME Lasts, SpaceInv, NEW first \in Units, NEW len \in Nat, munmap(first, len)
    PROVE  Paged!Next
  <1>a. first \in Int
    BY DEF Units
  <1>1. PICK end : end = align_virtual_page(first + len)
    OBVIOUS
  <1>2. /\ end \in Int /\ first < end
        /\ \/ /\ \A a \in allocations : first \notin Extent(a)
              /\ \A u : PageAt(u)' = PageAt(u)
           \/ /\ \E a \in allocations : first \in Extent(a)
              /\ \A u : PageAt(u)' = IF u \in first .. end - 1 THEN Paged!Unmapped
                                                                ELSE PageAt(u)
    BY <1>1, <1>a, MunmapPages
  <1>3. PICK S : S = Touched(first, len)
    OBVIOUS
  <1>4. S = Units \cap (first .. end - 1)
    BY <1>1, <1>3, <1>a, TouchedByCall DEF munmap
  <1>5. call'.op = "unmap" /\ call'.on = S
    BY <1>3 DEF munmap, Calls
  <1>6. PICK F : F = Paged!Found(Seen, S)
    OBVIOUS
  <1>7. Seen' = [u \in Units |-> IF u \in F THEN Paged!Unmapped ELSE Seen[u]]
    <2>1. CASE \E a \in allocations : first \in Extent(a)
      <3>1. \A u \in Units : u \in F <=> u \in first .. end - 1 /\ PageAt(u) # Paged!Unmapped
        BY <1>2, <1>4, <1>6, <1>a, <2>1, FoundAll
      <3> QED
        BY <1>2, <2>1, <3>1, SeenMapped
    <2>2. CASE \A a \in allocations : first \notin Extent(a)
      <3>1. F = {}
        BY <1>2, <1>4, <1>6, <2>2, FoundNone
      <3> QED
        BY <1>2, <2>2, <3>1, SeenMapped
    <2> QED
      BY <2>1, <2>2
  <1>8. Paged!Unmap(Seen, Seen', call')
    BY <1>5, <1>6, <1>7, SeenMapped DEF Paged!Unmap
  <1> QED
    BY <1>8, PagedStep DEF Paged!Call

LEMMA InsertStep ==
    ASSUME SpaceInv, NEW t \in Threads, insert(t)
    PROVE  Paged!Next
  <1>1. PICK a \in pending[t] :
            allocations' = allocations \cup {a} /\ Calls("map", Extent(a), a.prot, a.name)
    BY Zenon DEF insert
  <1>2. /\ a \in Alloc /\ a.addr < a.end /\ Extent(a) \subseteq Units
        /\ \A b \in allocations : Extent(b) \cap Extent(a) = {}
        /\ \A u : PageAt(u)' = IF u \in Extent(a) THEN [prot |-> a.prot, name |-> a.name]
                                                  ELSE PageAt(u)
    BY <1>1, InsertPages
  <1>3. PICK S : S = Extent(a)
    BY Zenon
  <1>4. /\ call'.op = "map" /\ call'.on = S
        /\ call'.page = [prot |-> a.prot, name |-> a.name]
    BY <1>1, <1>3 DEF Calls
  <1>5. S \subseteq Paged!Pages \ Paged!Mapped(Seen)
    BY <1>2, <1>3, SeenMapped, Zenon
  <1>6. Seen' = [u \in Units |->
            IF u \in S THEN [prot |-> a.prot, name |-> a.name] ELSE Seen[u]]
    BY <1>2, <1>3, SeenMapped
  <1>7. Paged!Map(Seen, Seen', call')
    BY <1>4, <1>5, <1>6, SeenMapped DEF Paged!Map
  <1> QED
    BY <1>7, PagedStep DEF Paged!Call

LEMMA SameAllocations ==
    ASSUME allocations' = allocations
    PROVE  Seen' = Seen
  BY DEF Seen, PageAt

(* Every step of an address space is a call of PageMap, or not seen.       *)
LEMMA SpaceStep ==
    ASSUME Lasts, IInv, [Next]_vars
    PROVE  Paged!Next \/ (Seen' = Seen /\ call' = call)
  <1>1. SpaceInv
    BY DEF IInv
  <1>2. CASE new
    <2>1. CASE allocations' = allocations /\ call' = call
      BY <2>1, SameAllocations
    <2>2. ASSUME NEW t \in Threads, insert(t) PROVE Paged!Next
      BY <1>1, <2>2, InsertStep
    <2>3. ASSUME NEW a \in allocations, mprotect(a.addr, PAGE, {}) PROVE Paged!Next
      <3>1. a.addr \in Int /\ PAGE \in Nat /\ {} \in SUBSET ALL
        BY <1>1, VmAssumption DEF SpaceInv, Alloc
      <3> QED
        BY <1>1, <2>3, <3>1, MprotectStep
    <2> QED
      BY <1>2, <2>1, <2>2, <2>3, Zenon DEF new, alloc
  <1>3. CASE Locked
    <2>1. PICK addr \in Units, len \in Lens :
              \/ munmap(addr, len)
              \/ \E prot \in Prots : mprotect(addr, len, prot)
              \/ \E name \in Names : sys_mname(addr, len, name)
      BY <1>3 DEF Locked
    <2>2. addr \in Int /\ len \in Nat /\ Prots \subseteq SUBSET ALL
      BY VmAssumption DEF Units
    <2>3. CASE munmap(addr, len)
      BY <1>1, <2>2, <2>3, MunmapStep
    <2>4. ASSUME NEW prot \in Prots, mprotect(addr, len, prot) PROVE Paged!Next
      BY <1>1, <2>2, <2>4, MprotectStep
    <2>5. ASSUME NEW name \in Names, sys_mname(addr, len, name) PROVE Paged!Next
      <3>1. name \in AllNames
        BY Zenon DEF AllNames
      <3> QED
        BY <1>1, <2>2, <2>5, <3>1, MnameStep
    <2> QED
      BY <2>1, <2>3, <2>4, <2>5
  <1>4. ASSUME NEW t \in Threads, mmap(t) PROVE Paged!Next \/ (Seen' = Seen /\ call' = call)
    <2>1. CASE allocations' = allocations /\ call' = call
      BY <2>1, SameAllocations
    <2>2. CASE insert(t)
      BY <1>1, <2>2, InsertStep
    <2> QED
      BY <1>4, <2>1, <2>2, Zenon DEF mmap, alloc
  <1>5. CASE UNCHANGED vars
    BY <1>5, SameAllocations DEF vars
  <1> QED
    BY <1>2, <1>3, <1>4, <1>5 DEF Next

-----------------------------------------------------------------------------
(* The memory of a module: arithmetic of pages and of segments.            *)

(* The host memory that alloc asks for has room for the length from its    *)
(* first virtual page on.                                                  *)
LEMMA AllocRoom ==
    ASSUME NEW x \in Int, x % GRAN = 0, NEW n \in Int
    PROVE  align_virtual_page(x) + n <= x + Asks(n)
  <1>1. PAGE \in Nat /\ PAGE > 0 /\ GRAN \in Nat /\ GRAN > 0
    BY VmAssumption
  <1>2. PAGE % GRAN = 0 \/ GRAN % PAGE = 0
    BY VmAssumption
  <1>3. PICK k \in Int : x = GRAN * k
    BY <1>1, Quotient
  <1>4. PICK q \in Int, r \in 0 .. PAGE - 1 : x = PAGE * q + r /\ r = x % PAGE
    <2>1. x = PAGE * (x \div PAGE) + (x % PAGE) /\ x \div PAGE \in Int /\ x % PAGE \in 0 .. PAGE - 1
      BY <1>1
    <2> QED
      BY <2>1
  <1>5. CASE r = 0
    <2>1. (PAGE - r) % PAGE = 0
      BY <1>1, <1>5
    <2>2. align_virtual_page(x) = x
      BY <1>4, <2>1 DEF align_virtual_page
    <2> QED
      BY <1>1, <2>2 DEF Asks
  <1>6. CASE r # 0
    <2>1. GRAN < PAGE
      <3> SUFFICES ASSUME GRAN >= PAGE PROVE FALSE
        BY <1>1
      <3>1. GRAN % PAGE = 0
        <4>1. CASE GRAN = PAGE
          BY <1>1, <4>1
        <4>2. CASE GRAN > PAGE
          <5>1. PAGE % GRAN = PAGE
            BY <1>1, <4>2
          <5> QED
            BY <1>1, <1>2, <5>1
        <4> QED
          BY <1>1, <4>1, <4>2
      <3>2. PICK g \in Int : GRAN = PAGE * g
        BY <1>1, <3>1, Quotient
      <3>3. PICK j \in Int : j = g * k - q
        OBVIOUS
      <3>4. r = PAGE * j
        <4>1. r = PAGE * g * k - PAGE * q
          BY <1>1, <1>3, <1>4, <3>2
        <4> QED
          BY <1>1, <3>3, <4>1
      <3>5. j > 0 /\ j < 1
        BY <1>1, <1>4, <1>6, <3>4
      <3> QED
        BY <3>5
    <2>2. PAGE % GRAN = 0
      <3>1. GRAN % PAGE = GRAN
        BY <1>1, <2>1
      <3> QED
        BY <1>1, <1>2, <3>1
    <2>3. PICK p \in Int : PAGE = GRAN * p
      BY <1>1, <2>2, Quotient
    <2>4. PICK j \in Int : j = k - p * q
      OBVIOUS
    <2>5. r = GRAN * j
      <3>1. r = GRAN * k - GRAN * p * q
        BY <1>1, <1>3, <1>4, <2>3
      <3> QED
        BY <1>1, <2>4, <3>1
    <2>6. j >= 1
      <3> SUFFICES ASSUME j <= 0 PROVE FALSE
        OBVIOUS
      <3>1. GRAN * j <= 0
        BY <1>1
      <3>2. r <= 0
        BY <2>5, <3>1
      <3>3. r >= 1
        BY <1>1, <1>6
      <3> QED
        BY <3>2, <3>3
    <2>7. r >= GRAN
      BY <1>1, <2>5, <2>6
    <2>8. (PAGE - r) % PAGE = PAGE - r
      BY <1>1, <1>4, <1>6
    <2>9. align_virtual_page(x) = x + (PAGE - r)
      BY <1>4, <2>8 DEF align_virtual_page
    <2> QED
      BY <1>1, <1>4, <2>1, <2>7, <2>9 DEF Asks
  <1> QED
    BY <1>5, <1>6

-----------------------------------------------------------------------------
(* The invariant about the memory of a module.                             *)

SegmentType == [start : Nat, len : Nat, prot : SUBSET ALL]

\* What is known of the calls that are not finished: only VmSpace::new has
\* one before the address space is up, and the room that Memory::new asked
\* for is enough.
CallsInv ==
    /\ boot \in {"stack", "guard", "up"}
    /\ boot # "up" => state = "none"
    /\ boot = "stack" => \A t, u \in Threads : pending[t] # {} /\ pending[u] # {} => t = u
    /\ boot = "guard" => \A t \in Threads : pending[t] = {}
    /\ boot = "up" /\ state = "none" =>
          \A a \in pending[Loader] : Loadable(image) /\ a.addr + ModuleLen(image) <= a.end

Exists == state \in {"new", "ready"}

\* Segments are protected from the lowest to the highest, each at the
\* start of a page.
DoneInv ==
    /\ image \in Images /\ ptr \in Int
    /\ done \subseteq Segments(image)
    /\ state = "none" => done = {}
    /\ state = "ready" => done = Segments(image)
    /\ \A s \in done : s.len # 0 /\ (ptr + s.start) % PAGE = 0
    /\ \A s \in done, r \in Segments(image) \ done : s.start <= r.start

GuardInv ==
    /\ guards \subseteq SUBSET Segments(image)
    /\ \A G, H \in guards : G # H => G \cap H = {}
    /\ state # "ready" => guards = {}

MappedInv ==
    Exists => /\ Loadable(image)
              /\ \A u \in ptr .. ptr + ModuleLen(image) - 1 : PageAt(u) # Paged!Unmapped

Right(s) == IF s \in UNION guards THEN RW ELSE s.prot

ProtInv == Exists => \A s \in done : \A u \in SegmentUnits(s) : PageAt(u).prot = Right(s)

ModInv == IInv /\ CallsInv /\ DoneInv /\ GuardInv /\ MappedInv /\ ProtInv

-----------------------------------------------------------------------------
(* The segments of a module.                                               *)

LEMMA ImageIs ==
    ASSUME NEW im \in Images
    PROVE  /\ im.base \in Nat
           /\ \A p \in im.programs :
                 /\ p.addr \in Nat /\ p.len \in Nat /\ p.len > 0 /\ p.prot \in SUBSET ALL
  BY ModuleAssumption

(* A Loadable image has few programs, so that one of them is the last.     *)
LEMMA LastProgram ==
    ASSUME NEW im \in Images, Loadable(im)
    PROVE  \E q \in im.programs : \A p \in im.programs : p.addr + p.len <= q.addr + q.len
  <1>1. PICK text, data \in im.programs :
            \A p \in im.programs \ {text, data} : p.ty = "PT_SCE_RELRO"
    BY DEF Loadable
  <1>2. \A p \in im.programs : p.addr + p.len \in Int
    BY ImageIs
  <1>3. CASE im.programs \ {text, data} = {}
    <2>1. \A p \in im.programs : p = text \/ p = data
      BY <1>3
    <2> QED
      BY <1>1, <1>2, <2>1
  <1>4. CASE im.programs \ {text, data} # {}
    <2>1. PICK r \in im.programs : r \notin {text, data}
      BY <1>4, Zenon
    <2>2. \A p \in im.programs : p = text \/ p = data \/ p = r
      BY <1>1, <2>1, Zenon DEF Loadable
    <2> QED
      BY <1>1, <1>2, <2>2
  <1> QED
    BY <1>3, <1>4, Zenon

LEMMA ProgEndIs ==
    ASSUME NEW im \in Images, Loadable(im)
    PROVE  /\ ProgEnd(im) \in Nat
           /\ \A p \in im.programs : im.base + p.addr + p.len <= ProgEnd(im)
  <1>1. PICK q \in im.programs : \A p \in im.programs : p.addr + p.len <= q.addr + q.len
    BY LastProgram
  <1> DEFINE E == {p.addr + p.len : p \in im.programs}
  <1>2. PICK n : n = CHOOSE m \in E : \A p \in im.programs : p.addr + p.len <= m
    OBVIOUS
  <1>3. n \in E /\ \A p \in im.programs : p.addr + p.len <= n
    <2>1. \E m \in E : \A p \in im.programs : p.addr + p.len <= m
      BY <1>1
    <2> QED
      BY <1>2, <2>1
  <1>4. ProgEnd(im) = im.base + n
    BY <1>2 DEF ProgEnd
  <1>5. im.base \in Nat /\ \A p \in im.programs : p.addr \in Nat /\ p.len \in Nat
    BY ImageIs
  <1>6. n \in Nat
    BY <1>3, <1>5
  <1> QED
    BY <1>3, <1>4, <1>5, <1>6

(* No two segments share a page, those of the file come before the two     *)
(* workspaces, and all of them are within the module.                      *)
LEMMA SegmentsAre ==
    ASSUME NEW im \in Images, Loadable(im)
    PROVE  /\ Segments(im) \subseteq SegmentType
           /\ ProgEnd(im) \in Nat /\ ModuleLen(im) \in Nat /\ ModuleLen(im) # 0
           /\ ProgEnd(im) # 0
           /\ \A s \in Segments(im) : s.start + s.len <= ModuleLen(im)
           /\ \A s \in FileSegments(im) : s.start + s.len <= ProgEnd(im)
           /\ \A s \in Segments(im) \ FileSegments(im) : s.start >= ProgEnd(im)
           /\ \A s, r \in Segments(im) :
                 s # r => s.start + s.len <= r.start \/ r.start + r.len <= s.start
  <1>1. /\ ProgEnd(im) \in Nat
        /\ \A p \in im.programs : im.base + p.addr + p.len <= ProgEnd(im)
    BY ProgEndIs
  <1>2. /\ im.base \in Nat
        /\ \A p \in im.programs :
              /\ p.addr \in Nat /\ p.len \in Nat /\ p.len > 0 /\ p.prot \in SUBSET ALL
    BY ImageIs
  <1>3. OBCODE \in Nat /\ OBDATA \in Nat
    BY ModuleAssumption, Zenon
  <1>4. \A s \in FileSegments(im) : \E p \in im.programs :
            s.start = im.base + p.addr /\ s.len = p.len /\ s.prot = p.prot /\
            s = [start |-> im.base + p.addr, len |-> p.len, prot |-> p.prot]
    BY DEF FileSegments
  <1>5. \A s \in FileSegments(im) :
            s \in SegmentType /\ s.start + s.len <= ProgEnd(im)
    BY <1>1, <1>2, <1>4 DEF SegmentType
  <1>6. /\ CodeSegment(im) \in SegmentType /\ CodeSegment(im).start = ProgEnd(im)
        /\ CodeSegment(im).len = OBCODE
    BY <1>1, <1>3, Zenon DEF CodeSegment, SegmentType, ALL, CPU_MASK
  <1>7. /\ DataSegment(im) \in SegmentType /\ DataSegment(im).start = ProgEnd(im) + OBCODE
        /\ DataSegment(im).len = OBDATA
    BY <1>1, <1>3 DEF DataSegment, SegmentType, RW, ALL, CPU_MASK
  <1>8. ModuleLen(im) = ProgEnd(im) + OBCODE + OBDATA
    BY Zenon DEF ModuleLen
  <1>9. ProgEnd(im) # 0
    <2>1. PICK p \in im.programs : TRUE
      BY Zenon DEF Loadable
    <2> QED
      BY <1>1, <1>2, <2>1
  <1>10. \A s, r \in FileSegments(im) :
            s # r => s.start + s.len <= r.start \/ r.start + r.len <= s.start
    <2> SUFFICES ASSUME NEW s \in FileSegments(im), NEW r \in FileSegments(im), s # r
                 PROVE  s.start + s.len <= r.start \/ r.start + r.len <= s.start
      BY Zenon
    <2>1. PICK p \in im.programs : s = [start |-> im.base + p.addr, len |-> p.len, prot |-> p.prot]
      BY <1>4, Zenon
    <2>2. PICK q \in im.programs : r = [start |-> im.base + q.addr, len |-> q.len, prot |-> q.prot]
      BY <1>4, Zenon
    <2>3. p # q
      BY <2>1, <2>2, Zenon
    <2>4. p.addr + p.len <= q.addr \/ q.addr + q.len <= p.addr
      BY <2>3 DEF Loadable
    <2> QED
      BY <1>2, <2>1, <2>2, <2>4
  <1>11. \A s \in Segments(im) : s \in FileSegments(im) \/ s = CodeSegment(im) \/ s = DataSegment(im)
    BY DEF Segments
  <1>12. \A s \in FileSegments(im) : s.start \in Nat /\ s.len \in Nat
    BY <1>5, Zenon DEF SegmentType
  <1> HIDE DEF CodeSegment, DataSegment, FileSegments
  <1>13. ASSUME NEW s \in Segments(im) PROVE s.start + s.len <= ModuleLen(im)
    <2>1. CASE s \in FileSegments(im)
      <3>1. s.start + s.len <= ProgEnd(im) /\ s.start + s.len \in Int
        BY <1>5, <1>12, <2>1
      <3> QED
        BY <1>1, <1>3, <1>8, <3>1
    <2>2. CASE s = CodeSegment(im)
      BY <1>1, <1>3, <1>6, <1>8, <2>2
    <2>3. CASE s = DataSegment(im)
      BY <1>1, <1>3, <1>7, <1>8, <2>3
    <2> QED
      BY <1>11, <2>1, <2>2, <2>3, Zenon
  <1>14. \A s \in Segments(im) \ FileSegments(im) : s.start >= ProgEnd(im)
    BY <1>1, <1>3, <1>6, <1>7, <1>11
  <1>16. Segments(im) \subseteq SegmentType
    BY <1>5, <1>6, <1>7, <1>11, Zenon
  <1>17. \A s \in Segments(im) : s.start \in Nat /\ s.len \in Nat
    BY <1>16, Zenon DEF SegmentType
  <1>15. \A s, r \in Segments(im) :
                 s # r => s.start + s.len <= r.start \/ r.start + r.len <= s.start
    <2> SUFFICES ASSUME NEW s \in Segments(im), NEW r \in Segments(im), s # r
                 PROVE  s.start + s.len <= r.start \/ r.start + r.len <= s.start
      OBVIOUS
    <2>1. CASE s \in FileSegments(im) /\ r \in FileSegments(im)
      BY <1>10, <2>1, Zenon
    <2>2. CASE s \in FileSegments(im) /\ r \notin FileSegments(im)
      <3>1. s.start + s.len <= ProgEnd(im) /\ r.start >= ProgEnd(im)
        BY <1>5, <1>14, <2>2, Zenon
      <3>2. s.start \in Nat /\ s.len \in Nat /\ r.start \in Nat
        BY <1>17, Zenon
      <3> QED
        BY <1>1, <3>1, <3>2
    <2>3. CASE r \in FileSegments(im) /\ s \notin FileSegments(im)
      <3>1. r.start + r.len <= ProgEnd(im) /\ s.start >= ProgEnd(im)
        BY <1>5, <1>14, <2>3, Zenon
      <3>2. r.start \in Nat /\ r.len \in Nat /\ s.start \in Nat
        BY <1>17, Zenon
      <3> QED
        BY <1>1, <3>1, <3>2
    <2>4. CASE s \notin FileSegments(im) /\ r \notin FileSegments(im)
      BY <1>1, <1>3, <1>6, <1>7, <1>11, <2>4
    <2> QED
      BY <2>1, <2>2, <2>3, <2>4, Zenon
  <1> QED
    BY <1>1, <1>3, <1>5, <1>8, <1>9, <1>13, <1>14, <1>15, <1>16

-----------------------------------------------------------------------------
(* A segment that exists is mapped.                                        *)
LEMMA SegmentMapped ==
    ASSUME ModInv, Exists, NEW s \in Segments(image), NEW u \in SegmentUnits(s)
    PROVE  u \in ptr .. ptr + ModuleLen(image) - 1 /\ PageAt(u) # Paged!Unmapped
  <1>1. image \in Images /\ ptr \in Int /\ Loadable(image)
    BY Zenon DEF ModInv, DoneInv, MappedInv
  <1>2. /\ s.start \in Nat /\ s.len \in Nat /\ ModuleLen(image) \in Nat
        /\ s.start + s.len <= ModuleLen(image)
    BY <1>1, SegmentsAre DEF SegmentType
  <1>3. u \in ptr .. ptr + ModuleLen(image) - 1
    BY <1>1, <1>2 DEF SegmentUnits
  <1> QED
    BY <1>3 DEF ModInv, MappedInv

(* A step that leaves the mapped pages mapped, and protected as they were. *)
LEMMA Kept ==
    ASSUME ModInv, IInv', CallsInv', UNCHANGED modvars,
           \A u : PageAt(u) # Paged!Unmapped =>
               PageAt(u)' # Paged!Unmapped /\ PageAt(u)'.prot = PageAt(u).prot
    PROVE  ModInv'
  <1>1. DoneInv'
    BY DEF ModInv, DoneInv, modvars
  <1>2. GuardInv'
    BY DEF ModInv, GuardInv, modvars
  <1>3. MappedInv'
    BY DEF ModInv, MappedInv, modvars, Exists
  <1>4. ProtInv'
    <2> SUFFICES ASSUME Exists', NEW s \in done', NEW u \in SegmentUnits(s)'
                 PROVE  PageAt(u)'.prot = Right(s)'
      BY Zenon DEF ProtInv
    <2>1. Exists /\ s \in done /\ s \in Segments(image) /\ u \in SegmentUnits(s)
      BY DEF ModInv, DoneInv, modvars, Exists, SegmentUnits
    <2>2. PageAt(u) # Paged!Unmapped
      BY <2>1, SegmentMapped, Zenon
    <2>3. PageAt(u).prot = Right(s)
      BY <2>1 DEF ModInv, ProtInv
    <2>4. Right(s)' = Right(s)
      BY Zenon DEF Right, modvars
    <2> QED
      BY <2>2, <2>3, <2>4, Zenon
  <1> QED
    BY <1>1, <1>2, <1>3, <1>4, Zenon DEF ModInv

(* mprotect on a part of the module, for the segments S that it covers.    *)
LEMMA ProtectSegments ==
    ASSUME Lasts, ModInv, Exists, NEW first \in Nat, NEW len \in Nat, NEW prot \in SUBSET ALL,
           mprotect(ptr + first, len, prot), image' = image, ptr' = ptr,
           done' \subseteq Segments(image), NEW S,
           \A s \in S : first <= s.start /\ s.start + s.len <= first + len,
           \A s \in done' \cap S : Right(s)' = prot,
           \A s \in done' \ S :
               /\ s \in done /\ Right(s)' = Right(s)
               /\ \/ s.start + s.len <= first
                  \/ align_virtual_page(ptr + first + len) <= ptr + s.start
    PROVE  MappedInv' /\ ProtInv' /\ len # 0 /\ (ptr + first) % PAGE = 0
  <1>1. image \in Images /\ ptr \in Int /\ Loadable(image) /\ SpaceInv
    BY DEF ModInv, DoneInv, MappedInv, IInv
  <1>2. len # 0 /\ (ptr + first) % PAGE = 0
    BY DEF mprotect, Aligned
  <1>3. PICK end : end = align_virtual_page((ptr + first) + len)
    OBVIOUS
  <1>4. ptr + first \in Int /\ (ptr + first) + len \in Int
    BY <1>1
  <1>5. /\ end \in Int
        /\ \A u : PageAt(u)' =
               IF u \in ptr + first .. end - 1 /\ PageAt(u) # Paged!Unmapped
               THEN [prot |-> prot, name |-> PageAt(u).name] ELSE PageAt(u)
    BY <1>1, <1>3, <1>4, MprotectPages
  <1>6. (ptr + first) + len <= end
    BY <1>3, <1>4, AlignUp, Zenon
  <1>7. prot # {"unmapped"}
    BY Zenon DEF ALL, CPU_MASK
  <1>8. \A u : PageAt(u) # Paged!Unmapped => PageAt(u)' # Paged!Unmapped
    BY <1>5, <1>7, Zenon DEF Paged!Unmapped
  <1>9. MappedInv'
    BY <1>1, <1>8, Zenon DEF ModInv, MappedInv
  <1>10. ProtInv'
    <2> SUFFICES ASSUME NEW s \in done', NEW u \in SegmentUnits(s)'
                 PROVE  PageAt(u)'.prot = Right(s)'
      BY Zenon DEF ProtInv
    <2>1. s \in Segments(image) /\ u \in SegmentUnits(s)
      BY Zenon DEF SegmentUnits
    <2>2. PageAt(u) # Paged!Unmapped
      BY <2>1, SegmentMapped, Zenon
    <2>3. /\ s.start \in Nat /\ s.len \in Nat /\ u \in Int
          /\ ptr + s.start <= u /\ u < ptr + s.start + s.len
      BY <1>1, <2>1, SegmentsAre DEF SegmentType, SegmentUnits
    <2>4. CASE s \in S
      <3>1. u \in ptr + first .. end - 1
        BY <1>1, <1>5, <1>6, <2>3, <2>4
      <3> QED
        BY <1>5, <2>2, <2>4, <3>1, Zenon
    <2>5. CASE s \notin S
      <3>1. \/ s.start + s.len <= first
            \/ end <= ptr + s.start
        <4>1. ptr + first + len = (ptr + first) + len
          BY Zenon
        <4> QED
          BY <1>3, <2>5, <4>1, Zenon
      <3>2. u \notin ptr + first .. end - 1
        BY <1>1, <1>5, <2>3, <3>1
      <3>3. PageAt(u)' = PageAt(u)
        BY <1>5, <3>2, Zenon
      <3>4. PageAt(u).prot = Right(s)
        BY <2>1, <2>5, Zenon DEF ModInv, ProtInv
      <3> QED
        BY <2>5, <3>3, <3>4, Zenon
    <2> QED
      BY <2>4, <2>5, Zenon
  <1> QED
    BY <1>2, <1>9, <1>10, Zenon

(* Once all segments are protected, rounding up one does not reach another. *)
LEMMA OtherSegments ==
    ASSUME ModInv, state = "ready", NEW r \in Segments(image), NEW n \in Nat, n <= r.start
    PROVE  align_virtual_page(ptr + n) <= ptr + r.start
  <1>1. image \in Images /\ ptr \in Int /\ Loadable(image)
    BY Zenon DEF ModInv, DoneInv, MappedInv, Exists
  <1>2. r.start \in Nat
    BY <1>1, SegmentsAre DEF SegmentType
  <1>3. (ptr + r.start) % PAGE = 0
    BY DEF ModInv, DoneInv
  <1>4. ptr + n \in Int /\ ptr + r.start \in Int /\ ptr + n <= ptr + r.start
    BY <1>1, <1>2
  <1> QED
    BY <1>3, <1>4, AlignBelow, Zenon

(* A guard is taken or given back: the segments S, and no others, get the  *)
(* protection prot.                                                        *)
LEMMA GuardStep ==
    ASSUME Lasts, ModInv, state = "ready", NEW first \in Nat, NEW len \in Nat, NEW prot \in SUBSET ALL,
           mprotect(ptr + first, len, prot),
           UNCHANGED <<pending, boot, image, state, ptr, done>>,
           NEW S, S \subseteq Segments(image),
           \A s \in S : first <= s.start /\ s.start + s.len <= first + len,
           \A r \in Segments(image) \ S : r.start + r.len <= first \/ first + len <= r.start,
           GuardInv', \A s \in S : Right(s)' = prot,
           \A r \in Segments(image) \ S : Right(r)' = Right(r)
    PROVE  ModInv'
  <1>1. /\ image \in Images /\ ptr \in Int /\ Loadable(image) /\ IInv /\ Exists
        /\ done = Segments(image)
    BY Zenon DEF ModInv, DoneInv, MappedInv, Exists
  <1>2. \A r \in Segments(image) \ S :
            \/ r.start + r.len <= first
            \/ align_virtual_page(ptr + first + len) <= ptr + r.start
    <2> SUFFICES ASSUME NEW r \in Segments(image) \ S, first + len <= r.start
                 PROVE  align_virtual_page(ptr + first + len) <= ptr + r.start
      OBVIOUS
    <2>1. align_virtual_page(ptr + (first + len)) <= ptr + r.start
      BY OtherSegments
    <2>2. ptr + (first + len) = ptr + first + len
      BY <1>1
    <2> QED
      BY <2>1, <2>2, Zenon
  <1>3. MappedInv' /\ ProtInv'
    BY <1>1, <1>2, ProtectSegments, Zenon
  <1>4. IInv'
    <2>1. ptr + first \in Int
      BY <1>1
    <2> QED
      BY <1>1, <2>1, MprotectInv, Zenon
  <1>5. CallsInv'
    BY Zenon DEF ModInv, CallsInv
  <1>6. DoneInv'
    BY DEF ModInv, DoneInv
  <1> QED
    BY <1>3, <1>4, <1>5, <1>6, Zenon DEF ModInv

LEMMA OneSegment ==
    ASSUME Lasts, ModInv, state = "ready", NEW s \in Segments(image), NEW prot \in {RW, s.prot},
           mprotect(ptr + s.start, s.len, prot),
           UNCHANGED <<pending, boot, image, state, ptr, done>>,
           GuardInv', Right(s)' = prot,
           \A r \in Segments(image) \ {s} : Right(r)' = Right(r)
    PROVE  ModInv'
  <1>1. image \in Images /\ Loadable(image)
    BY Zenon DEF ModInv, DoneInv, MappedInv, Exists
  <1>2. /\ s.start \in Nat /\ s.len \in Nat /\ s.prot \in SUBSET ALL
        /\ \A r \in Segments(image) : r.start \in Nat /\ r.len \in Nat
        /\ \A r \in Segments(image) :
              s # r => s.start + s.len <= r.start \/ r.start + r.len <= s.start
    BY <1>1, SegmentsAre DEF SegmentType
  <1>3. prot \in SUBSET ALL
    BY <1>2, Zenon DEF RW, ALL, CPU_MASK
  <1>4. PICK S : S = {s}
    OBVIOUS
  <1>5. /\ S \subseteq Segments(image)
        /\ \A r \in S : s.start <= r.start /\ r.start + r.len <= s.start + s.len
        /\ \A r \in Segments(image) \ S : r.start + r.len <= s.start \/ s.start + s.len <= r.start
        /\ \A r \in S : Right(r)' = prot
        /\ \A r \in Segments(image) \ S : Right(r)' = Right(r)
    <2>1. \A r : r \in S <=> r = s
      BY <1>4
    <2>2. s.start <= s.start /\ s.start + s.len <= s.start + s.len
      BY <1>2
    <2> QED
      BY <1>2, <2>1, <2>2, Zenon
  <1> QED
    BY <1>2, <1>3, <1>5, GuardStep, Zenon

(* One segment gets a guard of its own, and gives it back.                 *)
LEMMA TakeSegment ==
    ASSUME Lasts, ModInv, state = "ready", NEW s \in Segments(image), Free({s}),
           mprotect(ptr + s.start, s.len, RW), guards' = guards \cup {{s}},
           UNCHANGED <<pending, boot, image, state, ptr, done>>
    PROVE  ModInv'
  <1>1. s \notin UNION guards
    BY DEF Free
  <1>2. GuardInv'
    <2>1. /\ guards \subseteq SUBSET Segments(image)
          /\ \A G, H \in guards : G # H => G \cap H = {}
      BY DEF ModInv, GuardInv
    <2>2. ASSUME NEW G \in guards', NEW H \in guards', G # H PROVE G \cap H = {}
      <3>1. \A g \in guards : g \cap {s} = {} /\ {s} \cap g = {}
        BY <1>1
      <3>2. (G \in guards \/ G = {s}) /\ (H \in guards \/ H = {s})
        OBVIOUS
      <3> QED
        BY <2>1, <2>2, <3>1, <3>2, Zenon
    <2> QED
      BY <2>1, <2>2 DEF GuardInv
  <1>3. Right(s)' = RW
    BY DEF Right
  <1>4. \A r \in Segments(image) \ {s} : Right(r)' = Right(r)
    BY DEF Right
  <1> QED
    BY <1>2, <1>3, <1>4, OneSegment, Zenon

LEMMA GuardReady ==
    ASSUME ModInv, guards # {}
    PROVE  state = "ready"
  BY Zenon DEF ModInv, GuardInv

LEMMA GiveSegment ==
    ASSUME Lasts, ModInv, NEW s \in Segments(image), {s} \in guards,
           mprotect(ptr + s.start, s.len, s.prot), guards' = guards \ {{s}},
           UNCHANGED <<pending, boot, image, state, ptr, done>>
    PROVE  ModInv'
  <1>1. state = "ready"
    BY GuardReady, Zenon
  <1>2. \A G \in guards : G # {s} => s \notin G
    BY Zenon DEF ModInv, GuardInv
  <1>3. GuardInv'
    BY <1>1, Zenon DEF ModInv, GuardInv
  <1>4. s \notin UNION guards'
    BY <1>2
  <1>5. Right(s)' = s.prot
    BY <1>4 DEF Right
  <1>6. \A r \in Segments(image) \ {s} : Right(r)' = Right(r)
    <2> SUFFICES ASSUME NEW r \in Segments(image) \ {s}
                 PROVE  r \in UNION guards' <=> r \in UNION guards
      BY Zenon DEF Right
    <2> QED
      BY Zenon
  <1> QED
    BY <1>1, <1>3, <1>5, <1>6, OneSegment, Zenon

(* drop_all: the guard of S becomes one of S without its first segment.    *)
LEMMA GiveFirst ==
    ASSUME Lasts, ModInv, NEW S \in guards, NEW s \in S,
           mprotect(ptr + s.start, s.len, s.prot), guards' = (guards \ {S}) \cup {S \ {s}},
           UNCHANGED <<pending, boot, image, state, ptr, done>>
    PROVE  ModInv'
  <1>1. state = "ready"
    BY GuardReady, Zenon
  <1>2. /\ \A G \in guards : G # S => G \cap S = {}
        /\ S \subseteq Segments(image)
        /\ guards \subseteq SUBSET Segments(image)
        /\ \A G, H \in guards : G # H => G \cap H = {}
    BY Zenon DEF ModInv, GuardInv
  <1>3. GuardInv'
    <2>1. guards' \subseteq SUBSET Segments(image)
      BY <1>2, Zenon
    <2>2. ASSUME NEW G \in guards', NEW H \in guards', G # H PROVE G \cap H = {}
      <3>1. CASE G = S \ {s} \/ H = S \ {s}
        BY <1>2, <2>2, <3>1, Zenon
      <3>2. CASE G # S \ {s} /\ H # S \ {s}
        BY <1>2, <2>2, <3>2, Zenon
      <3> QED
        BY <3>1, <3>2
    <2> QED
      BY <1>1, <2>1, <2>2, Zenon DEF GuardInv
  <1>4. s \notin UNION guards'
    BY <1>2, Zenon
  <1>5. Right(s)' = s.prot
    BY <1>4, Zenon DEF Right
  <1>6. \A r \in Segments(image) \ {s} : Right(r)' = Right(r)
    <2> SUFFICES ASSUME NEW r \in Segments(image) \ {s}
                 PROVE  r \in UNION guards' <=> r \in UNION guards
      BY DEF Right
    <2>1. ASSUME r \in UNION guards PROVE r \in UNION guards'
      <3>1. PICK G \in guards : r \in G
        BY <2>1, Zenon
      <3> QED
        BY <3>1, Zenon
    <2>2. ASSUME r \in UNION guards' PROVE r \in UNION guards
      BY <2>2, Zenon
    <2> QED
      BY <2>1, <2>2, Zenon
  <1>7. s \in Segments(image)
    BY <1>2, Zenon
  <1> QED
    BY <1>1, <1>3, <1>5, <1>6, <1>7, OneSegment, Zenon

LEMMA UnprotectInv ==
    ASSUME Lasts, ModInv, unprotect
    PROVE  ModInv'
  <1>1. PICK S : S = FileSegments(image)
    BY Zenon
  <1>2. /\ state = "ready" /\ Free(S)
        /\ mprotect(ptr, ProgEnd(image), RW)
        /\ guards' = guards \cup {S}
        /\ UNCHANGED <<pending, boot, image, state, ptr, done>>
    BY <1>1, Zenon DEF unprotect
  <1>3. image \in Images /\ Loadable(image) /\ ptr \in Int
    BY <1>2, Zenon DEF ModInv, DoneInv, MappedInv, Exists
  <1>4. PICK n : n = ProgEnd(image)
    OBVIOUS
  <1>5. /\ n \in Nat
        /\ Segments(image) \subseteq SegmentType
        /\ \A s \in S : s.start + s.len <= n
        /\ \A r \in Segments(image) \ S : n <= r.start
    <2>1. \A r \in Segments(image) \ S : r.start >= ProgEnd(image)
      BY <1>1, <1>3, SegmentsAre
    <2> QED
      BY <1>1, <1>3, <1>4, <2>1, SegmentsAre, Zenon
  <1>6. S \subseteq Segments(image)
    BY <1>1, Zenon DEF Segments
  <1>7. GuardInv'
    BY <1>2, <1>6 DEF ModInv, GuardInv, Free
  <1>8. \A s \in S : Right(s)' = RW
    BY <1>2 DEF Right
  <1>9. \A r \in Segments(image) \ S : Right(r)' = Right(r)
    BY <1>2 DEF Right
  <1>10. ptr + 0 = ptr /\ 0 \in Nat /\ RW \in SUBSET ALL /\ 0 + n = n
    BY <1>3, <1>5 DEF RW, ALL, CPU_MASK
  <1>11. mprotect(ptr + 0, n, RW)
    BY <1>2, <1>4, <1>10, Zenon
  <1>12. \A s \in S : 0 <= s.start /\ s.start + s.len <= 0 + n
    BY <1>5, <1>6, <1>10 DEF SegmentType
  <1>13. \A r \in Segments(image) \ S : r.start + r.len <= 0 \/ 0 + n <= r.start
    BY <1>5, <1>10, Zenon
  <1> QED
    BY <1>2, <1>5, <1>6, <1>7, <1>8, <1>9, <1>10, <1>11, <1>12, <1>13, GuardStep, Zenon

LEMMA NewProtectInv ==
    ASSUME Lasts, ModInv, NEW s \in Segments(image), NewProtect(s)
    PROVE  ModInv'
  <1>1. /\ state = "new" /\ s \in Segments(image) \ done
        /\ \A r \in Segments(image) \ done : s.start <= r.start
        /\ mprotect(ptr + s.start, s.len, s.prot)
        /\ done' = done \cup {s}
        /\ state' = IF done' = Segments(image) THEN "ready" ELSE "new"
        /\ pending' = pending /\ boot' = boot /\ image' = image /\ ptr' = ptr /\ guards' = guards
    BY Zenon DEF NewProtect
  <1>2. /\ image \in Images /\ ptr \in Int /\ Loadable(image) /\ IInv /\ Exists
        /\ done \subseteq Segments(image) /\ guards = {}
        /\ \A r \in done : r.start <= s.start
    BY <1>1, Zenon DEF ModInv, DoneInv, MappedInv, Exists, GuardInv
  <1>3. /\ s.start \in Nat /\ s.len \in Nat /\ s.prot \in SUBSET ALL
        /\ \A r \in Segments(image) : r.start \in Nat /\ r.len \in Nat
        /\ \A r \in Segments(image) :
              s # r => s.start + s.len <= r.start \/ r.start + r.len <= s.start
    BY <1>2, SegmentsAre, Zenon DEF SegmentType
  <1>4. \A r : Right(r) = r.prot /\ Right(r)' = r.prot
    BY <1>1, <1>2 DEF Right
  <1>5. PICK S : S = {s}
    BY Zenon
  <1>6. s.len # 0
    BY <1>1 DEF mprotect, Aligned
  <1>7. /\ done' \subseteq Segments(image)
        /\ \A r \in S : s.start <= r.start /\ r.start + r.len <= s.start + s.len
        /\ \A r \in done' \cap S : Right(r)' = s.prot
    <2>1. \A r : r \in S <=> r = s
      BY <1>5
    <2>2. s.start <= s.start /\ s.start + s.len <= s.start + s.len
      BY <1>3
    <2>3. done' \subseteq Segments(image)
      BY <1>1, <1>2
    <2> QED
      BY <1>4, <2>1, <2>2, <2>3, Zenon
  <1>8. \A r \in done' \ S : r \in done /\ Right(r)' = Right(r) /\ r.start + r.len <= s.start
    <2> SUFFICES ASSUME NEW r \in done' \ S PROVE r \in done /\ r.start + r.len <= s.start
      BY <1>4, Zenon
    <2>1. r \in done /\ r # s /\ r \in Segments(image)
      BY <1>1, <1>2, <1>5
    <2> QED
      BY <1>2, <1>3, <1>6, <2>1
  <1>9. MappedInv' /\ ProtInv' /\ (ptr + s.start) % PAGE = 0
    BY <1>1, <1>2, <1>3, <1>7, <1>8, ProtectSegments, Zenon
  <1>10. IInv'
    <2>1. ptr + s.start \in Int
      <3>1. ptr \in Int /\ s.start \in Int
        BY <1>2, <1>3
      <3> QED
        BY <3>1
    <2> QED
      BY <1>1, <1>2, <1>3, <2>1, MprotectInv, Zenon
  <1>11. CallsInv'
    BY <1>1, Zenon DEF ModInv, CallsInv
  <1>12. DoneInv'
    BY <1>1, <1>2, <1>3, <1>6, <1>9, Zenon DEF ModInv, DoneInv
  <1>13. GuardInv'
    BY <1>1, <1>2 DEF GuardInv
  <1> QED
    BY <1>9, <1>10, <1>11, <1>12, <1>13, Zenon DEF ModInv

LEMMA LoaderIs == Loader \in Threads
  BY ModuleAssumption DEF Loader

(* A step that leaves the allocations alone.                               *)
LEMMA SameSpace ==
    ASSUME ModInv, IInv', CallsInv', UNCHANGED modvars, allocations' = allocations
    PROVE  ModInv'
  <1>1. \A u : PageAt(u)' = PageAt(u)
    BY Zenon DEF PageAt
  <1> QED
    BY <1>1, Kept

(* The pages of a new allocation were not mapped.                          *)
LEMMA InsertKeeps ==
    ASSUME SpaceInv, NEW t \in Threads, insert(t), NEW u, PageAt(u) # Paged!Unmapped
    PROVE  PageAt(u)' # Paged!Unmapped /\ PageAt(u)'.prot = PageAt(u).prot
  <1>1. PICK a \in pending[t] : allocations' = allocations \cup {a}
    BY Zenon DEF insert
  <1>2. /\ \A b \in allocations : Extent(b) \cap Extent(a) = {}
        /\ PageAt(u)' = IF u \in Extent(a) THEN [prot |-> a.prot, name |-> a.name] ELSE PageAt(u)
    BY <1>1, InsertPages, Zenon
  <1>3. PICK b \in allocations : u \in Extent(b)
    BY Stored, PageAtIs, PageIs
  <1>4. u \notin Extent(a)
    BY <1>2, <1>3, Zenon
  <1> QED
    BY <1>2, <1>4

LEMMA NewMapInv ==
    ASSUME ModInv, NewMap
    PROVE  ModInv'
  <1>1. /\ state = "none" /\ Loadable(image) /\ boot = "up" /\ pending[Loader] = {}
        /\ alloc(Loader, ModuleRequest(image), {}, "module")
        /\ allocations' = allocations /\ boot' = boot /\ UNCHANGED modvars
    BY Zenon DEF NewMap, Idle
  <1>2. image \in Images /\ IInv /\ pending \in [Threads -> SUBSET Alloc]
    BY DEF ModInv, DoneInv, IInv, SpaceInv
  <1>3. PICK n : n = ModuleLen(image)
    OBVIOUS
  <1>4. n \in Nat
    BY <1>1, <1>2, <1>3, SegmentsAre, Zenon
  <1>5. ModuleRequest(image).len = n
    BY <1>3 DEF ModuleRequest
  <1>6. IInv'
    <2>1. {} \in SUBSET ALL /\ "module" \in AllNames
      BY DEF AllNames
    <2> QED
      BY <1>1, <1>2, <1>4, <1>5, <2>1, LoaderIs, AllocInv, Zenon
  <1>7. PICK s \in MemoryAt(Asks(align_virtual_page(n))) :
            pending' = [pending EXCEPT ![Loader] = {AllocIn(s, {}, "module")}]
    BY <1>1, <1>5, Zenon DEF alloc
  <1>8. \A a \in pending'[Loader] : a.addr + n <= a.end
    <2>1. PICK m : m = align_virtual_page(n)
      OBVIOUS
    <2>2. m \in Int /\ n <= m
      BY <1>4, <2>1, AlignUp
    <2>3. s.addr \in Int /\ s.addr % GRAN = 0 /\ s.len = Asks(m)
      BY <1>7, <2>1 DEF MemoryAt, Units
    <2>4. align_virtual_page(s.addr) + m <= s.addr + Asks(m)
      BY <2>2, <2>3, AllocRoom
    <2>5. align_virtual_page(s.addr) \in Int
      BY <2>3, AlignUp
    <2>6. Asks(m) \in Int
      BY <2>2, VmAssumption DEF Asks
    <2>7. pending'[Loader] = {AllocIn(s, {}, "module")}
      BY <1>2, <1>7, LoaderIs, Zenon
    <2>8. /\ AllocIn(s, {}, "module").addr = align_virtual_page(s.addr)
          /\ AllocIn(s, {}, "module").end = s.addr + s.len
      BY DEF AllocIn
    <2>9. align_virtual_page(s.addr) + n <= s.addr + s.len
      BY <1>4, <2>2, <2>3, <2>4, <2>5, <2>6
    <2> QED
      BY <2>7, <2>8, <2>9
  <1>9. CallsInv'
    BY <1>1, <1>3, <1>8, Zenon DEF CallsInv, modvars
  <1> QED
    BY <1>1, <1>6, <1>9, SameSpace, Zenon

LEMMA NewStoredInv ==
    ASSUME ModInv, NewStored
    PROVE  ModInv'
  <1>1. PICK a \in pending[Loader] :
            /\ state = "none" /\ boot = "up" /\ ptr' = a.addr
            /\ insert(Loader) /\ state' = "new"
            /\ host' = host /\ boot' = boot /\ image' = image /\ done' = done /\ guards' = guards
    BY Zenon DEF NewStored
  <1>2. IInv /\ SpaceInv /\ image \in Images /\ done = {} /\ guards = {}
    BY <1>1 DEF ModInv, DoneInv, GuardInv, IInv
  <1>3. allocations' = allocations \cup {a}
    <2>1. \A b \in pending[Loader] : b = a
      BY <1>2, LoaderIs, Zenon DEF SpaceInv
    <2> QED
      BY <1>1, <2>1 DEF insert
  <1>4. /\ a \in Alloc
        /\ \A u : PageAt(u)' = IF u \in Extent(a) THEN [prot |-> a.prot, name |-> a.name]
                                                 ELSE PageAt(u)
    BY <1>2, <1>3, LoaderIs, InsertPages, Zenon
  <1>5. Loadable(image) /\ a.addr + ModuleLen(image) <= a.end
    BY <1>1, Zenon DEF ModInv, CallsInv
  <1>6. a.addr \in Int /\ a.end \in Int /\ a.prot \in SUBSET ALL
    BY <1>4, Zenon DEF Alloc
  <1>7. ModuleLen(image) \in Nat
    BY <1>2, <1>5, SegmentsAre, Zenon
  <1>8. MappedInv'
    <2> SUFFICES \A u \in a.addr .. a.addr + ModuleLen(image) - 1 : PageAt(u)' # Paged!Unmapped
      <3>1. Loadable(image)' /\ ModuleLen(image)' = ModuleLen(image)
        BY <1>1, <1>5 DEF Loadable, ModuleLen, ProgEnd
      <3> QED
        BY <1>1, <3>1 DEF MappedInv
    <2> TAKE u \in a.addr .. a.addr + ModuleLen(image) - 1
    <2>1. u \in Extent(a)
      BY <1>5, <1>6, <1>7 DEF Extent
    <2>2. a.prot # {"unmapped"}
      BY <1>6, Zenon DEF ALL, CPU_MASK
    <2> QED
      BY <1>4, <2>1, <2>2, Zenon DEF Paged!Unmapped
  <1>9. ProtInv'
    BY <1>1, <1>2, Zenon DEF ProtInv
  <1>10. IInv'
    BY <1>1, <1>2, LoaderIs, InsertInv, Zenon
  <1>11. CallsInv'
    BY <1>1, Zenon DEF CallsInv
  <1>12. DoneInv'
    BY <1>1, <1>2, <1>6, Zenon DEF ModInv, DoneInv
  <1>13. GuardInv'
    BY <1>1, <1>2 DEF GuardInv
  <1> QED
    BY <1>8, <1>9, <1>10, <1>11, <1>12, <1>13, Zenon DEF ModInv

LEMMA DropInv ==
    ASSUME ModInv, drop
    PROVE  ModInv'
  <1>1. /\ state = "ready" /\ guards = {} /\ munmap(ptr, ModuleLen(image))
        /\ state' = "dropped"
        /\ pending' = pending /\ boot' = boot /\ image' = image /\ ptr' = ptr
        /\ done' = done /\ guards' = guards
    BY DEF drop
  <1>2. image \in Images /\ ptr \in Int /\ Loadable(image) /\ IInv
    BY <1>1 DEF ModInv, DoneInv, MappedInv, Exists
  <1>3. ModuleLen(image) \in Nat
    BY <1>2, SegmentsAre
  <1>4. IInv'
    BY <1>1, <1>2, <1>3, MunmapInv, Zenon
  <1>5. CallsInv'
    BY <1>1, Zenon DEF ModInv, CallsInv
  <1>6. DoneInv'
    BY <1>1 DEF ModInv, DoneInv
  <1>7. GuardInv' /\ MappedInv' /\ ProtInv'
    BY <1>1 DEF GuardInv, MappedInv, ProtInv, Exists
  <1> QED
    BY <1>4, <1>5, <1>6, <1>7, Zenon DEF ModInv

(* The application: nothing it does reaches the module.                    *)
LEMMA AppInv ==
    ASSUME Lasts, ModInv, App
    PROVE  ModInv'
  <1>1. UNCHANGED modvars /\ IInv /\ SpaceInv /\ pending \in [Threads -> SUBSET Alloc]
    BY DEF App, ModInv, IInv, SpaceInv
  <1>2. ASSUME NEW t \in Threads \ {Loader}, mmap(t) PROVE ModInv'
    <2>1. boot = "up" /\ boot' = boot
      BY <1>2, Zenon DEF mmap, Idle
    <2>2. Next
      BY <1>2 DEF Next
    <2>3. IInv'
      BY <1>1, <2>2, NextInv
    <2>4. pending'[Loader] = pending[Loader]
      BY <1>1, <1>2, LoaderIs, Zenon DEF mmap, alloc, insert
    <2>5. CallsInv'
      BY <1>1, <2>1, <2>4, Zenon DEF ModInv, CallsInv, modvars
    <2>6. CASE allocations' = allocations
      BY <1>1, <2>3, <2>5, <2>6, SameSpace, Zenon
    <2>7. CASE insert(t)
      <3>1. \A u : PageAt(u) # Paged!Unmapped =>
                PageAt(u)' # Paged!Unmapped /\ PageAt(u)'.prot = PageAt(u).prot
        BY <1>1, <2>7, InsertKeeps, Zenon
      <3> QED
        BY <1>1, <2>3, <2>5, <3>1, Kept, Zenon
    <2> QED
      BY <1>2, <2>6, <2>7, Zenon DEF mmap
  <1>3. ASSUME boot = "up", NEW addr \in Units, NEW len \in Lens, NEW name \in Names,
               sys_mname(addr, len, name), UNCHANGED <<pending, boot>>
        PROVE  ModInv'
    <2>1. PICK r : r = addr % PAGE
      OBVIOUS
    <2>2. addr \in Int /\ len \in Nat /\ PAGE \in Nat \ {0}
      BY VmAssumption DEF Units
    <2>3. r \in Nat /\ addr - r \in Int /\ r + len \in Nat
      BY <2>1, <2>2
    <2>4. PICK n : n = align_virtual_page(r + len)
      OBVIOUS
    <2>5. n \in Nat
      BY <2>3, <2>4, AlignUp
    <2>6. mname(addr - r, n, name) /\ name \in AllNames
      BY <1>3, <2>1, <2>4, Zenon DEF sys_mname, AllNames
    <2>7. IInv'
      BY <1>1, <1>3, <2>3, <2>5, <2>6, MnameInv, Zenon
    <2>8. CallsInv'
      BY <1>1, <1>3 DEF ModInv, CallsInv, modvars
    <2>9. PICK end : end = align_virtual_page((addr - r) + n)
      BY Zenon
    <2>10. \A u : PageAt(u)' =
                 IF u \in addr - r .. end - 1 /\ PageAt(u) # Paged!Unmapped
                 THEN [prot |-> PageAt(u).prot, name |-> name] ELSE PageAt(u)
      BY <1>1, <2>3, <2>5, <2>6, <2>9, MnamePages
    <2>11. \A u : PageAt(u) # Paged!Unmapped => PageAt(u).prot # {"unmapped"}
      <3> SUFFICES ASSUME NEW u, PageAt(u) # Paged!Unmapped PROVE PageAt(u).prot # {"unmapped"}
        BY Zenon
      <3>1. PICK a \in allocations : u \in Extent(a)
        BY <1>1, Stored, PageAtIs, PageIs
      <3>2. PageAt(u).prot = a.prot /\ a.prot \in SUBSET ALL
        BY <1>1, <3>1, Stored, PageAtIs, PageIs DEF Alloc
      <3> QED
        BY <3>2 DEF ALL, CPU_MASK
    <2>12. \A u : PageAt(u) # Paged!Unmapped =>
                PageAt(u)' # Paged!Unmapped /\ PageAt(u)'.prot = PageAt(u).prot
      BY <2>10, <2>11 DEF Paged!Unmapped
    <2> QED
      BY <1>1, <2>7, <2>8, <2>12, Kept, Zenon
  <1> QED
    BY <1>2, <1>3, Zenon DEF App

(* VmSpace::new: there is no module yet.                                   *)
LEMMA BootStepInv ==
    ASSUME ModInv, new, UNCHANGED modvars
    PROVE  ModInv'
  <1>1. /\ IInv /\ SpaceInv /\ pending \in [Threads -> SUBSET Alloc] /\ CallsInv
        /\ state' = state /\ image' = image
    BY DEF ModInv, IInv, SpaceInv, modvars
  <1>2. state = "none"
    BY <1>1, Zenon DEF new, CallsInv
  <1>3. IInv'
    <2>1. Next
      BY DEF Next
    <2> QED
      BY <1>1, <2>1, NextInv
  <1>4. CallsInv'
    <2>1. ASSUME NEW t \in Threads, boot = "stack", pending = [u \in Threads |-> {}],
                 alloc(t, StackRequest, STACK_PROT, "main stack"), boot' = boot
          PROVE  CallsInv'
      <3>1. PICK P : pending' = [pending EXCEPT ![t] = P]
        BY <2>1, Zenon DEF alloc
      <3>2. \A u \in Threads : u # t => pending'[u] = {}
        BY <2>1, <3>1, Zenon
      <3> QED
        BY <1>1, <1>2, <2>1, <3>2, Zenon DEF CallsInv
    <2>2. ASSUME NEW t \in Threads, boot = "stack", insert(t), boot' = "guard"
          PROVE  CallsInv'
      <3>1. pending[t] # {} /\ pending' = [pending EXCEPT ![t] = {}]
        BY <2>2, Zenon DEF insert
      <3>2. \A u \in Threads : u # t => pending[u] = {}
        BY <1>1, <2>2, <3>1 DEF CallsInv
      <3>3. \A u \in Threads : pending'[u] = {}
        BY <1>1, <3>1, <3>2, Zenon
      <3> QED
        BY <1>1, <1>2, <2>2, <3>3, Zenon DEF CallsInv
    <2>3. ASSUME boot = "guard", boot' = "up", pending' = pending PROVE CallsInv'
      <3>1. pending'[Loader] = {}
        BY <1>1, <2>3, LoaderIs, Zenon DEF CallsInv
      <3> QED
        BY <1>1, <1>2, <2>3, <3>1, Zenon DEF CallsInv
    <2> QED
      BY <2>1, <2>2, <2>3, Zenon DEF new
  <1>5. DoneInv' /\ GuardInv'
    BY DEF ModInv, DoneInv, GuardInv, modvars
  <1>6. MappedInv' /\ ProtInv'
    BY <1>1, <1>2 DEF MappedInv, ProtInv, Exists
  <1> QED
    BY <1>3, <1>4, <1>5, <1>6, Zenon DEF ModInv

LEMMA ModStepInv ==
    ASSUME Lasts, ModInv, [ModNext]_allvars
    PROVE  ModInv'
  <1>1. CASE new /\ UNCHANGED modvars
    BY <1>1, BootStepInv
  <1>2. CASE App
    BY <1>2, AppInv, Zenon
  <1>3. CASE Kernel
    <2>1. CodeSegment(image) \in Segments(image)
      BY DEF Segments
    <2>2. CASE NewMap
      BY <2>2, NewMapInv
    <2>3. CASE NewStored
      BY <2>3, NewStoredInv, Zenon
    <2>4. CASE unprotect
      BY <2>4, UnprotectInv
    <2>5. CASE code_workspace
      BY <2>1, <2>5, TakeSegment, Zenon DEF code_workspace
    <2>6. CASE seal
      BY <2>1, <2>6, GiveSegment DEF seal
    <2>7. CASE drop
      BY <2>7, DropInv
    <2>8. ASSUME NEW s \in Segments(image), NewProtect(s) PROVE ModInv'
      BY <2>8, NewProtectInv, Zenon
    <2>9. ASSUME NEW s \in Segments(image), unprotect_segment(s) PROVE ModInv'
      BY <2>9, TakeSegment, Zenon DEF unprotect_segment
    <2>10. ASSUME NEW s \in Segments(image), drop_segment(s) PROVE ModInv'
      BY <2>10, GiveSegment, Zenon DEF drop_segment
    <2>11. ASSUME NEW S \in guards, drop_all(S) PROVE ModInv'
      BY <2>11, GiveFirst DEF drop_all
    <2> QED
      BY <1>3, <2>2, <2>3, <2>4, <2>5, <2>6, <2>7, <2>8, <2>9, <2>10, <2>11, Zenon DEF Kernel
  <1>4. CASE UNCHANGED allvars
    <2>1. UNCHANGED vars /\ UNCHANGED modvars
      BY <1>4 DEF allvars
    <2>2. IInv'
      BY <2>1, NextInv DEF ModInv
    <2>3. CallsInv'
      BY <2>1, Zenon DEF ModInv, CallsInv, vars, modvars
    <2> QED
      BY <2>1, <2>2, <2>3, SameSpace DEF vars
  <1> QED
    BY <1>1, <1>2, <1>3, <1>4 DEF ModNext

(* Every step with a module is a call of PageMap, or not seen.             *)
LEMMA ModuleStep ==
    ASSUME Lasts, ModInv, [ModNext]_allvars
    PROVE  Paged!Next \/ (Seen' = Seen /\ call' = call)
  <1>1. IInv /\ SpaceInv /\ ptr \in Int /\ image \in Images
    BY Zenon DEF ModInv, IInv, DoneInv
  <1>2. CASE allocations' = allocations /\ call' = call
    BY <1>2, SameAllocations, Zenon
  <1>3. ASSUME NEW first \in Int, NEW len \in Nat, NEW prot \in SUBSET ALL,
               mprotect(first, len, prot)
        PROVE  Paged!Next
    BY <1>1, <1>3, MprotectStep, Zenon
  <1>4. ASSUME Next PROVE Paged!Next \/ (Seen' = Seen /\ call' = call)
    BY <1>1, <1>4, SpaceStep, Zenon
  <1>5. CASE App
    <2>1. CASE \E t \in Threads \ {Loader} : mmap(t)
      BY <1>4, <2>1, Zenon DEF Next
    <2>2. ASSUME boot = "up", NEW addr \in Units, NEW len \in Lens, NEW name \in Names,
                 sys_mname(addr, len, name), UNCHANGED <<pending, boot>>
          PROVE  Paged!Next
      <3>1. addr \in Int /\ len \in Nat
        BY VmAssumption DEF Units
      <3>2. name \in AllNames
        BY Zenon DEF AllNames
      <3> QED
        BY <1>1, <2>2, <3>1, <3>2, MnameStep, Zenon
    <2> QED
      BY <1>5, <2>1, <2>2, Zenon DEF App
  <1>6. CASE Kernel
    <2>1. CASE NewMap
      BY <1>2, <2>1, Zenon DEF NewMap, alloc
    <2>2. CASE NewStored
      BY <1>1, <2>2, LoaderIs, InsertStep, Zenon DEF NewStored
    <2>3. CASE state = "none" /\ ~NewMap /\ ~NewStored
      BY <1>6, <2>3, GuardReady, Zenon DEF Kernel, NewProtect, unprotect, code_workspace, seal, drop,
          unprotect_segment, drop_segment, drop_all
    <2>4. CASE state # "none" /\ ~NewMap /\ ~NewStored
      <3>1. Loadable(image)
        BY <1>6, <2>4, GuardReady, Zenon DEF Kernel, NewProtect, unprotect, code_workspace, seal, drop,
          unprotect_segment, drop_segment, drop_all, ModInv, MappedInv, Exists
      <3>2. /\ ProgEnd(image) \in Nat /\ ModuleLen(image) \in Nat
            /\ \A s \in Segments(image) :
                  /\ s.start \in Nat /\ s.len \in Nat /\ s.prot \in SUBSET ALL
                  /\ ptr + s.start \in Int
        BY <1>1, <3>1, SegmentsAre DEF SegmentType
      <3>3. RW \in SUBSET ALL
        BY Zenon DEF RW, ALL, CPU_MASK
      <3>4. ASSUME NEW s \in Segments(image), NEW prot \in SUBSET ALL,
                   mprotect(ptr + s.start, s.len, prot)
            PROVE  Paged!Next
        BY <1>3, <3>2, <3>4, Zenon
      <3>5. CASE unprotect
        BY <1>1, <1>3, <3>2, <3>3, <3>5, Zenon DEF unprotect
      <3>6. CASE drop
        <4>1. munmap(ptr, ModuleLen(image)) /\ Exists
          BY <3>6, Zenon DEF drop, Exists
        <4>2. ModuleLen(image) # 0
          BY <4>1, Zenon DEF munmap, Aligned
        <4>3. ptr \in ptr .. ptr + ModuleLen(image) - 1
          BY <1>1, <3>2, <4>2
        <4>4. PageAt(ptr) # Paged!Unmapped
          BY <4>1, <4>3, Zenon DEF ModInv, MappedInv
        <4>5. PICK a \in allocations : ptr \in Extent(a)
          BY <1>1, <4>4, Stored, PageAtIs, PageIs, Zenon
        <4>6. ptr \in Units
          BY <1>1, <4>5, Stored
        <4> QED
          BY <1>1, <3>2, <4>1, <4>6, MunmapStep, Zenon
      <3>7. CodeSegment(image) \in Segments(image)
        BY DEF Segments
      <3>8. CASE code_workspace \/ seal
        BY <3>2, <3>3, <3>4, <3>7, <3>8, Zenon DEF code_workspace, seal
      <3>9. ASSUME NEW s \in Segments(image),
                   NewProtect(s) \/ unprotect_segment(s) \/ drop_segment(s)
            PROVE  Paged!Next
        BY <3>2, <3>3, <3>4, <3>9, Zenon DEF NewProtect, unprotect_segment, drop_segment
      <3>10. ASSUME NEW S \in guards, drop_all(S) PROVE Paged!Next
        <4>1. S \subseteq Segments(image)
          BY DEF ModInv, GuardInv
        <4>2. PICK s \in S : mprotect(ptr + s.start, s.len, s.prot)
          BY <3>10, Zenon DEF drop_all
        <4>3. s \in Segments(image)
          BY <4>1, <4>2
        <4> QED
          BY <3>2, <3>4, <4>2, <4>3, Zenon
      <3> QED
        BY <1>6, <2>4, <3>5, <3>6, <3>8, <3>9, <3>10, Zenon DEF Kernel
    <2> QED
      BY <2>1, <2>2, <2>3, <2>4, Zenon
  <1>7. CASE UNCHANGED allvars
    BY <1>2, <1>7, Zenon DEF allvars, vars
  <1>8. CASE new /\ UNCHANGED modvars
    BY <1>4, <1>8, Zenon DEF Next
  <1> QED
    BY <1>5, <1>6, <1>7, <1>8, Zenon DEF ModNext

-----------------------------------------------------------------------------
LOCAL INSTANCE WellFoundedInduction

(* Of the allocations that begin at n or below, one begins last.           *)
LEMMA LastBelow == Lasts
  <1> SUFFICES ASSUME NEW A, NEW n \in Int, A # {}, \A a \in A : a.addr \in Int /\ a.addr <= n
               PROVE  \E a \in A : \A b \in A : b.addr <= a.addr
    BY Zenon DEF Lasts
  <1> DEFINE S == {n - a.addr : a \in A}
  <1>1. S \subseteq Nat /\ S # {}
    OBVIOUS
  <1> HIDE DEF S
  <1>2. PICK x \in S : \A y \in S : <<y, x>> \notin OpToRel(<, Nat)
    BY <1>1, WFMin, NatLessThanWellFounded, Zenon
  <1>3. \A y \in S : x <= y
    <2> SUFFICES ASSUME NEW y \in S, y < x PROVE FALSE
      BY <1>1
    <2>1. <<y, x>> \in Nat \X Nat /\ <<y, x>>[1] < <<y, x>>[2]
      BY <1>1
    <2>2. <<y, x>> \in OpToRel(<, Nat)
      BY <2>1, Zenon DEF OpToRel
    <2> QED
      BY <1>2, <2>2, Zenon
  <1>4. PICK a \in A : x = n - a.addr
    BY Zenon DEF S
  <1>5. \A b \in A : n - a.addr <= n - b.addr
    BY <1>3, <1>4 DEF S
  <1> QED
    BY <1>5

(***************************************************************************)
(* For any page size, granularity, number of threads and size of the host: *)
(* an address space behaves as PageMap.  mmap, munmap, mprotect and mname  *)
(* change the pages they were given and no others, whatever they split.    *)
(***************************************************************************)
THEOREM SplitsInvisible == Spec => PageByPage
  <1>1. ASSUME Init PROVE Paged!Init
    <2>1. call = Paged!NoCall /\ \A u : PageAt(u) = Paged!Unmapped
      BY <1>1 DEF Init, PageAt, PageOf, Paged!Unmapped
    <2> QED
      BY <2>1, Zenon DEF Paged!Init, Paged!Pages, Units
  <1>2. ASSUME IInv, [Next]_vars PROVE Paged!Next \/ (Seen' = Seen /\ call' = call)
    BY <1>2, LastBelow, SpaceStep, Zenon
  <1>3. IInv /\ [Next]_vars => [Paged!Next]_<<[u \in Units |-> PageAt(u)], call>>
    BY <1>2 DEF Seen
  <1> QED
    BY <1>1, <1>3, SpaceInvariant, PTL DEF Spec, PageByPage, Paged!Spec

LEMMA ModuleInvariant == ModSpec => []ModInv
  <1>1. ModInit => ModInv
    <2> SUFFICES ASSUME ModInit PROVE ModInv
      OBVIOUS
    <2>1. IInv
      BY InitInv, Zenon DEF ModInit
    <2>2. CallsInv
      BY LoaderIs, Zenon DEF ModInit, Init, CallsInv
    <2>3. DoneInv /\ GuardInv
      BY DEF ModInit, DoneInv, GuardInv
    <2>4. MappedInv /\ ProtInv
      BY DEF ModInit, MappedInv, ProtInv, Exists
    <2> QED
      BY <2>1, <2>2, <2>3, <2>4, Zenon DEF ModInv
  <1>2. ModInv /\ [ModNext]_allvars => ModInv'
    BY LastBelow, ModStepInv
  <1> QED
    BY <1>1, <1>2, PTL DEF ModSpec

(* Whatever the application maps and names, and in whatever order guards   *)
(* are taken and given back, a module that is loaded keeps its pages, and  *)
(* each segment has its own protection or, while a guard of mem.rs has it, *)
(* can be written: for any image that Memory::new accepts and any lengths  *)
(* of its workspaces.                                                      *)
THEOREM ModuleProtected == ModSpec => []SegmentsProtected
  <1>1. ModInv => SegmentsProtected
    <2> SUFFICES ASSUME ModInv, state = "ready",
                        NEW s \in Segments(image), NEW u \in SegmentUnits(s)
                 PROVE  \E a \in allocations : u \in Extent(a) /\ a.prot = Right(s)
      BY DEF SegmentsProtected, Right
    <2>1. Exists /\ s \in done /\ SpaceInv
      BY DEF Exists, ModInv, DoneInv, IInv
    <2>2. PageAt(u) # Paged!Unmapped
      BY <2>1, SegmentMapped
    <2>3. PageAt(u).prot = Right(s)
      BY <2>1, Zenon DEF ModInv, ProtInv
    <2>4. PICK a \in allocations : u \in Extent(a)
      BY <2>1, <2>2, Stored, PageAtIs, PageIs, Zenon
    <2>5. PageAt(u) = [prot |-> a.prot, name |-> a.name]
      BY <2>1, <2>4, Stored, PageAtIs, PageIs, Zenon
    <2> QED
      BY <2>3, <2>4, <2>5
  <1> QED
    BY <1>1, ModuleInvariant, PTL

(* With a module in it, too, an address space keeps its allocations apart, *)
(* its page tables in agreement, and its splits invisible.                 *)
THEOREM ModuleSpace == ModSpec => [](Disjoint /\ HostAgrees) /\ PageByPage
  <1>1. ModInit => Paged!Init
    <2> SUFFICES ASSUME ModInit PROVE Paged!Init
      OBVIOUS
    <2>1. call = Paged!NoCall /\ \A u : PageAt(u) = Paged!Unmapped
      BY DEF ModInit, Init, PageAt, PageOf, Paged!Unmapped
    <2> QED
      BY <2>1, Zenon DEF Paged!Init, Paged!Pages, Units
  <1>2. ASSUME ModInv, [ModNext]_allvars PROVE Paged!Next \/ (Seen' = Seen /\ call' = call)
    BY <1>2, LastBelow, ModuleStep, Zenon
  <1>3. ModInv /\ [ModNext]_allvars => [Paged!Next]_<<[u \in Units |-> PageAt(u)], call>>
    BY <1>2 DEF Seen
  <1>4. ModInv => Disjoint /\ HostAgrees
    BY SpaceDisjoint, SpaceAgrees DEF ModInv, IInv
  <1> QED
    BY <1>1, <1>3, <1>4, ModuleInvariant, PTL DEF ModSpec, PageByPage, Paged!Spec
=============================================================================

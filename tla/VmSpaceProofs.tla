--------------------------- MODULE VmSpaceProofs ---------------------------
(***************************************************************************)
(* Proofs about the address space of a process of the older kernel, for    *)
(* any page size, granularity, number of threads and size of the host:     *)
(* allocations never share a page, and the host's page tables agree with   *)
(* them through every split.                                               *)
(*                                                                         *)
(* Neither property is inductive alone.  That a new allocation meets no    *)
(* other follows from the host giving out memory that is free, which is    *)
(* known from the storages of the allocations: SpaceInv says that they     *)
(* are disjoint and contain the allocations cut from them.                 *)
(***************************************************************************)
EXTENDS VmSpace, TLAPS

AllNames == Names \cup {"main stack", "module"}

Alloc ==
    [addr : Int, end : Int, prot : SUBSET ALL, name : AllNames,
     storage : [addr : Int, len : Int]]

Placed(a) ==
    /\ a.addr < a.end
    /\ Extent(a) \subseteq Span(a.storage)
    /\ Span(a.storage) \subseteq Units

Apart(A) == \A a, b \in A : a # b => Extent(a) \cap Extent(b) = {}

\* The allocations that threads have made and not stored yet have a storage
\* of their own.
Fresh ==
    \A t \in Threads : \A p \in pending[t] :
        /\ \A a \in allocations : a.storage # p.storage
        /\ \A u \in Threads \ {t} : \A q \in pending[u] : q.storage # p.storage

SpaceInv ==
    /\ allocations \subseteq Alloc
    /\ pending \in [Threads -> SUBSET Alloc]
    /\ \A t \in Threads : \A a, b \in pending[t] : a = b
    /\ Apart(allocations)
    /\ \A a \in Live : Placed(a)
    /\ \A a, b \in Live : a.storage = b.storage \/ Span(a.storage) \cap Span(b.storage) = {}
    /\ Fresh

InUse(u) == \E a \in Live : u \in Span(a.storage)

HostInv ==
    /\ host \in [Units -> [owner : Int, prot : SUBSET CPU_MASK]]
    /\ \A a \in Live : \A u \in Extent(a) :
          host[u] = [owner |-> a.storage.addr, prot |-> into_host(a.prot)]
    /\ \A u \in Units : InUse(u) => host[u].owner >= 0
    /\ \A u \in Units : ~InUse(u) => host[u] = FREE
    /\ \A u \in Units : (\A a \in Live : u \notin Extent(a)) => host[u].prot = {}

IInv == SpaceInv /\ HostInv

-----------------------------------------------------------------------------
(* Arithmetic of pages.                                                    *)

(* align_virtual_page rounds up, by less than a page, and to a page at     *)
(* least.                                                                  *)
LEMMA AlignUp ==
    ASSUME NEW u \in Int
    PROVE  /\ align_virtual_page(u) \in Int
           /\ u <= align_virtual_page(u) /\ align_virtual_page(u) < u + PAGE
  <1>1. PAGE \in Nat /\ PAGE > 0
    BY VmAssumption
  <1>2. u % PAGE \in 0 .. PAGE - 1
    BY <1>1
  <1>3. (PAGE - (u % PAGE)) % PAGE \in 0 .. PAGE - 1
    BY <1>1, <1>2
  <1> QED
    BY <1>1, <1>3 DEF align_virtual_page

LEMMA AlignFull ==
    ASSUME NEW u \in Nat, u # 0
    PROVE  align_virtual_page(u) >= PAGE
  <1>1. PAGE \in Nat /\ PAGE > 0
    BY VmAssumption
  <1>2. CASE u >= PAGE
    BY <1>1, <1>2, AlignUp
  <1>3. CASE u < PAGE
    <2>1. u % PAGE = u
      BY <1>1, <1>3
    <2>2. (PAGE - u) % PAGE = PAGE - u
      BY <1>1, <1>3
    <2> QED
      BY <1>1, <2>1, <2>2 DEF align_virtual_page
  <1> QED
    BY <1>1, <1>2, <1>3

-----------------------------------------------------------------------------
(* Splitting an allocation.                                                *)

(* A part has the pages of the allocation between lo and hi, and the rest  *)
(* of it is kept.                                                          *)
LEMMA PartIs ==
    ASSUME NEW a \in Alloc, NEW lo \in Int, NEW hi \in Int
    PROVE  /\ \A b \in Part(a, lo, hi) :
                 /\ b \in Alloc /\ b.addr < b.end
                 /\ b.prot = a.prot /\ b.name = a.name /\ b.storage = a.storage
                 /\ Extent(b) = Extent(a) \cap (lo .. hi - 1)
           /\ \A b, c \in Part(a, lo, hi) : b = c
           /\ \A u \in Extent(a) \cap (lo .. hi - 1) : \E b \in Part(a, lo, hi) : u \in Extent(b)
  <1> DEFINE l == Larger(a.addr, lo)
             h == Smaller(a.end, hi)
  <1>1. a.addr \in Int /\ a.end \in Int
    BY DEF Alloc
  <1>2. /\ l \in Int /\ h \in Int
        /\ l .. h - 1 = (a.addr .. a.end - 1) \cap (lo .. hi - 1)
    BY <1>1 DEF Larger, Smaller
  <1> HIDE DEF l, h
  <1>3. Part(a, lo, hi) = IF l < h THEN {[a EXCEPT !.addr = l, !.end = h]} ELSE {}
    BY DEF Part, l, h
  <1>4. CASE l < h
    <2> DEFINE b == [a EXCEPT !.addr = l, !.end = h]
    <2>1. /\ b.addr = l /\ b.end = h
          /\ b.prot = a.prot /\ b.name = a.name /\ b.storage = a.storage
      BY DEF Alloc
    <2>2. b \in Alloc
      BY <1>2 DEF Alloc
    <2>3. Extent(b) = Extent(a) \cap (lo .. hi - 1)
      BY <1>2, <2>1 DEF Extent
    <2> HIDE DEF b
    <2>4. Part(a, lo, hi) = {b}
      BY <1>3, <1>4 DEF b
    <2> QED
      BY <1>4, <2>1, <2>2, <2>3, <2>4
  <1>5. CASE ~(l < h)
    <2>1. l .. h - 1 = {}
      BY <1>2, <1>5
    <2> QED
      BY <1>2, <1>3, <1>5, <2>1 DEF Extent
  <1> QED
    BY <1>4, <1>5

LEMMA OutsideIs ==
    ASSUME NEW a \in Alloc, NEW lo \in Int, NEW hi \in Int, lo <= hi
    PROVE  /\ \A b \in Outside(a, lo, hi) :
                 /\ b \in Alloc /\ b.addr < b.end
                 /\ b.prot = a.prot /\ b.name = a.name /\ b.storage = a.storage
                 /\ Extent(b) \subseteq Extent(a) \ (lo .. hi - 1)
           /\ Apart(Outside(a, lo, hi))
           /\ \A u \in Extent(a) \ (lo .. hi - 1) :
                 \E b \in Outside(a, lo, hi) : u \in Extent(b)
  <1>1. a.addr \in Int /\ a.end \in Int
    BY DEF Alloc
  <1>2. /\ Extent(a) \cap (a.addr .. lo - 1) = Extent(a) \cap {u \in Int : u < lo}
        /\ Extent(a) \cap (hi .. a.end - 1) = Extent(a) \cap {u \in Int : hi <= u}
    BY <1>1 DEF Extent
  <1>3. Outside(a, lo, hi) = Part(a, a.addr, lo) \cup Part(a, hi, a.end)
    BY DEF Outside
  <1>4. \A b \in Part(a, a.addr, lo) :
            /\ b \in Alloc /\ b.addr < b.end
            /\ b.prot = a.prot /\ b.name = a.name /\ b.storage = a.storage
            /\ Extent(b) = Extent(a) \cap {u \in Int : u < lo}
    BY <1>1, <1>2, PartIs
  <1>5. \A b \in Part(a, hi, a.end) :
            /\ b \in Alloc /\ b.addr < b.end
            /\ b.prot = a.prot /\ b.name = a.name /\ b.storage = a.storage
            /\ Extent(b) = Extent(a) \cap {u \in Int : hi <= u}
    BY <1>1, <1>2, PartIs
  <1>6. \A u \in Int : ~(u < lo /\ hi <= u) /\ (u \notin lo .. hi - 1 <=> u < lo \/ hi <= u)
    OBVIOUS
  <1>7. \A u \in Extent(a) : u \in Int
    BY <1>1 DEF Extent
  <1>8. \A b \in Outside(a, lo, hi) :
            /\ b \in Alloc /\ b.addr < b.end
            /\ b.prot = a.prot /\ b.name = a.name /\ b.storage = a.storage
            /\ Extent(b) \subseteq Extent(a) \ (lo .. hi - 1)
    BY <1>3, <1>4, <1>5, <1>6
  <1>9. Apart(Outside(a, lo, hi))
    <2>1. \A b, c \in Part(a, a.addr, lo) : b = c
      BY <1>1, PartIs
    <2>2. \A b, c \in Part(a, hi, a.end) : b = c
      BY <1>1, PartIs
    <2>3. \A b \in Part(a, a.addr, lo), c \in Part(a, hi, a.end) : Extent(b) \cap Extent(c) = {}
      BY <1>4, <1>5, <1>6
    <2> QED
      BY <1>3, <2>1, <2>2, <2>3 DEF Apart
  <1>10. ASSUME NEW u \in Extent(a) \ (lo .. hi - 1)
         PROVE  \E b \in Outside(a, lo, hi) : u \in Extent(b)
    <2>1. CASE u < lo
      <3>1. u \in Extent(a) \cap (a.addr .. lo - 1)
        BY <1>2, <1>7, <2>1
      <3>2. \E b \in Part(a, a.addr, lo) : u \in Extent(b)
        BY <1>1, <3>1, PartIs
      <3> QED
        BY <1>3, <3>2
    <2>2. CASE hi <= u
      <3>1. u \in Extent(a) \cap (hi .. a.end - 1)
        BY <1>2, <1>7, <2>2
      <3>2. \E b \in Part(a, hi, a.end) : u \in Extent(b)
        BY <1>1, <3>1, PartIs
      <3> QED
        BY <1>3, <3>2
    <2> QED
      BY <1>6, <1>7, <2>1, <2>2
  <1> QED
    BY <1>8, <1>9, <1>10

-----------------------------------------------------------------------------
(* What munmap, mprotect and mname do to a set of allocations: the targets *)
(* keep what is outside of the range, and new ones come in its place.      *)
Recut(A, T, lo, hi, K) == (A \ T) \cup (UNION {Outside(a, lo, hi) : a \in T}) \cup K

(* The new ones: each is what a target has inside the range.               *)
Inside(K, T, lo, hi) ==
    /\ \A k \in K : /\ k \in Alloc /\ k.addr < k.end
                    /\ \E a \in T : /\ k.storage = a.storage
                                    /\ Extent(k) = Extent(a) \cap (lo .. hi - 1)
    /\ Apart(K)

LEMMA RecutIs ==
    ASSUME NEW A, NEW T, NEW K, NEW lo \in Int, NEW hi \in Int, lo <= hi,
           A \subseteq Alloc, T \subseteq A, Apart(A), \A a \in A : a.addr < a.end,
           Inside(K, T, lo, hi)
    PROVE  /\ \A b \in Recut(A, T, lo, hi, K) :
                 /\ b \in Alloc /\ b.addr < b.end
                 /\ \E a \in A : b.storage = a.storage /\ Extent(b) \subseteq Extent(a)
                 /\ \/ b \in K
                    \/ \E a \in A :
                          /\ b.storage = a.storage /\ b.prot = a.prot
                          /\ Extent(b) \subseteq Extent(a)
                          /\ a \in T => Extent(b) \cap (lo .. hi - 1) = {}
           /\ Apart(Recut(A, T, lo, hi, K))
           /\ \A a \in A : \A u \in Extent(a) :
                 a \notin T \/ u \notin lo .. hi - 1 =>
                    \E b \in Recut(A, T, lo, hi, K) : u \in Extent(b) /\ b.storage = a.storage
  <1> DEFINE B == Recut(A, T, lo, hi, K)
  <1>1. \A b \in B : \/ b \in A \ T
                     \/ \E a \in T : b \in Outside(a, lo, hi)
                     \/ b \in K
    BY Zenon DEF Recut
  <1>2. \A a \in T : \A b \in Outside(a, lo, hi) :
            /\ b \in Alloc /\ b.addr < b.end
            /\ b.prot = a.prot /\ b.storage = a.storage
            /\ Extent(b) \subseteq Extent(a) \ (lo .. hi - 1)
    BY OutsideIs
  <1>3. \A k \in K : /\ k \in Alloc /\ k.addr < k.end
                     /\ \E a \in T : /\ k.storage = a.storage
                                     /\ Extent(k) = Extent(a) \cap (lo .. hi - 1)
    BY DEF Inside
  <1>4. ASSUME NEW b \in B
        PROVE  /\ b \in Alloc /\ b.addr < b.end
               /\ \E a \in A : b.storage = a.storage /\ Extent(b) \subseteq Extent(a)
               /\ \/ b \in K
                  \/ \E a \in A :
                        /\ b.storage = a.storage /\ b.prot = a.prot
                        /\ Extent(b) \subseteq Extent(a)
                        /\ a \in T => Extent(b) \cap (lo .. hi - 1) = {}
    <2>1. CASE b \in A \ T
      BY <2>1
    <2>2. CASE \E a \in T : b \in Outside(a, lo, hi)
      BY <1>2, <2>2
    <2>3. CASE b \in K
      BY <1>3, <2>3
    <2> QED
      BY <1>1, <2>1, <2>2, <2>3
  <1>5. ASSUME NEW b \in B, NEW c \in B, b # c, NEW u, u \in Extent(b), u \in Extent(c)
        PROVE  FALSE
    <2>1. CASE b \in A \ T \/ c \in A \ T
      <3>1. \A x, y \in A : u \in Extent(x) /\ u \in Extent(y) => x = y
        BY DEF Apart
      <3>2. \A x \in B : u \in Extent(x) =>
                \/ x \in A \ T
                \/ \E a \in T : u \in Extent(a)
        BY <1>1, <1>2, <1>3
      <3> QED
        BY <1>5, <2>1, <3>1, <3>2
    <2>2. CASE b \notin A \ T /\ c \notin A \ T
      <3>1. \A x, y \in T : u \in Extent(x) /\ u \in Extent(y) => x = y
        BY DEF Apart
      <3>2. CASE b \in K /\ c \in K
        BY <1>5, <3>2 DEF Inside, Apart
      <3>3. CASE b \notin K /\ c \notin K
        <4>1. PICK x \in T : b \in Outside(x, lo, hi)
          BY <1>1, <2>2, <3>3
        <4>2. PICK y \in T : c \in Outside(y, lo, hi)
          BY <1>1, <2>2, <3>3
        <4>3. x = y
          BY <1>2, <1>5, <3>1, <4>1, <4>2
        <4>4. Apart(Outside(x, lo, hi))
          BY OutsideIs
        <4> QED
          BY <1>5, <4>1, <4>2, <4>3, <4>4 DEF Apart
      <3>4. CASE (b \in K) # (c \in K)
        <4>1. \A x \in B : x \in K => (u \in Extent(x) => u \in lo .. hi - 1)
          BY <1>3
        <4>2. \A x \in B : x \notin A \ T /\ x \notin K => (u \in Extent(x) => u \notin lo .. hi - 1)
          BY <1>1, <1>2
        <4> QED
          BY <1>5, <2>2, <3>4, <4>1, <4>2
      <3> QED
        BY <3>2, <3>3, <3>4
    <2> QED
      BY <2>1, <2>2
  <1>6. ASSUME NEW a \in A, NEW u \in Extent(a), a \notin T \/ u \notin lo .. hi - 1
        PROVE  \E b \in B : u \in Extent(b) /\ b.storage = a.storage
    <2>1. CASE a \notin T
      BY <2>1 DEF Recut
    <2>2. CASE a \in T
      <3>1. PICK b \in Outside(a, lo, hi) : u \in Extent(b)
        BY <1>6, <2>2, OutsideIs
      <3>2. b \in B
        BY <2>2, <3>1 DEF Recut
      <3> QED
        BY <1>2, <2>2, <3>1, <3>2
    <2> QED
      BY <2>1, <2>2
  <1> HIDE DEF B
  <1>7. Apart(B)
    BY <1>5 DEF Apart
  <1> QED
    BY <1>4, <1>6, <1>7 DEF B

LEMMA InRangeStored ==
    ASSUME NEW lo, NEW hi
    PROVE  InRange(lo, hi) \subseteq allocations
  BY DEF InRange, StartFrom

-----------------------------------------------------------------------------
(* A recut keeps SpaceInv: the storages of the parts are those of the      *)
(* allocations they are cut from.                                          *)
LEMMA RecutSpace ==
    ASSUME SpaceInv, NEW T, NEW K, NEW lo \in Int, NEW hi \in Int, lo <= hi,
           T \subseteq allocations, Inside(K, T, lo, hi),
           allocations' = Recut(allocations, T, lo, hi, K), pending' = pending
    PROVE  SpaceInv'
  <1> DEFINE Cuts(b, a) == b.storage = a.storage /\ Extent(b) \subseteq Extent(a)
  <1>1. /\ allocations \subseteq Alloc /\ Apart(allocations)
        /\ \A a \in allocations : a.addr < a.end /\ a \in Live
    BY DEF SpaceInv, Placed, Live
  <1>2. /\ \A b \in allocations' : /\ b \in Alloc /\ b.addr < b.end
                                   /\ \E a \in allocations : Cuts(b, a)
        /\ Apart(allocations')
    <2> DEFINE B == Recut(allocations, T, lo, hi, K)
    <2>1. /\ \A b \in B : /\ b \in Alloc /\ b.addr < b.end
                           /\ \E a \in allocations :
                                 b.storage = a.storage /\ Extent(b) \subseteq Extent(a)
          /\ Apart(B)
      BY <1>1, RecutIs
    <2> HIDE DEF B
    <2>2. allocations' = B
      BY DEF B
    <2> QED
      BY <2>1, <2>2
  <1>3. /\ Live = allocations \cup UNION {pending[t] : t \in Threads}
        /\ Live' = allocations' \cup UNION {pending[t] : t \in Threads}
    BY DEF Live
  <1>4. \A b \in Live' : b \in Live \/ (b.addr < b.end /\ \E a \in allocations : Cuts(b, a))
    BY <1>2, <1>3
  <1>5. \A b \in Live' : \E a \in Live : b.storage = a.storage
    BY <1>1, <1>4
  <1>6. (\A a \in Live : Placed(a))'
    <2>1. ASSUME NEW b \in Live' PROVE Placed(b)
      <3>1. CASE b \in Live
        BY <3>1 DEF SpaceInv
      <3>2. CASE b.addr < b.end /\ \E a \in allocations : Cuts(b, a)
        <4>1. PICK a \in allocations : Cuts(b, a)
          BY <3>2
        <4>2. Placed(a)
          BY <1>1 DEF SpaceInv
        <4> QED
          BY <3>2, <4>1, <4>2 DEF Placed
      <3> QED
        BY <1>4, <3>1, <3>2
    <2> QED
      BY <2>1 DEF Placed, Extent, Span
  <1>7. (\A a, b \in Live : a.storage = b.storage \/ Span(a.storage) \cap Span(b.storage) = {})'
    <2>1. \A a, b \in Live' : a.storage = b.storage \/ Span(a.storage) \cap Span(b.storage) = {}
      BY <1>5 DEF SpaceInv
    <2> QED
      BY <2>1 DEF Span
  <1>8. Fresh'
    BY <1>2 DEF SpaceInv, Fresh
  <1>9. Apart(allocations)'
    BY <1>2 DEF Apart, Extent
  <1> QED
    BY <1>2, <1>6, <1>7, <1>8, <1>9 DEF SpaceInv

-----------------------------------------------------------------------------
(* Two allocations with different storages share no page, and allocations  *)
(* that share a storage are stored.                                        *)
LEMMA SpaceDisjoint ==
    ASSUME SpaceInv
    PROVE  Disjoint
  <1> SUFFICES ASSUME NEW a \in Live, NEW b \in Live, a # b
               PROVE  Extent(a) \cap Extent(b) = {}
    BY DEF Disjoint
  <1>1. CASE a.storage # b.storage
    BY <1>1 DEF SpaceInv, Placed
  <1>2. CASE a.storage = b.storage
    <2>1. \A c \in Live : c \in allocations \/ \E t \in Threads : c \in pending[t]
      BY DEF Live
    <2>2. a \in allocations /\ b \in allocations
      BY <1>2, <2>1 DEF SpaceInv, Fresh
    <2> QED
      BY <2>2 DEF SpaceInv, Apart
  <1> QED
    BY <1>1, <1>2

-----------------------------------------------------------------------------
(* The host has the protection of the new parts K and nothing else changed. *)
HostFollows(T, K, lo, hi) ==
    /\ \A a \in T : \A u \in Extent(a) \cap (lo .. hi - 1) :
          \E k \in K : u \in Extent(k) /\ k.storage = a.storage
    /\ host' \in [Units -> [owner : Int, prot : SUBSET CPU_MASK]]
    /\ \A u \in Units : host'[u].owner = host[u].owner
    /\ \A u \in Units : (\A a \in T : u \notin Extent(a) \cap (lo .. hi - 1)) =>
          host'[u] = host[u]
    /\ \A k \in K : \A u \in Extent(k) :
          host'[u] = [owner |-> k.storage.addr, prot |-> into_host(k.prot)]

(* update: a recut in which every part stays allocated.  If the host has   *)
(* the protection of the new parts and nothing else changed, the page      *)
(* tables still agree.                                                     *)
LEMMA UpdateHost ==
    ASSUME IInv, NEW T, NEW K, NEW lo \in Int, NEW hi \in Int, lo <= hi,
           T \subseteq allocations, Inside(K, T, lo, hi),
           allocations' = Recut(allocations, T, lo, hi, K), pending' = pending,
           HostFollows(T, K, lo, hi)
    PROVE  HostInv'
  <1>0. /\ \A a \in T : \A u \in Extent(a) \cap (lo .. hi - 1) :
              \E k \in K : u \in Extent(k) /\ k.storage = a.storage
        /\ host' \in [Units -> [owner : Int, prot : SUBSET CPU_MASK]]
        /\ \A u \in Units : host'[u].owner = host[u].owner
        /\ \A u \in Units : (\A a \in T : u \notin Extent(a) \cap (lo .. hi - 1)) =>
              host'[u] = host[u]
        /\ \A k \in K : \A u \in Extent(k) :
              host'[u] = [owner |-> k.storage.addr, prot |-> into_host(k.prot)]
    BY Zenon DEF HostFollows
  <1> USE <1>0
  <1>1. /\ allocations \subseteq Alloc /\ Apart(allocations)
        /\ \A a \in allocations : a.addr < a.end /\ a \in Live
    BY DEF IInv, SpaceInv, Placed, Live
  <1>2. /\ \A b \in allocations' :
              \/ b \in K
              \/ \E a \in allocations :
                    /\ b.storage = a.storage /\ b.prot = a.prot
                    /\ Extent(b) \subseteq Extent(a)
                    /\ a \in T => Extent(b) \cap (lo .. hi - 1) = {}
        /\ \A b \in allocations' : \E a \in allocations : b.storage = a.storage
        /\ \A a \in allocations : \A u \in Extent(a) :
              a \notin T \/ u \notin lo .. hi - 1 =>
                 \E b \in allocations' : u \in Extent(b) /\ b.storage = a.storage
    <2> DEFINE B == Recut(allocations, T, lo, hi, K)
    <2>1. /\ \A b \in B :
                \/ b \in K
                \/ \E a \in allocations :
                      /\ b.storage = a.storage /\ b.prot = a.prot
                      /\ Extent(b) \subseteq Extent(a)
                      /\ a \in T => Extent(b) \cap (lo .. hi - 1) = {}
          /\ \A b \in B : \E a \in allocations : b.storage = a.storage
          /\ \A a \in allocations : \A u \in Extent(a) :
                a \notin T \/ u \notin lo .. hi - 1 =>
                   \E b \in B : u \in Extent(b) /\ b.storage = a.storage
      BY <1>1, RecutIs
    <2> HIDE DEF B
    <2>2. allocations' = B
      BY DEF B
    <2> QED
      BY <2>1, <2>2
  <1>3. /\ Live = allocations \cup UNION {pending[t] : t \in Threads}
        /\ Live' = allocations' \cup UNION {pending[t] : t \in Threads}
        /\ \A k \in K : k \in allocations'
    BY DEF Live, Recut
  <1>4. \A a \in Live : \A u \in Extent(a) : u \in Units
    BY DEF IInv, SpaceInv, Placed
  <1>5. \A a, b \in Live : \A u \in Extent(a) : u \in Extent(b) => a = b
    BY SpaceDisjoint DEF IInv, Disjoint
  <1>6. \A a \in Live' : \A u \in Extent(a) :
            host'[u] = [owner |-> a.storage.addr, prot |-> into_host(a.prot)]
    <2> SUFFICES ASSUME NEW b \in Live', NEW u \in Extent(b)
                 PROVE  host'[u] = [owner |-> b.storage.addr, prot |-> into_host(b.prot)]
      OBVIOUS
    <2>1. CASE b \in K
      BY <2>1
    <2>2. ASSUME NEW a \in Live, b.storage = a.storage, b.prot = a.prot,
                 Extent(b) \subseteq Extent(a),
                 a \in T => Extent(b) \cap (lo .. hi - 1) = {}
          PROVE  host'[u] = [owner |-> b.storage.addr, prot |-> into_host(b.prot)]
      <3>1. u \in Units /\ u \in Extent(a)
        BY <1>4, <2>2
      <3>2. \A c \in T : u \notin Extent(c) \cap (lo .. hi - 1)
        BY <1>1, <1>5, <2>2, <3>1
      <3>3. host'[u] = host[u]
        BY <3>1, <3>2
      <3>4. host[u] = [owner |-> a.storage.addr, prot |-> into_host(a.prot)]
        BY <3>1 DEF IInv, HostInv
      <3> QED
        BY <2>2, <3>3, <3>4
    <2>3. CASE b \in allocations' /\ b \notin K
      BY <1>1, <1>2, <2>2, <2>3
    <2>4. CASE b \notin allocations'
      <3>1. PICK t \in Threads : b \in pending[t]
        BY <1>3, <2>4
      <3>2. b \in Live
        BY <1>3, <3>1
      <3>3. b \notin T
        <4>1. b \notin allocations
          BY <3>1 DEF IInv, SpaceInv, Fresh
        <4> QED
          BY <4>1
      <3> QED
        BY <2>2, <3>2, <3>3
    <2> QED
      BY <2>1, <2>3, <2>4
  <1>7. \A u \in Units : InUse(u)' <=> InUse(u)
    <2>1. \A b \in Live' : \E a \in Live : b.storage = a.storage
      <3>1. \A b \in allocations' : \E a \in allocations : b.storage = a.storage
        BY <1>2
      <3>2. \A b \in Live' : b \in allocations' \/ b \in Live
        BY <1>3
      <3> QED
        BY <1>1, <3>1, <3>2
    <2>2. \A a \in Live : \E b \in Live' : b.storage = a.storage
      <3> SUFFICES ASSUME NEW a \in allocations
                   PROVE  \E b \in allocations' : b.storage = a.storage
        BY <1>3
      <3>1. a.addr \in Extent(a)
        <4>1. a.addr \in Int /\ a.end \in Int /\ a.addr < a.end
          BY <1>1 DEF Alloc
        <4> QED
          BY <4>1 DEF Extent
      <3> QED
        BY <1>2, <1>3, <3>1
    <2> QED
      BY <2>1, <2>2 DEF InUse, Span
  <1>8. \A u \in Units : (\A a \in Live' : u \notin Extent(a)) => host'[u].prot = {}
    <2> SUFFICES ASSUME NEW u \in Units, \A a \in Live' : u \notin Extent(a)
                 PROVE  host'[u].prot = {}
      OBVIOUS
    <2>1. \A a \in Live : u \notin Extent(a)
      BY <1>2, <1>3
    <2>2. host'[u] = host[u]
      BY <1>1, <2>1
    <2> QED
      BY <2>1, <2>2 DEF IInv, HostInv
  <1>9. \A u \in Units : host[u] = FREE => host'[u] = FREE
    <2> SUFFICES ASSUME NEW u \in Units, host[u] = FREE
                 PROVE  host'[u] = FREE
      OBVIOUS
    <2>1. \A a \in Live : u \notin Extent(a)
      <3>1. \A a \in Live : u \in Extent(a) => InUse(u)
        BY DEF InUse, IInv, SpaceInv, Placed
      <3>2. ~InUse(u)
        BY DEF IInv, HostInv, FREE
      <3> QED
        BY <3>1, <3>2
    <2> QED
      BY <1>1, <2>1
  <1>10. (\A a \in Live : \A u \in Extent(a) :
            host[u] = [owner |-> a.storage.addr, prot |-> into_host(a.prot)])'
    BY <1>6 DEF Extent, into_host
  <1>11. (\A u \in Units : (\A a \in Live : u \notin Extent(a)) => host[u].prot = {})'
    BY <1>8 DEF Extent
  <1>12. /\ \A u \in Units : InUse(u) => host[u].owner >= 0
         /\ \A u \in Units : ~InUse(u) => host[u] = FREE
    BY DEF IInv, HostInv
  <1>13. /\ \A u \in Units : InUse(u)' => host'[u].owner >= 0
         /\ \A u \in Units : ~InUse(u)' => host'[u] = FREE
    BY <1>7, <1>9, <1>12
  <1> QED
    BY <1>10, <1>11, <1>13 DEF HostInv, FREE

-----------------------------------------------------------------------------
(* The system calls.                                                       *)

(* What update puts in the range: f[b] is the new form of the part b.      *)
Remade(K, T, lo, hi, f) ==
    /\ \A b \in Alloc : /\ f[b] \in Alloc
                        /\ f[b].addr = b.addr /\ f[b].end = b.end /\ f[b].storage = b.storage
    /\ \A k \in K : \E a \in T : \E b \in Part(a, lo, hi) : k = f[b]
    /\ \A a \in T : \A b \in Part(a, lo, hi) : f[b] \in K

LEMMA RemadeIs ==
    ASSUME SpaceInv, NEW T, NEW K, NEW lo \in Int, NEW hi \in Int, NEW f,
           T \subseteq allocations, Remade(K, T, lo, hi, f)
    PROVE  /\ Inside(K, T, lo, hi)
           /\ \A a \in T : \A u \in Extent(a) \cap (lo .. hi - 1) :
                  \E k \in K : u \in Extent(k) /\ k.storage = a.storage
           /\ \A k \in K : \E a \in T : \E b \in Alloc :
                  /\ k = f[b]
                  /\ b.storage = a.storage /\ b.prot = a.prot /\ b.name = a.name
                  /\ Extent(k) = Extent(a) \cap (lo .. hi - 1)
  <1>1. \A a \in T : a \in Alloc
    BY DEF SpaceInv
  <1>2. \A a \in T : \A b \in Part(a, lo, hi) :
            /\ b \in Alloc /\ b.addr < b.end
            /\ b.storage = a.storage /\ b.prot = a.prot /\ b.name = a.name
            /\ Extent(b) = Extent(a) \cap (lo .. hi - 1)
    BY <1>1, PartIs
  <1>3. \A b \in Alloc : Extent(f[b]) = Extent(b)
    BY DEF Extent, Remade
  <1>4. ASSUME NEW k \in K
        PROVE  /\ k \in Alloc /\ k.addr < k.end
               /\ \E a \in T : \E b \in Alloc :
                     /\ b \in Part(a, lo, hi)
                     /\ k = f[b]
                     /\ b.storage = a.storage /\ b.prot = a.prot /\ b.name = a.name
                     /\ k.storage = a.storage
                     /\ Extent(k) = Extent(a) \cap (lo .. hi - 1)
    <2>1. PICK a \in T : \E b \in Part(a, lo, hi) : k = f[b]
      BY DEF Remade
    <2>2. PICK b \in Part(a, lo, hi) : k = f[b]
      BY <2>1
    <2>3. /\ b \in Alloc /\ b.addr < b.end
          /\ b.storage = a.storage /\ b.prot = a.prot /\ b.name = a.name
          /\ Extent(b) = Extent(a) \cap (lo .. hi - 1)
      BY <1>2, <2>2
    <2>4. k \in Alloc /\ k.addr = b.addr /\ k.end = b.end /\ k.storage = b.storage
      BY <2>2, <2>3 DEF Remade
    <2>5. Extent(k) = Extent(b)
      BY <1>3, <2>2, <2>3
    <2> QED
      BY <2>2, <2>3, <2>4, <2>5
  <1>5. ASSUME NEW k \in K, NEW l \in K, NEW u, u \in Extent(k), u \in Extent(l)
        PROVE  k = l
    <2>1. PICK a \in T : \E b \in Part(a, lo, hi) :
              k = f[b] /\ Extent(k) = Extent(a) \cap (lo .. hi - 1)
      BY <1>4
    <2>2. PICK c \in T : \E b \in Part(c, lo, hi) :
              l = f[b] /\ Extent(l) = Extent(c) \cap (lo .. hi - 1)
      BY <1>4
    <2>3. a = c
      BY <1>5, <2>1, <2>2 DEF SpaceInv, Apart
    <2>4. \A b, d \in Part(a, lo, hi) : b = d
      BY <1>1, PartIs
    <2> QED
      BY <2>1, <2>2, <2>3, <2>4
  <1>6. Inside(K, T, lo, hi)
    BY <1>4, <1>5 DEF Inside, Apart
  <1>7. ASSUME NEW a \in T, NEW u \in Extent(a) \cap (lo .. hi - 1)
        PROVE  \E k \in K : u \in Extent(k) /\ k.storage = a.storage
    <2>1. PICK b \in Part(a, lo, hi) : u \in Extent(b)
      BY <1>1, PartIs
    <2>2. b \in Alloc /\ b.storage = a.storage
      BY <1>2
    <2>3. f[b] \in K /\ f[b].storage = b.storage
      BY <2>2 DEF Remade
    <2>4. u \in Extent(f[b])
      BY <1>3, <2>1, <2>2
    <2> QED
      BY <2>2, <2>3, <2>4
  <1> QED
    BY <1>4, <1>6, <1>7

(* What mprotect puts in the range, and mname.                                *)
LEMMA ProtectRemade ==
    ASSUME SpaceInv, NEW T, T \subseteq allocations, NEW first \in Int, NEW end \in Int,
           NEW prot \in SUBSET ALL, NEW f, f = [b \in Alloc |-> [b EXCEPT !.prot = prot]],
           NEW K, K = UNION {{[a EXCEPT !.prot = prot] : a \in Part(b, first, end)} : b \in T}
    PROVE  Remade(K, T, first, end, f)
  <1>1. \A b \in Alloc : /\ f[b] \in Alloc
                         /\ f[b].addr = b.addr /\ f[b].end = b.end
                         /\ f[b].storage = b.storage
    BY DEF Alloc
  <1>2. \A a \in T : \A b \in Part(a, first, end) : b \in Alloc
    BY PartIs DEF SpaceInv
  <1>3. \A k \in K : \E a \in T : \E b \in Part(a, first, end) : k = f[b]
    <2> SUFFICES ASSUME NEW k \in K
                 PROVE  \E a \in T : \E b \in Part(a, first, end) : k = f[b]
      OBVIOUS
    <2>1. PICK a \in T : k \in {[b EXCEPT !.prot = prot] : b \in Part(a, first, end)}
      OBVIOUS
    <2>2. PICK b \in Part(a, first, end) : k = [b EXCEPT !.prot = prot]
      BY <2>1
    <2>3. k = f[b]
      BY <1>2, <2>2
    <2> QED
      BY <2>3
  <1>4. ASSUME NEW a \in T, NEW b \in Part(a, first, end) PROVE f[b] \in K
    <2>1. f[b] = [b EXCEPT !.prot = prot]
      BY <1>2
    <2>2. PICK X : X = {[c EXCEPT !.prot = prot] : c \in Part(a, first, end)}
      OBVIOUS
    <2>3. [b EXCEPT !.prot = prot] \in X
      BY <2>2
    <2>4. X \subseteq K
      BY <2>2, Zenon
    <2> QED
      BY <2>1, <2>3, <2>4, Zenon
  <1> QED
    BY <1>1, <1>3, <1>4 DEF Remade

LEMMA NameRemade ==
    ASSUME SpaceInv, NEW T, T \subseteq allocations, NEW first \in Int, NEW end \in Int,
           NEW name \in AllNames, NEW f, f = [b \in Alloc |-> [b EXCEPT !.name = name]],
           NEW K, K = UNION {{[a EXCEPT !.name = name] : a \in Part(b, first, end)} : b \in T}
    PROVE  Remade(K, T, first, end, f)
  <1>1. \A b \in Alloc : /\ f[b] \in Alloc
                         /\ f[b].addr = b.addr /\ f[b].end = b.end
                         /\ f[b].storage = b.storage
    BY DEF Alloc
  <1>2. \A a \in T : \A b \in Part(a, first, end) : b \in Alloc
    BY PartIs DEF SpaceInv
  <1>3. \A k \in K : \E a \in T : \E b \in Part(a, first, end) : k = f[b]
    <2> SUFFICES ASSUME NEW k \in K
                 PROVE  \E a \in T : \E b \in Part(a, first, end) : k = f[b]
      OBVIOUS
    <2>1. PICK a \in T : k \in {[b EXCEPT !.name = name] : b \in Part(a, first, end)}
      OBVIOUS
    <2>2. PICK b \in Part(a, first, end) : k = [b EXCEPT !.name = name]
      BY <2>1
    <2>3. k = f[b]
      BY <1>2, <2>2
    <2> QED
      BY <2>3
  <1>4. ASSUME NEW a \in T, NEW b \in Part(a, first, end) PROVE f[b] \in K
    <2>1. f[b] = [b EXCEPT !.name = name]
      BY <1>2
    <2>2. PICK X : X = {[c EXCEPT !.name = name] : c \in Part(a, first, end)}
      OBVIOUS
    <2>3. [b EXCEPT !.name = name] \in X
      BY <2>2
    <2>4. X \subseteq K
      BY <2>2, Zenon
    <2> QED
      BY <2>1, <2>3, <2>4, Zenon
  <1> QED
    BY <1>1, <1>3, <1>4 DEF Remade

LEMMA MprotectInv ==
    ASSUME IInv, NEW first \in Int, NEW len \in Nat, NEW prot \in SUBSET ALL,
           mprotect(first, len, prot), pending' = pending
    PROVE  IInv'
  <1> DEFINE f == [b \in Alloc |-> [b EXCEPT !.prot = prot]]
  <1>1. PICK end : end = align_virtual_page(first + len)
    OBVIOUS
  <1>2. end \in Int /\ first <= end
    BY <1>1, AlignUp
  <1>3. PICK T : T = {a \in InRange(first, end) : a.prot # prot}
    OBVIOUS
  <1>4. PICK K : K = UNION {{[a EXCEPT !.prot = prot] : a \in Part(b, first, end)} : b \in T}
    OBVIOUS
  <1>5. T \subseteq allocations /\ \A a \in T : a \in Alloc /\ a \in Live
    BY <1>3, InRangeStored DEF IInv, SpaceInv, Live
  <1>6. allocations' = Recut(allocations, T, first, end, K)
    BY <1>1, <1>3, <1>4 DEF mprotect, update, Recut
  <1>7. PICK R : R = UNION {Extent(a) \cap (first .. end - 1) : a \in T}
    OBVIOUS
  <1>8. host' = [u \in Units |-> IF u \in R THEN [host[u] EXCEPT !.prot = into_host(prot)]
                                            ELSE host[u]]
    BY <1>1, <1>3, <1>7 DEF mprotect, Protected
  <1>9. \A u : u \in R <=> \E a \in T : u \in Extent(a) \cap (first .. end - 1)
    BY <1>7
  <1>10. /\ host \in [Units -> [owner : Int, prot : SUBSET CPU_MASK]]
         /\ into_host(prot) \in SUBSET CPU_MASK
    BY DEF IInv, HostInv, into_host
  <1>11. host' \in [Units -> [owner : Int, prot : SUBSET CPU_MASK]]
    BY <1>8, <1>10
  <1>12. Remade(K, T, first, end, f)
    <2>1. SpaceInv
      BY DEF IInv
    <2>2. f = [b \in Alloc |-> [b EXCEPT !.prot = prot]]
      OBVIOUS
    <2> HIDE DEF f
    <2> QED
      BY <1>2, <1>4, <1>5, <2>1, <2>2, ProtectRemade
  <1>13. \A b \in Alloc : f[b].prot = prot /\ f[b].storage = b.storage
    BY DEF Alloc
  <1> HIDE DEF f
  <1>14. /\ Inside(K, T, first, end)
         /\ \A a \in T : \A u \in Extent(a) \cap (first .. end - 1) :
                \E k \in K : u \in Extent(k) /\ k.storage = a.storage
         /\ \A k \in K : \E a \in T : \E b \in Alloc :
                /\ k = f[b] /\ b.storage = a.storage /\ b.prot = a.prot
                /\ Extent(k) = Extent(a) \cap (first .. end - 1)
    BY <1>2, <1>5, <1>12, RemadeIs DEF IInv
  <1>15. \A k \in K : \A u \in Extent(k) :
             host'[u] = [owner |-> k.storage.addr, prot |-> into_host(k.prot)]
    <2> SUFFICES ASSUME NEW k \in K, NEW u \in Extent(k)
                 PROVE  host'[u] = [owner |-> k.storage.addr, prot |-> into_host(k.prot)]
      OBVIOUS
    <2>1. PICK a \in T : /\ k.storage = a.storage /\ k.prot = prot
                         /\ u \in Extent(a) \cap (first .. end - 1)
      BY <1>13, <1>14
    <2>2. u \in Units /\ host[u] = [owner |-> a.storage.addr, prot |-> into_host(a.prot)]
      BY <1>5, <2>1 DEF IInv, HostInv, SpaceInv, Placed
    <2> QED
      BY <1>8, <1>9, <2>1, <2>2
  <1>16. \A u \in Units : host'[u].owner = host[u].owner
    BY <1>8, <1>10
  <1>17. \A u \in Units : (\A a \in T : u \notin Extent(a) \cap (first .. end - 1)) =>
             host'[u] = host[u]
    BY <1>8, <1>9
  <1>18. SpaceInv'
    BY <1>2, <1>5, <1>6, <1>14, RecutSpace DEF IInv
  <1>19. HostInv'
    <2>1. HostFollows(T, K, first, end)
      BY <1>11, <1>14, <1>15, <1>16, <1>17, Zenon DEF HostFollows
    <2> QED
      BY <1>2, <1>5, <1>6, <1>14, <2>1, UpdateHost
  <1> QED
    BY <1>18, <1>19 DEF IInv

(* mname touches no page table.                                            *)
LEMMA MnameInv ==
    ASSUME IInv, NEW first \in Int, NEW len \in Nat, NEW name \in AllNames,
           mname(first, len, name), pending' = pending
    PROVE  IInv'
  <1> DEFINE f == [b \in Alloc |-> [b EXCEPT !.name = name]]
  <1>1. PICK end : end = align_virtual_page(first + len)
    OBVIOUS
  <1>2. end \in Int /\ first <= end
    BY <1>1, AlignUp
  <1>3. PICK T : T = {a \in InRange(first, end) : a.name # name}
    OBVIOUS
  <1>4. PICK K : K = UNION {{[a EXCEPT !.name = name] : a \in Part(b, first, end)} : b \in T}
    OBVIOUS
  <1>5. T \subseteq allocations /\ \A a \in T : a \in Alloc /\ a \in Live
    BY <1>3, InRangeStored DEF IInv, SpaceInv, Live
  <1>6. allocations' = Recut(allocations, T, first, end, K) /\ host' = host
    BY <1>1, <1>3, <1>4 DEF mname, update, Recut
  <1>7. Remade(K, T, first, end, f)
    <2>1. SpaceInv
      BY DEF IInv
    <2>2. f = [b \in Alloc |-> [b EXCEPT !.name = name]]
      OBVIOUS
    <2> HIDE DEF f
    <2> QED
      BY <1>2, <1>4, <1>5, <2>1, <2>2, NameRemade
  <1>8. \A b \in Alloc : f[b].prot = b.prot /\ f[b].storage = b.storage
    BY DEF Alloc
  <1> HIDE DEF f
  <1>9. /\ Inside(K, T, first, end)
        /\ \A a \in T : \A u \in Extent(a) \cap (first .. end - 1) :
               \E k \in K : u \in Extent(k) /\ k.storage = a.storage
        /\ \A k \in K : \E a \in T : \E b \in Alloc :
               /\ k = f[b] /\ b.storage = a.storage /\ b.prot = a.prot
               /\ Extent(k) = Extent(a) \cap (first .. end - 1)
    <2>1. SpaceInv /\ T \subseteq allocations
      BY <1>5 DEF IInv
    <2> QED
      BY <1>2, <1>7, <2>1, RemadeIs
  <1>10. \A k \in K : \A u \in Extent(k) :
             host'[u] = [owner |-> k.storage.addr, prot |-> into_host(k.prot)]
    <2> SUFFICES ASSUME NEW k \in K, NEW u \in Extent(k)
                 PROVE  host'[u] = [owner |-> k.storage.addr, prot |-> into_host(k.prot)]
      OBVIOUS
    <2>1. PICK a \in T : /\ k.storage = a.storage /\ k.prot = a.prot
                         /\ u \in Extent(a)
      BY <1>8, <1>9
    <2>2. host[u] = [owner |-> a.storage.addr, prot |-> into_host(a.prot)]
      BY <1>5, <2>1 DEF IInv, HostInv
    <2> QED
      BY <1>6, <2>1, <2>2
  <1>11. host' \in [Units -> [owner : Int, prot : SUBSET CPU_MASK]]
    BY <1>6 DEF IInv, HostInv
  <1>12. SpaceInv'
    BY <1>2, <1>5, <1>6, <1>9, RecutSpace DEF IInv
  <1>13. HostInv'
    <2>1. HostFollows(T, K, first, end)
      BY <1>6, <1>9, <1>10, <1>11, Zenon DEF HostFollows
    <2> QED
      BY <1>2, <1>5, <1>6, <1>9, <2>1, UpdateHost
  <1> QED
    BY <1>12, <1>13 DEF IInv

(* munmap takes the pages of the range from the host, and the whole        *)
(* storage with the last part of it.                                       *)
LEMMA MunmapInv ==
    ASSUME IInv, NEW first \in Int, NEW len \in Nat, munmap(first, len), pending' = pending
    PROVE  IInv'
  <1>1. PICK end : end = align_virtual_page(first + len)
    OBVIOUS
  <1>2. end \in Int /\ first <= end
    BY <1>1, AlignUp
  <1>3. PICK T : T = InRange(first, end)
    OBVIOUS
  <1>4. T \subseteq allocations /\ \A a \in T : a \in Alloc
    BY <1>3, InRangeStored DEF IInv, SpaceInv
  <1>5. allocations' = Recut(allocations, T, first, end, {})
    BY <1>1, <1>3 DEF munmap, Recut
  <1>6. PICK R : R = UNION {Extent(a) : a \in UNION {Part(a, first, end) : a \in T}}
    OBVIOUS
  <1>7. PICK G : G = {a.storage : a \in allocations} \ {a.storage : a \in allocations'}
    OBVIOUS
  <1>8. host' = [u \in Units |-> IF \E s \in G : u \in Span(s) THEN FREE
                                 ELSE IF u \in R THEN [host[u] EXCEPT !.prot = {}] ELSE host[u]]
    BY <1>1, <1>3, <1>6, <1>7 DEF munmap, Dropped, Protected
  <1>9. \A u : u \in R <=> \E a \in T : u \in Extent(a) \cap (first .. end - 1)
    <2>1. \A a \in T : \A b \in Part(a, first, end) : Extent(b) = Extent(a) \cap (first .. end - 1)
      BY <1>2, <1>4, PartIs
    <2>2. \A a \in T : \A u \in Extent(a) \cap (first .. end - 1) :
              \E b \in Part(a, first, end) : u \in Extent(b)
      BY <1>2, <1>4, PartIs
    <2>3. \A u : u \in R <=> \E a \in T : \E b \in Part(a, first, end) : u \in Extent(b)
      BY <1>6
    <2> QED
      BY <2>1, <2>2, <2>3
  <1>10. Inside({}, T, first, end)
    BY DEF Inside, Apart
  <1>11. SpaceInv'
    BY <1>2, <1>4, <1>5, <1>10, RecutSpace DEF IInv
  <1>12. /\ allocations \subseteq Alloc /\ Apart(allocations)
         /\ \A a \in allocations : a.addr < a.end /\ a \in Live
    BY DEF IInv, SpaceInv, Placed, Live
  <1>13. /\ \A b \in allocations' : \E a \in allocations :
                /\ b.storage = a.storage /\ b.prot = a.prot
                /\ Extent(b) \subseteq Extent(a)
                /\ a \in T => Extent(b) \cap (first .. end - 1) = {}
         /\ \A a \in allocations : \A u \in Extent(a) :
                a \notin T \/ u \notin first .. end - 1 =>
                   \E b \in allocations' : u \in Extent(b) /\ b.storage = a.storage
    <2> DEFINE B == Recut(allocations, T, first, end, {})
    <2>1. /\ \A b \in B : \E a \in allocations :
                 /\ b.storage = a.storage /\ b.prot = a.prot
                 /\ Extent(b) \subseteq Extent(a)
                 /\ a \in T => Extent(b) \cap (first .. end - 1) = {}
          /\ \A a \in allocations : \A u \in Extent(a) :
                 a \notin T \/ u \notin first .. end - 1 =>
                    \E b \in B : u \in Extent(b) /\ b.storage = a.storage
      BY <1>2, <1>4, <1>10, <1>12, RecutIs
    <2> HIDE DEF B
    <2>2. allocations' = B
      BY <1>5 DEF B
    <2> QED
      BY <2>1, <2>2
  <1>14. /\ Live = allocations \cup UNION {pending[t] : t \in Threads}
         /\ Live' = allocations' \cup UNION {pending[t] : t \in Threads}
    BY DEF Live
  <1>15. \A b \in Live' : \E a \in Live :
             /\ b.storage = a.storage /\ b.prot = a.prot
             /\ Extent(b) \subseteq Extent(a)
             /\ a \in T => Extent(b) \cap (first .. end - 1) = {}
    <2> SUFFICES ASSUME NEW b \in Live', b \notin allocations'
                 PROVE  b \in Live /\ b \notin T
      BY <1>12, <1>13
    <2>1. PICK t \in Threads : b \in pending[t]
      BY <1>14
    <2>2. b \notin allocations
      BY <2>1 DEF IInv, SpaceInv, Fresh
    <2> QED
      BY <1>4, <1>14, <2>1, <2>2
  <1>16. \A s \in G : \A b \in Live' : Span(s) \cap Span(b.storage) = {}
    <2> SUFFICES ASSUME NEW s \in G, NEW b \in Live'
                 PROVE  Span(s) \cap Span(b.storage) = {}
      OBVIOUS
    <2>1. PICK a \in allocations : s = a.storage
      BY <1>7
    <2>2. s # b.storage
      <3>1. CASE b \in allocations'
        BY <1>7, <3>1
      <3>2. CASE b \notin allocations'
        <4>1. PICK t \in Threads : b \in pending[t]
          BY <1>14, <3>2
        <4> QED
          BY <2>1, <4>1 DEF IInv, SpaceInv, Fresh
      <3> QED
        BY <3>1, <3>2
    <2>3. PICK c \in Live : b.storage = c.storage
      BY <1>15
    <2> QED
      BY <1>12, <2>1, <2>2, <2>3 DEF IInv, SpaceInv
  <1>17. /\ host \in [Units -> [owner : Int, prot : SUBSET CPU_MASK]]
         /\ \A u \in Units : InUse(u) => host[u].owner >= 0
         /\ \A u \in Units : ~InUse(u) => host[u] = FREE
         /\ \A u \in Units : (\A a \in Live : u \notin Extent(a)) => host[u].prot = {}
    BY DEF IInv, HostInv
  <1>18. (host \in [Units -> [owner : Int, prot : SUBSET CPU_MASK]])'
    <2>1. FREE \in [owner : Int, prot : SUBSET CPU_MASK]
      BY DEF FREE
    <2>2. \A u \in Units : [host[u] EXCEPT !.prot = {}] \in [owner : Int, prot : SUBSET CPU_MASK]
      BY <1>17
    <2>3. host' \in [Units -> [owner : Int, prot : SUBSET CPU_MASK]]
      BY <1>8, <1>17, <2>1, <2>2
    <2> QED
      BY <2>3 DEF Units, CPU_MASK
  <1>19. \A a \in Live' : \A u \in Extent(a) :
             host'[u] = [owner |-> a.storage.addr, prot |-> into_host(a.prot)]
    <2> SUFFICES ASSUME NEW b \in Live', NEW u \in Extent(b)
                 PROVE  host'[u] = [owner |-> b.storage.addr, prot |-> into_host(b.prot)]
      OBVIOUS
    <2>1. PICK a \in Live : /\ b.storage = a.storage /\ b.prot = a.prot
                            /\ Extent(b) \subseteq Extent(a)
                            /\ a \in T => Extent(b) \cap (first .. end - 1) = {}
      BY <1>15
    <2>2. u \in Extent(a) /\ u \in Units /\ u \in Span(b.storage)
      BY <2>1 DEF IInv, SpaceInv, Placed
    <2>3. ~(\E s \in G : u \in Span(s))
      BY <1>16, <2>2
    <2>4. u \notin R
      <3>1. \A c \in T : u \in Extent(c) => c = a
        BY <1>4, <1>12, <2>2, SpaceDisjoint DEF IInv, Disjoint
      <3> QED
        BY <1>9, <2>1, <3>1
    <2>5. host[u] = [owner |-> a.storage.addr, prot |-> into_host(a.prot)]
      BY <2>2 DEF IInv, HostInv
    <2> QED
      BY <1>8, <2>1, <2>2, <2>3, <2>4, <2>5
  <1>20. ASSUME NEW u \in Units, \E a \in Live' : u \in Span(a.storage)
         PROVE  host'[u].owner >= 0
    <2>1. ~(\E s \in G : u \in Span(s))
      BY <1>16, <1>20
    <2>2. InUse(u)
      BY <1>15, <1>20 DEF InUse
    <2> QED
      BY <1>8, <1>17, <2>1, <2>2
  <1>21. ASSUME NEW u \in Units, ~(\E a \in Live' : u \in Span(a.storage))
         PROVE  host'[u] = FREE
    <2>1. CASE InUse(u)
      <3>1. PICK a \in Live : u \in Span(a.storage)
        BY <2>1 DEF InUse
      <3>2. a \in allocations
        BY <1>14, <1>21, <3>1
      <3>3. a.storage \in G
        BY <1>7, <1>14, <1>21, <3>1, <3>2
      <3> QED
        BY <1>8, <3>1, <3>3
    <2>2. CASE ~InUse(u)
      <3>1. u \notin R
        <4>1. \A a \in T : u \notin Extent(a)
          BY <1>4, <1>12, <2>2 DEF InUse, IInv, SpaceInv, Placed
        <4> QED
          BY <1>9, <4>1
      <3> QED
        BY <1>8, <1>17, <2>2, <3>1
    <2> QED
      BY <2>1, <2>2
  <1>22. ASSUME NEW u \in Units, \A a \in Live' : u \notin Extent(a)
         PROVE  host'[u].prot = {}
    <2>1. CASE \E s \in G : u \in Span(s)
      BY <1>8, <2>1 DEF FREE
    <2>2. CASE u \in R
      BY <1>8, <1>17, <2>1, <2>2
    <2>3. CASE u \notin R /\ ~(\E s \in G : u \in Span(s))
      <3>1. host'[u] = host[u]
        BY <1>8, <2>3
      <3>2. \A a \in Live : u \notin Extent(a)
        BY <1>9, <1>13, <1>14, <1>22, <2>3
      <3> QED
        BY <1>17, <3>1, <3>2
    <2> QED
      BY <2>1, <2>2, <2>3
  <1>23. (\A a \in Live : \A u \in Extent(a) :
             host[u] = [owner |-> a.storage.addr, prot |-> into_host(a.prot)])'
    BY <1>19 DEF Extent, into_host
  <1>24. (\A u \in Units : (\A a \in Live : u \notin Extent(a)) => host[u].prot = {})'
    BY <1>22 DEF Extent
  <1>25. /\ \A u \in Units : InUse(u)' => host'[u].owner >= 0
         /\ \A u \in Units : ~InUse(u)' => host'[u] = FREE
    BY <1>20, <1>21 DEF InUse, Span
  <1>26. HostInv'
    BY <1>18, <1>23, <1>24, <1>25 DEF HostInv, FREE
  <1> QED
    BY <1>11, <1>26 DEF IInv

-----------------------------------------------------------------------------
(* mmap: the host gives memory that is free, so that its storage meets no  *)
(* other.                                                                  *)
LEMMA AllocInv ==
    ASSUME IInv, NEW t \in Threads, NEW q, q.len \in Nat, NEW prot \in SUBSET ALL,
           NEW name \in AllNames, pending[t] = {},
           alloc(t, q, prot, name), allocations' = allocations
    PROVE  IInv'
  <1>1. q.len # 0
    BY DEF alloc, Accepted
  <1>2. PICK L : L = Asks(align_virtual_page(q.len))
    OBVIOUS
  <1>3. PICK s \in MemoryAt(L) :
            /\ pending' = [pending EXCEPT ![t] = {AllocIn(s, prot, name)}]
            /\ host' = [u \in Units |->
                  IF u \notin Span(s) THEN host[u]
                  ELSE [owner |-> s.addr,
                        prot |-> IF u \in Extent(AllocIn(s, prot, name))
                                 THEN into_host(AllocIn(s, prot, name).prot) ELSE {}]]
    BY <1>2, Zenon DEF alloc
  <1>4. PICK a : a = AllocIn(s, prot, name)
    OBVIOUS
  <1>5. /\ s.addr \in Units /\ s.len = L /\ s \in [addr : Units, len : {L}]
        /\ \A u \in Span(s) : u \in Units /\ host[u] = FREE
    BY DEF MemoryAt
  <1>6. L \in Int /\ L >= PAGE /\ PAGE \in Int
    <2>1. PAGE \in Int /\ GRAN \in Int
      BY VmAssumption
    <2>2. align_virtual_page(q.len) \in Int /\ align_virtual_page(q.len) >= PAGE
      BY <1>1, AlignUp, AlignFull
    <2> QED
      BY <1>2, <2>1, <2>2 DEF Asks
  <1>7. s.addr \in Int /\ s.addr >= 0
    <2>1. Top \in Int
      BY VmAssumption
    <2>2. s.addr \in 0 .. Top - 1
      BY <1>5 DEF Units
    <2> QED
      BY <2>1, <2>2
  <1>8. /\ a.addr = align_virtual_page(s.addr) /\ a.end = s.addr + L
        /\ a.prot = prot /\ a.storage = s /\ a.name = name
    BY <1>4, <1>5 DEF AllocIn
  <1>9. /\ a.addr \in Int /\ a.end \in Int
        /\ s.addr <= a.addr /\ a.addr < a.end
    <2>1. /\ align_virtual_page(s.addr) \in Int
          /\ s.addr <= align_virtual_page(s.addr)
          /\ align_virtual_page(s.addr) < s.addr + PAGE
      BY <1>7, AlignUp
    <2> QED
      BY <1>6, <1>7, <1>8, <2>1
  <1>10. a \in Alloc
    <2>1. s \in [addr : Int, len : Int]
      BY <1>5, <1>6, <1>7
    <2>2. a = [addr |-> align_virtual_page(s.addr), end |-> s.addr + s.len,
               prot |-> prot, name |-> name, storage |-> s]
      BY <1>4 DEF AllocIn
    <2> QED
      BY <1>5, <1>8, <1>9, <2>1, <2>2 DEF Alloc
  <1>11. Extent(a) \subseteq Span(s) /\ a.addr \in Extent(a)
    <2>1. Span(s) = s.addr .. s.addr + L - 1 /\ Extent(a) = a.addr .. s.addr + L - 1
      <3>1. s.len = L
        BY <1>5
      <3>2. Span(s) = s.addr .. s.addr + L - 1
        BY <3>1 DEF Span
      <3>3. Extent(a) = a.addr .. s.addr + L - 1
        <4>1. a.end = s.addr + L
          BY <1>8
        <4> QED
          BY <1>6, <1>7, <1>9, <4>1 DEF Extent
      <3> QED
        BY <3>2, <3>3
    <2>2. a.addr < s.addr + L
      BY <1>8, <1>9
    <2> QED
      BY <1>6, <1>7, <1>9, <2>1, <2>2
  <1>12. Placed(a)
    BY <1>5, <1>8, <1>9, <1>11 DEF Placed
  <1>13. pending \in [Threads -> SUBSET Alloc]
    BY DEF IInv, SpaceInv
  <1>14. pending' = [pending EXCEPT ![t] = {a}]
    BY <1>3, <1>4
  <1>15. Live' = Live \cup {a}
    BY <1>13, <1>14 DEF Live
  <1>16. \A b \in Live : Span(b.storage) \cap Span(s) = {} /\ b.storage # s
    <2>1. \A b \in Live : \A u \in Span(b.storage) : u \in Units /\ InUse(u)
      BY DEF InUse, IInv, SpaceInv, Placed
    <2>2. \A u \in Span(s) : ~InUse(u)
      <3>1. \A u \in Units : InUse(u) => host[u].owner >= 0
        BY DEF IInv, HostInv
      <3>2. FREE.owner = -1 /\ ~(-1 >= 0)
        BY DEF FREE
      <3>3. \A u \in Span(s) : u \in Units /\ host[u].owner = -1
        BY <1>5, <3>2
      <3> QED
        BY <3>1, <3>2, <3>3
    <2>3. Span(s) # {}
      BY <1>11
    <2> QED
      BY <2>1, <2>2, <2>3
  <1>17. SpaceInv'
    <2>1. pending' \in [Threads -> SUBSET Alloc]
      BY <1>10, <1>13, <1>14
    <2>2. /\ pending'[t] = {a}
          /\ \A v \in Threads \ {t} : pending'[v] = pending[v]
      BY <1>13, <1>14
    <2>3. \A v \in Threads : \A b, c \in pending'[v] : b = c
      <3>1. \A v \in Threads : \A b, c \in pending[v] : b = c
        BY DEF IInv, SpaceInv
      <3>2. \A b, c \in pending'[t] : b = c
        BY <2>2
      <3> QED
        BY <2>2, <3>1, <3>2
    <2>4. \A b \in Live' : Placed(b)
      BY <1>12, <1>15 DEF IInv, SpaceInv
    <2>5. \A b, c \in Live' : b.storage = c.storage \/ Span(b.storage) \cap Span(c.storage) = {}
      <3>1. \A b, c \in Live : b.storage = c.storage \/ Span(b.storage) \cap Span(c.storage) = {}
        BY DEF IInv, SpaceInv
      <3> QED
        BY <1>8, <1>15, <1>16, <3>1
    <2>6. /\ \A b \in allocations : b \in Live
          /\ \A v \in Threads : \A b \in pending[v] : b \in Live
      BY DEF Live
    <2>7. \A v \in Threads : \A p \in pending'[v] :
              /\ \A b \in allocations : b.storage # p.storage
              /\ \A w \in Threads \ {v} : \A r \in pending'[w] : r.storage # p.storage
      <3>1. \A v \in Threads : \A p \in pending[v] :
              /\ \A b \in allocations : b.storage # p.storage
              /\ \A w \in Threads \ {v} : \A r \in pending[w] : r.storage # p.storage
        BY DEF IInv, SpaceInv, Fresh
      <3>2. \A b \in Live : b.storage # a.storage
        BY <1>8, <1>16
      <3>3. \A v \in Threads : \A p \in pending'[v] : (v = t /\ p = a) \/ (v # t /\ p \in pending[v])
        BY <2>2
      <3> QED
        BY <2>6, <3>1, <3>2, <3>3
    <2>8. (\A b \in Live : Placed(b))'
      BY <2>4 DEF Placed, Extent, Span
    <2>9. (\A b, c \in Live : b.storage = c.storage \/ Span(b.storage) \cap Span(c.storage) = {})'
      BY <2>5 DEF Span
    <2>10. /\ allocations' \subseteq Alloc
           /\ Apart(allocations)'
      BY DEF IInv, SpaceInv, Apart, Extent
    <2> QED
      BY <2>1, <2>3, <2>7, <2>8, <2>9, <2>10 DEF SpaceInv, Fresh
  <1>18. host' = [u \in Units |->
            IF u \notin Span(s) THEN host[u]
            ELSE [owner |-> s.addr, prot |-> IF u \in Extent(a) THEN into_host(prot) ELSE {}]]
    BY <1>3, <1>4, <1>8
  <1>19. /\ host \in [Units -> [owner : Int, prot : SUBSET CPU_MASK]]
         /\ \A u \in Units : InUse(u) => host[u].owner >= 0
         /\ \A u \in Units : ~InUse(u) => host[u] = FREE
         /\ \A u \in Units : (\A b \in Live : u \notin Extent(b)) => host[u].prot = {}
         /\ \A b \in Live : \A u \in Extent(b) :
               host[u] = [owner |-> b.storage.addr, prot |-> into_host(b.prot)]
    BY DEF IInv, HostInv
  <1>20. host' \in [Units -> [owner : Int, prot : SUBSET CPU_MASK]]
    <2>1. into_host(prot) \in SUBSET CPU_MASK
      BY DEF into_host
    <2> QED
      BY <1>7, <1>18, <1>19, <2>1
  <1>21. \A b \in Live' : \A u \in Extent(b) :
             host'[u] = [owner |-> b.storage.addr, prot |-> into_host(b.prot)]
    <2>1. \A u \in Extent(a) : host'[u] = [owner |-> a.storage.addr, prot |-> into_host(a.prot)]
      BY <1>5, <1>8, <1>11, <1>18
    <2>2. \A b \in Live : \A u \in Extent(b) : host'[u] = host[u]
      BY <1>16, <1>18 DEF IInv, SpaceInv, Placed
    <2> QED
      BY <1>15, <1>19, <2>1, <2>2
  <1>22. \A u \in Units : (\E b \in Live' : u \in Span(b.storage)) <=> (InUse(u) \/ u \in Span(s))
    BY <1>8, <1>15 DEF InUse
  <1>23. \A u \in Units : (\A b \in Live' : u \notin Extent(b)) => host'[u].prot = {}
    BY <1>15, <1>18, <1>19
  <1>24. \A u \in Units : InUse(u) \/ u \in Span(s) => host'[u].owner >= 0
    BY <1>7, <1>18, <1>19
  <1>25. \A u \in Units : ~(InUse(u) \/ u \in Span(s)) => host'[u] = FREE
    BY <1>18, <1>19
  <1>26. /\ \A u \in Units : InUse(u)' => host'[u].owner >= 0
         /\ \A u \in Units : ~InUse(u)' => host'[u] = FREE
    BY <1>22, <1>24, <1>25 DEF InUse, Span
  <1>27. (\A b \in Live : \A u \in Extent(b) :
             host[u] = [owner |-> b.storage.addr, prot |-> into_host(b.prot)])'
    BY <1>21 DEF Extent, into_host
  <1>28. (\A u \in Units : (\A b \in Live : u \notin Extent(b)) => host[u].prot = {})'
    BY <1>23 DEF Extent
  <1>29. HostInv'
    BY <1>20, <1>26, <1>27, <1>28 DEF HostInv, FREE, Units, CPU_MASK
  <1> QED
    BY <1>17, <1>29 DEF IInv

(* The insertion moves an allocation from its thread to the map.           *)
LEMMA InsertInv ==
    ASSUME IInv, NEW t \in Threads, insert(t), host' = host
    PROVE  IInv'
  <1>1. PICK a \in pending[t] : /\ allocations' = allocations \cup {a}
                                /\ pending' = [pending EXCEPT ![t] = {}]
    BY DEF insert
  <1>2. pending \in [Threads -> SUBSET Alloc] /\ a \in Alloc
    BY DEF IInv, SpaceInv
  <1>3. pending[t] = {a}
    BY DEF IInv, SpaceInv
  <1>4. /\ pending'[t] = {} /\ pending' \in [Threads -> SUBSET Alloc]
        /\ \A v \in Threads \ {t} : pending'[v] = pending[v]
    BY <1>1, <1>2
  <1>5. Live' = Live
    BY <1>1, <1>3, <1>4 DEF Live
  <1>6. a \in Live /\ \A b \in allocations : b \in Live
    BY DEF Live
  <1>7. Apart(allocations')
    <2>1. Disjoint
      BY SpaceDisjoint DEF IInv
    <2> QED
      BY <1>1, <1>6, <2>1 DEF Apart, Disjoint
  <1>8. SpaceInv'
    <2>1. \A v \in Threads : \A p \in pending'[v] :
              /\ \A b \in allocations' : b.storage # p.storage
              /\ \A w \in Threads \ {v} : \A r \in pending'[w] : r.storage # p.storage
      BY <1>1, <1>4 DEF IInv, SpaceInv, Fresh
    <2>2. \A v \in Threads : \A b, c \in pending'[v] : b = c
      BY <1>4 DEF IInv, SpaceInv
    <2>3. (\A b \in Live : Placed(b))'
      BY <1>5 DEF IInv, SpaceInv, Placed, Extent, Span
    <2>4. (\A b, c \in Live : b.storage = c.storage \/ Span(b.storage) \cap Span(c.storage) = {})'
      BY <1>5 DEF IInv, SpaceInv, Span
    <2>5. allocations' \subseteq Alloc
      BY <1>1, <1>2 DEF IInv, SpaceInv
    <2>6. Apart(allocations)'
      BY <1>7 DEF Apart, Extent
    <2> QED
      BY <1>4, <2>1, <2>2, <2>3, <2>4, <2>5, <2>6 DEF SpaceInv, Fresh
  <1>9. HostInv'
    BY <1>5 DEF IInv, HostInv, InUse, Extent, Span, into_host, FREE, Units, CPU_MASK
  <1> QED
    BY <1>8, <1>9 DEF IInv

-----------------------------------------------------------------------------
LEMMA InitInv == Init => IInv
  <1> SUFFICES ASSUME Init PROVE IInv
    OBVIOUS
  <1>1. Live = {}
    BY DEF Init, Live
  <1>2. SpaceInv
    BY <1>1 DEF Init, SpaceInv, Apart, Fresh
  <1>3. /\ host = [u \in Units |-> FREE]
        /\ FREE \in [owner : Int, prot : SUBSET CPU_MASK] /\ FREE.prot = {}
    BY DEF Init, FREE
  <1>4. HostInv
    BY <1>1, <1>3 DEF HostInv, InUse
  <1> QED
    BY <1>2, <1>4 DEF IInv

(* Every call leaves the address space as IInv says, whatever the other    *)
(* threads have pending.                                                   *)
LEMMA NextInv == IInv /\ [Next]_vars => IInv'
  <1> SUFFICES ASSUME IInv, [Next]_vars PROVE IInv'
    OBVIOUS
  <1>1. CASE new
    <2>1. ASSUME NEW t \in Threads, pending = [u \in Threads |-> {}],
                 alloc(t, StackRequest, STACK_PROT, "main stack"),
                 allocations' = allocations
          PROVE  IInv'
      <3>1. StackRequest.len \in Nat
        BY VmAssumption DEF StackRequest
      <3>2. STACK_PROT \in SUBSET ALL /\ "main stack" \in AllNames
        BY DEF STACK_PROT, ALL, CPU_MASK, AllNames
      <3>3. pending[t] = {}
        BY <2>1
      <3> QED
        BY <2>1, <3>1, <3>2, <3>3, AllocInv
    <2>2. ASSUME NEW t \in Threads, insert(t), host' = host
          PROVE  IInv'
      BY <2>2, InsertInv
    <2>3. ASSUME NEW a \in allocations, mprotect(a.addr, PAGE, {}), pending' = pending
          PROVE  IInv'
      <3>1. a.addr \in Int /\ PAGE \in Nat /\ {} \in SUBSET ALL
        BY VmAssumption DEF IInv, SpaceInv, Alloc
      <3> QED
        BY <2>3, <3>1, MprotectInv
    <2> QED
      BY <1>1, <2>1, <2>2, <2>3 DEF new
  <1>2. CASE Locked
    <2>1. PICK addr \in Units, len \in Lens :
              \/ munmap(addr, len)
              \/ \E prot \in Prots : mprotect(addr, len, prot)
              \/ \E name \in Names : sys_mname(addr, len, name)
      BY <1>2 DEF Locked
    <2>2. pending' = pending
      BY <1>2 DEF Locked
    <2>3. addr \in Int /\ len \in Nat /\ PAGE \in Nat \ {0} /\ Prots \subseteq SUBSET ALL
      BY VmAssumption DEF Units
    <2>4. CASE munmap(addr, len)
      BY <2>2, <2>3, <2>4, MunmapInv
    <2>5. ASSUME NEW prot \in Prots, mprotect(addr, len, prot) PROVE IInv'
      BY <2>2, <2>3, <2>5, MprotectInv
    <2>6. ASSUME NEW name \in Names, sys_mname(addr, len, name) PROVE IInv'
      <3>1. PICK r : r = addr % PAGE
        OBVIOUS
      <3>2. r \in Nat
        BY <2>3, <3>1
      <3>3. addr - r \in Int /\ r + len \in Nat
        BY <2>3, <3>2
      <3>4. align_virtual_page(r + len) \in Nat
        BY <3>3, AlignUp
      <3>5. name \in AllNames
        BY DEF AllNames
      <3>6. mname(addr - r, align_virtual_page(r + len), name)
        BY <2>6, <3>1 DEF sys_mname
      <3> QED
        BY <2>2, <3>3, <3>4, <3>5, <3>6, MnameInv
    <2> QED
      BY <2>1, <2>4, <2>5, <2>6
  <1>3. ASSUME NEW t \in Threads, mmap(t) PROVE IInv'
    <2>1. ASSUME Idle(t), NEW q \in Requests, NEW prot \in Prots, NEW name \in Names,
                 alloc(t, q, prot \cap ALL, name), allocations' = allocations
          PROVE  IInv'
      <3>1. q.len \in Nat /\ prot \cap ALL \in SUBSET ALL
        BY VmAssumption
      <3>2. name \in AllNames
        BY DEF AllNames
      <3>3. pending[t] = {}
        BY <2>1 DEF Idle
      <3> QED
        BY <2>1, <3>1, <3>2, <3>3, AllocInv
    <2>2. ASSUME insert(t), host' = host PROVE IInv'
      BY <2>2, InsertInv
    <2> QED
      BY <1>3, <2>1, <2>2 DEF mmap
  <1>4. CASE UNCHANGED vars
    <2>1. /\ allocations' = allocations /\ host' = host /\ pending' = pending
      BY <1>4 DEF vars
    <2>2. SpaceInv'
      <3>1. Live' = Live
        BY <2>1 DEF Live
      <3>2. /\ (\A a \in Live : Placed(a))'
            /\ (\A a, b \in Live : a.storage = b.storage
                                    \/ Span(a.storage) \cap Span(b.storage) = {})'
        BY <3>1 DEF IInv, SpaceInv, Placed, Extent, Span
      <3>3. Apart(allocations)'
        BY <2>1 DEF IInv, SpaceInv, Apart, Extent
      <3>4. Fresh'
        BY <2>1 DEF IInv, SpaceInv, Fresh
      <3> QED
        BY <2>1, <3>2, <3>3, <3>4 DEF IInv, SpaceInv
    <2>3. HostInv'
      <3>1. Live' = Live
        BY <2>1 DEF Live
      <3> QED
        BY <2>1, <3>1 DEF IInv, HostInv, InUse
    <2> QED
      BY <2>2, <2>3 DEF IInv
  <1> QED
    BY <1>1, <1>2, <1>3, <1>4 DEF Next

LEMMA SpaceInvariant == Spec => []IInv
  BY InitInv, NextInv, PTL DEF Spec

(***************************************************************************)
(* For any number of threads, page size, granularity and size of the host: *)
(* no two allocations, stored or about to be, share a page, so the panics  *)
(* "already allocated" of map, munmap and update are never reached.        *)
(***************************************************************************)
THEOREM AllocationsDisjoint == Spec => []Disjoint
  <1>1. IInv => Disjoint
    BY SpaceDisjoint DEF IInv
  <1> QED
    BY <1>1, SpaceInvariant, PTL

LEMMA SpaceAgrees ==
    ASSUME IInv
    PROVE  HostAgrees
  <1>1. \A u \in Units : (host[u] = FREE) <=> ~InUse(u)
    <2>1. /\ \A u \in Units : InUse(u) => host[u].owner >= 0
          /\ \A u \in Units : ~InUse(u) => host[u] = FREE
      BY DEF IInv, HostInv
    <2>2. FREE.owner = -1
      BY DEF FREE
    <2> QED
      BY <2>1, <2>2
  <1>2. \A u \in Units : (host[u] = FREE) = (\A a \in Live : u \notin Span(a.storage))
    BY <1>1 DEF InUse
  <1> QED
    BY <1>2 DEF IInv, HostInv, HostAgrees

(***************************************************************************)
(* In the same generality, through every split that munmap, mprotect and   *)
(* mname make: the host's page tables agree with the allocations, and host *)
(* memory is reserved exactly as long as a part of its storage is in use   *)
(* (Memory::drop).                                                         *)
(***************************************************************************)
THEOREM PageTablesAgree == Spec => []HostAgrees
  <1>1. IInv => HostAgrees
    BY SpaceAgrees
  <1> QED
    BY <1>1, SpaceInvariant, PTL
=============================================================================

----------------------------- MODULE KernelHeap -----------------------------
(***************************************************************************)
(* The heap of the kernel (src/kernel/src/malloc) and the zones of the     *)
(* UMA allocator it takes memory from (src/kernel/src/uma).                *)
(*                                                                         *)
(* The heap begins as a static arena and moves to zones of powers of two,  *)
(* one table of zones for each alignment.  What the kernel has so far is   *)
(* how zones, slabs and buckets are sized and which of them a request      *)
(* gets; the steps after that are todo!(), so a request that reaches a     *)
(* zone is the last step here.                                             *)
(***************************************************************************)
EXTENDS Integers, Sequences, FiniteSets, SequencesExt

CONSTANTS
    PAGE_SHIFT,
    Layouts,    \* the requests: [size, align]
    Specs,      \* the arguments of create_zone: [name, size, align, flags]
    MaxBlocks   \* bound on the blocks taken from the arena

HeapAssumption ==
    /\ PAGE_SHIFT \in Nat /\ PAGE_SHIFT >= 8
    /\ \A l \in Layouts : l.size \in Nat \ {0} /\ \E k \in 0 .. PAGE_SHIFT : l.align = 2^k
    /\ \A z \in Specs : z.size \in Nat \ {0} /\ \E k \in 0 .. PAGE_SHIFT : z.align = 2^k

VARIABLES
    stage,        \* KernelHeap::stage: the arena alone, or zones too
    primitive,    \* how many blocks of the arena are in use
    heap_guard,   \* active_heap_guard of the running thread
    last          \* the zone of the last call and the request, if it was one

heapvars == <<stage, primitive, heap_guard, last>>

PAGE_SIZE == 2^PAGE_SHIFT
SMALLEST_UNIT == PAGE_SIZE \div 256
MAX_WASTE == PAGE_SIZE \div 10
BUCKET_MAX == 128
BUCKET_SIZES == <<16, 32, 64, 128>>
KMEM_ZBASE == 16

\* Slab, Free and RcFree are empty so far.
HDR == 0
FREE_ITEM == 0

Lesser(m, n) == IF m < n THEN m ELSE n
Greater(m, n) == IF m > n THEN m ELSE n
AlignUp(n, a) == n + ((a - (n % a)) % a)

-----------------------------------------------------------------------------
(* UmaKeg::new: the pages of a slab, the room of an item and the items.    *)

CacheSpread(size, a) ==
    LET up == AlignUp(size, a)
        rsize == IF (up \div a) % 2 = 0 THEN up + a ELSE up
        ppera == Lesser(((PAGE_SIZE \div a) * rsize) \div PAGE_SIZE, (128 * 1024) \div PAGE_SIZE)
    IN  [rsize |-> rsize, ppera |-> ppera,
         ipers |-> (ppera * PAGE_SIZE + (rsize - size)) \div rsize]

Large(size) == [rsize |-> size, ppera |-> AlignUp(size, PAGE_SIZE) \div PAGE_SIZE, ipers |-> 1]

Small(size, a) ==
    LET rsize == AlignUp(Greater(size, SMALLEST_UNIT), a)
    IN  [rsize |-> rsize, ppera |-> 1, ipers |-> (PAGE_SIZE - HDR) \div (rsize + FREE_ITEM)]

IsLarge(size) == size + FREE_ITEM > PAGE_SIZE - HDR

Keg(size, a, flags) ==
    IF "CacheSpread" \in flags THEN CacheSpread(size, a)
    ELSE IF IsLarge(size) THEN Large(size) ELSE Small(size, a)

KegFlags(size, flags) ==
    LET f == flags \cup {v \in {"VToSlab"} : flags \cap {"Malloc", "RefCnt"} # {}}
        off == "CacheSpread" \notin f /\ IsLarge(size) /\ "Internal" \notin f
    IN  f \cup {v \in {"Offpage"} : off} \cup {v \in {"Hash"} : off /\ "VToSlab" \notin f}

(* The kegs that end in todo!(), for a flag or for what they would waste.  *)
KegTodo(size, a, flags) ==
    LET k == Keg(size, a, flags) IN
    \/ KegFlags(size, flags) \cap {"Vm", "ZInit", "MtxClass", "Secondary", "Hash"} # {}
    \/ /\ flags \cap {"CacheSpread", "Internal", "CacheOnly"} = {} /\ ~IsLarge(size)
       /\ (PAGE_SIZE - HDR) % (k.rsize + FREE_ITEM) >= MAX_WASTE
       /\ PAGE_SIZE \div k.rsize > k.ipers

-----------------------------------------------------------------------------
(* UmaZone::new: uz_count, the items that its buckets are made for.        *)

MbufCount ==
    [mbuf_packet |-> 4, mbuf_cluster_pack |-> BUCKET_MAX, mbuf_jumbo_page |-> 1,
     mbuf |-> 16, mbuf_cluster |-> 1]

Inherit == {"Offpage", "Malloc", "Hash", "RefCnt", "VToSlab", "Bucket", "Internal", "CacheOnly"}

Zone(name, size, a, flags) ==
    LET k == Keg(size, a, flags)
        f == KegFlags(size, flags)
    IN  [keg |-> k, size |-> size, align |-> a, flags |-> f \cap Inherit,
         count |-> IF "Internal" \in f THEN 0
                   ELSE IF name \in DOMAIN MbufCount THEN MbufCount[name]
                   ELSE IF "MaxBucket" \in f THEN BUCKET_MAX
                   ELSE Lesser(k.ipers, BUCKET_MAX)]

(* The loop that both tables are made with: the entry for the sizes up to  *)
(* size, one for every 16.                                                 *)
Fill(t, entry, size) ==
    LET n == IF t.last > size THEN 0 ELSE ((size - t.last) \div 16) + 1
    IN  [table |-> t.table \o [i \in 1 .. n |-> entry], last |-> t.last + 16 * n]

Empty == [table |-> <<>>, last |-> 0]

(* Uma::new: the place in BUCKET_SIZES of the bucket for a number of items.*)
bucket_keys ==
    FoldLeft(LAMBDA t, i : Fill(t, i, BUCKET_SIZES[i]), Empty, <<1, 2, 3, 4>>).table

(* What it asks for the zones of the buckets, whose items are empty so far.*)
BucketSpec == [name |-> "Bucket", size |-> 8, align |-> 8, flags |-> {"Bucket", "Internal"}]

(* VmHeap::new: the size of the zone for a size.                           *)
kmemsize ==
    FoldLeft(LAMBDA t, i : Fill(t, 2^i, 2^i), Empty, [i \in 1 .. PAGE_SHIFT - 3 |-> i + 3]).table

-----------------------------------------------------------------------------
(* VmHeap::alloc.                                                          *)

(* Mutant: the size is rounded down.                                       *)
RoundedDown(size) == (size \div KMEM_ZBASE) * KMEM_ZBASE

Rounded(size) ==
    IF size % KMEM_ZBASE # 0 THEN ((size + KMEM_ZBASE) \div KMEM_ZBASE) * KMEM_ZBASE ELSE size

ZoneFor(l) ==
    LET n == kmemsize[(Rounded(l.size) \div KMEM_ZBASE) + 1]
    IN  Zone("kmem", n, l.align, {"Malloc"})

(* UmaZone::alloc with empty caches, then alloc_bucket.                    *)
Count(z) == IF z.count < BUCKET_MAX THEN z.count + 1 ELSE z.count
BucketFor(count) == bucket_keys[((count + 15) \div 16) + 1]

Init ==
    /\ stage = "one" /\ primitive = 0 /\ heap_guard = 0
    /\ last = {}

activate_stage2 ==
    /\ stage = "one"
    /\ stage' = "two"
    /\ UNCHANGED <<primitive, heap_guard, last>>

(* GlobalAlloc::alloc, from the arena: in stage two only for what the VM   *)
(* heap allocates itself while it serves a request.                        *)
alloc_primitive ==
    /\ stage = "one" \/ heap_guard # 0
    /\ primitive < MaxBlocks
    /\ primitive' = primitive + 1
    /\ UNCHANGED <<stage, heap_guard, last>>

(* GlobalAlloc::alloc, from the zones.                                     *)
alloc(l) ==
    /\ stage = "two" /\ heap_guard = 0 /\ l.size <= PAGE_SIZE
    /\ heap_guard' = 1
    /\ last' = {[request |-> {l}, zone |-> ZoneFor(l)]}
    /\ UNCHANGED <<stage, primitive>>

(* GlobalAlloc::dealloc of a block of the arena, which it knows by its     *)
(* address in both stages.                                                 *)
dealloc ==
    /\ primitive > 0
    /\ primitive' = primitive - 1
    /\ UNCHANGED <<stage, heap_guard, last>>

create_zone(z) ==
    /\ heap_guard = 0 /\ ~KegTodo(z.size, z.align, z.flags)
    /\ last' = {[request |-> {}, zone |-> Zone(z.name, z.size, z.align, z.flags)]}
    /\ UNCHANGED <<stage, primitive, heap_guard>>

Next ==
    \/ activate_stage2 \/ alloc_primitive \/ dealloc
    \/ \E l \in Layouts : alloc(l)
    \/ \E z \in Specs \cup {BucketSpec} : create_zone(z)

Spec == Init /\ [][Next]_heapvars

-----------------------------------------------------------------------------
(* The last item of a slab ends within its pages, and items are aligned.   *)
Fits(z) ==
    /\ z.keg.ipers >= 1
    /\ (z.keg.ipers - 1) * z.keg.rsize + z.size <= z.keg.ppera * PAGE_SIZE
    /\ z.keg.ipers > 1 => z.keg.rsize % z.align = 0
    /\ z.count <= BUCKET_MAX

(* Every request gets the smallest zone that has room for it, from slabs   *)
(* whose items fit in their pages at the alignment that was asked for; the *)
(* lookups that VmHeap::alloc and alloc_bucket do without a check stay in  *)
(* their tables, and the bucket holds as many items as the zone wants.     *)
RightZone ==
    \A c \in last :
        /\ Fits(c.zone)
        /\ \A l \in c.request :
              /\ c.zone.size >= l.size
              /\ c.zone.size > KMEM_ZBASE => c.zone.size < 2 * l.size
              /\ ~KegTodo(c.zone.size, l.align, {"Malloc"})
              /\ Count(c.zone) \in 1 .. BUCKET_SIZES[BucketFor(Count(c.zone))]
=============================================================================

------------------------------ MODULE VmSpace ------------------------------
(***************************************************************************)
(* The address space of a process in the legacy kernel:                    *)
(* src/legacy/src/vm/{vm,mod,iter,page,stack,storage}.rs.                  *)
(*                                                                         *)
(* An Alloc is a range of pages that are alike.  mprotect, mname and       *)
(* munmap split it; the parts keep the host memory (a Storage) they were   *)
(* cut from, which is given back when the last of them is gone.  An        *)
(* address counts host pages, of which a virtual page has PAGE.  The map   *)
(* of the allocations is behind a lock; mmap asks the host for memory      *)
(* before it takes the lock, so that it has two steps.                     *)
(***************************************************************************)
EXTENDS Integers, Sequences, FiniteSets

CONSTANTS
    Top,      \* the host has the addresses 0 .. Top - 1 to give
    PAGE,     \* VIRTUAL_PAGE_SIZE
    GRAN,     \* allocation_granularity
    STACK,    \* AppStack::len
    Threads,
    Prots,    \* the protections callers ask for
    Names,
    Lens,     \* the lengths callers give to the others
    Requests  \* what callers give to mmap: [len, flags, fd, offset]

Units == 0 .. Top - 1
CPU_MASK == {"CPU_READ", "CPU_WRITE", "CPU_EXEC"}
ALL == CPU_MASK \cup {"GPU_READ", "GPU_WRITE"}

ASSUME VmAssumption ==
    /\ Top \in Nat /\ PAGE \in Nat \ {0} /\ GRAN \in Nat \ {0} /\ STACK \in Nat \ {0}
    /\ PAGE % GRAN = 0 \/ GRAN % PAGE = 0
    /\ STACK % PAGE = 0
    /\ Prots \subseteq SUBSET ALL
    /\ Lens \subseteq Nat
    /\ \A q \in Requests : q.len \in Nat

VARIABLES
    allocations,  \* the set of Alloc: [addr, end, prot, name, storage]
    host,         \* the storage each host page belongs to, and its protection
    pending,      \* the Alloc that each thread has made and not stored yet, in a set
    boot,         \* how far VmSpace::new got
    call          \* history: the last call, with what its caller gave to it

vars == <<allocations, host, pending, boot, call>>

-----------------------------------------------------------------------------
(* Host memory (storage.rs).                                               *)

FREE == [owner |-> -1, prot |-> {}]
Span(s) == s.addr .. s.addr + s.len - 1
Extent(a) == a.addr .. a.end - 1

into_host(prot) == prot \cap CPU_MASK

(* Memory::new, where the host chooses the place.                          *)
MemoryAt(len) ==
    {s \in [addr : {u \in Units : u % GRAN = 0}, len : {len}] :
        \A u \in Span(s) : u \in Units /\ host[u] = FREE}

Protected(h, S, prot) == [u \in Units |-> IF u \in S THEN [h[u] EXCEPT !.prot = prot] ELSE h[u]]

(* Memory::drop, for every storage that has lost its last Alloc.           *)
Dropped(h, before, after) ==
    LET gone == {a.storage : a \in before} \ {a.storage : a \in after}
    IN  [u \in Units |-> IF \E s \in gone : u \in Span(s) THEN FREE ELSE h[u]]

-----------------------------------------------------------------------------
align_virtual_page(u) == u + ((PAGE - (u % PAGE)) % PAGE)

(* StartFromMut: from the Alloc that has the address on, if there is one.  *)
StartFrom(first) ==
    LET below == {a \in allocations : a.addr <= first}
        last == CHOOSE a \in below : \A b \in below : b.addr <= a.addr
    IN  IF below = {} \/ last.end <= first THEN {}
        ELSE {a \in allocations : a.addr >= last.addr}

InRange(first, end) == {a \in StartFrom(first) : a.addr < end}

Larger(m, n) == IF m > n THEN m ELSE n
Smaller(m, n) == IF m < n THEN m ELSE n

(* The part of an Alloc from lo to hi, if there is one.                    *)
Part(a, lo, hi) ==
    LET l == Larger(a.addr, lo)
        h == Smaller(a.end, hi)
    IN  IF l < h THEN {[a EXCEPT !.addr = l, !.end = h]} ELSE {}

(* Mutant: the tail that is split off begins where the range begins.        *)
OutsideFromStart(a, lo, hi) == Part(a, a.addr, lo) \cup Part(a, lo, a.end)

Outside(a, lo, hi) == Part(a, a.addr, lo) \cup Part(a, hi, a.end)

Aligned(first, len) == first % PAGE = 0 /\ len # 0

(* The virtual pages that a caller's range touches, in host pages: those   *)
(* that begin before its end, from the one that it begins in.              *)
PageStart(u) == u - (u % PAGE)
Touched(addr, len) ==
    {u \in Units : PageStart(addr) <= PageStart(u) /\ PageStart(u) < addr + len}

Calls(op, S, prot, name) == call' = [op |-> op, on |-> S, page |-> [prot |-> prot, name |-> name]]

(* Mutant: the host memory of the range is not decommitted.                *)
munmapCommitted(first, len) ==
    LET end == align_virtual_page(first + len)
        hit == InRange(first, end)
        after == (allocations \ hit) \cup UNION {Outside(a, first, end) : a \in hit}
    IN  /\ Aligned(first, len)
        /\ allocations' = after
        /\ host' = Dropped(host, allocations, after)
        /\ Calls("unmap", Touched(first, len), {}, "none")

(* munmap: the rest of the first and of the last Alloc stays.              *)
munmap(first, len) ==
    LET end == align_virtual_page(first + len)
        hit == InRange(first, end)
        after == (allocations \ hit) \cup UNION {Outside(a, first, end) : a \in hit}
        gone == UNION {Extent(a) : a \in UNION {Part(a, first, end) : a \in hit}}
    IN  /\ Aligned(first, len)
        /\ allocations' = after
        /\ host' = Dropped(Protected(host, gone, {}), allocations, after)
        /\ Calls("unmap", Touched(first, len), {}, "none")

(* Mutant: the gaps are not looked for.                                     *)
ContiguousAnyway(S) == TRUE

(* update: nothing is done if there is a gap between two of the Allocs.    *)
Contiguous(S) ==
    \A a \in S : (\E b \in S : b.addr > a.addr) => \E b \in S : b.addr = a.end

(* The targets are cut at the ends of the range; parts is what becomes of  *)
(* the inside.                                                             *)
update(first, end, targets, parts) ==
    /\ InRange(first, end) # {}
    /\ Contiguous(InRange(first, end))
    /\ allocations' = (allocations \ targets)
          \cup (UNION {Outside(a, first, end) : a \in targets}) \cup parts

mprotect(first, len, prot) ==
    LET end == align_virtual_page(first + len)
        targets == {a \in InRange(first, end) : a.prot # prot}
    IN  /\ Aligned(first, len)
        /\ update(first, end, targets,
              UNION {{[a EXCEPT !.prot = prot] : a \in Part(b, first, end)} : b \in targets})
        /\ host' = Protected(host, UNION {Extent(a) \cap (first .. end - 1) : a \in targets},
                             into_host(prot))
        /\ Calls("protect", Touched(first, len), prot, "none")

mname(first, len, name) ==
    LET end == align_virtual_page(first + len)
        targets == {a \in InRange(first, end) : a.name # name}
    IN  /\ Aligned(first, len)
        /\ update(first, end, targets,
              UNION {{[a EXCEPT !.name = name] : a \in Part(b, first, end)} : b \in targets})
        /\ UNCHANGED host

-----------------------------------------------------------------------------
(* mmap.  When the host is out of memory, nothing changes.                 *)

(* What alloc makes of the storage: with a small granularity it asks for   *)
(* more than it needs and begins at the first virtual page in it.          *)
AllocIn(s, prot, name) ==
    [addr |-> align_virtual_page(s.addr), end |-> s.addr + s.len,
     prot |-> prot, name |-> name, storage |-> s]

Asks(len) == IF GRAN < PAGE THEN len + (PAGE - GRAN) ELSE len

(* The calls that map something; the others fail, or end in todo!().       *)
Accepted(q) ==
    /\ q.len # 0
    /\ q.flags \cap {"UNK1", "MAP_FIXED"} = {}
    /\ q.flags \cap {"MAP_VOID", "MAP_ANON"} # {}
    /\ q.offset = 0 /\ q.fd = -1

(* Memory::new and commit, before the lock.                                *)
alloc(t, q, prot, name) ==
    /\ Accepted(q)
    /\ \E s \in MemoryAt(Asks(align_virtual_page(q.len))) :
          LET a == AllocIn(s, prot, name) IN
          /\ pending' = [pending EXCEPT ![t] = {a}]
          /\ host' = [u \in Units |->
                IF u \notin Span(s) THEN host[u]
                ELSE [owner |-> s.addr,
                      prot |-> IF u \in Extent(a) THEN into_host(a.prot) ELSE {}]]
    /\ UNCHANGED call

(* The insertion, which panics when the address is taken.                  *)
insert(t) ==
    \E a \in pending[t] :
        /\ \A b \in allocations : b.addr # a.addr
        /\ allocations' = allocations \cup {a}
        /\ pending' = [pending EXCEPT ![t] = {}]
        /\ Calls("map", Extent(a), a.prot, a.name)

-----------------------------------------------------------------------------
(* The page at an address, as a caller sees it.                            *)
PageOf(S) ==
    IF S = {} THEN [prot |-> {"unmapped"}, name |-> "unmapped"]
    ELSE LET a == CHOOSE b \in S : TRUE IN [prot |-> a.prot, name |-> a.name]
PageAt(u) == PageOf({a \in allocations : u \in Extent(a)})

Paged == INSTANCE PageMap WITH pages <- [u \in Units |-> PageAt(u)]

-----------------------------------------------------------------------------
Init ==
    /\ allocations = {}
    /\ host = [u \in Units |-> FREE]
    /\ pending = [t \in Threads |-> {}]
    /\ boot = "stack"
    /\ call = Paged!NoCall

STACK_PROT == {"CPU_READ", "CPU_WRITE"}
StackRequest == [len |-> STACK + PAGE, flags |-> {"MAP_ANON"}, fd |-> -1, offset |-> 0]

(* VmSpace::new, when nobody else has the VmSpace: the main stack, and its *)
(* guard page.                                                             *)
new ==
    \/ \E t \in Threads :
          /\ boot = "stack" /\ pending = [u \in Threads |-> {}]
          /\ alloc(t, StackRequest, STACK_PROT, "main stack")
          /\ UNCHANGED <<allocations, boot>>
    \/ \E t \in Threads :
          /\ boot = "stack" /\ insert(t)
          /\ boot' = "guard"
          /\ UNCHANGED host
    \/ /\ boot = "guard"
       /\ \E a \in allocations : mprotect(a.addr, PAGE, {})
       /\ boot' = "up"
       /\ UNCHANGED pending

Idle(t) == boot = "up" /\ pending[t] = {}

mmap(t) ==
    \/ /\ Idle(t)
       /\ \E q \in Requests, prot \in Prots, name \in Names : alloc(t, q, prot \cap ALL, name)
       /\ UNCHANGED <<allocations, boot>>
    \/ /\ boot = "up" /\ insert(t)
       /\ UNCHANGED <<host, boot>>

(* The name is set on the virtual pages that the range touches.            *)
sys_mname(addr, len, name) ==
    /\ mname(addr - (addr % PAGE), align_virtual_page((addr % PAGE) + len), name)
    /\ Calls("name", Touched(addr, len), {}, name)

(* The calls that hold the lock from the start to the end.                 *)
Locked ==
    /\ {t \in Threads : Idle(t)} # {}
    /\ \E addr \in Units, len \in Lens :
          \/ munmap(addr, len)
          \/ \E prot \in Prots : mprotect(addr, len, prot)
          \/ \E name \in Names : sys_mname(addr, len, name)
    /\ UNCHANGED <<pending, boot>>

Next == new \/ Locked \/ \E t \in Threads : mmap(t)

Spec == Init /\ [][Next]_vars

-----------------------------------------------------------------------------
Live == allocations \cup UNION {pending[t] : t \in Threads}

(* No two allocations, stored or about to be, share a page: the panics of  *)
(* map, munmap and update ("already allocated") are not reached, although  *)
(* the host memory is taken outside the lock.                              *)
Disjoint == \A a, b \in Live : a # b => Extent(a) \cap Extent(b) = {}

(* The host's page tables agree with the allocations through all splits: a *)
(* page of an allocation belongs to its storage and has its protection,    *)
(* every other page that is still reserved can not be touched, and host    *)
(* memory is reserved exactly as long as a part of its storage is in use.  *)
HostAgrees ==
    /\ \A a \in Live : \A u \in Extent(a) :
          host[u] = [owner |-> a.storage.addr, prot |-> into_host(a.prot)]
    /\ \A u \in Units :
          /\ (host[u] = FREE) = (\A a \in Live : u \notin Span(a.storage))
          /\ (\A a \in Live : u \notin Extent(a)) => host[u].prot = {}

(* Page by page, splitting is invisible: each call of a VmSpace does what  *)
(* it was asked to do, to exactly the mapped pages that the range of its   *)
(* caller touches, and to no others.  munmap does nothing when the first   *)
(* is not mapped, and mprotect and mname fail then, or at a gap.           *)
PageByPage == Paged!Spec
=============================================================================

-------------------------------- MODULE Dmem --------------------------------
(***************************************************************************)
(* How the kernel finds its physical memory at boot: load_memory_map in    *)
(* src/kernel/src/main.rs builds physmap from the memory map of the boot   *)
(* environment, and Dmem::new in src/kernel/src/dmem/mod.rs takes the      *)
(* direct memory of the game, of the shell and of the rest of the system   *)
(* out of it.                                                              *)
(*                                                                         *)
(* Addresses and sizes are in pages of 16K; physmap, an array of 60        *)
(* addresses and the index of its last pair, is a sequence of segments.    *)
(* A panic!(), a todo!() and a failing unwrap or index end the boot.       *)
(***************************************************************************)
EXTENDS Integers, Sequences, FiniteSets, SequencesExt

CONSTANTS
    MemoryMaps,      \* the memory maps a boot environment may hold
    Cap,             \* segments that fit in physmap, 30 in the code
    Word,            \* number of addresses: 2^64 bytes, in pages
    BigMemory,       \* 8G
    BootExtra,       \* pages for the start of the other CPUs: 1, and 3 for tables
    Configs,         \* DMEM_CONFIGS, from mode to configuration
    HighSize, HighKeep, HighKeepMore, VisionSize,
    BigAlign,        \* 0x8000000
    Chunk            \* 0x200000, also the smaller alignment

DmemAssumption ==
    /\ {Cap, Word, BigMemory, HighSize, HighKeep, VisionSize, BigAlign, Chunk}
          \subseteq Nat \ {0}
    /\ BootExtra \in Nat /\ HighKeepMore \in Nat
    /\ HighKeep + HighKeepMore <= HighSize

VARIABLES
    pc,       \* what the boot does next, or "panic" or "booted"
    env,      \* Vm::memory_map, up to its end
    next,     \* the entry of env to load next
    physmap,
    initial,  \* MemoryInfo::initial_memory_size
    unk,      \* MemoryInfo::unk
    pro,      \* the CPU is one of a PS4 Pro
    checks,   \* the build checks for overflow: TRUE for debug, FALSE for release
    held,     \* what has been taken from physmap: haddr, game, vsh, vision, ...
    rest      \* of dc.unk1, what is still to be taken

vars == <<pc, env, next, physmap, initial, unk, pro, checks, held, rest>>

Seg(lo, hi) == [lo |-> lo, hi |-> hi]

Init ==
    /\ pc = "load"
    /\ env \in MemoryMaps /\ next = 1
    /\ physmap = <<Seg(0, 0)>>
    /\ initial = 0 /\ unk = 0 /\ pro \in BOOLEAN /\ checks \in BOOLEAN
    /\ held = {} /\ rest = 0

Panic == pc' = "panic" /\ UNCHANGED <<env, next, physmap, initial, unk, pro, checks, held, rest>>

-----------------------------------------------------------------------------
(* load_memory_map.                                                        *)

(* The place of a region: before the first segment that ends after its     *)
(* base, or at the end.                                                    *)
PlaceOf(m) ==
    LET After == {j \in DOMAIN physmap : m.base < physmap[j].hi}
    IN  IF After = {} THEN Len(physmap) + 1
                      ELSE CHOOSE j \in After : \A k \in After : j <= k

Overlaps(m) == PlaceOf(m) <= Len(physmap) /\ m.base + m.len > physmap[PlaceOf(m)].lo

JoinsNext(m) == PlaceOf(m) <= Len(physmap) /\ m.base + m.len = physmap[PlaceOf(m)].lo
JoinsPreviousOffByOne(m) == PlaceOf(m) > 1 /\ m.base - 2 <= physmap[PlaceOf(m) - 1].hi
JoinsPrevious(m) == PlaceOf(m) > 1 /\ m.base = physmap[PlaceOf(m) - 1].hi

(* A region is ignored, joined to a neighbour or appended; the code to     *)
(* insert one is a todo!(), and physmap has no place for Cap + 1.          *)
AddRegion(m) ==
    \/ Overlaps(m) /\ physmap' = physmap /\ pc' = pc
    \/ /\ ~Overlaps(m) /\ JoinsNext(m)
       /\ physmap' = [physmap EXCEPT ![PlaceOf(m)].lo = m.base] /\ pc' = pc
    \/ /\ ~Overlaps(m) /\ ~JoinsNext(m) /\ JoinsPrevious(m)
       /\ physmap' = [physmap EXCEPT ![PlaceOf(m) - 1].hi = m.base + m.len] /\ pc' = pc
    \/ /\ ~Overlaps(m) /\ ~JoinsNext(m) /\ ~JoinsPrevious(m)
       /\ IF PlaceOf(m) <= Len(physmap) \/ Len(physmap) = Cap
             THEN pc' = "panic" /\ physmap' = physmap
             ELSE physmap' = Append(physmap, Seg(m.base, m.base + m.len)) /\ pc' = pc

LoadEntry ==
    /\ pc = "load" /\ next <= Len(env)
    /\ LET m == env[next]
       IN  \/ /\ m.ty = "Reserved" /\ next' = next + 1
              /\ UNCHANGED <<physmap, pc>>
           \/ /\ m.ty = "None" \/ (m.ty = "Ram" /\ m.len = 0)
              /\ next' = Len(env) + 1 /\ UNCHANGED <<physmap, pc>>
           \/ m.ty = "Ram" /\ m.len > 0 /\ AddRegion(m) /\ next' = next + 1
    /\ UNCHANGED <<env, initial, unk, pro, checks, held, rest>>

Total == FoldSeq(LAMBDA s, n : n + s.hi - s.lo, 0, physmap)

Kind(total) == (IF total >= BigMemory THEN 1 ELSE 0) + (IF pro THEN 2 ELSE 0)

(* adjust_boot_area takes the end of the first segment away for the start  *)
(* of the other CPUs; then the amount of memory and the kind of CPU select *)
(* the DMEM mode.                                                          *)
BootArea ==
    /\ pc = "load" /\ next > Len(env)
    /\ IF \/ physmap[1].hi = 0 \/ \A i \in DOMAIN physmap : physmap[i].lo # 0
          \/ checks /\ physmap[1].hi < BootExtra
          THEN Panic
          ELSE /\ initial' = Total
               /\ physmap' = [physmap EXCEPT ![1].hi = (@ - BootExtra) % Word]
               /\ unk' = Kind(Total - BootExtra)
               /\ pc' = "haddr"
               /\ UNCHANGED <<env, next, pro, checks, held, rest>>

-----------------------------------------------------------------------------
(* Dmem::reserve_phys.                                                     *)

AlignDown(a, align) == a - (a % align)

(* Where size pages would be taken from a segment: its end minus size,     *)
(* which wraps around in a build without overflow checks.                  *)
Candidate(s, size, align) == AlignDown((s.hi - size) % Word, align)
Underflows(s, size) == s.hi < size
Fits(s, size, align) == Candidate(s, size, align) >= s.lo

(* From the last segment down to the first one that has room.              *)
Choice(size, align) ==
    LET Ok == {i \in DOMAIN physmap : Fits(physmap[i], size, align)}
    IN  IF Ok = {} THEN 0 ELSE CHOOSE i \in Ok : \A k \in Ok : k <= i

(* The search subtracts in every segment it looks at.                      *)
Overflows(size, align) ==
    checks /\ \E i \in DOMAIN physmap :
        i >= Choice(size, align) /\ Underflows(physmap[i], size)

WithoutKeeps(i, addr, end) ==
    LET s == physmap[i]
        left == IF addr = s.lo THEN <<>> ELSE <<Seg(s.lo, addr)>>
        right == IF end = s.hi THEN <<>> ELSE <<Seg(addr, s.hi)>>
    IN  SubSeq(physmap, 1, i - 1) \o left \o right \o SubSeq(physmap, i + 1, Len(physmap))

Without(i, addr, end) ==
    LET s == physmap[i]
        left == IF addr = s.lo THEN <<>> ELSE <<Seg(s.lo, addr)>>
        right == IF end = s.hi THEN <<>> ELSE <<Seg(end, s.hi)>>
    IN  SubSeq(physmap, 1, i - 1) \o left \o right \o SubSeq(physmap, i + 1, Len(physmap))

(* Takes size pages for owner and goes on at next_.  Address 0 stands for   *)
(* "nothing found", and physmap has at least one segment and at most Cap.  *)
Reserve(owner, size, align, next_) ==
    LET i == Choice(size, align)
        addr == Candidate(physmap[i], size, align)
        end == (addr + size) % Word
    IN  IF \/ i = 0
           \/ Overflows(size, align)
           \/ addr = 0
           \/ Len(Without(i, addr, end)) \notin 1 .. Cap
        THEN pc' = "panic" /\ UNCHANGED <<physmap, held>>
        ELSE /\ physmap' = Without(i, addr, end)
             /\ held' = held \cup {[owner |-> owner, lo |-> addr, hi |-> addr + size]}
             /\ pc' = next_

-----------------------------------------------------------------------------
(* Dmem::new.  The masks of the code, as the sets of their bits.           *)

NotConfigured == {2, 6, 7, 14, 15, 17, 18, 22, 23, 31}
HasMini == {0, 1, 4, 5, 8, 9, 10, 12, 13, 16, 19, 20, 21, 24, 25, 26, 27, 28, 29, 30}
HasVsh == HasMini \cup {3, 11}
Unimplemented == {0, 1, 8, 9, 10, 16, 24, 25, 26, 30}
NoChunks == {1, 2, 5, 6, 7, 13, 14, 15, 16, 17, 18, 21, 22, 23, 29, 31}

(* load_mode for a console that is neither a test kit nor a devkit.        *)
mode == 4 + unk * 8
dc == Configs[mode]
Held(owner) == CHOOSE r \in held : r.owner = owner
gameEnd == Held("game").hi

High ==
    /\ pc = "haddr" /\ Reserve("high", HighSize, 1, "game")
    /\ UNCHANGED <<env, next, initial, unk, pro, checks, rest>>

Game ==
    /\ pc = "game"
    /\ IF mode \in NotConfigured \/ mode \notin DOMAIN Configs THEN Panic
       ELSE /\ Reserve("game", dc.game, BigAlign, "mini")
            /\ UNCHANGED <<env, next, initial, unk, pro, checks, rest>>

(* The memory of mini applications is the end of the game's, before fmem.  *)
MiniAddr == AlignDown((gameEnd - (dc.fmem + dc.mini)) % Word, BigAlign)

Mini ==
    /\ pc = "mini"
    /\ IF /\ mode \in HasMini
          /\ \/ ~dc.shared \/ MiniAddr = 0
             \/ checks /\ gameEnd < dc.fmem + dc.mini
       THEN Panic
       ELSE /\ held' = IF mode \in HasMini
                       THEN held \cup {[owner |-> "mini", lo |-> MiniAddr, hi |-> MiniAddr + dc.mini]}
                       ELSE held
            /\ pc' = "vsh" /\ UNCHANGED <<env, next, initial, physmap, unk, pro, checks, rest>>

Vsh ==
    /\ pc = "vsh"
    /\ IF mode \in HasVsh THEN Reserve("vsh", dc.vsh, Chunk, "vision")
                          ELSE pc' = "vision" /\ UNCHANGED <<physmap, held>>
    /\ UNCHANGED <<env, next, initial, unk, pro, checks, rest>>

Vision ==
    /\ pc = "vision"
    /\ IF mode \in Unimplemented THEN Panic
       ELSE /\ Reserve("vision", VisionSize, Chunk,
                       IF mode \in NoChunks THEN "fmem" ELSE "chunks")
            /\ rest' = dc.unk1 /\ UNCHANGED <<env, next, initial, unk, pro, checks>>

(* dc.unk1, in chunks; what is left at the end is less than one.  A size   *)
(* of zero is a failing unwrap.                                            *)
Chunks ==
    /\ pc = "chunks"
    /\ LET size == IF rest < Chunk THEN rest ELSE Chunk
       IN  IF rest = 0 THEN Panic
           ELSE /\ Reserve(<<"chunk", rest>>, size, IF rest < Chunk THEN 1 ELSE Chunk,
                           IF rest = size THEN "fmem" ELSE "chunks")
                /\ rest' = rest - size /\ UNCHANGED <<env, next, initial, unk, pro, checks>>

(* Dmem::adjust_pmap gives lo..hi back to physmap, at its end or joined to *)
(* the segment that follows; every other case is a todo!().                *)
GiveBack(lo, hi, next_) ==
    LET After == {i \in 2 .. Len(physmap) : physmap[i].lo >= lo}
        i == CHOOSE j \in After : \A k \in After : j <= k
    IN  \/ /\ lo > physmap[1].lo /\ After = {} /\ physmap[Len(physmap)].hi # lo
           /\ Len(physmap) < Cap
           /\ physmap' = Append(physmap, Seg(lo, hi)) /\ pc' = next_
        \/ /\ lo > physmap[1].lo /\ After # {}
           /\ physmap[i - 1].hi # lo /\ physmap[i].lo = hi
           /\ physmap' = [physmap EXCEPT ![i].lo = lo] /\ pc' = next_
        \/ /\ \/ lo <= physmap[1].lo
              \/ After = {} /\ (physmap[Len(physmap)].hi = lo \/ Len(physmap) = Cap)
              \/ After # {} /\ (physmap[i - 1].hi = lo \/ physmap[i].lo # hi)
           /\ physmap' = physmap /\ pc' = "panic"

Fmem ==
    /\ pc = "fmem" /\ GiveBack(gameEnd - dc.fmem, gameEnd, "high")
    /\ UNCHANGED <<env, next, initial, unk, pro, checks, held, rest>>

HighMemory ==
    /\ pc = "high"
    /\ LET h == Held("high").lo
       IN  GiveBack(h, h + HighKeep + (IF unk # 0 THEN HighKeepMore ELSE 0), "booted")
    /\ UNCHANGED <<env, next, initial, unk, pro, checks, held, rest>>

Next ==
    \/ LoadEntry \/ BootArea \/ High \/ Game \/ Mini \/ Vsh \/ Vision \/ Chunks
    \/ Fmem \/ HighMemory

Spec == Init /\ [][Next]_vars

-----------------------------------------------------------------------------
(* What Vmm::new puts in the boot environment: a boot area, what it keeps  *)
(* for the kernel, and the rest of the 8G.                                 *)
FromVmm ==
    /\ Len(env) = 3 /\ [i \in 1 .. 3 |-> env[i].ty] = <<"Ram", "Reserved", "Ram">>
    /\ env[1].base = 0 /\ env[2].base = env[1].len
    /\ env[3].base = env[2].base + env[2].len /\ env[3].base + env[3].len = BigMemory

(* A release build wraps around where a debug build panics, which takes a  *)
(* memory map with too little RAM.                                         *)
Exact == (checks \/ FromVmm) /\ pc # "panic"

Apart(a, b) == a.hi <= b.lo \/ b.hi <= a.lo

(* What fmem and HighKeep give back still belongs to its owner: until then *)
(* nothing that was taken is in physmap.                                   *)
Taken == {r \in held : /\ r.owner # "mini"
                       /\ ~(r.owner = "game" /\ pc \in {"high", "booted"})
                       /\ ~(r.owner = "high" /\ pc = "booted")}

SizeOf(S) == FoldSet(LAMBDA r, n : n + r.hi - r.lo, 0, S)
Returned ==
    (IF pc \in {"high", "booted"} THEN dc.fmem ELSE 0)
    + (IF pc = "booted" THEN HighKeep + (IF unk # 0 THEN HighKeepMore ELSE 0) ELSE 0)

(* Every page has one use.  What Dmem::new takes for one is taken for no   *)
(* other and is no longer in physmap, which stays sorted, although         *)
(* adjust_pmap gives memory back that a later request might have taken.    *)
(* Nothing is lost: physmap and what was taken add up to the memory that   *)
(* load_memory_map reports, the end of the boot area aside, and at the end *)
(* exactly fmem and the kept part of the high memory are back.  The mini   *)
(* applications have a part of the game's memory that stays with it.       *)
OneUse ==
    /\ Exact =>
        /\ \A i, j \in DOMAIN physmap : i < j => physmap[i].hi <= physmap[j].lo
        /\ \A a, b \in Taken : a = b \/ Apart(a, b)
        /\ \A a \in Taken, i \in DOMAIN physmap : Apart(a, physmap[i])
        /\ pc # "load" =>
            Total + SizeOf({r \in held : r.owner # "mini"}) = initial - BootExtra + Returned
    /\ \A r \in held : r.owner = "mini" =>
        Held("game").lo <= r.lo /\ r.hi <= gameEnd - dc.fmem

(* The RAM the kernel believes in is the RAM of the memory map: every      *)
(* region up to the end of the list that overlaps no earlier one is in     *)
(* physmap, and nothing else, joined or not.                               *)
Listed == {k \in DOMAIN env : env[k].ty = "Ram"
              /\ \A j \in 1 .. k : env[j].ty # "None" /\ (env[j].ty = "Ram" => env[j].len > 0)}
Region(k) == Seg(env[k].base, env[k].base + env[k].len)
Accepted[n \in 0 .. Len(env)] ==
    IF n = 0 THEN {}
    ELSE LET S == Accepted[n - 1]
         IN  IF n \in Listed /\ \A k \in S : Apart(Region(k), Region(n)) THEN S \cup {n} ELSE S
Covered(S, p) == \E r \in S : r.lo <= p /\ p < r.hi
LoadsTheRam ==
    LET Ram == {Region(k) : k \in Accepted[Len(env)]}
        Map == Range(physmap)
    IN  pc = "load" /\ next > Len(env) =>
            \A s \in Ram \cup Map : \A p \in {s.lo, s.hi} : Covered(Ram, p) <=> Covered(Map, p)
=============================================================================

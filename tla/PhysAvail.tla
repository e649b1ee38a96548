----------------------------- MODULE PhysAvail -----------------------------
(***************************************************************************)
(* The second half of setup() in src/kernel/src/main.rs: the pages of      *)
(* physmap that are not in use become phys_avail, all of them dump_avail,  *)
(* and Vm::new in src/kernel/src/vm/mod.rs counts them.                    *)
(*                                                                         *)
(* Addresses are in pages.  phys_avail and dump_avail, arrays of 61        *)
(* addresses ended by a pair whose end is 0, are sequences of segments.    *)
(***************************************************************************)
EXTENDS Integers, Sequences, FiniteSets

CONSTANTS
    PhysMaps,   \* what Dmem::new may leave in physmap
    Holes,      \* [lo, hi): unk1 and paddr_free, and the dcons buffer
    FmemRange,  \* game_end - fmem_max and game_end
    EndPages,   \* values of MemoryInfo::end_page
    Cap,        \* segments that fit, 30 in the code
    MsgBuf      \* pages of the message buffer

Ranges == [lo : Nat, hi : Nat]

(* The boot leaves the segments of physmap in order.                       *)
ASSUME AvailAssumption ==
    /\ Cap \in Nat \ {0} /\ MsgBuf \in Nat
    /\ PhysMaps \subseteq Seq(Ranges) /\ Holes \subseteq SUBSET Ranges
    /\ FmemRange \in Ranges /\ EndPages \subseteq Nat
    /\ \A m \in PhysMaps :
          /\ Len(m) > 0 /\ \A i \in 1 .. Len(m) : m[i].lo < m[i].hi
          /\ \A i, j \in 1 .. Len(m) : i < j => m[i].hi <= m[j].lo

VARIABLES
    pc, physmap, holes, endPage,
    seg, pa,              \* the segment and the page looked at
    phys_avail, dump_avail, physmem,
    page_count            \* Vm::new: pages of the system and of the game

availVars == <<pc, physmap, holes, endPage, seg, pa, phys_avail, dump_avail, physmem, page_count>>
input == <<physmap, holes, endPage>>

Seg(lo, hi) == [lo |-> lo, hi |-> hi]
Last(s) == s[Len(s)]
Extend(s) == [s EXCEPT ![Len(s)].hi = @ + 1]

(* Page 0 is skipped: the first segment starts with page 1.                *)
AvailInit ==
    /\ physmap \in {[m EXCEPT ![1].lo = 1] : m \in PhysMaps}
    /\ holes \in Holes /\ endPage \in EndPages
    /\ pc = "scan" /\ seg = 1 /\ pa = physmap[1].lo
    /\ phys_avail = <<Seg(1, 1)>> /\ dump_avail = <<Seg(0, 1)>>
    /\ physmem = 0 /\ page_count = <<0, 0>>

EndOf(s) == IF s.hi < endPage THEN s.hi ELSE endPage
UnusedOffByOne(p) == \A h \in holes : p < h.lo \/ h.hi < p
Unused(p) == \A h \in holes : p < h.lo \/ h.hi <= p

NextSegment ==
    /\ seg' = seg + 1
    /\ pa' = IF seg < Len(physmap) THEN physmap[seg + 1].lo ELSE 0
    /\ pc' = IF seg < Len(physmap) THEN "scan" ELSE "trim"

(* A page extends the last segment or starts a new one; phys_avail gives   *)
(* up, for the rest of this segment of physmap, when it is full.           *)
Full == Unused(pa) /\ pa # Last(phys_avail).hi /\ Len(phys_avail) = Cap

AddAvail ==
    IF ~Unused(pa) \/ Full THEN UNCHANGED <<phys_avail, physmem>>
    ELSE /\ physmem' = physmem + 1
         /\ phys_avail' = IF pa = Last(phys_avail).hi THEN Extend(phys_avail)
                          ELSE Append(phys_avail, Seg(pa, pa + 1))

AddDump ==
    dump_avail' = IF pa = Last(dump_avail).hi THEN Extend(dump_avail)
                  ELSE IF Len(dump_avail) < Cap THEN Append(dump_avail, Seg(pa, pa + 1))
                  ELSE dump_avail

Scan ==
    /\ pc = "scan" /\ pa < EndOf(physmap[seg])
    /\ AddAvail /\ AddDump
    /\ IF Full THEN NextSegment ELSE pa' = pa + 1 /\ UNCHANGED <<seg, pc>>
    /\ UNCHANGED <<input, page_count>>

ScanEnds ==
    /\ pc = "scan" /\ pa >= EndOf(physmap[seg])
    /\ NextSegment
    /\ UNCHANGED <<input, phys_avail, dump_avail, physmem, page_count>>

(* The message buffer is the end of the last segment, which must be        *)
(* longer: the rest is a todo!().                                          *)
Trim ==
    /\ pc = "trim"
    /\ IF Last(phys_avail).hi <= Last(phys_avail).lo + 1 + MsgBuf
          THEN pc' = "panic" /\ UNCHANGED <<endPage, phys_avail>>
          ELSE /\ endPage' = Last(phys_avail).hi
               /\ phys_avail' = [phys_avail EXCEPT ![Len(phys_avail)].hi = @ - MsgBuf]
               /\ pc' = "count"
    /\ seg' = 1
    /\ UNCHANGED <<physmap, holes, pa, dump_avail, physmem, page_count>>

(* PhysAllocator::new and Vm::new go through phys_avail up to the pair     *)
(* whose end is 0; there is none in the array when all Cap pairs are used. *)
Game(p) == FmemRange.lo <= p /\ p < FmemRange.hi
CountSegment(s) ==
    << page_count[1] + Cardinality({p \in s.lo .. (s.hi - 1) : ~Game(p)}),
       page_count[2] + Cardinality({p \in s.lo .. (s.hi - 1) : Game(p)}) >>

Terminated == Len(phys_avail) < Cap

Count ==
    /\ pc = "count"
    /\ IF seg <= Len(phys_avail)
          THEN /\ page_count' = CountSegment(phys_avail[seg]) /\ seg' = seg + 1 /\ pc' = pc
          ELSE /\ pc' = IF Terminated THEN "done" ELSE "panic"
               /\ UNCHANGED <<page_count, seg>>
    /\ UNCHANGED <<input, pa, phys_avail, dump_avail, physmem>>

AvailNext == Scan \/ ScanEnds \/ Trim \/ Count

AvailSpec == AvailInit /\ [][AvailNext]_availVars

-----------------------------------------------------------------------------
Pages(s) == UNION {s[i].lo .. (s[i].hi - 1) : i \in DOMAIN s}
Available == {p \in Pages(physmap) : \A h \in holes : p \notin h.lo .. (h.hi - 1)}
Scanned == pc \in {"count", "done"}

(* phys_avail is the RAM below end_page that nobody uses, page by page and *)
(* without page 0, in segments that do not touch, unless it ran out of     *)
(* them; the message buffer is its end.  Vm::new counts each of its pages  *)
(* once, for the system or for the game, and with the message buffer they  *)
(* are physmem.                                                            *)
ExactlyTheUnused ==
    /\ Scanned /\ Len(phys_avail) < Cap =>
        /\ Pages(phys_avail) = {p \in Available : p < endPage - MsgBuf}
        /\ \A i \in 1 .. (Len(phys_avail) - 1) : phys_avail[i].hi < phys_avail[i + 1].lo
    /\ pc = "done" =>
        /\ page_count[1] + page_count[2] + MsgBuf = physmem
        /\ page_count[2] = Cardinality({p \in Pages(phys_avail) : Game(p)})
=============================================================================

----------------------------- MODULE BootImage -----------------------------
(***************************************************************************)
(* What Vmm::new puts in the RAM of a new virtual machine                  *)
(* (src/gui/src/vmm/mod.rs): the boot area, the kernel, its map, the boot  *)
(* environment, its configuration and its stack, one after the other with  *)
(* RamBuilder::alloc (src/lib/hv/src/ram/builder.rs), then the page tables *)
(* that map them and the devices (src/lib/hv/src/ram/x86_64.rs).           *)
(*                                                                         *)
(* Addresses, physical and virtual, are in frames of 4K.  A table has      *)
(* Radix entries, 512 on x86-64, and a virtual address has four digits.    *)
(***************************************************************************)
EXTENDS Integers, Sequences, FiniteSets, TLC

CONSTANTS
    Radix,
    VmPage,    \* frames in a page of the kernel: 4, a page is 16K
    Blocks,    \* block sizes of the RAM: the larger of VmPage and a host page
    RamSizes,  \* 8G in the code
    BootLen, KernLens, MapLen, EnvLen, ConfLen, StackLen,
    KernV      \* virtual address of the kernel

ImageAssumption ==
    /\ Radix \in Nat \ {0} /\ VmPage \in Nat \ {0} /\ KernV % VmPage = 0
    /\ \A b \in Blocks : b % VmPage = 0
    /\ \A n \in RamSizes, b \in Blocks : n % b = 0

VARIABLES
    pc,         \* "alloc", "root", "map", "done", or the error
    block, ramLen, kernLen,
    next,       \* RamBuilder::next
    vaddr,      \* where the next region is mapped
    allocated,  \* RamBuilder::allocated
    reserved,   \* reserved_end, once the memory map is written, and 0 before
    tables,     \* from the address of a page table to its entries
    root,
    item, off   \* the mapping being entered in the tables, and how far it is

vars == <<pc, block, ramLen, kernLen, next, vaddr, allocated, reserved, tables, root, item, off>>
input == <<block, ramLen, kernLen>>

RoundUp(n, m) == ((n + m - 1) \div m) * m

Init ==
    /\ pc = "alloc" /\ block \in Blocks /\ ramLen \in RamSizes /\ kernLen \in KernLens
    /\ next = 0 /\ vaddr = KernV /\ allocated = <<>> /\ reserved = 0
    /\ tables = <<>> /\ root = 0 /\ item = 1 /\ off = 0

-----------------------------------------------------------------------------
(* The regions, in the order of their allocation: the first is mapped at   *)
(* its physical address.                                                   *)
Lengths == <<RoundUp(BootLen, block), kernLen, MapLen, EnvLen, ConfLen, RoundUp(StackLen, block)>>

Info(p, v, n) == [paddr |-> p, vaddr |-> v, len |-> n]

(* Where the region after one of n frames at v is mapped.                  *)
NextVaddr(v, n) == RoundUp(v + n, VmPage)

(* RamBuilder::alloc, and the address for the region after it.             *)
AllocRegion ==
    /\ pc = "alloc" /\ Len(allocated) < Len(Lengths)
    /\ LET n == Lengths[Len(allocated) + 1]
           first == allocated = <<>>
       IN  IF next + RoundUp(n, block) > ramLen
           THEN pc' = "InvalidAddr" /\ UNCHANGED <<next, vaddr, allocated>>
           ELSE /\ allocated' = Append(allocated, Info(next, IF first THEN next ELSE vaddr, n))
                /\ next' = next + RoundUp(n, block)
                /\ vaddr' = IF first THEN vaddr ELSE NextVaddr(vaddr, n)
                /\ pc' = pc
    /\ UNCHANGED <<input, reserved, tables, root, item, off>>

(* The memory map in the boot environment: RAM up to the kernel, reserved  *)
(* up to here, RAM from here on.                                           *)
WriteEnv ==
    /\ pc = "alloc" /\ Len(allocated) = Len(Lengths)
    /\ reserved' = next /\ pc' = "root"
    /\ UNCHANGED <<input, next, vaddr, allocated, tables, root, item, off>>

-----------------------------------------------------------------------------
(* build_4k_page_tables.  An entry is 0, or an address and its present bit.*)

NoEntries == [i \in 0 .. (Radix - 1) |-> 0]
Entry(addr) == addr + 1
AddrOf(entry) == entry - 1

(* alloc_page_table.                                                       *)
TableLen == RoundUp(1, block)

NewTable(s) ==
    IF s.next + TableLen > ramLen THEN [s EXCEPT !.ok = FALSE]
    ELSE [s EXCEPT !.tables = (s.next :> NoEntries) @@ @, !.next = @ + TableLen, !.at = s.next]

(* setup_devices: each device has a block, from the end of the RAM on.     *)
Devices == [i \in 1 .. 2 |-> Info(ramLen + (i - 1) * block, ramLen + (i - 1) * block, block)]
Mappings == allocated \o Devices

AllocRoot ==
    /\ pc = "root"
    /\ LET s == NewTable([tables |-> tables, next |-> next, at |-> 0, ok |-> TRUE])
       IN  /\ tables' = s.tables /\ next' = s.next /\ root' = s.at
           /\ pc' = IF s.ok THEN "map" ELSE "AllocTable"
    /\ UNCHANGED <<input, vaddr, allocated, reserved, item, off>>

Digit(v, level) == (v \div Radix^level) % Radix

(* One level of the walk: follow the entry, or make the table it needs.    *)
Descend(s, digit) ==
    IF ~s.ok THEN s
    ELSE IF s.tables[s.at][digit] # 0 THEN [s EXCEPT !.at = AddrOf(s.tables[s.at][digit])]
    ELSE LET t == NewTable(s)
         IN  IF t.ok THEN [t EXCEPT !.tables[s.at][digit] = Entry(t.at)] ELSE t

(* A mapping covers whole pages of the kernel.                             *)
MappedLenExact(info) == info.len
MappedLen(info) == RoundUp(info.len, VmPage)

(* One iteration of setup_4k_page_tables.  The tables made before a        *)
(* failure stay.                                                           *)
MapFrame ==
    /\ pc = "map" /\ item <= Len(Mappings)
    /\ LET info == Mappings[item]
           v == info.vaddr + off
           s0 == [tables |-> tables, next |-> next, at |-> root, ok |-> TRUE]
           s == Descend(Descend(Descend(s0, Digit(v, 3)), Digit(v, 2)), Digit(v, 1))
           free == s.ok /\ s.tables[s.at][Digit(v, 0)] = 0
           last == off + 1 = MappedLen(info)
       IN  /\ next' = s.next
           /\ tables' = IF free THEN [s.tables EXCEPT ![s.at][Digit(v, 0)] = Entry(info.paddr + off)]
                                ELSE s.tables
           /\ pc' = IF free THEN pc ELSE IF s.ok THEN "DuplicatedVirtualAddr" ELSE "AllocTable"
           /\ item' = IF free /\ last THEN item + 1 ELSE item
           /\ off' = IF ~free THEN off ELSE IF last THEN 0 ELSE off + 1
    /\ UNCHANGED <<input, vaddr, allocated, reserved, root>>

(* The tables are complete, and KernelMap is written.                      *)
Finish ==
    /\ pc = "map" /\ item > Len(Mappings) /\ pc' = "done"
    /\ UNCHANGED <<input, next, vaddr, allocated, reserved, tables, root, item, off>>

Next == AllocRegion \/ WriteEnv \/ AllocRoot \/ MapFrame \/ Finish

Spec == Init /\ [][Next]_vars

-----------------------------------------------------------------------------
(* The CPU's own walk over the tables.                                     *)
Step(at, digit) == IF at < 0 THEN -1 ELSE AddrOf(tables[at][digit])
Translate(v) ==
    LET pt == Step(Step(Step(root, Digit(v, 3)), Digit(v, 2)), Digit(v, 1))
    IN  IF pt < 0 THEN -1 ELSE AddrOf(tables[pt][Digit(v, 0)])

Frames == 0 .. (Radix^4 - 1)
Holds(info, v) == info.vaddr <= v /\ v < info.vaddr + RoundUp(info.len, VmPage)

BlocksOf(p, n) == (p \div block) .. ((p + n - 1) \div block)
BlocksApart ==
    LET Owned == [i \in DOMAIN allocated |-> BlocksOf(allocated[i].paddr, allocated[i].len)]
        Used == [t \in DOMAIN tables |-> BlocksOf(t, 1)]
    IN  /\ \A i, j \in DOMAIN Owned : i # j => Owned[i] \cap Owned[j] = {}
        /\ \A t, u \in DOMAIN Used : t # u => Used[t] \cap Used[u] = {}
        /\ \A i \in DOMAIN Owned, t \in DOMAIN Used : Owned[i] \cap Used[t] = {}

(* No block of the RAM serves two owners, tables or regions, no address is *)
(* mapped twice, so that build_page_table fails for lack of memory only,   *)
(* and the finished tables translate every address of every region and of  *)
(* every device to the frame it was given, and no other address at all.    *)
MapsExactly ==
    /\ BlocksApart /\ pc # "DuplicatedVirtualAddr"
    /\ pc = "done" => \A v \in Frames :
        LET Owners == {i \in DOMAIN Mappings : Holds(Mappings[i], v)}
        IN  IF Owners = {} THEN Translate(v) = -1
            ELSE \A i \in Owners : Translate(v) = Mappings[i].paddr + v - Mappings[i].vaddr

(* "This include everything that need to be lived forever" is said of      *)
(* KernelMap::kern_vsize: what Vmm::new leaves in the RAM lies there, or   *)
(* not in the RAM that its memory map offers to the kernel.                *)
KernelFrames == {Translate(v) : v \in KernV .. (vaddr - 1)}
FreeRam == reserved .. (ramLen - 1)
LivesForever == pc = "done" => DOMAIN tables \cap FreeRam \subseteq KernelFrames
=============================================================================

---------------------------- MODULE ModuleMemory ----------------------------
(***************************************************************************)
(* The memory of a loaded module (src/legacy/src/rtld/mem.rs) on top of    *)
(* VmSpace, while the application maps memory and names pages.             *)
(*                                                                         *)
(* Memory::new maps one range for all segments and protects each; later    *)
(* the kernel makes segments writable for as long as it holds a guard: one *)
(* segment, all of those of the file, or the rest of the code workspace,   *)
(* which has a lock of its own.                                            *)
(***************************************************************************)
EXTENDS VmSpace

CONSTANTS
    Images,     \* the images to load: [base, programs], with what is not empty of the programs
    OBCODE,     \* length of the code workspace, in host pages
    OBDATA      \* length of the data workspace, in host pages

ASSUME ModuleAssumption ==
    /\ Threads # {}
    /\ OBCODE \in Nat /\ OBDATA \in Nat
    /\ \A im \in Images :
          /\ im.base \in Nat
          /\ im.programs \subseteq [ty : {"PT_LOAD", "PT_SCE_RELRO"},
                                   addr : Nat, len : Nat \ {0}, prot : SUBSET ALL]

VARIABLES
    image,      \* what is loaded
    state,      \* "none", "new", "ready" or "dropped"
    ptr,        \* Memory::ptr
    done,       \* the segments Memory::new has protected
    guards      \* the guards there are: sets of segments

modvars == <<image, state, ptr, done, guards>>
allvars == <<vars, modvars>>

-----------------------------------------------------------------------------
RW == {"CPU_READ", "CPU_WRITE"}

ProgEnd(im) == im.base +
    (CHOOSE n \in {p.addr + p.len : p \in im.programs} : \A p \in im.programs : p.addr + p.len <= n)

(* The segments of the file, then the two workspaces.                      *)
FileSegments(im) ==
    {[start |-> im.base + p.addr, len |-> p.len, prot |-> p.prot] : p \in im.programs}
CodeSegment(im) == [start |-> ProgEnd(im), len |-> OBCODE, prot |-> {"CPU_READ", "CPU_EXEC"}]
DataSegment(im) == [start |-> ProgEnd(im) + OBCODE, len |-> OBDATA, prot |-> RW]
Segments(im) == FileSegments(im) \cup {CodeSegment(im), DataSegment(im)}
ModuleLen(im) == ProgEnd(im) + OBCODE + OBDATA

(* What the loops of Memory::new insist on: one program to execute, one    *)
(* for data and at most one that is read-only after relocation, on page    *)
(* boundaries, and no two that overlap.  The empty ones are skipped.       *)
Loadable(im) ==
    /\ \E text, data \in im.programs :
          /\ text.ty = "PT_LOAD" /\ "CPU_EXEC" \in text.prot
          /\ data.ty = "PT_LOAD" /\ "CPU_EXEC" \notin data.prot
          /\ \A p \in im.programs \ {text, data} : p.ty = "PT_SCE_RELRO"
    /\ \A p, q \in im.programs : p.ty = "PT_SCE_RELRO" /\ q.ty = "PT_SCE_RELRO" => p = q
    /\ \A p \in im.programs : (im.base + p.addr) % PAGE = 0
    /\ \A p, q \in im.programs : p # q => p.addr + p.len <= q.addr \/ q.addr + q.len <= p.addr

SegmentUnits(s) == ptr + s.start .. ptr + s.start + s.len - 1

-----------------------------------------------------------------------------
ModInit ==
    /\ Init
    /\ image \in Images
    /\ state = "none" /\ ptr = 0 /\ done = {} /\ guards = {}

(* The threads of VmSpace: the kernel loads with one, and the application  *)
(* has the others.                                                         *)
Loader == CHOOSE t \in Threads : TRUE

ModuleRequest(im) == [len |-> ModuleLen(im), flags |-> {"MAP_ANON"}, fd |-> -1, offset |-> 0]

(* Memory::new: mmap, a mprotect for each segment, and the workspaces.     *)
NewMap ==
    /\ state = "none" /\ Loadable(image) /\ Idle(Loader)
    /\ alloc(Loader, ModuleRequest(image), {}, "module")
    /\ UNCHANGED <<allocations, boot, modvars>>

NewStored ==
    /\ state = "none" /\ boot = "up"
    /\ \E a \in pending[Loader] : ptr' = a.addr
    /\ insert(Loader)
    /\ state' = "new"
    /\ UNCHANGED <<host, boot, image, done, guards>>

NewProtect(s) ==
    /\ state = "new" /\ s \in Segments(image) \ done
    /\ \A r \in Segments(image) \ done : s.start <= r.start
    /\ mprotect(ptr + s.start, s.len, s.prot)
    /\ done' = done \cup {s}
    /\ state' = IF done' = Segments(image) THEN "ready" ELSE "new"
    /\ UNCHANGED <<pending, boot, image, ptr, guards>>

(* The caller keeps the contract of the unsafe functions: no two guards    *)
(* over the same segment.                                                  *)
Free(S) == S \cap UNION guards = {}

(* unprotect_segment, and the guard's drop.                                *)
unprotect_segment(s) ==
    /\ state = "ready" /\ Free({s}) /\ s # CodeSegment(image)
    /\ mprotect(ptr + s.start, s.len, RW)
    /\ guards' = guards \cup {{s}}
    /\ UNCHANGED <<pending, boot, image, state, ptr, done>>

drop_segment(s) ==
    /\ {s} \in guards /\ s # CodeSegment(image)
    /\ mprotect(ptr + s.start, s.len, s.prot)
    /\ guards' = guards \ {{s}}
    /\ UNCHANGED <<pending, boot, image, state, ptr, done>>

(* unprotect: from the start of the module to the end of the last segment  *)
(* of the file.  Its drop protects one segment after the other.            *)
unprotect ==
    LET S == FileSegments(image) IN
    /\ state = "ready" /\ Free(S)
    /\ mprotect(ptr, ProgEnd(image), RW)
    /\ guards' = guards \cup {S}
    /\ UNCHANGED <<pending, boot, image, state, ptr, done>>

(* Mutant: only the first segment is protected again.                      *)
drop_allFirst(S) ==
    /\ Cardinality(S) > 1
    /\ \E s \in S :
          /\ \A r \in S : s.start <= r.start
          /\ mprotect(ptr + s.start, s.len, s.prot)
          /\ guards' = guards \ {S}
    /\ UNCHANGED <<pending, boot, image, state, ptr, done>>

drop_all(S) ==
    /\ Cardinality(S) > 1
    /\ \E s \in S :
          /\ \A r \in S : s.start <= r.start
          /\ mprotect(ptr + s.start, s.len, s.prot)
          /\ guards' = (guards \ {S}) \cup {S \ {s}}
    /\ UNCHANGED <<pending, boot, image, state, ptr, done>>

(* code_workspace, under the lock of obcode_sealed, until seal().          *)
code_workspace ==
    LET s == CodeSegment(image) IN
    /\ state = "ready" /\ Free({s})
    /\ mprotect(ptr + s.start, s.len, RW)
    /\ guards' = guards \cup {{s}}
    /\ UNCHANGED <<pending, boot, image, state, ptr, done>>

seal ==
    LET s == CodeSegment(image) IN
    /\ {s} \in guards
    /\ mprotect(ptr + s.start, s.len, s.prot)
    /\ guards' = guards \ {{s}}
    /\ UNCHANGED <<pending, boot, image, state, ptr, done>>

(* Memory::drop.                                                           *)
drop ==
    /\ state = "ready" /\ guards = {}
    /\ munmap(ptr, ModuleLen(image))
    /\ state' = "dropped"
    /\ UNCHANGED <<pending, boot, image, ptr, done, guards>>

App ==
    /\ \/ \E t \in Threads \ {Loader} : mmap(t)
       \/ /\ boot = "up"
          /\ \E addr \in Units, len \in Lens, name \in Names : sys_mname(addr, len, name)
          /\ UNCHANGED <<pending, boot>>
    /\ UNCHANGED modvars

Kernel ==
    \/ NewMap \/ NewStored \/ unprotect \/ code_workspace \/ seal \/ drop
    \/ \E s \in Segments(image) : NewProtect(s) \/ unprotect_segment(s) \/ drop_segment(s)
    \/ \E S \in guards : drop_all(S)

ModNext == (new /\ UNCHANGED modvars) \/ App \/ Kernel

ModSpec == ModInit /\ [][ModNext]_allvars

-----------------------------------------------------------------------------
(* While a module exists all of its memory stays mapped, and each segment  *)
(* has its own protection, or is writable because a guard has it: whatever *)
(* the application maps or names meanwhile, the mprotect().unwrap() of the *)
(* guards does not panic and puts back what was there.                     *)
SegmentsProtected ==
    state = "ready" =>
        \A s \in Segments(image) : \A u \in SegmentUnits(s) :
            \E a \in allocations :
                /\ u \in Extent(a)
                /\ a.prot = IF s \in UNION guards THEN RW ELSE s.prot

(* "Unmap the memory": when a module is dropped, the host has its memory   *)
(* back.                                                                   *)
DropReleases ==
    [][state = "ready" /\ state' = "dropped" => host'[ptr] = FREE]_allvars
=============================================================================

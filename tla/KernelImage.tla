---------------------------- MODULE KernelImage ----------------------------
(***************************************************************************)
(* Loading of the kernel's ELF file (src/gui/src/vmm/mod.rs Vmm::new and   *)
(* relocate_kernel, vmm/kernel): the program headers and notes are read,   *)
(* the load segments sorted and measured, copied to the kernel's memory    *)
(* and relocated.  Addresses, offsets and sizes count words of 8 bytes,    *)
(* modulo Word; an error ends the loading where it is.                     *)
(***************************************************************************)
EXTENDS Naturals, Sequences, Functions

CONSTANTS
    Files,    \* files: [elf, headers, notes, words]
    MaxNote,  \* the longest PT_NOTE, 1 MiB
    Word,     \* the values of a usize
    KernVaddr \* where the kernel will be mapped

(* The fields of a header, and the words of a file, are unsigned numbers.  *)
HeaderType == [type : STRING, offset : Nat, vaddr : Nat, filesz : Nat, memsz : Nat]

ASSUME KernelAssumption ==
    /\ Word \in Nat \ {0} /\ KernVaddr \in Nat
    /\ \A f \in Files : f.headers \in Seq(HeaderType) /\ f.words \in Seq(Nat)

Ignored == {"PHDR", "GNU_EH_FRAME", "GNU_STACK", "GNU_RELRO"}
DT_NULL == 0
DT_RELA == 7
DT_RELASZ == 8
R_NONE == 0
R_RELATIVE == 8

VARIABLES
    file,     \* the file
    step,     \* "open", "headers", "notes", "length", "copy", "dynamic",
              \* "relocate", "done", "error"
    k,        \* the header, note, segment or entry that is next
    segments, dynamic, note, \* the last two as sequences of at most one
    vm_page_size,            \* 0 if None
    kern_len,
    mem,      \* the kernel's memory, filled with zeros when it is allocated
    rela, relasz             \* as sequences of at most one

imageVars == <<file, step, k, segments, dynamic, note, vm_page_size, kern_len, mem, rela, relasz>>
parsed == <<segments, dynamic, note>>

ImageInit ==
    /\ file \in Files /\ step = "open" /\ k = 1
    /\ segments = <<>> /\ dynamic = <<>> /\ note = <<>> /\ vm_page_size = 0
    /\ kern_len = 0 /\ mem = <<>> /\ rela = <<>> /\ relasz = <<>>

Error ==
    step' = "error" /\ UNCHANGED <<file, k, parsed, vm_page_size, kern_len, mem, rela, relasz>>
Goto(s) == step' = s /\ k' = 1
Loop == k' = k + 1 /\ UNCHANGED step

-----------------------------------------------------------------------------
(* Kernel::open: an ELF file for this machine, with headers of 56 bytes.   *)
OpenKernel ==
    /\ step = "open"
    /\ IF ~file.elf THEN Error
       ELSE Goto("headers")
            /\ UNCHANGED <<file, parsed, vm_page_size, kern_len, mem, rela, relasz>>

(* ProgramHeaders::next, and the match on p_type.                          *)
NextHeader == file.headers[k]

Header ==
    /\ step = "headers" /\ k <= Len(file.headers)
    /\ LET h == NextHeader IN
       IF \/ h.type = "LOAD" /\ h.filesz > h.memsz
          \/ h.type = "DYNAMIC" /\ dynamic # <<>>
          \/ h.type = "NOTE" /\ note # <<>>
          \/ h.type \notin Ignored \cup {"LOAD", "DYNAMIC", "NOTE"}
       THEN Error
       ELSE /\ segments' = IF h.type = "LOAD" THEN Append(segments, h) ELSE segments
            /\ dynamic' = IF h.type = "DYNAMIC" THEN <<h>> ELSE dynamic
            /\ note' = IF h.type = "NOTE" THEN <<h>> ELSE note
            /\ Loop /\ UNCHANGED <<file, vm_page_size, kern_len, mem, rela, relasz>>

Sorted(s) == \A i, j \in DOMAIN s : i < j => s[i].vaddr <= s[j].vaddr
Orders(s) ==
    {t \in {[i \in DOMAIN s |-> s[p[i]]] : p \in Bijection(DOMAIN s, DOMAIN s)} : Sorted(t)}

(* sort_unstable_by_key leaves segments of the same address in any order.  *)
HeadersEnd ==
    /\ step = "headers" /\ k > Len(file.headers)
    /\ \E t \in Orders(segments) :
        IF t = <<>> \/ t[1].offset # 0 \/ dynamic = <<>> \/ note = <<>>
           \/ note[1].filesz > MaxNote
        THEN Error
        ELSE /\ segments' = t /\ Goto("notes")
             /\ UNCHANGED <<file, dynamic, note, vm_page_size, kern_len, mem, rela, relasz>>

(* Notes::next, where a note that is not well formed is "bad", and the     *)
(* match on its type.  `desc` is 0 unless it is the 8 bytes of a number.   *)
NextNote == file.notes[k]
PowerOfTwo(n) == \E i \in 0 .. 30 : n = 2 ^ i

Note ==
    /\ step = "notes" /\ k <= Len(file.notes)
    /\ LET n == NextNote IN
       IF n.name # "obkrnl" /\ n.name # "bad"
       THEN Loop /\ UNCHANGED <<file, parsed, vm_page_size, kern_len, mem, rela, relasz>>
       ELSE IF n.name = "bad" \/ n.ty # 0 \/ vm_page_size # 0 \/ ~PowerOfTwo(n.desc)
       THEN Error
       ELSE /\ vm_page_size' = n.desc /\ Loop
            /\ UNCHANGED <<file, parsed, kern_len, mem, rela, relasz>>

NotesEnd ==
    /\ step = "notes" /\ k > Len(file.notes)
    /\ IF vm_page_size = 0 THEN Error
       ELSE Goto("length")
            /\ UNCHANGED <<file, parsed, vm_page_size, kern_len, mem, rela, relasz>>

(* The kernel's length.                                                    *)
(* Mutant: overlapping segments are accepted.                              *)
OverlapsNever(h) == FALSE
Overlaps(h) == h.vaddr < kern_len

Length ==
    /\ step = "length" /\ k <= Len(segments)
    /\ LET h == segments[k] IN
       IF Overlaps(h) \/ h.vaddr + h.memsz >= Word THEN Error
       ELSE /\ kern_len' = h.vaddr + h.memsz /\ Loop
            /\ UNCHANGED <<file, parsed, vm_page_size, mem, rela, relasz>>

LengthEnd ==
    /\ step = "length" /\ k > Len(segments)
    /\ IF kern_len = 0 THEN Error
       ELSE /\ mem' = [a \in 0 .. kern_len - 1 |-> 0] /\ Goto("copy")
            /\ UNCHANGED <<file, parsed, vm_page_size, kern_len, rela, relasz>>

-----------------------------------------------------------------------------
(* segment_data and io::copy: the file may end before the segment does.    *)
FileSpan(h) == h.vaddr .. h.vaddr + h.filesz - 1
InFile(h) == {i \in 0 .. h.filesz - 1 : h.offset + i < Len(file.words)}

Copy ==
    /\ step = "copy" /\ k <= Len(segments)
    /\ LET h == segments[k] IN
       IF InFile(h) # 0 .. h.filesz - 1 THEN Error
       ELSE /\ mem' = [a \in DOMAIN mem |->
                         IF a \in FileSpan(h)
                         THEN file.words[h.offset + (a - h.vaddr) + 1] ELSE mem[a]]
            /\ Loop /\ UNCHANGED <<file, parsed, vm_page_size, kern_len, rela, relasz>>

(* relocate_kernel: the checks of PT_DYNAMIC.                              *)
CopyEnd ==
    /\ step = "copy" /\ k > Len(segments)
    /\ IF dynamic[1].memsz % 2 # 0 \/ dynamic[1].vaddr + dynamic[1].memsz > kern_len
       THEN Error
       ELSE /\ Goto("dynamic")
            /\ UNCHANGED <<file, parsed, vm_page_size, kern_len, mem, rela, relasz>>

Entry(i) == dynamic[1].vaddr + 2 * (i - 1)
MoreTags == 2 * k <= dynamic[1].memsz /\ mem[Entry(k)] # DT_NULL

Dynamic ==
    /\ step = "dynamic" /\ MoreTags
    /\ rela' = IF mem[Entry(k)] = DT_RELA THEN <<mem[Entry(k) + 1]>> ELSE rela
    /\ relasz' = IF mem[Entry(k)] = DT_RELASZ THEN <<mem[Entry(k) + 1]>> ELSE relasz
    /\ Loop /\ UNCHANGED <<file, parsed, vm_page_size, kern_len, mem>>

DynamicEnd ==
    /\ step = "dynamic" /\ ~MoreTags
    /\ IF Len(rela) # Len(relasz) \/ (relasz # <<>> /\ relasz[1] % 3 # 0) THEN Error
       ELSE /\ Goto(IF rela = <<>> THEN "done" ELSE "relocate")
            /\ UNCHANGED <<file, parsed, vm_page_size, kern_len, mem, rela, relasz>>

(* The table is read from the memory that the relocations write to.        *)
Reloc(i) == rela[1] + 3 * (i - 1)
MoreRelocs == 3 * k <= relasz[1]

Relocate ==
    /\ step = "relocate" /\ MoreRelocs
    /\ LET r == Reloc(k) IN
       IF r + 3 > kern_len THEN Error
       ELSE IF mem[r + 1] = R_NONE
       THEN /\ step' = "done"
            /\ UNCHANGED <<file, k, parsed, vm_page_size, kern_len, mem, rela, relasz>>
       ELSE IF mem[r + 1] = R_RELATIVE /\ mem[r] >= kern_len THEN Error
       ELSE /\ mem' = IF mem[r + 1] = R_RELATIVE
                      THEN [mem EXCEPT ![mem[r]] = (KernVaddr + mem[r + 2]) % Word] ELSE mem
            /\ Loop /\ UNCHANGED <<file, parsed, vm_page_size, kern_len, rela, relasz>>

RelocateEnd ==
    /\ step = "relocate" /\ ~MoreRelocs /\ step' = "done"
    /\ UNCHANGED <<file, k, parsed, vm_page_size, kern_len, mem, rela, relasz>>

ImageNext ==
    \/ OpenKernel \/ Header \/ HeadersEnd \/ Note \/ NotesEnd \/ Length \/ LengthEnd \/ Copy
    \/ CopyEnd \/ Dynamic \/ DynamicEnd \/ Relocate \/ RelocateEnd

ImageSpec == ImageInit /\ [][ImageNext]_imageVars

-----------------------------------------------------------------------------
(* The image that the headers describe, without the loading: the word at   *)
(* an address is the file's where a segment has one, and zero elsewhere.   *)
LoadSegments == {h \in Range(file.headers) : h.type = "LOAD"}
Span(h) == h.vaddr .. h.vaddr + h.memsz - 1
Holding(a) == {h \in LoadSegments : a \in FileSpan(h)}
Image(a) ==
    IF Holding(a) = {} THEN 0
    ELSE LET h == CHOOSE h \in Holding(a) : TRUE
         IN  file.words[h.offset + (a - h.vaddr) + 1]

(* The relocations of the image's table, up to the first that ends it.     *)
Table == IF rela = <<>> THEN {} ELSE rela[1] .. rela[1] + relasz[1] - 1
Applied == {i \in 1 .. (IF rela = <<>> THEN 0 ELSE relasz[1] \div 3) :
              \A j \in 1 .. i : Image(Reloc(j) + 1) # R_NONE}
Relocs(a) == {i \in Applied : Image(Reloc(i) + 1) = R_RELATIVE /\ Image(Reloc(i)) = a}

LastOf(S) == CHOOSE i \in S : \A j \in S : j <= i

(* A kernel that loads is the image its headers describe, whatever their   *)
(* order, the gaps between segments and the part of them that the file     *)
(* does not have: segments share no word and lie in the kernel's memory,   *)
(* and each word is the file's, zero, or the address of its last           *)
(* relocation.  The table is read while it may be written, so this is said *)
(* of tables that do not relocate themselves.                              *)
LoadsTheImage ==
    step = "done" =>
        /\ \A g, h \in LoadSegments : g # h => Span(g) \cap Span(h) = {}
        /\ DOMAIN mem = 0 .. kern_len - 1
        /\ \A h \in LoadSegments : Span(h) \subseteq DOMAIN mem
        /\ (\A a \in Table : Relocs(a) = {}) =>
             \A a \in DOMAIN mem :
                mem[a] = IF Relocs(a) = {} THEN Image(a)
                         ELSE (KernVaddr + Image(Reloc(LastOf(Relocs(a))) + 2)) % Word
=============================================================================

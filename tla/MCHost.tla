------------------------------- MODULE MCHost -------------------------------
(* Five parts of the program on the host that share no state, one at a     *)
(* time: the wizard, the launcher, the debugger's session, the loading of  *)
(* the kernel's file and the layout of the RAM.                            *)
(*                                                                         *)
(* The wizard has a location r1, one whose name is that of r1 with a space *)
(* after it, and one with a space for which r2, the name without it, is no *)
(* directory; in the dump the partition that a start looks for is neither  *)
(* the first nor the last.  The launcher has two profiles, of which one    *)
(* variable fits.  The files are an image of two segments, in either order *)
(* of their headers, with relocations in every place, and one file for     *)
(* each error.                                                             *)
EXTENDS Setup, Launcher, Gdb, KernelImage, Integers, TLC

CONSTANTS
    r1, r2, r1Space, r2Space, md0, da0, da1, i1, i2, t1, t2, a, b,
    Radix, VmPage, Blocks, RamSizes, BootLen, KernLens, MapLen, EnvLen, ConfLen,
    StackLen, KernV                                           \* see BootImage

VARIABLES
    which,
    pc, block, ramLen, kernLen, next, vaddr, allocated, reserved, tables, root, mapping, off

layout == <<pc, block, ramLen, kernLen, next, vaddr, allocated, reserved, tables, root, mapping,
            off>>
vars == <<which, setupVars, launcherVars, imageVars, layout, gdbVars>>

B == INSTANCE BootImage WITH item <- mapping

ASSUME ImageAssumption == B!ImageAssumption

MCDirs == {r1, r1Space, r2Space}
MCRoots == MCDirs \cup {r2}
MCTrim == [t \in MCRoots |-> CASE t = r1Space -> r1 [] t = r2Space -> r2 [] OTHER -> t]
MCDump == <<da0, md0, da1>>
MCIds == {i1, i2}
MCTexts == {t1, t2}
MCVariables == {a, b}
MCSize == (a :> 1) @@ (b :> 2)

-----------------------------------------------------------------------------
Phdr(t, o, v, f, m) == [type |-> t, offset |-> o, vaddr |-> v, filesz |-> f, memsz |-> m]
DynamicPhdr(o, n) == Phdr("DYNAMIC", o, o, n, n)
NotePhdr(n) == Phdr("NOTE", 0, 0, n, n)
Text(n) == Phdr("LOAD", 0, 0, n, n)
Data == {Phdr("LOAD", 16, v, f, m) : v \in {0, 14, 16, 18}, f \in {0, 2}, m \in {1, 2, 3, 60}}

(* The ELF header, DT_RELA, DT_RELASZ, DT_NULL, three relocations and two  *)
(* words of data.                                                          *)
Words(len, target, ty) ==
    <<1, 7, 7, 8, len, 0, 0>> \o <<2, 8, 5>> \o <<target, ty, 6>> \o <<16, 8, 9>> \o <<3, 4>>

OtherHeaders ==
    {<<>>, <<DynamicPhdr(1, 6)>>, <<DynamicPhdr(1, 6), DynamicPhdr(1, 6), NotePhdr(1)>>,
     <<DynamicPhdr(1, 6), NotePhdr(1), NotePhdr(1)>>, <<DynamicPhdr(1, 6), NotePhdr(1)>>,
     <<DynamicPhdr(1, 6), NotePhdr(1), Phdr("X", 0, 0, 0, 0)>>,
     <<Text(16), DynamicPhdr(1, 6), NotePhdr(21)>>, <<Text(16), DynamicPhdr(1, 6), Phdr("PHDR", 0, 0, 0, 0)>>,
     <<DynamicPhdr(1, 6), NotePhdr(1), Text(0)>>, <<Text(30), DynamicPhdr(1, 6), NotePhdr(1)>>,
     <<Text(16), DynamicPhdr(1, 5), NotePhdr(1)>>, <<Text(16), DynamicPhdr(1, 60), NotePhdr(1)>>,
     <<Text(16), DynamicPhdr(1, 2), NotePhdr(1)>>, <<Text(16), DynamicPhdr(13, 2), NotePhdr(1)>>}

PageNote(n) == [name |-> "obkrnl", ty |-> 0, desc |-> n]
Notes ==
    {<<>>, <<PageNote(4)>>, <<PageNote(3)>>, <<PageNote(4), PageNote(4)>>,
     <<[name |-> "other", ty |-> 5, desc |-> 0], PageNote(2)>>,
     <<[name |-> "bad", ty |-> 0, desc |-> 4]>>, <<[name |-> "obkrnl", ty |-> 1, desc |-> 4]>>}

Elf(h, n, w) == [elf |-> TRUE, headers |-> h, notes |-> n, words |-> w]
NotElf == [elf |-> FALSE, headers |-> <<>>, notes |-> <<>>, words |-> <<>>]

MCFiles ==
    {NotElf}
    \cup {Elf(h, <<PageNote(4)>>, Words(l, t, y)) : l \in {6, 7, 9}, t \in {2, 8, 16, 40}, y \in {0, 1, 8},
            h \in UNION {{<<Text(16), d, DynamicPhdr(1, 6), NotePhdr(1)>>,
                          <<DynamicPhdr(1, 6), d, NotePhdr(1), Text(16)>>} : d \in Data}}
    \cup {Elf(h, <<PageNote(4)>>, Words(9, 16, 8)) : h \in OtherHeaders}
    \cup {Elf(<<Text(16), DynamicPhdr(1, 6), NotePhdr(1)>>, n, Words(6, 8, 8)) : n \in Notes}

-----------------------------------------------------------------------------
(* Parts that do not move have one of their initial states.                *)
MCInit ==
    /\ which \in {"wizard", "launcher", "image", "layout", "session"}
    /\ SetupInit /\ LauncherInit /\ ImageInit /\ B!Init /\ GdbInit
    /\ which = "image" \/ file = NotElf
    /\ which = "layout" \/ (block = 2 /\ ramLen = 48 /\ kernLen = 1)
    /\ which = "session" \/ toServer = <<>>

MCNext ==
    /\ \/ which = "wizard" /\ SetupNext /\ UNCHANGED <<launcherVars, imageVars, layout, gdbVars>>
       \/ which = "launcher" /\ LauncherNext /\ UNCHANGED <<setupVars, imageVars, layout, gdbVars>>
       \/ which = "image" /\ ImageNext /\ UNCHANGED <<setupVars, launcherVars, layout, gdbVars>>
       \/ which = "layout" /\ B!Next /\ UNCHANGED <<setupVars, launcherVars, imageVars, gdbVars>>
       \/ which = "session" /\ GdbNext /\ UNCHANGED <<setupVars, launcherVars, imageVars, layout>>
    /\ UNCHANGED which

MCSpec == MCInit /\ [][MCNext]_vars

(* The layout alone.                                                       *)
LayoutSpec == MCInit /\ which = "layout" /\ [][MCNext]_vars

-----------------------------------------------------------------------------
(* The page tables translate exactly what was mapped (build_page_table).   *)
MapsExactly == B!MapsExactly

(* What lives forever is not in the RAM offered to the kernel (KernelMap). *)
LivesForever == B!LivesForever
=============================================================================

----------------------------- MODULE MCMachine ------------------------------
(* Five parts of the machine and of its kernel, one at a time: the boot's  *)
(* search for physical memory, the pages that it leaves to the VM, the     *)
(* kernel's heap, the console, and the life of the vCPUs.                  *)
(*                                                                         *)
(* The sizes of the boot are those of the code, in pages.  Its memory maps *)
(* are those that Vmm::new may write for a kernel of some size, and others *)
(* whose regions overlap, touch and leave holes, in any order.  The pages  *)
(* are in segments of RAM that may touch, with holes that meet them in     *)
(* every way.  The heap gets every size around a power of two.  The        *)
(* console's messages leave a buffer of three bytes empty, partly full and *)
(* just full, or cut a character in two.  There are two vCPUs, of which    *)
(* one is started, four CPUID leaves of which two have an index, and       *)
(* addresses at each field and at each end of a device's block.            *)
EXTENDS PhysAvail, Vcpu, FiniteSets, TLC

CONSTANTS Ascii, Lead, Cont

VARIABLES
    which,
    booting, env, next, found, initial, unk, pro, checks, held, rest,
    stage, primitive, heap_guard, last,
    calls, printed, msgLen, msg, logs, outcome

boot == <<booting, env, next, found, initial, unk, pro, checks, held, rest>>
heap == <<stage, primitive, heap_guard, last>>
console == <<calls, printed, msgLen, msg, logs, outcome>>
vars == <<which, boot, availVars, heap, console, vcpuVars>>

-----------------------------------------------------------------------------
(* The memory maps, and DMEM_CONFIGS.                                      *)
Entry(b, n, t) == [base |-> b, len |-> n, ty |-> t]

FromVmmMaps ==
    { << Entry(0, 40, "Ram"), Entry(40, r - 40, "Reserved"), Entry(r, 524288 - r, "Ram") >> :
        r \in {200, 777, 1024, 2000, 2048, 3001, 4096, 5000, 8191, 16384} }

Regions ==
    {Entry(0, 2, "Ram"), Entry(0, 40, "Ram"), Entry(0, 524288, "Ram"), Entry(20, 40, "Ram"),
     Entry(40, 160, "Reserved"), Entry(40, 160, "Ram"), Entry(42, 524246, "Ram"),
     Entry(200, 524088, "Ram"), Entry(200, 393216, "Ram"), Entry(393416, 131072, "Ram"),
     Entry(393500, 131072, "Ram"), Entry(6, 0, "Ram"), Entry(0, 0, "None")}

MCMaps == FromVmmMaps \cup UNION {[1 .. n -> Regions] : n \in 0 .. 3}

Config(g, f, m, s, v, u) ==
    [game |-> g, fmem |-> f, mini |-> m, shared |-> s, vsh |-> v, unk1 |-> u]

MCConfigs ==
    (4 :> Config(335872, 65536, 49152, FALSE, 27136, 640))
    @@ (12 :> Config(335872, 65536, 49152, FALSE, 28800, 523648))
    @@ (20 :> Config(376832, 65536, 114688, TRUE, 40960, 640))

D == INSTANCE Dmem WITH
        MemoryMaps <- MCMaps, Cap <- 30, Word <- 1073741824, BigMemory <- 524288, BootExtra <- 4,
        Configs <- MCConfigs, HighSize <- 1024, HighKeep <- 768, HighKeepMore <- 256,
        VisionSize <- 1024, BigAlign <- 8192, Chunk <- 128, pc <- booting, physmap <- found

-----------------------------------------------------------------------------
(* The segments and their holes.                                           *)
Sorted(m) == \A i \in 1 .. (Len(m) - 1) : m[i].hi <= m[i + 1].lo
Segments == {Seg(lo, hi) : lo \in {2, 4, 5, 9}, hi \in {4, 6, 9, 13, 17}}
MCPhysMaps ==
    {m \in {<<Seg(0, 2), s>> : s \in Segments} \cup {<<Seg(0, 3), s, t>> : s, t \in Segments} :
        Sorted(m) /\ \A i \in DOMAIN m : m[i].lo < m[i].hi}
MCHoles ==
    {{Seg(a, b), Seg(c, c + 1), Seg(12, d)} :
        a \in {3, 7}, b \in {1, 5, 8}, c \in {1, 5, 10}, d \in {12, 14}}

MCFmem == Seg(6, 10)

-----------------------------------------------------------------------------
(* The requests of the heap, and the zones.                                *)
MCSizes ==
    {n \in {2^k + d : k \in 0 .. 14, d \in {-16, -1, 0, 1, 16}} :
        n \in 1 .. 2^14}
MCLayouts == [size : MCSizes, align : {2^k : k \in {0, 3, 4, 5, 11, 14}}]
MCSpecs ==
    [name : {"vnode", "mbuf"}, size : {1, 63, 1000, 9000, 16384, 50000},
     align : {1, 64, 4096, 16384},
     flags : {{}, {"Malloc"}, {"RefCnt", "MaxBucket"}, {"CacheSpread"}, {"Internal"}, {"ZInit"}}]

H == INSTANCE KernelHeap WITH
        PAGE_SHIFT <- 14, Layouts <- MCLayouts, Specs <- MCSpecs, MaxBlocks <- 1

-----------------------------------------------------------------------------
(* The messages.                                                           *)
MCMessages ==
    { <<>>,
      << <<Ascii, Ascii>> >>,
      << <<Ascii>>, <<Lead, Cont>> >>,
      << <<Ascii, Ascii, Lead, Cont>>, <<>>, <<Ascii>> >>,
      << <<Lead, Cont, Lead, Cont>>, <<Ascii>> >> }

C == INSTANCE Console WITH
        BufLen <- 3, Messages <- MCMessages, MaxPrints <- 2,
        PanicMsg <- << <<Ascii, Ascii, Ascii>>, <<Lead, Cont>> >>

-----------------------------------------------------------------------------
(* The vCPUs.                                                              *)
MCSupported ==
    <<[id |-> 0, indexed |-> FALSE], [id |-> 4, indexed |-> TRUE],
      [id |-> 1, indexed |-> FALSE], [id |-> 4, indexed |-> TRUE]>>

MCCpus == <<"cpu0", "cpu1">>

ASSUME D!DmemAssumption /\ H!HeapAssumption /\ C!ConsoleAssumption

-----------------------------------------------------------------------------
(* Parts that do not move have one of their initial states.  The vCPUs     *)
(* never stop short of the end; every other part may.                      *)
MCInit ==
    /\ which \in {"boot", "pages", "heap", "console", "vcpus"}
    /\ which = "boot" \/ (which # "boot" /\ env = <<>> /\ pro = TRUE /\ checks = TRUE)
    /\ \/ which = "pages"
       \/ /\ which # "pages" /\ endPage = 7
          /\ physmap = <<Seg(1, 2), Seg(2, 4)>>
          /\ holes = {Seg(3, 1), Seg(1, 2), Seg(12, 12)}
    /\ which = "vcpus" \/ (which # "vcpus" /\ backend = "kvm" /\ cpuModel = "Host")
    /\ D!Init /\ AvailInit /\ H!Init /\ C!Init /\ VcpuInit

MCNext ==
    /\ \/ which = "boot" /\ D!Next /\ UNCHANGED <<availVars, heap, console, vcpuVars>>
       \/ which = "pages" /\ AvailNext /\ UNCHANGED <<boot, heap, console, vcpuVars>>
       \/ which = "heap" /\ H!Next /\ UNCHANGED <<boot, availVars, console, vcpuVars>>
       \/ which = "console" /\ C!Next /\ UNCHANGED <<boot, availVars, heap, vcpuVars>>
       \/ which = "vcpus" /\ VcpuNext /\ UNCHANGED <<boot, availVars, heap, console>>
       \/ which # "vcpus" /\ UNCHANGED <<boot, availVars, heap, console, vcpuVars>>
    /\ UNCHANGED which

(* The fairness of Console and of Vcpu.                                    *)
ConsoleStep ==
    /\ which = "console" /\ UNCHANGED <<which, boot, availVars, heap, vcpuVars>>
    /\ C!Copy \/ C!Drop \/ C!WriteLen \/ C!WriteAddr \/ C!WriteCommit
VcpuStep(A) == which = "vcpus" /\ A /\ UNCHANGED <<which, boot, availVars, heap, console>>

MCSpec ==
    /\ MCInit /\ [][MCNext]_vars
    /\ WF_vars(ConsoleStep) /\ WF_vars(VcpuStep(Start)) /\ WF_vars(VcpuStep(DropOne))

-----------------------------------------------------------------------------
(* The properties of the parts, explained where they are defined: the      *)
(* memory (load_memory_map, Dmem::new), the pages (load_pmap, Vm::new),    *)
(* the heap (VmHeap::alloc, UmaZone::new), the console (print, Writer) and *)
(* the vCPUs (hv::new, run_cpu, the drops of the VMM).                     *)
OneUse == D!OneUse
LoadsTheRam == D!LoadsTheRam
RightZone == H!RightZone
WholeLogs == C!WholeLogs
PrintEnds == C!PrintEnds
StartEnds == which = "vcpus" => StartsUp
=============================================================================

------------------------------- MODULE Vcpu -------------------------------
(***************************************************************************)
(* A virtual machine from hv::new to the drop of its hypervisor, with the  *)
(* one vCPU that the VMM starts: what each step acquires, what an early    *)
(* return drops and in which order, the registers the vCPU thread commits  *)
(* before it enters the guest, and the dispatch of the exits of the guest. *)
(*                                                                         *)
(* backend is the hypervisor of the build: KVM (src/lib/hv/src/linux), WHP *)
(* (windows) or HVF (macos).  Any call of the host may fail.  A register   *)
(* holds Reset, the value it has when the vCPU is created, or Boot, what   *)
(* setup_main_cpu sets.  A todo!() aborts the process.                     *)
(***************************************************************************)
EXTENDS Integers, Sequences

CONSTANTS
    Cpus,       \* the vCPUs, 8 of them: a sequence of names
    Supported,  \* the host's CPUID leaves: a sequence of [id, indexed]
    RamSize, BlockSize,
    Addrs       \* the physical addresses the guest accesses

(* What hv::new acquires or checks besides the vCPUs, and what the thread  *)
(* of a vCPU acquires.                                                     *)
StepNames ==
    {"ram", "kvm", "version", "max_cpu", "ext_cpuid", "cpuid", "mmap_size", "vm", "map",
     "part", "cpu_count", "setup", "mmfr0", "mmfr1", "mmfr2", "page_size", "ram_size",
     "run", "vp"}

(* Only the leaves without a significant index are kept.                   *)
Plain == {i \in DOMAIN Supported : ~Supported[i].indexed}

(* A block is at least a page, so a device fits in one.  Each CPUID leaf   *)
(* without a significant index is reported once, and leaf 1 is one of them.*)
ASSUME VcpuAssumption ==
    /\ Cpus \in Seq(STRING) /\ Len(Cpus) > 0
    /\ \A i \in 1 .. Len(Cpus) : Cpus[i] \notin StepNames
    /\ Len(Supported) \in Nat /\ DOMAIN Supported = 1 .. Len(Supported)
    /\ \A i, j \in Plain : Supported[i].id = Supported[j].id => i = j
    /\ \E i \in Plain : Supported[i].id = 1
    /\ BlockSize \in Nat /\ BlockSize >= 24 /\ RamSize \in Nat /\ RamSize % BlockSize = 0
    /\ Addrs \subseteq Nat

VARIABLES
    backend, cpuModel,
    main,     \* what the thread that owns the VMM does
    step,     \* steps of hv::new done
    count,    \* entries asked of KVM_GET_SUPPORTED_CPUID
    feats,    \* the CPUID leaves of the VM
    live,     \* the host's objects in existence
    doomed,   \* what is still to be dropped, in order
    cpu,      \* what the vCPU thread does
    sets,     \* setters of setup_main_cpu done
    cache, gdirty, sdirty,   \* KvmStates
    regs, cpuid,             \* the registers and the leaves the vCPU has
    exit,     \* why the guest exited
    shutdown,
    result    \* of the vCPU thread

hyper == <<backend, cpuModel>>
host == <<main, step, count, feats>>
objects == <<live, doomed>>
states == <<sets, cache, gdirty, sdirty>>
vcpu == <<regs, cpuid>>
vcpuVars == <<hyper, host, objects, cpu, states, vcpu, exit, shutdown, result>>

None == [kind |-> "none"]
Reset == "reset"
Boot == "boot"

-----------------------------------------------------------------------------
(* The registers.                                                          *)

SetupX86 ==
    <<"cr3", "cr4", "efer", "cr0", "cs", "ds", "es", "fs", "gs", "ss",
      "rdi", "rsi", "rdx", "rsp", "rip", "rflags">>
SetupArm ==
    <<"pstate", "sctlr", "mair", "tcr", "ttbr0", "ttbr1",
      "x0", "x1", "x2", "sp", "pc">>

Setup == IF backend = "hvf" THEN SetupArm ELSE SetupX86

(* KVM_SET_REGS and KVM_SET_SREGS write a whole group; rax and cr2 stand   *)
(* for the registers of each that setup_main_cpu does not set.             *)
General == {"rdi", "rsi", "rdx", "rsp", "rip", "rflags", "rax"}
Special ==
    {"cr0", "cr2", "cr3", "cr4", "efer", "cs", "ds", "es", "fs", "gs", "ss"}
Registers == General \cup Special

NotWritten ==
    [kvm |-> {}, whp |-> {"rdi", "rsi", "rdx", "rflags"}, hvf |-> {"x2"}]

-----------------------------------------------------------------------------
(* hv::new.  A step is the name of what it acquires or of what it checks.  *)

NewSteps ==
    [kvm |-> <<"ram", "kvm", "version", "max_cpu", "ext_cpuid", "cpuid",
               "mmap_size", "vm", "map">> \o Cpus,
     whp |-> <<"ram", "part", "cpu_count", "setup", "map">>,
     hvf |-> <<"ram", "vm", "max_cpu", "mmfr0", "mmfr1", "mmfr2",
               "page_size", "ram_size">>]

Steps == NewSteps[backend]

(* The object a step leaves behind.                                        *)
Vcpus == {Cpus[i] : i \in 1 .. Len(Cpus)}
Objects == {"ram", "kvm", "vm", "part"} \cup Vcpus
Acquired(i) == {Steps[i]} \cap Objects

(* The order in which an early return drops the locals of hv::new, and the *)
(* one of the fields of the hypervisor.  HVF destroys its VM first in both *)
(* since the Hvf owns the RAM from the moment there is a VM.               *)
LocalsOrder ==
    [kvm |-> Cpus \o <<"vm", "kvm", "ram">>,
     whp |-> <<"part", "ram">>,
     hvf |-> <<"vm", "ram">>][backend]
FieldsOrderRamFirst ==
    [kvm |-> <<"ram">> \o Cpus \o <<"vm", "kvm">>,
     whp |-> <<"part", "ram">>,
     hvf |-> <<"vm", "ram">>][backend]
FieldsOrder ==
    [kvm |-> Cpus \o <<"vm", "ram", "kvm">>,
     whp |-> <<"part", "ram">>,
     hvf |-> <<"vm", "ram">>][backend]

(* To drop what was never acquired does nothing.                           *)
Dropping(order) == doomed' = order

VcpuInit ==
    /\ backend \in {"kvm", "whp", "hvf"}
    /\ cpuModel \in {"Host", "Pro", "ProWithHost"}
    /\ main = "new" /\ step = 0 /\ count = 1 /\ feats = [i \in {} |-> None]
    /\ live = {} /\ doomed = <<>>
    /\ cpu = "none" /\ sets = 0 /\ gdirty = FALSE /\ sdirty = FALSE
    /\ cache = [r \in Registers |-> Reset]
    /\ regs = [r \in Registers |-> Reset] /\ cpuid = [i \in {} |-> None]
    /\ exit = None /\ shutdown = FALSE /\ result = "none"

(* The leaves are kept under the place they had in the answer.             *)
HostFeats == [i \in Plain |-> [id |-> Supported[i].id, from |-> "host"]]

MoreOfSame(n) == n
MoreOf(n) == n + 1

(* KVM_GET_SUPPORTED_CPUID fails with E2BIG until there is room for every  *)
(* entry, and the loop asks for one more each time.                        *)
AskMore ==
    /\ main = "new" /\ step < Len(Steps) /\ Steps[step + 1] = "cpuid"
    /\ count < Len(Supported)
    /\ count' = MoreOf(count)
    /\ UNCHANGED <<hyper, main, step, feats, objects, cpu, states, vcpu, exit, shutdown, result>>

NewStep ==
    /\ main = "new" /\ step < Len(Steps)
    /\ Steps[step + 1] = "cpuid" => count >= Len(Supported)
    /\ step' = step + 1
    /\ live' = live \cup Acquired(step + 1)
    /\ feats' = IF Steps[step + 1] = "cpuid" THEN HostFeats ELSE feats
    /\ UNCHANGED <<hyper, main, count, doomed, cpu, states, vcpu, exit, shutdown, result>>

NewFails ==
    /\ main = "new" /\ step < Len(Steps)
    /\ main' = "dropping" /\ Dropping(LocalsOrder)
    /\ UNCHANGED <<hyper, step, count, feats, live, cpu, states, vcpu, exit, shutdown, result>>

-----------------------------------------------------------------------------
(* The rest of Vmm::new.                                                   *)

(* set_cpuid of KVM replaces the leaf, or adds it.                         *)
ProLeaf == [id |-> 1, from |-> "pro"]
SameLeaf(fs) == {i \in DOMAIN fs : fs[i].id = ProLeaf.id}
First(S) == CHOOSE i \in S : \A j \in S : i <= j
WithLeaf(fs) ==
    IF SameLeaf(fs) # {} THEN [fs EXCEPT ![First(SameLeaf(fs))] = ProLeaf]
    ELSE [i \in DOMAIN fs \cup {Len(Supported) + 1} |->
             IF i \in DOMAIN fs THEN fs[i] ELSE ProLeaf]

SetCpuModel ==
    /\ main = "new" /\ step = Len(Steps)
    /\ main' = IF cpuModel = "ProWithHost" \/ (cpuModel = "Pro" /\ backend = "whp")
               THEN "abort" ELSE "build"
    /\ feats' = IF cpuModel = "Pro" /\ backend = "kvm" THEN WithLeaf(feats) ELSE feats
    /\ UNCHANGED <<hyper, step, count, objects, cpu, states, vcpu, exit, shutdown, result>>

(* The image of the kernel is built (see BootImage) and the thread of the  *)
(* vCPU spawned, with a reference to the hypervisor of its own.            *)
SpawnCpu ==
    /\ main = "build" /\ main' = "loop" /\ cpu' = "create"
    /\ UNCHANGED <<hyper, step, count, feats, objects, states, vcpu, exit, shutdown, result>>

BuildFails ==
    /\ main = "build" /\ main' = "dropping" /\ Dropping(FieldsOrder)
    /\ UNCHANGED <<hyper, step, count, feats, live, cpu, states, vcpu, exit, shutdown, result>>

(* The drop of the Vmm: the flag, the join, and only then the fields.      *)
Shutdown ==
    /\ main = "loop" /\ main' = "join" /\ shutdown' = TRUE
    /\ UNCHANGED <<hyper, step, count, feats, objects, cpu, states, vcpu, exit, result>>

Join ==
    /\ main = "join" /\ cpu = "done"
    /\ main' = "dropping" /\ Dropping(FieldsOrder)
    /\ UNCHANGED <<hyper, step, count, feats, live, cpu, states, vcpu, exit, shutdown, result>>

DropOne ==
    /\ main = "dropping"
    /\ IF doomed = <<>>
       THEN main' = "gone" /\ UNCHANGED objects
       ELSE live' = live \ {Head(doomed)} /\ doomed' = Tail(doomed) /\ UNCHANGED main
    /\ UNCHANGED <<hyper, step, count, feats, cpu, states, vcpu, exit, shutdown, result>>

-----------------------------------------------------------------------------
(* The thread of the vCPU.                                                 *)

Running(at) == main # "abort" /\ cpu = at

(* The thread returns, which drops its vCPU: munmap of kvm_run, or the     *)
(* deletion of the virtual processor.                                      *)
Ends(r) ==
    /\ cpu' = "done" /\ result' = r
    /\ live' = live \ {"run", "vp"} /\ UNCHANGED doomed

(* create_cpu: SET_CPUID2, then the mmap of kvm_run; WHP and HVF create    *)
(* their virtual processor here.                                           *)
CreateCpu ==
    /\ Running("create")
    /\ cpu' = "states"
    /\ live' = live \cup {IF backend = "kvm" THEN "run" ELSE "vp"}
    /\ cpuid' = feats
    /\ UNCHANGED <<hyper, host, doomed, states, regs, exit, shutdown, result>>

CreateFails ==
    /\ Running("create") /\ Ends("Create")
    /\ cpuid' \in {cpuid, feats}
    /\ UNCHANGED <<hyper, host, states, regs, exit, shutdown>>

(* KVM and WHP read the registers, which may fail; HVF does not.           *)
GetStates ==
    /\ Running("states")
    /\ \/ cpu' = "set" /\ cache' = regs /\ UNCHANGED <<result, objects>>
       \/ backend # "hvf" /\ Ends("Setup") /\ UNCHANGED cache
    /\ UNCHANGED <<hyper, host, sets, gdirty, sdirty, vcpu, exit, shutdown>>

SetRegister ==
    /\ Running("set") /\ sets < Len(Setup)
    /\ LET r == Setup[sets + 1] IN
       /\ main' = IF r \in NotWritten[backend] THEN "abort" ELSE main
       /\ sets' = sets + 1
       /\ cache' = IF backend = "kvm" THEN [cache EXCEPT ![r] = Boot] ELSE cache
       /\ gdirty' = (gdirty \/ r \in General)
       /\ sdirty' = (sdirty \/ r \in Special)
    /\ UNCHANGED <<hyper, step, count, feats, objects, cpu, vcpu, exit, shutdown, result>>

Written(group) == [r \in Registers |-> IF r \in group THEN cache[r] ELSE regs[r]]

(* commit: the general registers first, and nothing more once one fails.   *)
CommitGeneral ==
    /\ Running("set") /\ sets = Len(Setup)
    /\ \/ cpu' = "special" /\ regs' = (IF gdirty THEN Written(General) ELSE regs)
          /\ UNCHANGED <<result, objects>>
       \/ gdirty /\ Ends("Setup") /\ UNCHANGED regs
    /\ UNCHANGED <<hyper, host, states, cpuid, exit, shutdown>>

CommitSpecialIgnoresError ==
    /\ Running("special")
    /\ cpu' = "check" /\ regs' \in {Written(Special), regs}
    /\ UNCHANGED <<hyper, host, objects, states, cpuid, exit, shutdown, result>>
CommitSpecial ==
    /\ Running("special")
    /\ \/ cpu' = "check" /\ regs' = (IF sdirty THEN Written(Special) ELSE regs)
          /\ UNCHANGED <<result, objects>>
       \/ sdirty /\ Ends("Setup") /\ UNCHANGED regs
    /\ UNCHANGED <<hyper, host, states, cpuid, exit, shutdown>>

CheckShutdown ==
    /\ Running("check")
    /\ IF shutdown THEN Ends("true") ELSE cpu' = "guest" /\ UNCHANGED <<result, objects>>
    /\ UNCHANGED <<hyper, host, states, vcpu, exit, shutdown>>

-----------------------------------------------------------------------------
(* The devices: the fields of their memory, and where setup_devices puts   *)
(* them, one after the other from the end of the RAM.                      *)

Devices == {"vmm", "console"}
MemoryLen == [vmm |-> 1, console |-> 24]
Fields == [vmm |-> {0}, console |-> {0, 8, 16}]

RoundUp(n) == ((n + BlockSize - 1) \div BlockSize) * BlockSize
DeviceLen(d) == RoundUp(MemoryLen[d])
DeviceAddr(d) == IF d = "vmm" THEN RamSize ELSE RamSize + DeviceLen("vmm")
DeviceEnd(d) == DeviceAddr(d) + DeviceLen(d)

(* handle_io: the last device that starts at or below the address, if the  *)
(* address is below its end.                                               *)
TargetNoEnd(addr) ==
    LET below == {d \in Devices : DeviceAddr(d) <= addr}
    IN {d \in below : \A e \in below : DeviceAddr(e) <= DeviceAddr(d)}
Target(addr) ==
    LET below == {d \in Devices : DeviceAddr(d) <= addr}
    IN {d \in below : /\ \A e \in below : DeviceAddr(e) <= DeviceAddr(d)
                      /\ addr < DeviceEnd(d)}

(* An access outside the RAM leaves the guest.                             *)
Accesses ==
    [kind : {"io"}, addr : {a \in Addrs : a >= RamSize},
     data : {"read", "success", "panic", "invalid"}]

(* cpu.run.                                                                *)
GuestExits ==
    /\ Running("guest")
    /\ \/ cpu' = "handle" /\ exit' \in Accesses /\ UNCHANGED <<result, objects>>
       \/ cpu' = "handle" /\ exit' \in [kind : {"hlt", "other"}] /\ UNCHANGED <<result, objects>>
       \/ Ends("Run") /\ UNCHANGED exit
    /\ UNCHANGED <<hyper, host, states, vcpu, shutdown>>

Again == cpu' = "check" /\ UNCHANGED <<result, objects>>

HandleHlt ==
    /\ Running("handle") /\ exit.kind = "hlt" /\ Again /\ exit' = None
    /\ UNCHANGED <<hyper, host, states, vcpu, shutdown>>

(* A debug exit has no debugger, and no other exit is known.               *)
HandleOther ==
    /\ Running("handle") /\ exit.kind = "other" /\ main' = "abort" /\ exit' = None
    /\ UNCHANGED <<hyper, step, count, feats, objects, cpu, states, vcpu, shutdown, result>>

(* The shutdown field takes one byte that is a KernelExit.                 *)
VmmMmio(off, data) ==
    IF off \notin Fields["vmm"] \/ data \in {"read", "invalid"} THEN "Mmio"
    ELSE IF data = "success" THEN "true" ELSE "false"

(* What the console does with a field is the module Console: here it takes *)
(* the write or refuses it.                                                *)
HandleIo ==
    /\ Running("handle") /\ exit.kind = "io" /\ exit' = None
    /\ LET ds == Target(exit.addr) IN
       \/ ds = {} /\ Ends("MmioAddr")
       \/ "vmm" \in ds /\ Ends(VmmMmio(exit.addr - DeviceAddr("vmm"), exit.data))
       \/ "console" \in ds /\ Ends("Mmio")
       \/ /\ "console" \in ds /\ exit.data # "read"
          /\ exit.addr - DeviceAddr("console") \in Fields["console"]
          /\ Again
    /\ UNCHANGED <<hyper, host, states, vcpu, shutdown>>

-----------------------------------------------------------------------------
Stopped == main \in {"gone", "abort"} /\ UNCHANGED vcpuVars

Start == AskMore \/ NewStep \/ SetCpuModel \/ SpawnCpu

VcpuNext ==
    \/ Start \/ NewFails \/ BuildFails \/ Shutdown \/ Join \/ DropOne
    \/ CreateCpu \/ CreateFails \/ GetStates \/ SetRegister
    \/ CommitGeneral \/ CommitSpecial \/ CheckShutdown
    \/ GuestExits \/ HandleHlt \/ HandleOther \/ HandleIo
    \/ Stopped

(* Vmm::new and the drops run on one thread, which nothing blocks.  No     *)
(* call of the host has to fail.                                           *)
VcpuSpec == VcpuInit /\ [][VcpuNext]_vcpuVars /\ WF_vcpuVars(Start) /\ WF_vcpuVars(DropOne)

-----------------------------------------------------------------------------
(* "Fields in this struct need to drop in a correct order" (linux/mod.rs): *)
(* on every path, an early return of hv::new included, the RAM outlives    *)
(* the VM that maps it, the VM its vCPUs, /dev/kvm the VM, and a vCPU that *)
(* a thread drives outlives that thread's use of it; and when the VMM is   *)
(* gone nothing is left, by the thread that drives the vCPU or by the Kvm. *)
DropOrder ==
    main # "abort" =>
    /\ live \cap {"vm", "part"} # {} => "ram" \in live
    /\ live \cap Vcpus # {} => "vm" \in live
    /\ backend = "kvm" /\ "vm" \in live => "kvm" \in live
    /\ "run" \in live => Cpus[1] \in live
    /\ "vp" \in live => live \cap {"vm", "part"} # {}
    /\ main = "gone" => live = {} /\ cpu \in {"none", "done"}

(* The guest of main_cpu runs only on the registers that setup_main_cpu    *)
(* set, all of them and no others, whichever ioctl of commit failed, and   *)
(* sees the leaves of the host that have no index, with leaf 1 once and    *)
(* of the model in the profile.                                            *)
EntersBooted ==
    cpu = "guest" =>
    /\ \A r \in Registers : regs[r] = IF r \in {"rax", "cr2"} THEN Reset ELSE Boot
    /\ {cpuid[i].id : i \in DOMAIN cpuid} = {Supported[i].id : i \in Plain}
    /\ \A i, j \in DOMAIN cpuid : cpuid[i].id = cpuid[j].id => i = j
    /\ \A i \in DOMAIN cpuid :
          cpuid[i].from = "pro" <=> cpuid[i].id = 1 /\ cpuModel = "Pro"

(* handle_io gives an access to the device whose block it is in: the       *)
(* kernel's exit status is taken from the first byte after the RAM only,   *)
(* the guest goes on only after an access to the console, and an address   *)
(* past the two blocks is the only one without a device.                   *)
RightDevice ==
    [][cpu = "handle" /\ exit.kind = "io" /\ cpu' # cpu =>
       /\ result' = "true" <=> exit.addr = RamSize /\ exit.data = "success"
       /\ result' = "false" <=> exit.addr = RamSize /\ exit.data = "panic"
       /\ result' = "MmioAddr" <=> exit.addr >= RamSize + 2 * BlockSize
       /\ cpu' = "check" => exit.addr >= RamSize + BlockSize]_vcpuVars

(* Vmm::new ends, the loop that asks for more CPUID entries included: with *)
(* a running vCPU, an abort, or an error after which all is dropped.       *)
StartsUp == main = "new" ~> main \in {"loop", "abort", "gone"}
=============================================================================

# Obliteration: TLA+ models and proofs

Obliteration runs a PS4-compatible kernel in a virtual machine. Two programs
make the system: the VMM (`src/gui`, a host process with a GUI, on top of the
hypervisor library `src/lib/hv`) and the kernel (`src/kernel`, on top of the
runtime `src/lib/krt`), which share the layout of the boot environment and of
the virtual devices (`src/config`). A third tree, `src/legacy`, is the older
kernel that ran inside the host process; the new kernel is being rewritten from
it, so its services are the reference for what is still to come.

This directory models the parts of the three whose correctness depends on
interleavings, on order, on failures half way or on boundaries, checks them with
TLC on small instances, and proves with TLAPS the invariants that the rest
relies on, for every size of the system.

## The system

1. **Setup.** The GUI starts; the setup wizard asks where to keep the data and
   extracts a firmware dump there, unless an earlier start did it.
2. **Launcher.** The main window loads the settings and the profiles, lets the
   user edit and save them, and starts the machine with the profile it shows.
3. **Launch.** `Vmm::new` reads the kernel's ELF file, creates the hypervisor's
   VM with its RAM and its vCPUs, lays the kernel, its stack, its configuration
   and its boot environment out in the RAM, relocates the kernel, builds the page
   tables and starts the thread of the main vCPU.
4. **Run.** The vCPU thread commits the boot registers, enters the guest and
   dispatches every exit to a device. The console device sends log messages
   through a bounded channel to the asynchronous main task, which also serves a
   debugger and sees the exits of the vCPUs. Closing the window, an exit or an
   error drops the VMM, which joins the vCPU threads.
5. **Kernel boot.** The kernel turns the memory map into `physmap`, takes the
   direct memory of the game and of the system out of it, records what is left
   in `phys_avail`, sets its heap up, and prints by writing to the console device.
6. **Older kernel.** It mounts its file systems, keeps a registry, spawns the
   process of the game with its address space, loads modules into it and serves
   the system calls of its threads.

A panic aborts the process in both builds (`panic = "abort"` in
`src/Cargo.toml`), so in the models of the VMM and of the kernel a `todo!()`, a
failed `unwrap` or a failed assertion that the code can reach ends everything.
The older kernel has a `todo!()` for most arguments its authors had not met: a
call that leads to one stops the emulator and is no step of its models, except in
`RegMgr`, where `todo` is one of the answers.

## Modules

| Part | Source | Module | Runs | Proofs |
|---|---|---|---|---|
| RAM of the VM | `lib/hv/src/ram/{mod,lock}.rs` | `Ram`, `RamHistory`, abstract `BlockLending` | `ram`, `ram_lost_wakeup` | `RamProofs` |
| Log channel | `gui/src/util/channel` | `Channel` | `channel` | `VmmProofs` |
| VMM at run time | `gui/src/vmm/mod.rs`, `gui/src/main.rs` | `VmmLoop`, which uses `Channel` | `vmm`, `vmm_drop_hangs` | `ThreadProofs` |
| Setup wizard | `gui/src/setup`, `gui/src/data` | `Setup` | `host` | `HostProofs` |
| Launcher, profiles | `gui/src/main.rs`, `gui/src/{ui,profile,settings,data}` | `Launcher` | `host` | `HostProofs` |
| Kernel file | `gui/src/vmm/mod.rs`, `gui/src/vmm/kernel` | `KernelImage` | `host` | `VmmProofs` |
| Boot image, page tables | `gui/src/vmm/mod.rs`, `lib/hv/src/ram/{builder,x86_64}.rs` | `BootImage` | `host`, `boot_image_ram` | |
| Debugger session | `gui/src/gdb`, `gui/src/main.rs` | `Gdb` | `host` | `HostProofs` |
| Hypervisors and vCPU | `lib/hv/src/{linux,windows,macos}`, `gui/src/vmm`, `gui/src/hw` | `Vcpu` | `machine` | `VcpuProofs` |
| Console | `lib/krt/src/console`, `gui/src/hw/console` | `Console` | `machine` | |
| Boot memory, direct memory | `kernel/src/main.rs`, `kernel/src/dmem` | `Dmem` | `machine` | |
| Available memory | `kernel/src/main.rs`, `kernel/src/vm` | `PhysAvail` | `machine` | `AvailProofs` |
| Kernel heap | `kernel/src/{malloc,uma}` | `KernelHeap` | `machine` | |
| Older: address space | `legacy/src/vm` | `VmSpace`, abstract `PageMap` | `vm` | `VmSpaceProofs`, `PageProofs` |
| Older: modules in memory | `legacy/src/rtld/mem.rs` | `ModuleMemory`, on `VmSpace` | `vm`, `vm_leak` | `PageProofs` |
| Older: signals | `legacy/src/{signal,process/signal.rs}` | `Signals` | `legacy`, `sigaction_flags` | `ThreadProofs` |
| Older: processes | `legacy/src/process` | `Process` | `legacy` | `ThreadProofs` |
| Older: file systems | `legacy/src/fs`, `legacy/src/process/filedesc.rs` | `Vfs` | `legacy` | |
| Older: registry | `legacy/src/regmgr` | `RegMgr`, table `RegTable` | `legacy` | |

An `MC` module gives a specification the constants a `.cfg` cannot write.
`MCHost`, `MCMachine` and `MCLegacy` hold several parts that share no state: a
variable names the part that moves in a behaviour, and the others stay where they
began. They extend the modules that have proofs, so that TLC evaluates the
assumptions of those, and instantiate the others. `PROJECT.json` maps every definition to the lines it models and names, for
each property, a change of the model that the property catches; those changed
forms stand before the definitions they change, marked `Mutant`.

### Ram

State: `allocated` (the `BTreeMap` of `Ram`), the committed memory, and for each
thread its call, how far it got (`next`) and the `LockedMem` values it holds.
`alloc` is one step since it never gives the Mutex up. `lock` and `dealloc` run
until they return or reach `Condvar::wait`, where the Mutex is free: each
stretch is one step (`LockRun`, `DeallocRun`). A drop or a failed lock
wakes at most one waiter (`NotifyOne`, any waiter). The host may refuse to
commit, to map or to decommit. Addresses are bytes; a range may be unaligned,
reach past the RAM or wrap around `usize`.

`BlockLending` is the promise: ranges are allocated, lent whole, given back and
deallocated, atomically. `LendsWholeRanges` is the refinement, with a block lent
from the step in which its `LockedMem` is returned.

### Channel and VmmLoop

A step of `Channel` is what one lock of the queue protects. The receiver is a
future: it can be polled, sleep with its `Waker` in the queue, and be dropped by
`select!` before it completes (which must pass a wakeup on). `VmmLoop` has the
variables of `Channel` and adds the vCPU threads, the oneshot channel that
announces the end of each, the main task, the debugger's socket, the window and
`Vmm::drop`; `UsesChannel` states that it uses the channel as `Channel` says.
Answering the debugger is a step of its own: `write_all` suspends the task until
the socket takes the answer, and a wakeup meanwhile, of a log say, only makes it
try again.

### Setup and Launcher

`Setup` has the pages of the wizard, the three places that have the data root
(the window, the configuration file and the `DataMgr` that `run_setup` returns),
and the extraction in two steps for each item, its creation and its contents,
with errors, kills and restarts; what is on disk survives. A location is the text
that the user sees. The file holds it as it is, and `read_data_root` removes the
white space around it (`Trim`), so that what is read may name another directory
or none. Writing the file empties it first, which an error leaves so.

`Launcher` goes on where it ends, also over several starts. A save makes the
directory of a new profile, truncates the file and writes it, one step each, and
an error or a kill may end it after any of them. The fields of a profile are one
text that parses or does not, and the list of its environment variables, of which
`extend_env` keeps those that fit. The input of a window is discarded while one
of its handlers runs (`spawn_handler`), a dialog that the handler opened included.
The calls of the UI toolkit are taken not to fail and the list of display devices
not to change, and the value of the settings in memory is left out.

### KernelImage and BootImage

`KernelImage` reads the program headers and the notes, sorts and measures the
load segments, copies them and applies the relocations, with every error of
`Vmm::new` and `relocate_kernel`. Offsets count words of 8 bytes modulo `Word`,
so a relocation of an unaligned address is not represented; the sums that the
code wraps or checks are the model's too.

In `BootImage`, `RamBuilder::alloc` places the six regions one after the other;
then the root table is allocated and every frame of every region and device is
mapped by a walk that makes the missing tables. Each allocation may run out of
RAM. A table is 4K while the RAM is allocated in blocks, so a table wastes most
of its block.

### Gdb

The session of `gdb/mod.rs` and a debugger that follows the remote protocol,
joined by the two directions of a socket. A packet is two pieces, so that a read
may end inside it; it may be damaged as long as packets are acknowledged, and is
sent again when the session answers `-`. The three commands that the program
answers are sent; the others are `todo!()`.

### Vcpu

One behaviour is the life of a VM on one of the three hypervisors. `hv::new` is
a sequence of steps of which any may fail; an early return drops the locals in
reverse order of declaration, the success path drops the fields of the struct in
order of declaration, one object per step. `setup_main_cpu` is one step per
register. On KVM the register cache, its two dirty flags and the two ioctls of
`commit` are modelled, each of which may fail. A CPUID leaf is kept by its place
in the list the host supports, and dropping what was never acquired does nothing.
On WHP `set_rdi` and on HVF
`set_x2` are `todo!()`: those two backends abort before their commit, which is
therefore not modelled. KVM on AArch64 is left out: `linux/aarch64.rs` does not
implement the trait the library declares.

### Console

A print is a stack frame with its buffer; every write of a field leaves the
guest, so a breakpoint, whose handler ends in a panic that prints, fits before
each. A byte is ASCII or one half of a two-byte character, which is what the
device's UTF-8 check tells apart.

### Dmem, PhysAvail and KernelHeap

`Dmem` runs `load_memory_map`, the reservation of the boot area and `Dmem::new`
on segments of pages with the sizes of the code; `reserve_phys` subtracts modulo
the address space as the release build does. `PhysAvail` walks the pages of
`physmap` one at a time, as `setup` does, and counts them as `Vm::new` does.

`KernelHeap` has the two stages of the heap, the arena as a count of blocks, and
the arithmetic that sizes zones, slabs and buckets (`UmaKeg::new`,
`UmaZone::new`, `alloc_bucket`). A request that reaches a zone ends in a `todo!()`
when the zone looks for its first slab, so the choice of the zone is the last
step of a behaviour.

### VmSpace, PageMap and ModuleMemory

An `Alloc` is a range of pages that are alike; `mprotect`, `mname` and `munmap`
cut it, and the parts share the `Storage` (host memory) they were cut from, which
is given back with the last of them. Addresses count host pages, of which a
virtual page has `PAGE`; `GRAN` is the granularity of the host. `mmap` takes
host memory before it takes the lock of the map, so it is two steps (`alloc`, `insert`)
and another thread fits between them. The host may have no room; its `mprotect`
is taken not to fail. `call` records the last call with what its caller gave: the
operation, the virtual pages that its range touches, computed from the arguments
apart from the rounding of the code, and the protection or the name. `PageMap` is
the promise, page by page: a call does what it was asked to do to the mapped pages
that it was given and to no others, and no cut is visible. `PageByPage` is the
refinement.

`ModuleMemory` adds a module. It has a program to execute, one for data and at
most one that is read-only after relocation, on page boundaries and apart, which
is what the loops of `Memory::new` insist on. `Memory::new` maps one range for all
of its segments and protects each; later a guard makes a segment, all of those of the
file, or the rest of the code workspace writable, and puts the protection back
when it is dropped. Meanwhile the application maps and names memory of its own.

### Signals and Process

`Signals` keeps the actions that the threads of a process share and the mask of
each thread; `asked` remembers the last action that was accepted. A `SignalSet` is
a set of numbers, since its bits are one per signal. `Process` has the list of
processes (weak references, so an entry outlives its process), `alloc_pid` and the
rest of `spawn` as separate steps, kernel threads, exits, sessions and logins.
`main.rs` makes the only call of `spawn` there is, with `kernel = true`
(`KernelStarts`); the ordinary spawns that run concurrently in the model have no
caller yet, and are what the function is written for.

### Vfs

The mounts of `main.rs` are a script; then two threads look paths up one
component at a time, and open and close files. A vnode lives as long as something
holds it: after every step the vnodes that nothing holds are dropped. The caches
of the file systems are those of the code: weak (host, devfs), strong (tmpfs) and
one table that is never emptied (nullfs). Paths have no `.` and no `..`, the hash
of a vnode is taken to be its identity, and tmpfs has room for every node.

### RegMgr

`regmgr_call` decodes a request (mask, boxes, checksum) with the arithmetic of the
code, looks its key up and checks who may use it. `RegTable` is the whole table of
the source. Nothing is ever stored by this code: a set succeeds when the number is
what the table has, and is a `todo!()` otherwise.

## What the runs show

| Run | Instance | Shows |
|---|---|---|
| `ram` | 2 threads, 3 blocks of 2 bytes, aligned and unaligned ranges | `SafeLoans`: one owner per block, Locked exactly when owned, lent memory is committed. `LendsWholeRanges`: refinement of `BlockLending`. `LockAnswer`, `DeallocComplete`: answers are true. `CallsReturn`: between two threads, calls return once no new ones are made |
| `ram_lost_wakeup` | 3 threads, 1 block | **violation**: a `lock` waits for ever for a block that a `dealloc` removed |
| `channel` | 3 senders, 2 messages each, capacity 2 | `Wakeups`: the capacity holds and neither side sleeps when it could go on. `Fifo`, `Delivered`: each message once, in order, eventually |
| `vmm` | 1 vCPU, capacity 2, 3 logs, a debugger | `NoOrphan`, `ExitSeen`, `HonestOutcome`, `UsesChannel`; `CloseStops`: closing the window ends the loop, unless the debugger keeps it or has ended it |
| `vmm_drop_hangs` | capacity 1 | **violation**: `Vmm::drop` joins a thread blocked in `send` on a channel nobody reads |
| `host` | wizard: 3 locations, 2 with a space after their name, a dump of 3 partitions; launcher: 2 profiles, 2 variables of which 1 fits; kernel files: 2 segments in either order, every kind of error; layout: radix 4, 2 block sizes, 4 kernels, 2 RAM sizes; debugger: 5 packets | `RootAgrees`: the location that is opened is the one in the window, trimmed. `InstallIsWhole`: an installation that reports success is whole. `LaunchIsComplete`: when the launcher has a whole firmware. `Durable`, `LaunchIsShown`: what was saved is loaded, what is shown is started. `LoadsTheImage`: memory is the image the headers describe. `MapsExactly`: the tables translate what was placed and nothing else. `InStep`: debugger and session never lose step |
| `boot_image_ram` | the layout of `host` | **violation**: the page tables lie in memory the map offers as free |
| `machine` | memory maps of the VMM and all sequences of up to 3 of 13 regions, with the sizes of the code; 2 or 3 segments in 17 pages and 4 places; all sizes around a power of two; a console buffer of 3 bytes; 3 hypervisors, 3 CPU models, 2 vCPUs | `OneUse`, `LoadsTheRam`, `ExactlyTheUnused`: no page has two uses and none is lost. `RightZone`. `WholeLogs`, `PrintEnds`: whole messages in order, and a print ends even when a breakpoint interrupts it. `DropOrder`, `EntersBooted`, `RightDevice`, `StartEnds`: life of the vCPUs |
| `vm` | 8 host pages, 2 threads; virtual pages of 1 and of 2 host pages | `Disjoint`, `HostAgrees`: mappings share no page and the host's tables agree with them. `PageByPage`: refinement of `PageMap`, each call on the range its caller gave. `SegmentsProtected`: a module keeps the protection of its segments |
| `vm_leak` | a page of 2 host pages, a granularity of 1 | **violation**: a dropped module leaves host memory reserved |
| `legacy` | the whole registry; 2 threads and 3 signals; 2 spawners; the mounts of a start and 5 paths | `OneEntry`: a key that is asked for has one entry; `SignalsConsistent`; `OwnPid`; `OneVnode`, `Lands` |
| `sigaction_flags` | 2 threads, 3 signals | **violation**: `sigaction` reports flags that were not set |

### The five violations

* **`ram_lost_wakeup`.** Two threads wait for a block, one in `lock` and one in
  `dealloc`. The owner's drop notifies one of them. If that is the `dealloc`, it
  removes the block and notifies nobody: the `lock`, which should now return
  `None`, sleeps on. No caller in the repository deallocates today.
* **`vmm_drop_hangs`.** The vCPU thread looks at the shutdown flag between two
  exits only. Blocked in `send` because the log channel is full, it never looks,
  and `drop` waits for it before it drops the receiver.
* **`boot_image_ram`.** `reserved_end` is read before `build_page_table` allocates
  the tables, so the third entry of the memory map, of type RAM, contains the
  tables the kernel runs on.
* **`vm_leak`.** When the granularity of the host is below a virtual page,
  `Vm::alloc` asks for more than was wanted in order to align, and keeps the
  slack as part of the mapping. `Memory::drop` unmaps the length that was wanted:
  the rest stays mapped and holds the storage, which is never given back.
* **`sigaction_flags`.** `sigaction` puts a signal in `interupt` when `SA_RESTART`
  is *not* given, and `signal_flags` reports `SA_RESTART` for the signals in it.

## Bounds

`MaxHeld`, `MaxMsgs`, `MaxLogs`, `MaxPrints`, `MaxSends`, `MaxShown`, `MaxBlocks`,
`MaxPid`, `MaxTid` and `MaxFd` bound otherwise endless behaviours; each is named
in its module. Two threads are enough for every pair of calls to meet in `Ram`,
three blocks for a gap, a prefix and a suffix; the third thread of
`ram_lost_wakeup` is there because a wakeup can only be lost when two wait and
one drops. Three senders on two places make one sender sleep while another is
woken. A buffer of three bytes has the empty, partly full, full and
split-character cases of 1024. Radix 4 has the shared and the separate tables at
each of the four levels. In `Dmem` nothing is scaled: a page is the unit and all
sizes are those of the code. In `PhysAvail` four places stand for thirty so that
the arrays fill up. `KernelHeap` has the page of the code, 16K, and every size
next to a power of two, where the choice of a zone changes. Eight host pages hold
the stack and mappings that are cut at the front, in the middle and at the end.
Five packets of a debugger are enough for a damaged packet before, in and after
the change to no-ack mode. `RegMgr` has the table of the code, whole, and is asked
for every key that an entry stands for and for the one just past it. In the wizard
a location `r1`, the same name with a space after it, and a name with a space that
names nothing without it are the cases of `Trim`; the partition that a start looks
for is neither the first nor the last of its dump. In `vm` the history `call` is
left out of the `VIEW`: no action reads it, and a step and its call are checked
together. Symmetry is not used, since most runs
check liveness or refinement.

## Fairness

* `Ram`: a thread that can run does, and a `LockedMem`, a scoped value, is
  dropped by its owner. Nothing forces a call, and a spurious wakeup never has
  to happen. `CallsReturn` looks at threads that wait while they hold nothing,
  since the code documents waiting for one's own range as a deadlock, and at two
  threads: with three it is false (see the observations).
* `Channel`: the executor polls a task that was woken; a notified thread runs.
* `VmmLoop`: threads run, and the guest leaves to the VMM again and again (a
  kernel that halts or prints does; a guest that loops without an exit makes
  `Vmm::drop` wait for it). The main task makes progress when it is polled; a
  debugger that never reads an answer, or that keeps its branch of the biased
  `select!` ready, may hold it for ever, which `CloseStops` excepts (`Kept`).
  Neither debugger nor user has to act.
* `Console`: the vCPU executes the print it is in.
* `Vcpu`: `Vmm::new` and the drops run on one thread that nothing blocks; no
  call has to fail.

The other modules state no fairness and no liveness. Deadlock checking is off
where the system may rest: threads that make no further call, a finished boot, a
user who does nothing. In `machine` it is on: the vCPUs may not stop short of
their end, and the other parts, which may, have a step that changes nothing.

## What is proved

TLAPS checks the proofs of eight modules, for every value of the constants that
the named assumptions allow. Each theorem `Spec => []P` has an inductive
invariant; TLC checked the invariant on the small instance first.

* **`RamProofs`** (`RamAssumption`: a block size and a number of blocks that are
  not 0, ranges that the asserts of `alloc` and `dealloc` accept).
  `LendingSafe`: `Spec => []SafeLoans`. `SafeLoans` is not inductive: the prefix a
  waiting `lock` has marked belongs to it although no `LockedMem` says so. `Owned`
  therefore counts that prefix, and the invariant
  `IInv == TypeOK /\ NextInBounds /\ Exclusive /\ LockedIsOwned /\ Committed` adds
  that `next` stays within the call's range. The lemmas `Grow`, `Shrink` and
  `Keep` say what taking, giving back and not touching blocks does to ownership;
  one lemma per action follows. `RamLends`: the refinement `LendsWholeRanges`;
  under `IInv`, marking a prefix is invisible and returning the `LockedMem` lends
  the whole range. `LockAnswers`: `Spec => LockAnswer`. `DeallocCompletes`:
  `HSpec => DeallocComplete`, over the history that `RamHistory` keeps: of the
  blocks that have been there since a `dealloc` began, those left are in the part
  of its range that it has still to visit.
* **`VmmProofs`** has the channel and the kernel file.
  `NoLostWakeup` (`ChannelAssumption`: a capacity that is not 0, finitely many
  senders): `Spec => []Wakeups`, with
  `IInv == TypeOK /\ Bounded /\ Awake /\ Spoken`. `Spoken` is the strengthening: a
  sender sleeps only while the free places are at most the senders that were
  woken and have not pushed yet; it needs cardinalities of finite sets.
  `MessagesInOrder`: `Spec => []Fifo`, which also needs that no more was received
  from a sender than it sent.
  `KernelLoads` (`KernelAssumption`: the fields of a header and the words of a
  file are unsigned numbers): `ImageSpec => []LoadsTheImage`. `ImageInv` follows
  the loading: the segments are the load headers read so far (`LoadsTo`), in
  whatever order the sort leaves equal ones; those measured lie one after the
  other (`Measured`); those copied hold the file's words and the rest of the
  memory is zero (`Copied`); and after a number of relocations each word is what
  the last of them that is for it made it (`Relocated`).
* **`ThreadProofs`** has three parts that threads share.
  `NoThreadForgotten`, `ExitsWake` and `OutcomeHonest` (`LoopAssumption`: finitely
  many vCPUs with the main one among them, a capacity that is not 0) follow from
  `LoopInv == TypeInv /\ Announced /\ Joined /\ Armed /\ Results`: a thread that
  has announced its end is returning or gone, a vCPU that is no longer tracked is
  gone or the one being joined, a sleeping task has its `Waker` with every vCPU
  that it tracks, and a result stands once its thread is ending.
  `LoopUsesChannel`: `Spec => UsesChannel`, the step simulation, with `ChanInv`: a
  thread is in `send` exactly when it calls the channel. With it the theorems
  about the channel hold of the logs of the machine.
  `ActionsConsistent` (`SignalsAssumption`: signals are in range):
  `SignalsSpec => []SignalsConsistent`, inductive with its types.
  `SpawnOwnsPid` (`ProcessAssumption`: the bound on ids allows the idle process):
  `ProcessSpec => []OwnPid`, with
  `PidInv == PidTypes /\ Counted /\ Taken /\ Tids /\ Listed`: ids are counted
  upwards, so the next one is above all that are taken, except the high id of the
  first process, which is taken while nobody else spawns. The theorem is about
  ordinary spawns: two high spawns at once would take the same id.
* **`HostProofs`** has three parts of the desktop program.
  `SetupRootAgrees`, `SetupInstalls` (`SetupSpec => InstallIsWhole`) and
  `SetupComplete` (`SetupAssumption`: the dump is a sequence of partitions and the
  main one is a partition; a partition has an item; trimming twice is trimming
  once), from
  `SetupInv`: for each page the wizard can be on, and each item the extraction can
  be at, what the disk holds. `Settled` says of a location that is not being
  written to that it is blank or whole, unless an error or a kill hit it.
  `GdbInStep`: `GdbSpec => []InStep`. At any time one exchange is in progress, and
  `GdbInv` says which (`Calm`, `Sent`, `Refused`, `Answering`) and where its tokens
  are, whatever the reads have cut off.
  `LauncherDurable` and `LauncherShows`, from `LauncherInv`: what the running
  handler (`JobOf`) will write is the profile that is selected.
* **`VcpuProofs`** (`VcpuAssumption`: at least one vCPU, the names of the vCPUs are
  not those of steps, the host's leaves without an index have distinct ids, with
  leaf 1 among them, and a block has at least 24 bytes and divides the RAM).
  `VcpuDrops`, `VcpuEnters` and `VcpuDispatch`, from
  `VcpuInv == VcpuTypes /\ Owned /\ Programmed /\ Leafed /\ Exited`: what is alive
  at each step and that the list being dropped is in order, which registers have
  been set and which group is dirty, and which leaves were kept.
* **`AvailProofs`** (`AvailAssumption`: the segments of `physmap` are not empty and
  in order). `AvailExact`: `AvailSpec => []ExactlyTheUnused`, from
  `AvailInv == AvailTypes /\ Seen /\ All /\ Sums`: which pages the walk has seen,
  that the segments made of them lie apart and in order, and that the counters are
  the cardinalities of the sets of pages behind them.
* **`VmSpaceProofs`** (`VmAssumption`: one of page and granularity divides the
  other, a stack of whole pages). `AllocationsDisjoint` and `PageTablesAgree`, from
  `IInv == SpaceInv /\ HostInv`. That a new mapping meets no other is known from
  the host giving out free memory only, and which memory is free is known from the
  storages: `SpaceInv` says that storages are disjoint and contain the mappings
  cut from them, and that a mapping which is made and not stored yet has a storage
  of its own. `RecutIs` describes any cut once, for `munmap`, `mprotect` and
  `mname`.
* **`PageProofs`** builds on it. `SplitsInvisible`: `Spec => PageByPage`. A call
  finds its first allocation from the last one that begins at or below its
  address; with `IInv`, the allocations it then visits are exactly those that meet
  its range and leave no gap, so cutting them changes the pages of the range and
  no others. `TouchedByCall` and `TouchedByName` say that the pages the caller's
  range touches are the ones that the code reaches by rounding.
  `ModuleProtected` (`ModuleAssumption`: there is a thread, and the fields of a
  program header are numbers): `ModSpec => []SegmentsProtected`, from
  `ModInv == IInv /\ CallsInv /\ DoneInv /\ GuardInv /\ MappedInv /\ ProtInv`: the
  room that was asked for is enough for every segment, guards are over disjoint
  sets of segments, and, since a segment that is protected begins on a page
  boundary, rounding the end of one up to a page never reaches the next. The steps
  of the application are seen through `PageByPage`.
  `ModuleSpace`: `ModSpec => [](Disjoint /\ HostAgrees) /\ PageByPage`; a module in
  the space changes nothing of what is proved of the space alone.

Only model-checked:

* liveness (`CallsReturn`, `Delivered`, `CloseStops`, `PrintEnds`, `StartEnds`),
  which is out of the prover's reach;
* `WholeLogs`, `OneUse` and `LoadsTheRam`, which speak of the concatenation of
  messages, of the sum of the sizes of segments and of the regions accepted one
  after the other: recursive functions, and so induction over data;
* `RightZone` and `MapsExactly`, whose definitions need the powers of two and of
  the radix of a page table;
* `OneEntry`, whose keys are computed bit by bit;
* `OneVnode` and `Lands`, whose look-ups are recursive.

## Observations that have no run

The VMM and the new kernel:

* The message of a kernel panic still in the log channel is lost when the event
  loop ends on the exit of that vCPU, since `Vmm::recv` returns one or the other.
* When `phys_avail` fills up, nothing ends it and its reader runs off its end,
  which panics; `ExactlyTheUnused` speaks of the arrays that have room.
* A breakpoint inside a print may mix two messages, so `WholeLogs` excludes it.
* An error or a kill in the middle of an installation, after `md0.obp` was made,
  leaves a location that the wizard and every later start accept: they look for
  that file only, and the launcher starts with half a firmware. `LaunchIsComplete`
  names the case, since the disk does not tell it from a finished installation;
  `InstallIsWhole` says that an installation never ends well over such remains.
* A location whose name ends in white space is saved as it is and trimmed when it
  is read: the firmware is installed in one directory and another one is opened,
  whole or not, or `run_setup` ends in an error because there is none.
* With three threads a `lock` of the RAM can wait for ever without any `dealloc`:
  one thread has block 1; a second locks 0 and 1, marks 0 and waits for 1; a third
  locks 0 and 1 and waits for 0. The first drops, and `notify_one` wakes the third,
  which sleeps again. It is the lost wakeup of `ram_lost_wakeup` by another way.
* A debugger that does not read its answers suspends the main task in `write_all`:
  neither logs nor exits are seen until it reads or goes away.
* A save that is cut between truncating and writing, or between making the
  directory of a profile and its first save, makes every later start fail to load
  until the file is repaired: `Durable` excludes the files that were cut.
* `update` drops the environment variables that do not fit without a word, and
  `ProfileModel::push` notifies the view of `profiles.len()` new rows, not of one.
* In a release build `reserve_phys` wraps around below a segment smaller than the
  request; with the 8G that the VMM gives the kernel it is not reached.
* `relocate_kernel` reads its table from the memory it relocates: a relocation of
  the table itself would change what is read next, and `LoadsTheImage` excludes it.
* The debugger's `-` is not understood and ends the session, and so does a packet
  that is sent again after a timeout while the answer to `QStartNoAckMode` is
  waiting for its acknowledgement; the debugger of the model does neither.
* An alignment above a page would give a zone no items per slab; the layouts of
  `KernelHeap` end at a page.
* The VMM starts a guest on KVM/x86-64 only: WHP and HVF reach a `todo!()` in the
  first setup of the vCPU.

The older kernel:

* `batch_map` cannot succeed: its mask of flags rejects every combination it
  could map. `munmap` of a range whose first page is in a hole answers `Ok` and
  unmaps nothing, which `PageMap` allows.
* The constant `0x184c8000` has the signals that are ignored by default at bit
  `sig - 1`, the bit that `SignalSet` gives them, and `sigaction` tests bit `sig`;
  `Signals` does what the code does.
* `follow` crosses one mount only, while its comment promises a vnode that is
  never a mount point; the mounts of a start do not stack. The parent of a nullfs
  mount is the vnode it shows, not the one it covers, and its table of vnodes is
  never emptied.

## Not modelled

`PROJECT.json` lists every part with its status. These are left out:

* **No state or control of their own:** the drawing code and the adapters of the
  window systems (`gui/src/graphics`, most of `gui/src/ui`), the log file and the
  panic window, the boot environment and its look-ups, register layouts and FFI
  declarations (`lib/x86-64`, `lib/aarch64`, `lib/hv/src/{x86_64,aarch64}.rs`), the
  macros and the build scripts.
* **Not a program yet:** the kernel's locks (`kernel/src/lock`: waiting and waking
  are `todo!()`, so two threads never meet in them), its page lists, processes,
  scheduler and events; KVM on AArch64; the commands of the debugger other than
  three, and the debug channel, which nothing creates; in the older kernel
  devices, direct and shared memory, synchronisation, queues, network and named
  objects, and `mkdir`, `stat`, `read` and `write` as system calls.
* **Input processing without shared state:** the older kernel's image parsers,
  symbol tables and linker, `sysctl`, time and credentials; `push_data` of
  `rtld/mem.rs`.
* **A second copy of a modelled shape:** page tables on AArch64, and where Windows
  and macOS keep the location of the data.
* **One field read or set:** the remaining system calls of `process/mod.rs`
  (priorities, CPU sets, randomized paths), permissions and ioctls of files.

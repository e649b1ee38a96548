----------------------------- MODULE VcpuProofs -----------------------------
(***************************************************************************)
(* Proofs about the life of the VM and its vCPU, on each of the three      *)
(* platforms, for any vCPUs, CPUID leaves of the host, size of the RAM and *)
(* of a block, whatever fails: the objects are dropped in order, the guest *)
(* is entered with the registers and leaves it was promised, and an access *)
(* goes to the right device.                                               *)
(*                                                                         *)
(* DropOrder speaks of what is alive.  The invariant says what is alive at *)
(* each step of Vmm::new and, while a list of objects is being dropped,    *)
(* that the list is in order and has all that is alive.  EntersBooted      *)
(* speaks of the moment the guest is entered: the invariant says which     *)
(* registers have been set so far, and which group of them is dirty.       *)
(***************************************************************************)
EXTENDS Vcpu, TLAPS

(* The thread of the vCPU has one: a mapping of kvm_run, or a virtual      *)
(* processor.                                                              *)
Driving == cpu \in {"states", "set", "special", "check", "guest", "handle"}
Held(n) == {o \in Objects : \E i \in 1 .. n : Steps[i] = o}
Driven == IF ~Driving THEN {} ELSE IF backend = "kvm" THEN {"run"} ELSE {"vp"}

(* Who has to be dropped after whom.                                       *)
Outlives(a, b) ==
    \/ a = "ram" /\ b \in {"vm", "part"}
    \/ a = "vm" /\ b \in Vcpus
    \/ a = "kvm" /\ b = "vm"
Ordered(s) == \A i, j \in 1 .. Len(s) : Outlives(s[i], s[j]) => j < i

Covers(s, L) == \A o \in L : \E i \in 1 .. Len(s) : s[i] = o

VcpuTypes ==
    /\ backend \in {"kvm", "whp", "hvf"} /\ cpuModel \in {"Host", "Pro", "ProWithHost"}
    /\ main \in {"new", "build", "loop", "join", "dropping", "gone", "abort"}
    /\ cpu \in {"none", "create", "states", "set", "special", "check", "guest", "handle", "done"}
    /\ step \in 0 .. Len(Steps) /\ sets \in 0 .. Len(Setup)
    /\ regs \in [Registers -> {Reset, Boot}] /\ cache \in [Registers -> {Reset, Boot}]
    /\ gdirty \in BOOLEAN /\ sdirty \in BOOLEAN /\ shutdown \in BOOLEAN

(* What is held, by what the owner of the VMM does.                        *)
Needed(L) ==
    /\ L \cap {"vm", "part"} # {} => "ram" \in L
    /\ L \cap Vcpus # {} => "vm" \in L
    /\ backend = "kvm" /\ "vm" \in L => "kvm" \in L
Owned ==
    /\ main = "new" => live = Held(step) /\ cpu = "none"
    /\ main \in {"build", "loop", "join"} => step = Len(Steps) /\ live = Held(step) \cup Driven
    /\ main = "build" => cpu = "none"
    /\ main = "abort" => cpu \in {"none", "set", "handle"}
    /\ main \in {"loop", "join"} => cpu # "none"
    /\ main \in {"dropping", "gone"} =>
          /\ cpu \in {"none", "done"} /\ live \subseteq Objects /\ Needed(live)
          /\ doomed \in Seq(Objects) /\ Ordered(doomed)
          /\ Covers(doomed, live)
    /\ main = "gone" => live = {}
    /\ cpu # "done" => result = "none"

(* The registers, by what the thread of the vCPU does.                     *)
Booted == [r \in Registers |-> IF r \in {"rax", "cr2"} THEN Reset ELSE Boot]
Blank == [r \in Registers |-> Reset]
SetSoFar == [r \in Registers |-> IF \E i \in 1 .. sets : SetupX86[i] = r THEN Boot ELSE Reset]
Half == [r \in Registers |-> IF r \in General THEN Booted[r] ELSE Reset]
Programmed ==
    main # "abort" =>
    /\ backend = "whp" => sets <= 10
    /\ backend = "hvf" => sets <= 8
    /\ cpu \in {"none", "create", "states"} => sets = 0 /\ ~gdirty /\ ~sdirty
    /\ cpu \in {"none", "create", "states", "set"} => regs = Blank
    /\ cpu \in {"special", "check", "guest", "handle"} => backend = "kvm"
    /\ backend = "kvm" /\ cpu = "set" =>
          cache = SetSoFar /\ (gdirty <=> sets >= 11) /\ (sdirty <=> sets >= 1)
    /\ cpu = "special" => cache = Booted /\ sdirty /\ regs = Half
    /\ cpu \in {"check", "guest", "handle"} => regs = Booted

(* The leaves.                                                             *)
Ready == IF cpuModel = "Pro" THEN WithLeaf(HostFeats) ELSE HostFeats
Leafed ==
    backend = "kvm" =>
    /\ main = "new" /\ step >= 6 => feats = HostFeats
    /\ main \in {"build", "loop", "join"} => feats = Ready
    /\ Driving => cpuid = Ready

Exited ==
    main # "abort" /\ cpu = "handle" => exit \in Accesses \cup [kind : {"hlt", "other"}]

VcpuInv == VcpuTypes /\ Owned /\ Programmed /\ Leafed /\ Exited

-----------------------------------------------------------------------------
LEMMA Concat ==
    ASSUME NEW S, NEW a \in Seq(S), NEW b \in Seq(S)
    PROVE  /\ a \o b \in Seq(S) /\ Len(a \o b) = Len(a) + Len(b)
           /\ \A i \in 1 .. Len(a) : (a \o b)[i] = a[i]
           /\ \A i \in 1 .. Len(b) : (a \o b)[Len(a) + i] = b[i]
  OBVIOUS

(* b is x and then y.                                                      *)
Cut(S, b, x, y) ==
    /\ b \in Seq(S) /\ x \in Seq(S) /\ y \in Seq(S) /\ Len(b) = Len(x) + Len(y)
    /\ \A i \in 1 .. Len(x) : b[i] = x[i]
    /\ \A i \in 1 .. Len(y) : b[Len(x) + i] = y[i]

LEMMA IsCut ==
    ASSUME NEW S, NEW a \in Seq(S), NEW b \in Seq(S), NEW r, r = a \o b
    PROVE  Cut(S, r, a, b)
  BY Concat DEF Cut

(* hv::new, for each hypervisor.                                           *)
LEMMA StepsKvm ==
    ASSUME backend = "kvm"
    PROVE  /\ Len(Steps) = 9 + Len(Cpus)
           /\ Steps[1] = "ram" /\ Steps[2] = "kvm" /\ Steps[3] = "version"
           /\ Steps[4] = "max_cpu" /\ Steps[5] = "ext_cpuid" /\ Steps[6] = "cpuid"
           /\ Steps[7] = "mmap_size" /\ Steps[8] = "vm" /\ Steps[9] = "map"
           /\ \A i \in 1 .. Len(Cpus) : Steps[9 + i] = Cpus[i]
<1> DEFINE p == <<"ram", "kvm", "version", "max_cpu", "ext_cpuid", "cpuid",
                  "mmap_size", "vm", "map">>
           S == StepNames \cup Vcpus
<1>1. p \in Seq(S) /\ Len(p) = 9
  <2>1. ASSUME NEW T, NEW a \in T, NEW b \in T, NEW c \in T, NEW d \in T, NEW e \in T,
               NEW f \in T, NEW g \in T, NEW h \in T, NEW i \in T
        PROVE  <<a, b, c, d, e, f, g, h, i>> \in Seq(T)
    OBVIOUS
  <2>2. /\ "ram" \in S /\ "kvm" \in S /\ "version" \in S /\ "max_cpu" \in S
        /\ "ext_cpuid" \in S /\ "cpuid" \in S /\ "mmap_size" \in S /\ "vm" \in S /\ "map" \in S
    BY DEF StepNames
  <2> QED
    BY <2>1, <2>2
<1>2. Cpus \in Seq(S)
  BY VcpuAssumption DEF Vcpus
<1>3. Steps = p \o Cpus
  BY DEF Steps, NewSteps
<1>4. /\ Len(p \o Cpus) = 9 + Len(Cpus) /\ \A i \in 1 .. 9 : (p \o Cpus)[i] = p[i]
      /\ \A i \in 1 .. Len(Cpus) : (p \o Cpus)[9 + i] = Cpus[i]
  BY <1>1, <1>2, Concat
<1>5. /\ p[1] = "ram" /\ p[2] = "kvm" /\ p[3] = "version" /\ p[4] = "max_cpu"
      /\ p[5] = "ext_cpuid" /\ p[6] = "cpuid" /\ p[7] = "mmap_size" /\ p[8] = "vm"
      /\ p[9] = "map"
  OBVIOUS
<1> HIDE DEF p
<1>6. Len(Steps) = 9 + Len(Cpus) /\ \A i \in 1 .. 9 : Steps[i] = p[i]
  BY <1>3, <1>4
<1>7. \A i \in 1 .. Len(Cpus) : Steps[9 + i] = Cpus[i]
  BY <1>3, <1>4
<1> QED
  BY <1>5, <1>6, <1>7

LEMMA StepsWhp ==
    ASSUME backend = "whp"
    PROVE  Steps = <<"ram", "part", "cpu_count", "setup", "map">>
  BY DEF Steps, NewSteps

LEMMA StepsHvf ==
    ASSUME backend = "hvf"
    PROVE  Steps = <<"ram", "vm", "max_cpu", "mmfr0", "mmfr1", "mmfr2", "page_size", "ram_size">>
  BY DEF Steps, NewSteps

LEMMA Names ==
    /\ \A o \in Vcpus : o \notin StepNames
    /\ Len(Cpus) \in Nat /\ Cpus[1] \in Vcpus
  BY VcpuAssumption DEF Vcpus

LEMMA StepCount ==
    ASSUME VcpuTypes PROVE Len(Steps) \in Nat /\ Len(Steps) > 0
<1>1. CASE backend = "kvm"
  BY <1>1, StepsKvm, Names
<1>2. CASE backend = "whp"
  BY <1>2, StepsWhp
<1>3. CASE backend = "hvf"
  BY <1>3, StepsHvf
<1> QED
  BY <1>1, <1>2, <1>3 DEF VcpuTypes

(* What hv::new holds after n steps.                                       *)
LEMMA HeldKvm ==
    ASSUME backend = "kvm", NEW n \in 0 .. Len(Steps)
    PROVE  /\ "ram" \in Held(n) <=> n >= 1
           /\ "kvm" \in Held(n) <=> n >= 2
           /\ "vm" \in Held(n) <=> n >= 8
           /\ "part" \notin Held(n)
           /\ Held(n) \cap Vcpus # {} => n >= 10
           /\ n = Len(Steps) => Vcpus \subseteq Held(n)
<1>1. /\ "ram" \in Objects /\ "kvm" \in Objects /\ "vm" \in Objects /\ Vcpus \subseteq Objects
      /\ \A o \in Vcpus : o \notin StepNames
  BY Names DEF Objects
<1>2. /\ "ram" \in StepNames /\ "kvm" \in StepNames /\ "vm" \in StepNames
      /\ "part" \in StepNames
      /\ {"version", "max_cpu", "ext_cpuid", "cpuid", "mmap_size", "map"} \subseteq StepNames
  BY DEF StepNames
<1>3. \A i \in 1 .. n : i \in 1 .. 9 \/ (i - 9 \in 1 .. Len(Cpus) /\ Steps[i] = Cpus[i - 9])
  <2>1. SUFFICES ASSUME NEW i \in 1 .. n, i > 9
                 PROVE  i - 9 \in 1 .. Len(Cpus) /\ Steps[i] = Cpus[i - 9]
    OBVIOUS
  <2>2. i - 9 \in 1 .. Len(Cpus) /\ 9 + (i - 9) = i
    BY <2>1, StepsKvm, Names
  <2>3. Steps[9 + (i - 9)] = Cpus[i - 9]
    BY <2>2, StepsKvm, Zenon
  <2> QED
    BY <2>2, <2>3
<1>4. \A i \in 1 .. n : i > 9 => Steps[i] \in Vcpus
  BY <1>3 DEF Vcpus
<1>5. \A i \in 1 .. n : i <= 9 => Steps[i] \in StepNames /\ Steps[i] # "part"
  BY <1>2, StepsKvm
<1>6. /\ \A i \in 1 .. n : Steps[i] = "ram" => i = 1
      /\ \A i \in 1 .. n : Steps[i] = "kvm" => i = 2
      /\ \A i \in 1 .. n : Steps[i] = "vm" => i = 8
      /\ \A i \in 1 .. n : Steps[i] # "part"
      /\ \A i \in 1 .. n : Steps[i] \in Vcpus => i > 9
  <2>1. \A i \in 1 .. n : (i \in {1, 2, 3, 4, 5, 6, 7, 8, 9} /\ i <= 9) \/ i > 9
    OBVIOUS
  <2>2. ASSUME NEW i \in 1 .. n, i > 9
        PROVE  Steps[i] # "ram" /\ Steps[i] # "kvm" /\ Steps[i] # "vm" /\ Steps[i] # "part"
    BY <1>1, <1>2, <1>4, <2>2
  <2>3. ASSUME NEW i \in {1, 2, 3, 4, 5, 6, 7, 8, 9}
        PROVE  /\ Steps[i] = "ram" => i = 1
               /\ Steps[i] = "kvm" => i = 2
               /\ Steps[i] = "vm" => i = 8
    BY StepsKvm
  <2>4. ASSUME NEW i \in 1 .. n, i <= 9 PROVE Steps[i] \notin Vcpus /\ Steps[i] # "part"
    BY <1>1, <1>5, <2>4
  <2>5. ASSUME NEW i \in 1 .. n
        PROVE  /\ Steps[i] = "ram" => i = 1
               /\ Steps[i] = "kvm" => i = 2
               /\ Steps[i] = "vm" => i = 8
               /\ Steps[i] # "part"
               /\ Steps[i] \in Vcpus => i > 9
    <3>1. CASE i > 9
      BY <2>2, <3>1
    <3>2. CASE i \in {1, 2, 3, 4, 5, 6, 7, 8, 9} /\ i <= 9
      BY <2>3, <2>4, <3>2
    <3> QED
      BY <2>1, <3>1, <3>2
  <2> QED
    BY <2>5
<1>7. n = Len(Steps) => \A k \in 1 .. Len(Cpus) : 9 + k \in 1 .. n /\ Steps[9 + k] = Cpus[k]
  BY StepsKvm, Names
<1>8. n = Len(Steps) => \A o \in Vcpus : \E i \in 1 .. n : Steps[i] = o
  BY <1>7 DEF Vcpus
<1>9. /\ n >= 1 => 1 \in 1 .. n /\ Steps[1] = "ram"
      /\ n >= 2 => 2 \in 1 .. n /\ Steps[2] = "kvm"
      /\ n >= 8 => 8 \in 1 .. n /\ Steps[8] = "vm"
  BY StepsKvm
<1>10. "ram" \in Held(n) <=> n >= 1
  BY <1>1, <1>6, <1>9 DEF Held
<1>11. "kvm" \in Held(n) <=> n >= 2
  BY <1>1, <1>6, <1>9 DEF Held
<1>12. "vm" \in Held(n) <=> n >= 8
  BY <1>1, <1>6, <1>9 DEF Held
<1>13. "part" \notin Held(n)
  BY <1>6 DEF Held
<1>14. Held(n) \cap Vcpus # {} => n >= 10
  BY <1>6 DEF Held
<1>15. n = Len(Steps) => Vcpus \subseteq Held(n)
  BY <1>1, <1>8 DEF Held
<1> QED
  BY <1>10, <1>11, <1>12, <1>13, <1>14, <1>15

LEMMA HeldWhp ==
    ASSUME backend = "whp", NEW n \in 0 .. Len(Steps)
    PROVE  /\ "ram" \in Held(n) <=> n >= 1
           /\ "part" \in Held(n) <=> n >= 2
           /\ "kvm" \notin Held(n) /\ "vm" \notin Held(n)
           /\ Held(n) \cap Vcpus = {}
           /\ Len(Steps) = 5
<1>1. "ram" \in Objects /\ "part" \in Objects /\ \A o \in Vcpus : o \notin StepNames
  BY Names DEF Objects
<1>2. /\ \A i \in 1 .. n : Steps[i] \in StepNames
      /\ \A i \in 1 .. n : Steps[i] = "ram" => i = 1
      /\ \A i \in 1 .. n : Steps[i] = "part" => i = 2
      /\ \A i \in 1 .. n : Steps[i] # "kvm" /\ Steps[i] # "vm"
      /\ n >= 1 => Steps[1] = "ram"
      /\ n >= 2 => Steps[2] = "part"
  <2>0. Len(Steps) = 5
    BY StepsWhp
  <2>1. \A i \in 1 .. n : i \in {1, 2, 3, 4, 5}
    BY <2>0
  <2>2. ASSUME NEW i \in {1, 2, 3, 4, 5}
        PROVE  /\ Steps[i] \in StepNames /\ Steps[i] # "kvm" /\ Steps[i] # "vm"
               /\ Steps[i] = "ram" <=> i = 1
               /\ Steps[i] = "part" <=> i = 2
    <3>1. /\ Steps[1] = "ram" /\ Steps[2] = "part" /\ Steps[3] = "cpu_count"
          /\ Steps[4] = "setup" /\ Steps[5] = "map"
      BY StepsWhp
    <3>2. {"ram", "part", "cpu_count", "setup", "map"} \subseteq StepNames
      BY DEF StepNames
    <3> QED
      BY <3>1, <3>2
  <2> QED
    BY <2>1, <2>2, Zenon
<1>3. Len(Steps) = 5
  BY StepsWhp
<1>4. /\ n >= 1 => 1 \in 1 .. n
      /\ n >= 2 => 2 \in 1 .. n
  BY <1>3
<1> QED
  BY <1>1, <1>2, <1>3, <1>4 DEF Held

LEMMA HeldHvf ==
    ASSUME backend = "hvf", NEW n \in 0 .. Len(Steps)
    PROVE  /\ "ram" \in Held(n) <=> n >= 1
           /\ "vm" \in Held(n) <=> n >= 2
           /\ "kvm" \notin Held(n) /\ "part" \notin Held(n)
           /\ Held(n) \cap Vcpus = {}
           /\ Len(Steps) = 8
<1>1. "ram" \in Objects /\ "vm" \in Objects /\ \A o \in Vcpus : o \notin StepNames
  BY Names DEF Objects
<1>2. /\ \A i \in 1 .. n : Steps[i] \in StepNames
      /\ \A i \in 1 .. n : Steps[i] = "ram" => i = 1
      /\ \A i \in 1 .. n : Steps[i] = "vm" => i = 2
      /\ \A i \in 1 .. n : Steps[i] # "kvm" /\ Steps[i] # "part"
      /\ n >= 1 => Steps[1] = "ram"
      /\ n >= 2 => Steps[2] = "vm"
  <2>0. Len(Steps) = 8
    BY StepsHvf
  <2>1. \A i \in 1 .. n : i \in {1, 2, 3, 4, 5, 6, 7, 8}
    BY <2>0
  <2>2. ASSUME NEW i \in {1, 2, 3, 4, 5, 6, 7, 8}
        PROVE  /\ Steps[i] \in StepNames /\ Steps[i] # "kvm" /\ Steps[i] # "part"
               /\ Steps[i] = "ram" <=> i = 1
               /\ Steps[i] = "vm" <=> i = 2
    <3>1. /\ Steps[1] = "ram" /\ Steps[2] = "vm" /\ Steps[3] = "max_cpu" /\ Steps[4] = "mmfr0"
          /\ Steps[5] = "mmfr1" /\ Steps[6] = "mmfr2" /\ Steps[7] = "page_size" /\ Steps[8] = "ram_size"
      BY StepsHvf
    <3>2. {"ram", "vm", "max_cpu", "mmfr0", "mmfr1", "mmfr2", "page_size", "ram_size"} \subseteq StepNames
      BY DEF StepNames
    <3> QED
      BY <3>1, <3>2
  <2> QED
    BY <2>1, <2>2, Zenon
<1>3. Len(Steps) = 8
  BY StepsHvf
<1>4. /\ n >= 1 => 1 \in 1 .. n
      /\ n >= 2 => 2 \in 1 .. n
  BY <1>3
<1> QED
  BY <1>1, <1>2, <1>3, <1>4 DEF Held

LEMMA HeldNeeded ==
    ASSUME VcpuTypes, NEW n \in 0 .. Len(Steps)
    PROVE  Needed(Held(n)) /\ Held(n) \subseteq Objects
<1>1. CASE backend = "kvm"
  BY <1>1, HeldKvm DEF Needed, Held
<1>2. CASE backend = "whp"
  BY <1>2, HeldWhp DEF Needed, Held
<1>3. CASE backend = "hvf"
  BY <1>3, HeldHvf DEF Needed, Held
<1> QED
  BY <1>1, <1>2, <1>3 DEF VcpuTypes

LEMMA HeldAll ==
    ASSUME VcpuTypes
    PROVE  /\ backend = "kvm" => Cpus[1] \in Held(Len(Steps))
           /\ backend # "kvm" => Held(Len(Steps)) \cap {"vm", "part"} # {}
<1>0. Len(Steps) \in 0 .. Len(Steps)
  BY StepCount
<1>1. CASE backend = "kvm"
  BY <1>0, <1>1, HeldKvm, Names
<1>2. CASE backend = "whp"
  BY <1>0, <1>2, HeldWhp
<1>3. CASE backend = "hvf"
  BY <1>0, <1>3, HeldHvf
<1> QED
  BY <1>1, <1>2, <1>3 DEF VcpuTypes

LEMMA HeldMore ==
    ASSUME VcpuTypes, NEW n \in 0 .. (Len(Steps) - 1)
    PROVE  Held(n) \cup Acquired(n + 1) = Held(n + 1)
<1>1. \A i : i \in 1 .. (n + 1) <=> i \in 1 .. n \/ i = n + 1
  BY StepCount
<1> QED
  BY <1>1 DEF Held, Acquired

(* The orders of the drops.                                                *)
LEMMA Widen ==
    ASSUME NEW S, NEW T, NEW s \in Seq(S), \A i \in 1 .. Len(s) : s[i] \in T
    PROVE  s \in Seq(T) /\ Len(s) \in Nat
  OBVIOUS

LEMMA Three ==
    ASSUME NEW S, NEW a \in S, NEW b \in S, NEW c \in S, NEW t, t = <<a, b, c>>
    PROVE  t \in Seq(S) /\ Len(t) = 3 /\ t[1] = a /\ t[2] = b /\ t[3] = c
  OBVIOUS

LEMMA KvmOrder ==
    ASSUME NEW t \in Seq(Objects), Len(t) = 3, t[1] = "vm",
           \/ t[2] = "kvm" /\ t[3] = "ram"
           \/ t[2] = "ram" /\ t[3] = "kvm"
    PROVE  /\ Cpus \o t \in Seq(Objects) /\ Ordered(Cpus \o t)
           /\ Covers(Cpus \o t, Vcpus \cup {"ram", "kvm", "vm"})
<1>1. Cpus \in Seq(Objects) /\ Len(Cpus) \in Nat
  <2>1. \A i \in 1 .. Len(Cpus) : Cpus[i] \in Objects
    BY Zenon DEF Objects, Vcpus
  <2> QED
    BY <2>1, VcpuAssumption, Widen
<1>2. PICK s : s = Cpus \o t
  OBVIOUS
<1>3. /\ s \in Seq(Objects) /\ Len(s) = Len(Cpus) + 3
      /\ \A i \in 1 .. Len(Cpus) : s[i] = Cpus[i]
      /\ \A i \in 1 .. 3 : s[Len(Cpus) + i] = t[i]
  <2>1. PICK a : a = Cpus
    OBVIOUS
  <2>2. a \in Seq(Objects) /\ s = a \o t
    BY <1>1, <1>2, <2>1
  <2>3. Cut(Objects, s, a, t)
    BY <2>2, IsCut, Zenon
  <2> QED
    BY <2>1, <2>3 DEF Cut
<1>4. /\ \A i \in 1 .. Len(Cpus) : s[i] \in Vcpus
      /\ s[Len(Cpus) + 1] = t[1] /\ s[Len(Cpus) + 2] = t[2] /\ s[Len(Cpus) + 3] = t[3]
  BY <1>3 DEF Vcpus
<1>5. \A i \in 1 .. Len(s) :
          i \in 1 .. Len(Cpus) \/ i = Len(Cpus) + 1 \/ i = Len(Cpus) + 2 \/ i = Len(Cpus) + 3
  BY <1>1, <1>3
<1>6. /\ \A o \in Vcpus : o # "ram" /\ o # "vm" /\ o # "kvm" /\ o # "part"
  BY Names DEF StepNames
<1>7. Ordered(s)
  <2> SUFFICES ASSUME NEW i \in 1 .. Len(s), NEW j \in 1 .. Len(s), Outlives(s[i], s[j])
               PROVE  j < i
    BY DEF Ordered
  <2>1. CASE s[i] = "vm" /\ s[j] \in Vcpus
    <3>1. i > Len(Cpus)
      BY <1>4, <1>5, <1>6, <2>1
    <3>2. j \in 1 .. Len(Cpus)
      BY <1>4, <1>5, <1>6, <2>1
    <3> QED
      BY <1>1, <3>1, <3>2
  <2>2. CASE s[i] \in {"ram", "kvm"} /\ s[j] \in {"vm", "part"}
    <3>1. i = Len(Cpus) + 2 \/ i = Len(Cpus) + 3
      BY <1>4, <1>5, <1>6, <2>2
    <3>2. j = Len(Cpus) + 1
      BY <1>4, <1>5, <1>6, <2>2
    <3> QED
      BY <1>1, <3>1, <3>2
  <2> QED
    BY <2>1, <2>2 DEF Outlives
<1>8. Covers(s, Vcpus \cup {"ram", "kvm", "vm"})
  <2>1. \A i \in 1 .. Len(Cpus) : i \in 1 .. Len(s) /\ s[i] = Cpus[i]
    BY <1>1, <1>3
  <2>2. /\ Len(Cpus) + 1 \in 1 .. Len(s) /\ Len(Cpus) + 2 \in 1 .. Len(s)
        /\ Len(Cpus) + 3 \in 1 .. Len(s)
    BY <1>1, <1>3
  <2>3. \A o \in Vcpus : \E i \in 1 .. Len(s) : s[i] = o
    BY <2>1 DEF Vcpus
  <2> QED
    BY <1>4, <2>2, <2>3 DEF Covers
<1> QED
  BY <1>2, <1>3, <1>7, <1>8

LEMMA PairOrder ==
    ASSUME NEW a \in {"part", "vm"}
    PROVE  /\ <<a, "ram">> \in Seq(Objects) /\ Ordered(<<a, "ram">>)
           /\ Covers(<<a, "ram">>, {a, "ram"})
<1>1. a \in Objects /\ "ram" \in Objects
  BY DEF Objects
<1>2. PICK s : s = <<a, "ram">>
  OBVIOUS
<1>3. s \in Seq(Objects) /\ Len(s) = 2 /\ s[1] = a /\ s[2] = "ram"
  BY <1>1, <1>2
<1>4. \A i \in 1 .. Len(s) : i = 1 \/ i = 2
  BY <1>3
<1>5. \A o \in Vcpus : o # "ram" /\ o # "vm" /\ o # "kvm" /\ o # "part"
  BY Names DEF StepNames
<1>6. Ordered(s)
  BY <1>3, <1>4, <1>5 DEF Ordered, Outlives
<1>7. Covers(s, {a, "ram"})
  BY <1>3 DEF Covers
<1> QED
  BY <1>2, <1>3, <1>6, <1>7

LEMMA Orders ==
    ASSUME VcpuTypes, NEW s \in {LocalsOrder, FieldsOrder}, NEW n \in 0 .. Len(Steps)
    PROVE  s \in Seq(Objects) /\ Ordered(s) /\ Covers(s, Held(n))
<1>1. CASE backend = "kvm"
  <2>1. PICK t : t \in {<<"vm", "kvm", "ram">>, <<"vm", "ram", "kvm">>} /\ s = Cpus \o t
    BY <1>1, Zenon DEF LocalsOrder, FieldsOrder
  <2>2. /\ t \in Seq(Objects) /\ Len(t) = 3 /\ t[1] = "vm"
        /\ \/ t[2] = "kvm" /\ t[3] = "ram"
           \/ t[2] = "ram" /\ t[3] = "kvm"
    <3>1. "vm" \in Objects /\ "kvm" \in Objects /\ "ram" \in Objects
      BY DEF Objects
    <3>2. CASE t = <<"vm", "kvm", "ram">>
      BY <3>1, <3>2, Three
    <3>3. CASE t = <<"vm", "ram", "kvm">>
      BY <3>1, <3>3, Three
    <3> QED
      BY <2>1, <3>2, <3>3
  <2>3. s \in Seq(Objects) /\ Ordered(s) /\ Covers(s, Vcpus \cup {"ram", "kvm", "vm"})
    BY <2>1, <2>2, KvmOrder, Zenon
  <2>4. Held(n) \subseteq Vcpus \cup {"ram", "kvm", "vm"}
    BY <1>1, HeldKvm DEF Held, Objects
  <2> QED
    BY <2>3, <2>4 DEF Covers
<1>2. CASE backend = "whp"
  <2>1. s = <<"part", "ram">>
    BY <1>2 DEF LocalsOrder, FieldsOrder
  <2>2. s \in Seq(Objects) /\ Ordered(s) /\ Covers(s, {"part", "ram"})
    BY <2>1, PairOrder
  <2>3. Held(n) \subseteq {"part", "ram"}
    BY <1>2, HeldWhp DEF Held, Objects
  <2> QED
    BY <2>2, <2>3 DEF Covers
<1>3. CASE backend = "hvf"
  <2>1. s = <<"vm", "ram">>
    BY <1>3 DEF LocalsOrder, FieldsOrder
  <2>2. s \in Seq(Objects) /\ Ordered(s) /\ Covers(s, {"vm", "ram"})
    BY <2>1, PairOrder
  <2>3. Held(n) \subseteq {"vm", "ram"}
    BY <1>3, HeldHvf DEF Held, Objects
  <2> QED
    BY <2>2, <2>3 DEF Covers
<1> QED
  BY <1>1, <1>2, <1>3 DEF VcpuTypes

(* A drop keeps the order of the rest.                                     *)
LEMMA DropHead ==
    ASSUME NEW S, NEW s \in Seq(S), s # <<>>
    PROVE  /\ Head(s) = s[1] /\ Len(s) \in Nat /\ Len(s) > 0
           /\ Tail(s) \in Seq(S) /\ Len(Tail(s)) = Len(s) - 1
           /\ \A i \in 1 .. Len(Tail(s)) : Tail(s)[i] = s[i + 1] /\ i + 1 \in 1 .. Len(s)
  OBVIOUS

LEMMA Dropped ==
    ASSUME NEW L, NEW s \in Seq(Objects), s # <<>>, Needed(L), Ordered(s), Covers(s, L)
    PROVE  /\ Tail(s) \in Seq(Objects) /\ Ordered(Tail(s))
           /\ Covers(Tail(s), L \ {Head(s)}) /\ Needed(L \ {Head(s)})
<1>1. PICK h, t : h = Head(s) /\ t = Tail(s)
  OBVIOUS
<1>2. /\ h = s[1] /\ Len(s) \in Nat /\ Len(s) > 0
      /\ t \in Seq(Objects) /\ Len(t) = Len(s) - 1
      /\ \A i \in 1 .. Len(t) : t[i] = s[i + 1] /\ i + 1 \in 1 .. Len(s)
  BY <1>1, DropHead
<1>3. Ordered(t)
  <2> SUFFICES ASSUME NEW i \in 1 .. Len(t), NEW j \in 1 .. Len(t), Outlives(t[i], t[j])
               PROVE  j < i
    BY DEF Ordered
  <2>1. Outlives(s[i + 1], s[j + 1]) /\ i + 1 \in 1 .. Len(s) /\ j + 1 \in 1 .. Len(s)
    BY <1>2
  <2>2. j + 1 < i + 1
    BY <2>1 DEF Ordered
  <2> QED
    BY <1>2, <2>2
<1>4. Covers(t, L \ {h})
  <2> SUFFICES ASSUME NEW o \in L, o # h PROVE \E i \in 1 .. Len(t) : t[i] = o
    BY DEF Covers
  <2>1. PICK i \in 1 .. Len(s) : s[i] = o
    BY DEF Covers
  <2>2. i # 1
    BY <1>2, <2>1
  <2>3. i - 1 \in 1 .. Len(t) /\ (i - 1) + 1 = i
    BY <1>2, <2>2
  <2>4. t[i - 1] = o
    BY <1>2, <2>1, <2>3
  <2> QED
    BY <2>3, <2>4
<1>5. \A o \in L : ~Outlives(h, o)
  <2> SUFFICES ASSUME NEW o \in L, Outlives(h, o) PROVE FALSE
    OBVIOUS
  <2>1. PICK i \in 1 .. Len(s) : s[i] = o
    BY DEF Covers
  <2>2. 1 \in 1 .. Len(s) /\ Outlives(s[1], s[i])
    BY <1>2, <2>1
  <2>3. i < 1
    BY <2>2 DEF Ordered
  <2> QED
    BY <2>3
<1>6. Needed(L \ {h})
  BY <1>5, Zenon DEF Needed, Outlives
<1> QED
  BY <1>1, <1>2, <1>3, <1>4, <1>6

-----------------------------------------------------------------------------
LEMMA Static ==
    ASSUME UNCHANGED hyper
    PROVE  /\ backend' = backend /\ cpuModel' = cpuModel
           /\ Steps' = Steps /\ Setup' = Setup /\ Ready' = Ready
           /\ \A n : Held(n)' = Held(n)
           /\ \A L : Needed(L)' = Needed(L)
<1>1. backend' = backend /\ cpuModel' = cpuModel
  BY DEF hyper
<1>2. Steps' = Steps /\ Setup' = Setup /\ Ready' = Ready
  BY <1>1, Zenon DEF Steps, Setup, Ready
<1>3. \A n : Held(n)' = Held(n)
  BY <1>2, Zenon DEF Held
<1>4. \A L : Needed(L)' = Needed(L)
  BY <1>1, Zenon DEF Needed
<1> QED
  BY <1>1, <1>2, <1>3, <1>4

LEMMA Alive ==
    ASSUME VcpuInv, main # "abort", cpu \notin {"none", "done"}
    PROVE  /\ main \in {"loop", "join"} /\ step = Len(Steps) /\ live = Held(step) \cup Driven
           /\ result = "none"
  BY DEF VcpuInv, VcpuTypes, Owned

LEMMA NewStepInv == ASSUME VcpuInv, NewStep PROVE VcpuInv'
<1>1. /\ main = "new" /\ main' = main /\ step < Len(Steps) /\ step' = step + 1
      /\ live' = live \cup Acquired(step + 1)
      /\ feats' = IF Steps[step + 1] = "cpuid" THEN HostFeats ELSE feats
      /\ UNCHANGED <<hyper, doomed, cpu, states, vcpu, exit, shutdown, result>>
  BY DEF NewStep
<1>2. /\ backend' = backend /\ cpuModel' = cpuModel /\ Steps' = Steps /\ Setup' = Setup
      /\ Ready' = Ready /\ \A n : Held(n)' = Held(n)
  BY <1>1, Static
<1>3. Len(Steps) \in Nat /\ step \in 0 .. (Len(Steps) - 1)
  BY <1>1, StepCount DEF VcpuInv, VcpuTypes
<1>4. VcpuTypes'
  BY <1>1, <1>2, <1>3 DEF VcpuInv, VcpuTypes, states, vcpu
<1>5. live' = Held(step + 1)
  BY <1>1, <1>3, HeldMore DEF VcpuInv, Owned
<1>6. Owned'
  <2>1. live' = Held(step)' /\ cpu' = "none"
    BY <1>1, <1>2, <1>5 DEF VcpuInv, Owned
  <2> QED
    BY <1>1, <2>1 DEF VcpuInv, Owned
<1>7. Programmed'
  BY <1>1, <1>2 DEF VcpuInv, Programmed, states, vcpu, SetSoFar
<1>8. Leafed'
  <2>1. backend = "kvm" /\ step = 5 => feats' = HostFeats
    BY <1>1, StepsKvm
  <2>2. step' >= 6 => step = 5 \/ step >= 6
    BY <1>1, <1>3
  <2>3. cpu' = "none"
    BY <1>1 DEF VcpuInv, Owned
  <2> QED
    BY <1>1, <1>2, <2>1, <2>2, <2>3 DEF VcpuInv, Leafed, Driving
<1>9. Exited'
  BY <1>1 DEF VcpuInv, Exited, Owned
<1> QED
  BY <1>4, <1>6, <1>7, <1>8, <1>9 DEF VcpuInv

(* hv::new or the rest of Vmm::new fails, or the Vmm is dropped: the       *)
(* fields or the locals are about to be dropped in their order.            *)
LEMMA ToDropping ==
    ASSUME VcpuInv, main # "abort", main' = "dropping", NEW s \in {LocalsOrder, FieldsOrder}, doomed' = s,
           cpu \in {"none", "done"}, live = Held(step),
           UNCHANGED <<hyper, step, live, cpu, states, vcpu, exit, shutdown, result>>
    PROVE  VcpuInv'
<1>1. /\ backend' = backend /\ cpuModel' = cpuModel /\ Steps' = Steps /\ Setup' = Setup
      /\ Ready' = Ready /\ (\A n : Held(n)' = Held(n)) /\ \A L : Needed(L)' = Needed(L)
  BY Static
<1>2. VcpuTypes /\ step \in 0 .. Len(Steps)
  BY DEF VcpuInv, VcpuTypes
<1>3. VcpuTypes'
  BY <1>1, <1>2 DEF VcpuTypes, states, vcpu
<1>4. Needed(live) /\ live \subseteq Objects /\ s \in Seq(Objects) /\ Ordered(s) /\ Covers(s, live)
  BY <1>2, HeldNeeded, Orders
<1>5. Needed(live)'
  BY <1>1, <1>4, Zenon
<1>6. Owned'
  <2>1. /\ cpu' \in {"none", "done"} /\ live' \subseteq Objects
        /\ doomed' \in Seq(Objects) /\ Ordered(doomed') /\ Covers(doomed', live')
        /\ (cpu' # "done" => result' = "none")
    BY <1>4 DEF VcpuInv, Owned
  <2> QED
    BY <1>5, <2>1 DEF Owned, Ordered, Covers
<1>7. Programmed'
  BY <1>1 DEF VcpuInv, Programmed, states, vcpu, SetSoFar
<1>8. Leafed'
  BY DEF Leafed, Driving
<1>9. Exited'
  BY DEF Exited
<1> QED
  BY <1>3, <1>6, <1>7, <1>8, <1>9 DEF VcpuInv

LEMMA NewFailsInv == ASSUME VcpuInv, NewFails PROVE VcpuInv'
<1>1. /\ main = "new" /\ main' = "dropping" /\ doomed' = LocalsOrder
      /\ UNCHANGED <<hyper, step, live, cpu, states, vcpu, exit, shutdown, result>>
  BY DEF NewFails, Dropping
<1>2. live = Held(step) /\ cpu = "none"
  BY <1>1 DEF VcpuInv, Owned
<1> QED
  BY <1>1, <1>2, ToDropping

LEMMA BuildFailsInv == ASSUME VcpuInv, BuildFails PROVE VcpuInv'
<1>1. /\ main = "build" /\ main' = "dropping" /\ doomed' = FieldsOrder
      /\ UNCHANGED <<hyper, step, live, cpu, states, vcpu, exit, shutdown, result>>
  BY DEF BuildFails, Dropping
<1>2. live = Held(step) /\ cpu = "none"
  BY <1>1, Zenon DEF VcpuInv, Owned, Driven, Driving
<1> QED
  BY <1>1, <1>2, ToDropping

LEMMA JoinInv == ASSUME VcpuInv, Join PROVE VcpuInv'
<1>1. /\ main = "join" /\ cpu = "done" /\ main' = "dropping" /\ doomed' = FieldsOrder
      /\ UNCHANGED <<hyper, step, live, cpu, states, vcpu, exit, shutdown, result>>
  BY DEF Join, Dropping
<1>2. live = Held(step)
  BY <1>1, Zenon DEF VcpuInv, Owned, Driven, Driving
<1> QED
  BY <1>1, <1>2, ToDropping

LEMMA DropOneInv == ASSUME VcpuInv, DropOne PROVE VcpuInv'
<1>1. /\ main = "dropping"
      /\ \/ doomed = <<>> /\ main' = "gone" /\ live' = live /\ doomed' = doomed
         \/ /\ doomed # <<>> /\ main' = main
            /\ live' = live \ {Head(doomed)} /\ doomed' = Tail(doomed)
      /\ UNCHANGED <<hyper, step, feats, cpu, states, vcpu, exit, shutdown, result>>
  BY DEF DropOne, objects
<1>2. /\ backend' = backend /\ cpuModel' = cpuModel /\ Steps' = Steps /\ Setup' = Setup
      /\ Ready' = Ready /\ (\A n : Held(n)' = Held(n)) /\ \A L : Needed(L)' = Needed(L)
  BY <1>1, Static
<1>3. VcpuTypes'
  BY <1>1, <1>2 DEF VcpuInv, VcpuTypes, states, vcpu
<1>4. /\ cpu \in {"none", "done"} /\ live \subseteq Objects /\ Needed(live)
      /\ doomed \in Seq(Objects) /\ Ordered(doomed) /\ Covers(doomed, live)
      /\ (cpu # "done" => result = "none")
  BY <1>1 DEF VcpuInv, Owned
<1>5. Owned'
  <2>1. CASE doomed = <<>>
    <3>1. live = {}
      BY <1>4, <2>1 DEF Covers
    <3>2. main' = "gone" /\ live' = live /\ doomed' = doomed
      BY <1>1, <2>1
    <3>3. Needed(live)'
      BY <1>2, <1>4, <3>2, Zenon
    <3> QED
      BY <1>1, <1>4, <3>1, <3>2, <3>3 DEF Owned, Ordered, Covers
  <2>2. CASE doomed # <<>>
    <3>1. main' = main /\ live' = live \ {Head(doomed)} /\ doomed' = Tail(doomed)
      BY <1>1, <2>2
    <3>2. /\ doomed' \in Seq(Objects) /\ Ordered(doomed') /\ Covers(doomed', live')
          /\ Needed(live')
      BY <1>4, <2>2, <3>1, Dropped
    <3>3. Needed(live)'
      BY <1>2, <3>2, Zenon
    <3> QED
      BY <1>1, <1>4, <3>1, <3>2, <3>3 DEF Owned, Ordered, Covers
  <2> QED
    BY <2>1, <2>2
<1>6. Programmed'
  BY <1>1, <1>2, <1>4 DEF VcpuInv, Programmed, states, vcpu, SetSoFar
<1>7. Leafed'
  BY <1>1, <1>4 DEF Leafed, Driving
<1>8. Exited'
  BY <1>1, <1>4 DEF Exited
<1> QED
  BY <1>3, <1>5, <1>6, <1>7, <1>8 DEF VcpuInv

(* The steps that only change main.                                        *)
LEMMA AskMoreInv == ASSUME VcpuInv, AskMore PROVE VcpuInv'
<1>1. UNCHANGED <<hyper, main, step, feats, objects, cpu, states, vcpu, exit, shutdown, result>>
  BY DEF AskMore
<1>2. /\ backend' = backend /\ cpuModel' = cpuModel /\ Steps' = Steps /\ Setup' = Setup
      /\ Ready' = Ready /\ (\A n : Held(n)' = Held(n)) /\ \A L : Needed(L)' = Needed(L)
  BY <1>1, Static
<1>3. VcpuTypes' /\ Programmed' /\ Leafed' /\ Exited'
  <2>1. VcpuTypes'
    BY <1>1, <1>2 DEF VcpuInv, VcpuTypes, states, vcpu
  <2>2. Programmed'
    <3>1. SetSoFar' = SetSoFar
      BY <1>1 DEF SetSoFar, states
    <3> QED
      BY <1>1, <1>2, <3>1 DEF VcpuInv, Programmed, states, vcpu
  <2>3. Leafed' /\ Exited'
    BY <1>1, <1>2 DEF VcpuInv, Leafed, Exited, Driving, vcpu
  <2> QED
    BY <2>1, <2>2, <2>3
<1>4. Owned'
  BY <1>1, <1>2 DEF VcpuInv, Owned, Ordered, Covers, Driven, Driving, objects
<1> QED
  BY <1>3, <1>4 DEF VcpuInv

LEMMA SetCpuModelInv == ASSUME VcpuInv, SetCpuModel PROVE VcpuInv'
<1>1. /\ main = "new" /\ step = Len(Steps)
      /\ main' = "abort" \/ (main' = "build" /\ cpuModel # "ProWithHost")
      /\ feats' = IF cpuModel = "Pro" /\ backend = "kvm" THEN WithLeaf(feats) ELSE feats
      /\ UNCHANGED <<hyper, step, objects, cpu, states, vcpu, exit, shutdown, result>>
  BY DEF SetCpuModel
<1>2. /\ backend' = backend /\ cpuModel' = cpuModel /\ Steps' = Steps /\ Setup' = Setup
      /\ Ready' = Ready /\ (\A n : Held(n)' = Held(n)) /\ \A L : Needed(L)' = Needed(L)
  BY <1>1, Static
<1>3. cpu = "none" /\ live = Held(step) /\ (cpu # "done" => result = "none")
  BY <1>1 DEF VcpuInv, Owned
<1>4. VcpuTypes'
  BY <1>1, <1>2 DEF VcpuInv, VcpuTypes, states, vcpu
<1>5. Owned'
  BY <1>1, <1>2, <1>3 DEF Owned, Driven, Driving, objects
<1>6. Programmed' /\ Exited'
  BY <1>1, <1>2, <1>3 DEF VcpuInv, Programmed, Exited, SetSoFar, states, vcpu
<1>7. Leafed'
  <2>1. backend = "kvm" => feats = HostFeats
    <3>1. backend = "kvm" => step >= 6
      BY <1>1, StepsKvm, Names
    <3> QED
      BY <1>1, <3>1 DEF VcpuInv, Leafed
  <2>2. backend = "kvm" => feats' = Ready
    BY <1>1, <2>1 DEF Ready
  <2> QED
    BY <1>1, <1>2, <1>3, <2>2 DEF Leafed, Driving
<1> QED
  BY <1>4, <1>5, <1>6, <1>7 DEF VcpuInv

LEMMA SpawnCpuInv == ASSUME VcpuInv, SpawnCpu PROVE VcpuInv'
<1>1. /\ main = "build" /\ main' = "loop" /\ cpu' = "create"
      /\ UNCHANGED <<hyper, step, feats, objects, states, vcpu, exit, shutdown, result>>
  BY DEF SpawnCpu
<1>2. /\ backend' = backend /\ cpuModel' = cpuModel /\ Steps' = Steps /\ Setup' = Setup
      /\ Ready' = Ready /\ (\A n : Held(n)' = Held(n)) /\ \A L : Needed(L)' = Needed(L)
  BY <1>1, Static
<1>3. /\ cpu = "none" /\ step = Len(Steps) /\ live = Held(step) \cup Driven
      /\ result = "none"
  BY <1>1 DEF VcpuInv, Owned
<1>4. VcpuTypes'
  BY <1>1, <1>2 DEF VcpuInv, VcpuTypes, states, vcpu
<1>5. Owned'
  BY <1>1, <1>2, <1>3 DEF Owned, Driven, Driving, objects
<1>6. Programmed' /\ Exited' /\ Leafed'
  BY <1>1, <1>2, <1>3 DEF VcpuInv, Programmed, Exited, Leafed, Driving, SetSoFar, states, vcpu
<1> QED
  BY <1>4, <1>5, <1>6 DEF VcpuInv

LEMMA ShutdownInv == ASSUME VcpuInv, Shutdown PROVE VcpuInv'
<1>1. /\ main = "loop" /\ main' = "join" /\ shutdown' = TRUE
      /\ UNCHANGED <<hyper, step, feats, objects, cpu, states, vcpu, exit, result>>
  BY DEF Shutdown
<1>2. /\ backend' = backend /\ cpuModel' = cpuModel /\ Steps' = Steps /\ Setup' = Setup
      /\ Ready' = Ready /\ (\A n : Held(n)' = Held(n)) /\ \A L : Needed(L)' = Needed(L)
  BY <1>1, Static
<1>4. VcpuTypes'
  BY <1>1, <1>2 DEF VcpuInv, VcpuTypes, states, vcpu
<1>5. Owned'
  BY <1>1, <1>2 DEF VcpuInv, Owned, Driven, Driving, objects
<1>6. Programmed' /\ Exited' /\ Leafed'
  BY <1>1, <1>2 DEF VcpuInv, Programmed, Exited, Leafed, Driving, SetSoFar, states, vcpu
<1> QED
  BY <1>4, <1>5, <1>6 DEF VcpuInv

(* The thread of the vCPU ends, or goes on with its vCPU.                  *)
LEMMA EndsInv ==
    ASSUME VcpuInv, main # "abort", cpu \notin {"none", "done"}, NEW r, Ends(r),
           UNCHANGED <<hyper, host, states, regs, shutdown>>
    PROVE  VcpuInv'
<1>1. /\ cpu' = "done" /\ live' = live \ {"run", "vp"} /\ doomed' = doomed
      /\ UNCHANGED <<main, step, feats, sets, cache, gdirty, sdirty>>
  BY DEF Ends, host, states
<1>2. /\ backend' = backend /\ cpuModel' = cpuModel /\ Steps' = Steps /\ Setup' = Setup
      /\ Ready' = Ready /\ (\A n : Held(n)' = Held(n)) /\ \A L : Needed(L)' = Needed(L)
  BY Static
<1>3. main \in {"loop", "join"} /\ step = Len(Steps) /\ live = Held(step) \cup Driven
  BY Alive
<1>4. VcpuTypes'
  BY <1>1, <1>2 DEF VcpuInv, VcpuTypes
<1>5. live' = Held(step)
  <2>1. "run" \notin Objects /\ "vp" \notin Objects
    BY Names DEF Objects, StepNames
  <2>2. Held(step) \subseteq Objects
    BY DEF Held
  <2> QED
    BY <1>1, <1>3, <2>1, <2>2 DEF Driven
<1>6. Owned'
  BY <1>1, <1>2, <1>3, <1>5 DEF Owned, Driven, Driving
<1>7. Programmed' /\ Exited' /\ Leafed'
  BY <1>1, <1>2, <1>3 DEF VcpuInv, Programmed, Exited, Leafed, Driving
<1> QED
  BY <1>4, <1>6, <1>7 DEF VcpuInv

LEMMA GoesOn ==
    ASSUME VcpuInv, main # "abort", Driving, Driving',
           UNCHANGED <<hyper, host, objects, cpuid, result>>
    PROVE  Owned' /\ Leafed'
<1>1. UNCHANGED <<main, step, feats, live, doomed, cpuid, result>>
  BY DEF host, objects
<1>2. /\ backend' = backend /\ cpuModel' = cpuModel /\ Steps' = Steps /\ Setup' = Setup
      /\ Ready' = Ready /\ (\A n : Held(n)' = Held(n)) /\ \A L : Needed(L)' = Needed(L)
  BY Static
<1>3. cpu \notin {"none", "done"} /\ cpu' \notin {"none", "done"}
  BY DEF Driving
<1>4. /\ main \in {"loop", "join"} /\ step = Len(Steps) /\ live = Held(step) \cup Driven
      /\ result = "none"
  BY <1>3, Alive
<1>5. Driven' = Driven
  BY <1>2 DEF Driven
<1>6. Owned'
  BY <1>1, <1>2, <1>3, <1>4, <1>5 DEF Owned
<1>7. Leafed'
  BY <1>1, <1>2 DEF VcpuInv, Leafed
<1> QED
  BY <1>6, <1>7

LEMMA CreateCpuInv == ASSUME VcpuInv, CreateCpu PROVE VcpuInv'
<1>1. /\ main # "abort" /\ cpu = "create" /\ cpu' = "states"
      /\ live' = live \cup {IF backend = "kvm" THEN "run" ELSE "vp"}
      /\ cpuid' = feats
      /\ UNCHANGED <<hyper, main, step, feats, doomed, states, regs, exit, shutdown, result>>
  BY DEF CreateCpu, Running, host
<1>2. /\ backend' = backend /\ cpuModel' = cpuModel /\ Steps' = Steps /\ Setup' = Setup
      /\ Ready' = Ready /\ (\A n : Held(n)' = Held(n)) /\ \A L : Needed(L)' = Needed(L)
  BY <1>1, Static
<1>3. /\ main \in {"loop", "join"} /\ step = Len(Steps) /\ live = Held(step) \cup Driven
      /\ result = "none"
  BY <1>1, Alive
<1>4. VcpuTypes'
  BY <1>1, <1>2 DEF VcpuInv, VcpuTypes, states
<1>5. Owned'
  <2>1. Driven = {} /\ Driven' = {IF backend = "kvm" THEN "run" ELSE "vp"}
    BY <1>1, <1>2 DEF Driven, Driving
  <2>2. live' = (Held(step) \cup Driven)'
    BY <1>1, <1>2, <1>3, <2>1
  <2> QED
    BY <1>1, <1>2, <1>3, <2>2 DEF Owned
<1>6. Leafed'
  BY <1>1, <1>2, <1>3 DEF VcpuInv, Leafed
<1>7. Programmed' /\ Exited'
  BY <1>1, <1>2 DEF VcpuInv, Programmed, Exited, states
<1> QED
  BY <1>4, <1>5, <1>6, <1>7 DEF VcpuInv

LEMMA CreateFailsInv == ASSUME VcpuInv, CreateFails PROVE VcpuInv'
<1>1. /\ main # "abort" /\ cpu = "create" /\ Ends("Create")
      /\ UNCHANGED <<hyper, host, states, regs, shutdown>>
  BY DEF CreateFails, Running
<1> QED
  BY <1>1, EndsInv

LEMMA GetStatesInv == ASSUME VcpuInv, GetStates PROVE VcpuInv'
<1>1. /\ main # "abort" /\ cpu = "states"
      /\ UNCHANGED <<hyper, host, sets, gdirty, sdirty, regs, cpuid, exit, shutdown>>
  BY DEF GetStates, Running, vcpu
<1>2. CASE Ends("Setup") /\ UNCHANGED cache
  BY <1>1, <1>2, EndsInv DEF states
<1>3. CASE cpu' = "set" /\ cache' = regs /\ UNCHANGED <<result, objects>>
  <2>1. /\ backend' = backend /\ cpuModel' = cpuModel /\ Steps' = Steps /\ Setup' = Setup
    BY <1>1, Static
  <2>2. main' = main /\ step' = step
    BY <1>1 DEF host
  <2>3. VcpuTypes'
    BY <1>1, <1>3, <2>1, <2>2 DEF VcpuInv, VcpuTypes
  <2>4. Owned' /\ Leafed'
    BY <1>1, <1>3, GoesOn DEF Driving
  <2>5. Exited'
    BY <1>3 DEF Exited
  <2>6. sets = 0 /\ ~gdirty /\ ~sdirty /\ regs = Blank
    BY <1>1 DEF VcpuInv, Programmed
  <2>7. SetSoFar' = Blank
    BY <1>1, <2>6 DEF SetSoFar, Blank
  <2>8. Programmed'
    BY <1>1, <1>3, <2>1, <2>2, <2>6, <2>7 DEF VcpuInv, Programmed
  <2> QED
    BY <2>3, <2>4, <2>5, <2>8 DEF VcpuInv
<1> QED
  BY <1>2, <1>3 DEF GetStates

(* The setters of setup_main_cpu.                                          *)
LEMMA SetupLens ==
    /\ Len(SetupX86) = 16 /\ Len(SetupArm) = 11 /\ SetupArm[9] = "x2"
    /\ SetupX86[1] = "cr3" /\ SetupX86[2] = "cr4" /\ SetupX86[3] = "efer"
    /\ SetupX86[4] = "cr0" /\ SetupX86[5] = "cs" /\ SetupX86[6] = "ds"
    /\ SetupX86[7] = "es" /\ SetupX86[8] = "fs" /\ SetupX86[9] = "gs"
    /\ SetupX86[10] = "ss" /\ SetupX86[11] = "rdi" /\ SetupX86[12] = "rsi"
    /\ SetupX86[13] = "rdx" /\ SetupX86[14] = "rsp" /\ SetupX86[15] = "rip"
    /\ SetupX86[16] = "rflags"
  BY DEF SetupX86, SetupArm

LEMMA SetupGroups ==
    ASSUME NEW i \in 1 .. 16
    PROVE  /\ SetupX86[i] \in Registers
           /\ SetupX86[i] \in General <=> i >= 11
           /\ SetupX86[i] \in Special <=> i <= 10
           /\ SetupX86[i] \notin {"rax", "cr2"}
<1>1. CASE i <= 10
  <2>1. i \in {1, 2, 3, 4, 5, 6, 7, 8, 9, 10}
    BY <1>1
  <2>2. SetupX86[i] \in {"cr3", "cr4", "efer", "cr0", "cs", "ds", "es", "fs", "gs", "ss"}
    BY <2>1, SetupLens
  <2> QED
    BY <1>1, <2>2 DEF General, Special, Registers
<1>2. CASE i >= 11
  <2>1. i \in {11, 12, 13, 14, 15, 16}
    BY <1>2
  <2>2. SetupX86[i] \in {"rdi", "rsi", "rdx", "rsp", "rip", "rflags"}
    BY <2>1, SetupLens
  <2> QED
    BY <1>2, <2>2 DEF General, Special, Registers
<1> QED
  BY <1>1, <1>2

LEMMA SetupAll ==
    ASSUME NEW r \in Registers, r \notin {"rax", "cr2"}
    PROVE  \E i \in 1 .. 16 : SetupX86[i] = r
<1>1. r \in {"cr3", "cr4", "efer", "cr0", "cs", "ds", "es", "fs", "gs", "ss",
             "rdi", "rsi", "rdx", "rsp", "rip", "rflags"}
  BY DEF Registers, General, Special
<1>2. \A i \in {1, 2, 3, 4, 5, 6, 7, 8, 9, 10, 11, 12, 13, 14, 15, 16} : i \in 1 .. 16
  OBVIOUS
<1> QED
  BY <1>1, <1>2, SetupLens

LEMMA SetRegisterInv == ASSUME VcpuInv, SetRegister PROVE VcpuInv'
<1> DEFINE r == Setup[sets + 1]
<1>1. /\ main # "abort" /\ cpu = "set" /\ sets < Len(Setup)
      /\ main' = IF r \in NotWritten[backend] THEN "abort" ELSE main
      /\ sets' = sets + 1
      /\ cache' = IF backend = "kvm" THEN [cache EXCEPT ![r] = Boot] ELSE cache
      /\ gdirty' = (gdirty \/ r \in General)
      /\ sdirty' = (sdirty \/ r \in Special)
      /\ UNCHANGED <<hyper, step, count, feats, objects, cpu, vcpu, exit, shutdown, result>>
  BY DEF SetRegister, Running
<1>2. /\ backend' = backend /\ cpuModel' = cpuModel /\ Steps' = Steps /\ Setup' = Setup
      /\ Ready' = Ready /\ (\A n : Held(n)' = Held(n)) /\ \A L : Needed(L)' = Needed(L)
  BY <1>1, Static
<1>3. /\ main \in {"loop", "join"} /\ step = Len(Steps) /\ live = Held(step) \cup Driven
      /\ result = "none"
  BY <1>1, Alive
<1>4. Len(Setup) \in Nat /\ sets \in 0 .. Len(Setup) /\ (backend # "hvf" => Setup = SetupX86)
  BY SetupLens DEF VcpuInv, VcpuTypes, Setup
<1>5. VcpuTypes'
  <2>1. main' \in {"loop", "join", "abort"}
    BY <1>1, <1>3
  <2>2. sets' \in 0 .. Len(Setup)
    BY <1>1, <1>4
  <2>3. cache' \in [Registers -> {Reset, Boot}]
    BY <1>1, Zenon DEF VcpuInv, VcpuTypes
  <2>4. gdirty' \in BOOLEAN /\ sdirty' \in BOOLEAN
    BY <1>1, Zenon
  <2> QED
    BY <1>1, <1>2, <2>1, <2>2, <2>3, <2>4 DEF VcpuInv, VcpuTypes, vcpu
<1>6. Owned'
  <2>1. Driven' = Driven
    BY <1>1, <1>2, Zenon DEF Driven, Driving
  <2>2. main' = main \/ main' = "abort"
    BY <1>1
  <2> QED
    BY <1>1, <1>2, <1>3, <2>1, <2>2 DEF Owned, objects
<1>7. Leafed'
  <2>1. main' = main \/ main' = "abort"
    BY <1>1
  <2> QED
    BY <1>1, <1>2, <1>3, <2>1, Zenon DEF VcpuInv, Leafed, Driving, vcpu
<1>8. Exited'
  BY <1>1, Zenon DEF Exited
<1>9. Programmed'
  <2> SUFFICES ASSUME main' # "abort" PROVE Programmed'
    BY DEF Programmed
  <2>0. r \notin NotWritten[backend]
    BY <1>1, Zenon
  <2>1. /\ backend = "whp" => sets <= 10 /\ regs = Blank
        /\ backend = "hvf" => sets <= 8 /\ regs = Blank
        /\ regs = Blank
        /\ backend = "kvm" =>
             cache = SetSoFar /\ (gdirty <=> sets >= 11) /\ (sdirty <=> sets >= 1)
    BY <1>1 DEF VcpuInv, Programmed
  <2>2. backend = "whp" => sets' <= 10
    <3>1. backend = "whp" /\ sets = 10 => r = "rdi" /\ r \in NotWritten[backend]
      <4> SUFFICES ASSUME backend = "whp", sets = 10 PROVE r = "rdi" /\ r \in NotWritten[backend]
        OBVIOUS
      <4>1. r = SetupX86[11]
        BY <1>4
      <4>2. r = "rdi"
        BY <4>1, SetupLens
      <4> HIDE DEF r
      <4> QED
        BY <4>2 DEF NotWritten
    <3> QED
      BY <1>1, <1>4, <2>0, <2>1, <3>1
  <2>3. backend = "hvf" => sets' <= 8
    <3>1. backend = "hvf" /\ sets = 8 => r = "x2" /\ r \in NotWritten[backend]
      <4> SUFFICES ASSUME backend = "hvf", sets = 8 PROVE r = "x2" /\ r \in NotWritten[backend]
        OBVIOUS
      <4>1. r = SetupArm[9]
        BY DEF Setup
      <4>2. r = "x2"
        BY <4>1, SetupLens
      <4> HIDE DEF r
      <4> QED
        BY <4>2 DEF NotWritten
    <3> QED
      BY <1>1, <1>4, <2>0, <2>1, <3>1
  <2>4. ASSUME backend = "kvm"
        PROVE  cache' = SetSoFar' /\ (gdirty' <=> sets' >= 11) /\ (sdirty' <=> sets' >= 1)
    <3>1. sets + 1 \in 1 .. 16 /\ r = SetupX86[sets + 1]
      <4>1. Setup = SetupX86 /\ sets \in Nat /\ sets < 16
        <5>1. Setup = SetupX86
          BY <1>4, <2>4
        <5>2. sets < Len(Setup)
          BY <1>1, Zenon
        <5>3. Len(SetupX86) = 16
          BY SetupLens
        <5> QED
          BY <1>4, <5>1, <5>2, <5>3
      <4> QED
        BY <4>1
    <3>2. /\ r \in Registers /\ (r \in General <=> sets + 1 >= 11)
          /\ (r \in Special <=> sets + 1 <= 10)
      BY <3>1, SetupGroups
    <3>3. cache' = [SetSoFar EXCEPT ![r] = Boot]
      BY <1>1, <2>1, <2>4, Zenon
    <3>4. \A i : i \in 1 .. sets' <=> i \in 1 .. sets \/ i = sets + 1
      BY <1>1, <1>4
    <3>5. SetSoFar' = [SetSoFar EXCEPT ![r] = Boot]
      BY <3>1, <3>2, <3>4, Zenon DEF SetSoFar
    <3>a. /\ (sets >= 11 \/ sets + 1 >= 11) <=> sets' >= 11
          /\ (sets >= 1 \/ sets + 1 <= 10) <=> sets' >= 1
      BY <1>1, <1>4
    <3>b. gdirty' = (gdirty \/ r \in General) /\ sdirty' = (sdirty \/ r \in Special)
      BY <1>1, Zenon
    <3> HIDE DEF r
    <3>6. gdirty' <=> sets' >= 11
      BY <2>1, <2>4, <3>2, <3>a, <3>b, Zenon
    <3>7. sdirty' <=> sets' >= 1
      BY <2>1, <2>4, <3>2, <3>a, <3>b, Zenon
    <3> QED
      BY <3>3, <3>5, <3>6, <3>7
  <2> QED
    BY <1>1, <1>2, <2>1, <2>2, <2>3, <2>4, Zenon DEF Programmed, vcpu
<1> QED
  BY <1>5, <1>6, <1>7, <1>8, <1>9 DEF VcpuInv

LEMMA CommitGeneralInv == ASSUME VcpuInv, CommitGeneral PROVE VcpuInv'
<1>1. /\ main # "abort" /\ cpu = "set" /\ sets = Len(Setup)
      /\ UNCHANGED <<hyper, host, states, cpuid, exit, shutdown>>
  BY DEF CommitGeneral, Running
<1>2. CASE Ends("Setup") /\ UNCHANGED regs
  BY <1>1, <1>2, EndsInv
<1>3. CASE /\ cpu' = "special" /\ regs' = (IF gdirty THEN Written(General) ELSE regs)
           /\ UNCHANGED <<result, objects>>
  <2>1. backend' = backend /\ cpuModel' = cpuModel /\ Steps' = Steps /\ Setup' = Setup
    BY <1>1, Static
  <2>2. UNCHANGED <<main, step, sets, cache, gdirty, sdirty>>
    BY <1>1 DEF host, states
  <2>3. Owned' /\ Leafed'
    BY <1>1, <1>3, GoesOn DEF Driving
  <2>4. backend = "kvm" /\ sets = 16
    <3>1. /\ backend = "whp" => sets <= 10
          /\ backend = "hvf" => sets <= 8
      BY <1>1 DEF VcpuInv, Programmed
    <3>2. backend \in {"kvm", "whp", "hvf"} /\ sets = IF backend = "hvf" THEN 11 ELSE 16
      BY <1>1, SetupLens, Zenon DEF VcpuInv, VcpuTypes, Setup
    <3> QED
      BY <3>1, <3>2
  <2>5. cache = SetSoFar /\ gdirty /\ sdirty /\ regs = Blank
    BY <1>1, <2>4 DEF VcpuInv, Programmed
  <2>6. SetSoFar = Booted
    <3>1. \A r \in Registers : (\E i \in 1 .. 16 : SetupX86[i] = r) <=> r \notin {"rax", "cr2"}
      BY SetupAll, SetupGroups
    <3>2. \A r \in Registers : (\E i \in 1 .. sets : SetupX86[i] = r) <=> r \notin {"rax", "cr2"}
      BY <2>4, <3>1
    <3> QED
      BY <3>2 DEF SetSoFar, Booted
  <2>7. regs' = Half
    BY <1>3, <2>5, <2>6 DEF Written, Half, Blank
  <2>8. VcpuTypes'
    <3>1. Half \in [Registers -> {Reset, Boot}]
      BY DEF Half, Booted
    <3> QED
      BY <1>1, <1>3, <2>1, <2>2, <2>7, <3>1 DEF VcpuInv, VcpuTypes
  <2>9. Programmed' /\ Exited'
    BY <1>3, <2>1, <2>2, <2>4, <2>5, <2>6, <2>7 DEF Programmed, Exited
  <2> QED
    BY <2>3, <2>8, <2>9 DEF VcpuInv
<1> QED
  BY <1>2, <1>3 DEF CommitGeneral

LEMMA CommitSpecialInv == ASSUME VcpuInv, CommitSpecial PROVE VcpuInv'
<1>1. /\ main # "abort" /\ cpu = "special"
      /\ UNCHANGED <<hyper, host, states, cpuid, exit, shutdown>>
  BY DEF CommitSpecial, Running
<1>2. CASE Ends("Setup") /\ UNCHANGED regs
  BY <1>1, <1>2, EndsInv
<1>3. CASE /\ cpu' = "check" /\ regs' = (IF sdirty THEN Written(Special) ELSE regs)
           /\ UNCHANGED <<result, objects>>
  <2>1. backend' = backend /\ cpuModel' = cpuModel /\ Steps' = Steps /\ Setup' = Setup
    BY <1>1, Static
  <2>2. UNCHANGED <<main, step, sets, cache, gdirty, sdirty>>
    BY <1>1 DEF host, states
  <2>3. Owned' /\ Leafed'
    BY <1>1, <1>3, GoesOn DEF Driving
  <2>4. backend = "kvm" /\ cache = Booted /\ sdirty /\ regs = Half
    BY <1>1 DEF VcpuInv, Programmed
  <2>5. regs' = Booted
    <3>1. \A r \in Registers : r \notin Special => r \in General
      BY DEF Registers
    <3> QED
      BY <1>3, <2>4, <3>1 DEF Written, Half, Booted
  <2>6. VcpuTypes'
    <3>1. Booted \in [Registers -> {Reset, Boot}]
      BY DEF Booted
    <3> QED
      BY <1>1, <1>3, <2>1, <2>2, <2>5, <3>1 DEF VcpuInv, VcpuTypes
  <2>7. Programmed' /\ Exited'
    BY <1>3, <2>1, <2>2, <2>4, <2>5 DEF Programmed, Exited
  <2> QED
    BY <2>3, <2>6, <2>7 DEF VcpuInv
<1> QED
  BY <1>2, <1>3 DEF CommitSpecial

(* The loop of run_cpu.                                                    *)
LEMMA LoopInv ==
    ASSUME VcpuInv, main # "abort", cpu \in {"check", "guest", "handle"},
           cpu' \in {"check", "guest", "handle"},
           cpu' = "handle" => exit' \in Accesses \cup [kind : {"hlt", "other"}],
           UNCHANGED <<hyper, host, objects, states, vcpu, shutdown, result>>
    PROVE  VcpuInv'
<1>1. backend' = backend /\ cpuModel' = cpuModel /\ Steps' = Steps /\ Setup' = Setup
  BY Static
<1>2. UNCHANGED <<main, step, sets, cache, gdirty, sdirty, regs, cpuid>>
  BY DEF host, states, vcpu
<1>3. Owned' /\ Leafed'
  BY <1>2, GoesOn DEF Driving
<1>4. VcpuTypes'
  BY <1>1, <1>2 DEF VcpuInv, VcpuTypes
<1>5. Programmed' /\ Exited'
  BY <1>1, <1>2 DEF VcpuInv, Programmed, Exited, Accesses
<1> QED
  BY <1>3, <1>4, <1>5 DEF VcpuInv

LEMMA CheckShutdownInv == ASSUME VcpuInv, CheckShutdown PROVE VcpuInv'
<1>1. /\ main # "abort" /\ cpu = "check" /\ UNCHANGED <<hyper, host, states, vcpu, exit, shutdown>>
  BY DEF CheckShutdown, Running
<1>2. CASE Ends("true")
  BY <1>1, <1>2, EndsInv DEF vcpu
<1>3. CASE cpu' = "guest" /\ UNCHANGED <<result, objects>>
  BY <1>1, <1>3, LoopInv
<1> QED
  BY <1>2, <1>3 DEF CheckShutdown

LEMMA GuestExitsInv == ASSUME VcpuInv, GuestExits PROVE VcpuInv'
<1>1. /\ main # "abort" /\ cpu = "guest" /\ UNCHANGED <<hyper, host, states, vcpu, shutdown>>
  BY DEF GuestExits, Running
<1>2. CASE Ends("Run")
  BY <1>1, <1>2, EndsInv DEF vcpu
<1>3. CASE /\ cpu' = "handle" /\ exit' \in Accesses \cup [kind : {"hlt", "other"}]
           /\ UNCHANGED <<result, objects>>
  BY <1>1, <1>3, LoopInv
<1>4. \/ Ends("Run")
      \/ /\ cpu' = "handle" /\ exit' \in Accesses \cup [kind : {"hlt", "other"}]
         /\ UNCHANGED <<result, objects>>
  BY Zenon DEF GuestExits
<1> QED
  BY <1>2, <1>3, <1>4

LEMMA HandleHltInv == ASSUME VcpuInv, HandleHlt PROVE VcpuInv'
<1>1. /\ main # "abort" /\ cpu = "handle" /\ cpu' = "check"
      /\ UNCHANGED <<hyper, host, objects, states, vcpu, shutdown, result>>
  BY DEF HandleHlt, Running, Again
<1> QED
  BY <1>1, LoopInv

LEMMA HandleIoInv == ASSUME VcpuInv, HandleIo PROVE VcpuInv'
<1>1. /\ main # "abort" /\ cpu = "handle" /\ UNCHANGED <<hyper, host, states, vcpu, shutdown>>
  BY DEF HandleIo, Running
<1>2. Again \/ \E r : Ends(r)
  BY Zenon DEF HandleIo
<1>3. CASE Again
  BY <1>1, <1>3, LoopInv DEF Again
<1>4. ASSUME NEW r, Ends(r) PROVE VcpuInv'
  BY <1>1, <1>4, EndsInv DEF vcpu
<1> QED
  BY <1>2, <1>3, <1>4

LEMMA HandleOtherInv == ASSUME VcpuInv, HandleOther PROVE VcpuInv'
<1>1. /\ main # "abort" /\ cpu = "handle" /\ main' = "abort"
      /\ UNCHANGED <<hyper, step, feats, objects, cpu, states, vcpu, shutdown, result>>
  BY DEF HandleOther, Running
<1>2. /\ backend' = backend /\ cpuModel' = cpuModel /\ Steps' = Steps /\ Setup' = Setup
      /\ Ready' = Ready
  BY <1>1, Static
<1>3. VcpuTypes'
  BY <1>1, <1>2 DEF VcpuInv, VcpuTypes, states, vcpu
<1>4. Owned' /\ Programmed' /\ Exited'
  BY <1>1, Zenon DEF VcpuInv, Owned, Programmed, Exited
<1>5. Leafed'
  BY <1>1, <1>2 DEF VcpuInv, Leafed, Driving, vcpu
<1> QED
  BY <1>3, <1>4, <1>5 DEF VcpuInv

LEMMA StillInv == ASSUME VcpuInv, UNCHANGED vcpuVars PROVE VcpuInv'
<1>1. UNCHANGED <<hyper, main, step, feats, objects, cpu, states, vcpu, exit, shutdown, result>>
  BY DEF vcpuVars, host
<1>2. /\ backend' = backend /\ cpuModel' = cpuModel /\ Steps' = Steps /\ Setup' = Setup
      /\ Ready' = Ready /\ (\A n : Held(n)' = Held(n)) /\ \A L : Needed(L)' = Needed(L)
  BY <1>1, Static
<1>3. VcpuTypes' /\ Programmed' /\ Leafed' /\ Exited'
  <2>1. VcpuTypes'
    BY <1>1, <1>2 DEF VcpuInv, VcpuTypes, states, vcpu
  <2>2. Programmed'
    <3>1. SetSoFar' = SetSoFar
      BY <1>1 DEF SetSoFar, states
    <3> QED
      BY <1>1, <1>2, <3>1 DEF VcpuInv, Programmed, states, vcpu
  <2>3. Leafed' /\ Exited'
    BY <1>1, <1>2 DEF VcpuInv, Leafed, Exited, Driving, vcpu
  <2> QED
    BY <2>1, <2>2, <2>3
<1>4. Owned'
  BY <1>1, <1>2 DEF VcpuInv, Owned, Ordered, Covers, Driven, Driving, objects
<1> QED
  BY <1>3, <1>4 DEF VcpuInv

LEMMA VcpuStart == VcpuInit => VcpuInv
<1> SUFFICES ASSUME VcpuInit PROVE VcpuInv
  OBVIOUS
<1>1. /\ backend \in {"kvm", "whp", "hvf"} /\ cpuModel \in {"Host", "Pro", "ProWithHost"}
      /\ main = "new" /\ step = 0 /\ live = {} /\ cpu = "none" /\ sets = 0
      /\ gdirty = FALSE /\ sdirty = FALSE /\ shutdown = FALSE /\ result = "none"
      /\ regs = Blank /\ cache = Blank
  BY DEF VcpuInit, Blank
<1>2. Len(Steps) \in Nat
  <2>1. CASE backend = "kvm"
    BY <2>1, StepsKvm, Names
  <2>2. CASE backend = "whp"
    BY <2>2, StepsWhp
  <2>3. CASE backend = "hvf"
    BY <2>3, StepsHvf
  <2> QED
    BY <1>1, <2>1, <2>2, <2>3
<1>3. Len(Setup) \in Nat
  BY SetupLens DEF Setup
<1>4. VcpuTypes
  <2>1. gdirty \in BOOLEAN /\ sdirty \in BOOLEAN /\ shutdown \in BOOLEAN
    BY <1>1, Zenon
  <2>2. Blank \in [Registers -> {Reset, Boot}]
    BY DEF Blank
  <2>3. step \in 0 .. Len(Steps) /\ sets \in 0 .. Len(Setup)
    BY <1>1, <1>2, <1>3
  <2> QED
    BY <1>1, <2>1, <2>2, <2>3, Zenon DEF VcpuTypes
<1>5. Owned
  BY <1>1 DEF Owned, Held
<1>6. Programmed /\ Leafed /\ Exited
  BY <1>1 DEF Programmed, Leafed, Exited, Driving
<1> QED
  BY <1>4, <1>5, <1>6 DEF VcpuInv

LEMMA VcpuStep == VcpuInv /\ [VcpuNext]_vcpuVars => VcpuInv'
<1> SUFFICES ASSUME VcpuInv, [VcpuNext]_vcpuVars PROVE VcpuInv'
  OBVIOUS
<1>1. CASE AskMore \/ NewStep \/ SetCpuModel \/ SpawnCpu
  BY <1>1, AskMoreInv, NewStepInv, SetCpuModelInv, SpawnCpuInv
<1>2. CASE NewFails \/ BuildFails \/ Shutdown \/ Join \/ DropOne
  BY <1>2, NewFailsInv, BuildFailsInv, ShutdownInv, JoinInv, DropOneInv
<1>3. CASE CreateCpu \/ CreateFails \/ GetStates \/ SetRegister
  BY <1>3, CreateCpuInv, CreateFailsInv, GetStatesInv, SetRegisterInv
<1>4. CASE CommitGeneral \/ CommitSpecial \/ CheckShutdown
  BY <1>4, CommitGeneralInv, CommitSpecialInv, CheckShutdownInv
<1>5. CASE GuestExits \/ HandleHlt \/ HandleOther \/ HandleIo
  BY <1>5, GuestExitsInv, HandleHltInv, HandleOtherInv, HandleIoInv
<1>6. CASE UNCHANGED vcpuVars
  BY <1>6, StillInv
<1> QED
  BY <1>1, <1>2, <1>3, <1>4, <1>5, <1>6 DEF VcpuNext, Start, Stopped

(* For any number of vCPUs and CPUID leaves, and for all three             *)
(* hypervisors: on every path from hv::new to the last drop, an early      *)
(* return of hv::new or of Vmm::new included, nothing the host holds is    *)
(* dropped before what depends on it, and in the end nothing is left.      *)
THEOREM VcpuDrops == VcpuSpec => []DropOrder
<1>1. VcpuInv => DropOrder
  <2> SUFFICES ASSUME VcpuInv, main # "abort"
               PROVE  /\ Needed(live)
                      /\ "run" \in live => Cpus[1] \in live
                      /\ "vp" \in live => live \cap {"vm", "part"} # {}
                      /\ main = "gone" => live = {} /\ cpu \in {"none", "done"}
    BY DEF DropOrder, Needed
  <2>0. "run" \notin Objects /\ "vp" \notin Objects
    BY Names DEF Objects, StepNames
  <2>1. CASE main = "new"
    <3>1. live = Held(step) /\ step \in 0 .. Len(Steps) /\ VcpuTypes
      BY <2>1 DEF VcpuInv, Owned, VcpuTypes
    <3> QED
      BY <2>0, <2>1, <3>1, HeldNeeded
  <2>2. CASE main \in {"build", "loop", "join"}
    <3>1. live = Held(step) \cup Driven /\ step = Len(Steps) /\ step \in 0 .. Len(Steps) /\ VcpuTypes
      BY <2>2 DEF VcpuInv, Owned, VcpuTypes
    <3>2. Driven \subseteq {"run", "vp"} /\ Held(step) \subseteq Objects
          /\ ("run" \in Driven => backend = "kvm") /\ ("vp" \in Driven => backend # "kvm")
      BY DEF Driven, Held
    <3>3. Needed(Held(step))
      BY <3>1, HeldNeeded
    <3>4. \A o \in Vcpus : o # "run" /\ o # "vp"
      BY Names DEF StepNames
    <3>5. Needed(live)
      BY <3>1, <3>2, <3>3, <3>4, Zenon DEF Needed
    <3> QED
      BY <2>0, <2>2, <3>1, <3>2, <3>5, HeldAll
  <2>3. CASE main \in {"dropping", "gone"}
    BY <2>0, <2>3 DEF VcpuInv, Owned
  <2> QED
    BY <2>1, <2>2, <2>3 DEF VcpuInv, VcpuTypes
<1> QED
  BY <1>1, VcpuStart, VcpuStep, PTL DEF VcpuSpec

(* set_cpuid keeps one leaf for each id.                                   *)
OneEach(fs) ==
    /\ {fs[i].id : i \in DOMAIN fs} = {Supported[i].id : i \in Plain}
    /\ \A i, j \in DOMAIN fs : fs[i].id = fs[j].id => i = j
    /\ \A i \in DOMAIN fs : fs[i].from = "pro" <=> fs[i].id = 1 /\ cpuModel = "Pro"

LEMMA Leaves == OneEach(Ready)
<1>1. /\ DOMAIN HostFeats = Plain
      /\ \A i \in Plain : HostFeats[i].id = Supported[i].id /\ HostFeats[i].from = "host"
  BY DEF HostFeats
<1>4. \A i, j \in Plain : Supported[i].id = Supported[j].id => i = j
  BY VcpuAssumption
<1>2. CASE cpuModel # "Pro"
  <2>1. Ready = HostFeats
    BY <1>2 DEF Ready
  <2> QED
    <3>1. /\ DOMAIN HostFeats = Plain
          /\ \A i \in Plain : HostFeats[i].id = Supported[i].id /\ HostFeats[i].from # "pro"
      BY <1>1
    <3>2. {HostFeats[i].id : i \in DOMAIN HostFeats} = {Supported[i].id : i \in Plain}
      BY <3>1
    <3> QED
      BY <1>2, <1>4, <2>1, <3>1, <3>2 DEF OneEach
<1>3. CASE cpuModel = "Pro"
  <2>1. PICK k \in Plain : Supported[k].id = 1
    BY VcpuAssumption
  <2>2. ProLeaf.id = 1 /\ ProLeaf.from = "pro"
    BY DEF ProLeaf
  <2>3. SameLeaf(HostFeats) = {k}
    <3>1. \A i \in Plain : HostFeats[i].id = ProLeaf.id <=> i = k
      BY <1>1, <1>4, <2>1, <2>2
    <3> QED
      BY <1>1, <2>1, <3>1 DEF SameLeaf
  <2>4. k \in Int
    BY <2>1, VcpuAssumption DEF Plain
  <2>5. First({k}) = k
    BY <2>4 DEF First
  <2>6. Ready = [HostFeats EXCEPT ![k] = ProLeaf]
    <3>1. SameLeaf(HostFeats) # {} /\ First(SameLeaf(HostFeats)) = k
      BY <2>3, <2>5
    <3> QED
      BY <1>3, <3>1 DEF Ready, WithLeaf
  <2>7. PICK fs : fs = Ready
    OBVIOUS
  <2>8. /\ DOMAIN fs = Plain /\ fs[k] = ProLeaf
        /\ \A i \in Plain : i # k => fs[i] = HostFeats[i]
    BY <1>1, <2>1, <2>6, <2>7
  <2>9. /\ DOMAIN fs = Plain
        /\ \A i \in Plain : fs[i].id = Supported[i].id
        /\ \A i \in Plain : fs[i].from = "pro" <=> i = k
    BY <1>1, <2>1, <2>2, <2>8
  <2>10. \A i, j \in Plain : Supported[i].id = Supported[j].id => i = j
    BY VcpuAssumption
  <2>11. \A i \in Plain : i = k <=> fs[i].id = 1
    BY <2>1, <2>9, <2>10
  <2> QED
    <3>1. OneEach(fs)
      <4>1. {fs[i].id : i \in DOMAIN fs} = {Supported[i].id : i \in Plain}
        BY <2>9
      <4> QED
        BY <1>3, <2>9, <2>10, <2>11, <4>1 DEF OneEach
    <3> QED
      BY <2>7, <3>1
<1> QED
  BY <1>2, <1>3

(* For any number of vCPUs, any CPUID leaves of the host and any failures: *)
(* main_cpu enters the guest with exactly the registers of setup_main_cpu, *)
(* and with the leaves of the model in the profile.                        *)
THEOREM VcpuEnters == VcpuSpec => []EntersBooted
<1>1. VcpuInv => EntersBooted
  <2> SUFFICES ASSUME VcpuInv, cpu = "guest" PROVE EntersBooted
    BY Zenon DEF EntersBooted
  <2>1. main # "abort"
    BY DEF VcpuInv, Owned
  <2>2. backend = "kvm" /\ regs = Booted
    BY <2>1 DEF VcpuInv, Programmed
  <2>3. cpuid = Ready
    BY <2>2 DEF VcpuInv, Leafed, Driving
  <2>4. \A r \in Registers : regs[r] = IF r \in {"rax", "cr2"} THEN Reset ELSE Boot
    BY <2>2 DEF Booted
  <2> QED
    <3>1. OneEach(cpuid)
      BY <2>3, Leaves
    <3> QED
      BY <2>4, <3>1, Zenon DEF EntersBooted, OneEach
<1> QED
  BY <1>1, VcpuStart, VcpuStep, PTL DEF VcpuSpec

(* The devices' blocks.                                                    *)
LEMMA Blocks ==
    /\ DeviceAddr("vmm") = RamSize /\ DeviceEnd("vmm") = RamSize + BlockSize
    /\ DeviceAddr("console") = RamSize + BlockSize
    /\ DeviceEnd("console") = RamSize + 2 * BlockSize
<1>1. ASSUME NEW n \in {1, 24} PROVE RoundUp(n) = BlockSize
  <2>1. BlockSize \in Nat /\ BlockSize >= 24
    BY VcpuAssumption
  <2>2. (n + BlockSize - 1) \div BlockSize = 1
    <3>1. PICK q : q = (n + BlockSize - 1) \div BlockSize
      OBVIOUS
    <3>2. n + BlockSize - 1 \in Nat /\ n + BlockSize - 1 >= BlockSize
          /\ n + BlockSize - 1 < 2 * BlockSize
      BY <2>1
    <3> QED
      BY <2>1, <3>2
  <2> QED
    BY <2>1, <2>2 DEF RoundUp
<1>2. MemoryLen["vmm"] = 1 /\ MemoryLen["console"] = 24
  BY DEF MemoryLen
<1>3. DeviceLen("vmm") = BlockSize /\ DeviceLen("console") = BlockSize
  BY <1>1, <1>2 DEF DeviceLen
<1> QED
  <2>1. RamSize \in Nat /\ BlockSize \in Nat
    BY VcpuAssumption
  <2>2. DeviceAddr("vmm") = RamSize /\ DeviceAddr("console") = RamSize + BlockSize
    BY <1>3 DEF DeviceAddr
  <2> QED
    BY <1>3, <2>1, <2>2 DEF DeviceEnd

LEMMA Targets ==
    ASSUME NEW a \in Nat, a >= RamSize
    PROVE  /\ Target(a) \subseteq {"vmm", "console"}
           /\ "vmm" \in Target(a) <=> a < RamSize + BlockSize
           /\ "console" \in Target(a) <=> a >= RamSize + BlockSize /\ a < RamSize + 2 * BlockSize
<1>1. RamSize \in Nat /\ BlockSize \in Nat /\ BlockSize >= 24
  BY VcpuAssumption
<1>2. \A d \in Devices : d = "vmm" \/ d = "console"
  BY DEF Devices
<1>3. "vmm" \in Devices /\ "console" \in Devices /\ "vmm" # "console"
  BY DEF Devices
<1> DEFINE below == {d \in Devices : DeviceAddr(d) <= a}
<1>4. "vmm" \in below /\ ("console" \in below <=> a >= RamSize + BlockSize)
  BY <1>1, <1>3, Blocks
<1>5. \A d : d \in Target(a) <=>
        d \in below /\ (\A e \in below : DeviceAddr(e) <= DeviceAddr(d)) /\ a < DeviceEnd(d)
  BY DEF Target
<1>6. Target(a) \subseteq {"vmm", "console"}
  BY <1>2 DEF Target
<1>7. "vmm" \in Target(a) <=> a < RamSize + BlockSize
  <2>1. CASE a < RamSize + BlockSize
    <3>1. \A e \in below : e = "vmm"
      BY <1>1, <1>2, <1>4, <2>1
    <3> QED
      BY <1>1, <1>4, <1>5, <2>1, <3>1, Blocks
  <2>2. CASE a >= RamSize + BlockSize
    <3>1. "console" \in below /\ ~(DeviceAddr("console") <= DeviceAddr("vmm"))
      BY <1>1, <1>4, <2>2, Blocks
    <3> QED
      BY <1>1, <1>5, <2>2, <3>1
  <2> QED
    BY <1>1, <2>1, <2>2
<1>8. "console" \in Target(a) <=> a >= RamSize + BlockSize /\ a < RamSize + 2 * BlockSize
  <2>1. \A e \in below : DeviceAddr(e) <= DeviceAddr("console")
    BY <1>1, <1>2, Blocks
  <2> QED
    BY <1>4, <1>5, <2>1, Blocks
<1> QED
  BY <1>6, <1>7, <1>8

LEMMA IoStep ==
    ASSUME VcpuInv, HandleIo
    PROVE  /\ result' = "true" <=> exit.addr = RamSize /\ exit.data = "success"
           /\ result' = "false" <=> exit.addr = RamSize /\ exit.data = "panic"
           /\ result' = "MmioAddr" <=> exit.addr >= RamSize + 2 * BlockSize
           /\ cpu' = "check" => exit.addr >= RamSize + BlockSize
<1>1. /\ main # "abort" /\ cpu = "handle" /\ exit.kind = "io"
      /\ LET ds == Target(exit.addr) IN
         \/ ds = {} /\ Ends("MmioAddr")
         \/ "vmm" \in ds /\ Ends(VmmMmio(exit.addr - DeviceAddr("vmm"), exit.data))
         \/ "console" \in ds /\ Ends("Mmio")
         \/ "console" \in ds /\ Again
  BY DEF HandleIo, Running
<1>2. exit \in Accesses
  <2>1. exit \in Accesses \cup [kind : {"hlt", "other"}]
    BY <1>1 DEF VcpuInv, Exited
  <2>2. \A e \in [kind : {"hlt", "other"}] : e.kind # "io"
    OBVIOUS
  <2> QED
    BY <1>1, <2>1, <2>2
<1>3. PICK a, d : a = exit.addr /\ d = exit.data
  OBVIOUS
<1>4. a \in Nat /\ a >= RamSize /\ d \in {"read", "success", "panic", "invalid"}
  BY <1>2, <1>3, VcpuAssumption DEF Accesses
<1>5. /\ Target(a) \subseteq {"vmm", "console"}
      /\ "vmm" \in Target(a) <=> a < RamSize + BlockSize
      /\ "console" \in Target(a) <=> a >= RamSize + BlockSize /\ a < RamSize + 2 * BlockSize
  BY <1>4, Targets
<1>6. RamSize \in Nat /\ BlockSize \in Nat /\ BlockSize >= 24
  BY VcpuAssumption
<1>7. result = "none"
  BY <1>1, Alive
<1>8. CASE Target(a) = {} /\ Ends("MmioAddr")
  <2>1. a >= RamSize + 2 * BlockSize /\ a # RamSize
    BY <1>4, <1>5, <1>6, <1>8
  <2>2. cpu' = "done" /\ result' = "MmioAddr"
    BY <1>8 DEF Ends
  <2> QED
    BY <1>3, <2>1, <2>2
<1>9. CASE "vmm" \in Target(a) /\ Ends(VmmMmio(a - RamSize, d))
  <2>1. ~(a >= RamSize + 2 * BlockSize)
    BY <1>4, <1>5, <1>6, <1>9
  <2>2. cpu' = "done" /\ result' = VmmMmio(a - RamSize, d)
    BY <1>9 DEF Ends
  <2>3. a - RamSize \in Fields["vmm"] <=> a = RamSize
    BY <1>4, <1>6 DEF Fields
  <2>4. /\ VmmMmio(a - RamSize, d) = "true" <=> a = RamSize /\ d = "success"
        /\ VmmMmio(a - RamSize, d) = "false" <=> a = RamSize /\ d = "panic"
        /\ VmmMmio(a - RamSize, d) # "MmioAddr"
    BY <1>4, <2>3 DEF VmmMmio
  <2> QED
    BY <1>3, <2>1, <2>2, <2>4
<1>10. CASE "console" \in Target(a) /\ Ends("Mmio")
  <2>1. ~(a >= RamSize + 2 * BlockSize) /\ a # RamSize
    BY <1>4, <1>5, <1>6, <1>10
  <2>2. cpu' = "done" /\ result' = "Mmio"
    BY <1>10 DEF Ends
  <2> QED
    BY <1>3, <2>1, <2>2
<1>11. CASE "console" \in Target(a) /\ Again
  <2>1. ~(a >= RamSize + 2 * BlockSize) /\ a # RamSize /\ a >= RamSize + BlockSize
    BY <1>4, <1>5, <1>6, <1>11
  <2>2. result' = "none"
    BY <1>7, <1>11 DEF Again
  <2> QED
    BY <1>3, <2>1, <2>2
<1>12. DeviceAddr("vmm") = RamSize
  BY Blocks
<1> QED
  BY <1>1, <1>3, <1>8, <1>9, <1>10, <1>11, <1>12

(* For any RAM, block size and addresses: every access of the guest is     *)
(* handled by the device whose block it is in, and only the first byte     *)
(* after the RAM gives the kernel's exit status.                           *)
THEOREM VcpuDispatch == VcpuSpec => RightDevice
<1> DEFINE Right ==
      cpu = "handle" /\ exit.kind = "io" /\ cpu' # cpu =>
       /\ result' = "true" <=> exit.addr = RamSize /\ exit.data = "success"
       /\ result' = "false" <=> exit.addr = RamSize /\ exit.data = "panic"
       /\ result' = "MmioAddr" <=> exit.addr >= RamSize + 2 * BlockSize
       /\ cpu' = "check" => exit.addr >= RamSize + BlockSize
<1>1. VcpuInv /\ [VcpuNext]_vcpuVars => [Right]_vcpuVars
  <2> SUFFICES ASSUME VcpuInv, VcpuNext, cpu = "handle", exit.kind = "io", cpu' # cpu
               PROVE  Right
    BY DEF vcpuVars
  <2>1. main # "build"
    BY DEF VcpuInv, Owned
  <2>2. CASE HandleIo
    BY <2>2, IoStep
  <2>3. CASE HandleHlt
    BY <2>3 DEF HandleHlt
  <2>4. CASE CreateCpu \/ CreateFails \/ GetStates \/ SetRegister
    BY <2>4, Zenon DEF CreateCpu, CreateFails, GetStates, SetRegister, Running
  <2>5. CASE CommitGeneral \/ CommitSpecial \/ CheckShutdown \/ GuestExits
    BY <2>5, Zenon DEF CommitGeneral, CommitSpecial, CheckShutdown, GuestExits, Running
  <2>6. CASE HandleOther \/ Stopped
    BY <2>6 DEF HandleOther, Stopped, vcpuVars
  <2>7. CASE Start
    BY <2>1, <2>7 DEF Start, AskMore, NewStep, SetCpuModel, SpawnCpu
  <2>8. CASE NewFails \/ BuildFails \/ Shutdown \/ Join \/ DropOne
    BY <2>8 DEF NewFails, BuildFails, Shutdown, Join, DropOne
  <2> QED
    BY <2>2, <2>3, <2>4, <2>5, <2>6, <2>7, <2>8, Zenon DEF VcpuNext
<1> QED
  BY <1>1, VcpuStart, VcpuStep, PTL DEF VcpuSpec, RightDevice
=============================================================================

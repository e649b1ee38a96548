-------------------------------- MODULE MCVm --------------------------------
(* Two ways to use an address space.  "module": the kernel loads a module   *)
(* and the application maps and names, where a virtual page is a host page. *)
(* "library": any caller, where a virtual page is two host pages.           *)
EXTENDS ModuleMemory

VARIABLE part

MCImages ==
    {[base |-> 0, programs |->
        {[ty |-> "PT_LOAD", addr |-> 0, len |-> PAGE, prot |-> {"CPU_READ", "CPU_EXEC"}],
         [ty |-> "PT_SCE_RELRO", addr |-> PAGE, len |-> PAGE, prot |-> {"CPU_READ"}],
         [ty |-> "PT_LOAD", addr |-> 2 * PAGE, len |-> PAGE, prot |-> {"CPU_READ"}]}]}

MCProts == {{"GPU_READ"}}
LibProts == {STACK_PROT, {"GPU_READ"}}
Anon(n) == [len |-> n, flags |-> {"MAP_ANON"}, fd |-> -1, offset |-> 0]
MCRequests == {Anon(1)}
LibRequests ==
    {Anon(1), Anon(4), [Anon(2) EXCEPT !.fd = 3], [Anon(2) EXCEPT !.flags = {"MAP_FIXED"}]}

L == INSTANCE VmSpace WITH PAGE <- 2, STACK <- 2,
        Lens <- {0, 1, 3}, Prots <- LibProts, Requests <- LibRequests

ASSUME L!VmAssumption

MCInit == ModInit /\ part \in {"module", "library"}

MCNext ==
    /\ \/ part = "module" /\ ModNext
       \/ part = "library" /\ L!Next /\ UNCHANGED modvars
    /\ UNCHANGED part

MCSpec == MCInit /\ [][MCNext]_<<allvars, part>>

MCView == <<allocations, host, pending, boot, modvars, part>>

(* A module alone.                                                         *)
LeakSpec == ModInit /\ part = "module" /\ [][ModNext /\ UNCHANGED part]_<<allvars, part>>
=============================================================================

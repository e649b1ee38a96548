------------------------------ MODULE Process ------------------------------
(***************************************************************************)
(* The process manager of the older kernel (process/mod.rs): process ids,  *)
(* thread ids, the list of processes and the session of a process.         *)
(*                                                                         *)
(* `spawn' takes a process id under the locks of alloc_pid and releases    *)
(* them; it adds the process to the list only after its address space and  *)
(* its main thread exist, so another spawn may run in between.  The list   *)
(* holds weak references: a process that is gone keeps its entry.  The     *)
(* kernel spawns one process with a high id while it starts, before        *)
(* anything else spawns (main.rs).  No system call spawns yet; the model   *)
(* has the ordinary spawns that the function is written for.               *)
(*                                                                         *)
(* A thread id is counted from PID_MAX + 1, the id of thread0.             *)
(***************************************************************************)
EXTENDS Integers, FiniteSets

CONSTANTS
    Spawners,    \* threads that call spawn
    MaxPid,      \* bound: no spawn starts when the next id could pass it
    MaxTid       \* bound on the thread ids handed out

\* Ids of proc0 and of the idle process (process/pid.rs).
KERNEL == 0
IDLE == 10

ASSUME ProcessAssumption ==
    /\ MaxPid \in Nat /\ MaxPid >= IDLE
    /\ MaxTid \in Nat

VARIABLES
    procs,       \* keys of the process list
    alive,       \* processes that still have a strong reference
    last_pid,    \* lastpid
    spawning,    \* the process id a spawner has taken, or None
    booted,      \* whether the kernel has spawned the first process
    threads,     \* p_threads of every process: pairs of process and thread id
    next_tid,    \* NEXT_TID
    group        \* the processes that lead a session, with its login name

procvars == <<procs, alive, last_pid, spawning, booted, threads, next_tid, group>>

None == -1
Logins == {"root", "user"}

(***************************************************************************)
(* ProcManager::new: proc0 with its first thread, and the idle process.    *)
(***************************************************************************)
ProcessInit ==
    /\ procs = {KERNEL, IDLE} /\ alive = {KERNEL, IDLE}
    /\ last_pid = 0
    /\ spawning = [s \in Spawners |-> None]
    /\ booted = FALSE
    /\ threads = {<<KERNEL, 0>>}
    /\ next_tid = 1
    /\ group = [p \in {} |-> "root"]

Least(S) == CHOOSE x \in S : \A y \in S : x <= y

(***************************************************************************)
(* alloc_pid: the first id from last_pid + 1 that is no key of the list; a *)
(* high id starts at 10 and leaves last_pid alone.  (The tables of         *)
(* sessions and groups are searched too; nothing is ever put into them.)   *)
(***************************************************************************)
(* Mutant: the search starts over at 1 instead of after last_pid. *)
UnusedFromStart(from) == Least({p \in 1..(MaxPid + 1) : p \notin procs})

Unused(from) == Least({p \in from..(MaxPid + 1) : p \notin procs})

alloc_pid(s, high) ==
    LET start == IF high /\ last_pid + 1 < 10 THEN 10 ELSE last_pid + 1
        pid   == Unused(start)
    IN  /\ pid <= MaxPid
        /\ spawning' = [spawning EXCEPT ![s] = pid]
        /\ last_pid' = IF high THEN last_pid ELSE pid

(***************************************************************************)
(* main.rs spawns the first process with kernel = true, once and with no   *)
(* other spawn under way.  `spawn' does not enforce it: a high id leaves   *)
(* last_pid alone, so that two high spawns at once would get the same id.  *)
(***************************************************************************)
KernelStarts == ~booted /\ \A t \in Spawners : spawning[t] = None

(* `spawn', up to the end of alloc_pid.                                    *)
spawn(s) ==
    /\ spawning[s] = None
    /\ \/ KernelStarts /\ alloc_pid(s, TRUE)
       \/ booted /\ alloc_pid(s, FALSE)
    /\ UNCHANGED <<procs, alive, booted, threads, next_tid, group>>

(***************************************************************************)
(* VProc::new loads the limits and creates the address space, and either   *)
(* may fail; otherwise the process gets its main thread and is listed.     *)
(***************************************************************************)
spawn_fails(s) ==
    /\ spawning[s] # None
    /\ spawning' = [spawning EXCEPT ![s] = None]
    /\ UNCHANGED <<procs, alive, last_pid, booted, threads, next_tid, group>>

spawn_listed(s) ==
    /\ spawning[s] # None
    /\ next_tid <= MaxTid
    /\ threads' = threads \cup {<<spawning[s], next_tid>>}
    /\ next_tid' = next_tid + 1
    /\ procs' = procs \cup {spawning[s]}
    /\ alive' = alive \cup {spawning[s]}
    /\ booted' = TRUE
    /\ spawning' = [spawning EXCEPT ![s] = None]
    /\ UNCHANGED <<last_pid, group>>

spawn_kthread ==
    /\ next_tid <= MaxTid
    /\ threads' = threads \cup {<<KERNEL, next_tid>>}
    /\ next_tid' = next_tid + 1
    /\ UNCHANGED <<procs, alive, last_pid, spawning, booted, group>>

(***************************************************************************)
(* Dropping `Running' takes the thread off the list of its process; a      *)
(* process whose threads are gone loses its last strong reference.         *)
(***************************************************************************)
exit(td) ==
    /\ td[1] # KERNEL
    /\ threads' = threads \ {td}
    /\ UNCHANGED <<procs, alive, last_pid, spawning, booted, next_tid, group>>

gone(pid) ==
    /\ pid \notin {KERNEL, IDLE}
    /\ \A td \in threads : td[1] # pid
    /\ alive' = alive \ {pid}
    /\ group' = [p \in DOMAIN group \ {pid} |-> group[p]]
    /\ UNCHANGED <<procs, last_pid, spawning, booted, threads, next_tid>>

(***************************************************************************)
(* sys_setsid answers EPERM to a process that leads a session already;     *)
(* sys_setlogin renames the session, and panics without one.               *)
(***************************************************************************)
sys_setsid(td) ==
    /\ td[1] \notin DOMAIN group
    /\ group' = [p \in DOMAIN group \cup {td[1]} |->
                    IF p = td[1] THEN "root" ELSE group[p]]
    /\ UNCHANGED <<procs, alive, last_pid, spawning, booted, threads, next_tid>>

sys_setlogin(td, login) ==
    /\ td[1] \in DOMAIN group
    /\ group' = [group EXCEPT ![td[1]] = login]
    /\ UNCHANGED <<procs, alive, last_pid, spawning, booted, threads, next_tid>>

\* The threads an application may call from: those of listed processes.
User == {td \in threads : td[1] \in alive \ {KERNEL, IDLE}}

ProcessNext ==
    \/ \E s \in Spawners : spawn(s) \/ spawn_fails(s) \/ spawn_listed(s)
    \/ spawn_kthread
    \/ \E td \in threads : exit(td)
    \/ \E pid \in alive : gone(pid)
    \/ \E td \in User : sys_setsid(td) \/ \E l \in Logins : sys_setlogin(td, l)

ProcessSpec == ProcessInit /\ [][ProcessNext]_procvars

(***************************************************************************)
(* With the one high spawn of main.rs and any ordinary spawns after it,    *)
(* the id a spawn has taken is its own until the process is listed: no     *)
(* process alive and no other spawn has it, so the assertion in `spawn'    *)
(* that the entry it replaces has no strong reference left never fails.    *)
(* Thread ids are never shared either, and no listed process without a     *)
(* reference leads a session.                                              *)
(***************************************************************************)
OwnPid ==
    /\ \A s, t \in Spawners :
          spawning[s] # None =>
              /\ spawning[s] \notin alive
              /\ s # t => spawning[s] # spawning[t]
    /\ \A a, b \in threads : a[2] = b[2] => a = b
    /\ DOMAIN group \subseteq alive
    /\ alive \subseteq procs
=============================================================================

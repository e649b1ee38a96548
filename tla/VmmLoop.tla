------------------------------ MODULE VmmLoop ------------------------------
(***************************************************************************)
(* The virtual machine monitor at run time: the vCPU threads               *)
(* (Vmm::main_cpu and run_cpu in src/gui/src/vmm/mod.rs), the main task    *)
(* that attends to the debugger, the logs and the vCPU exits (main.rs and  *)
(* Vmm::recv), the window that may be closed, and Vmm::drop.               *)
(*                                                                         *)
(* The threads talk through the log channel (Channel), one oneshot channel *)
(* per vCPU, and the shutdown flag.  The build panics by aborting, so a    *)
(* todo!() anywhere ends everything.                                       *)
(***************************************************************************)
EXTENDS Integers, Sequences, FiniteSets

CONSTANTS
    Cpus,      \* vCPU ids; the code starts only the main one, 0
    Max,       \* capacity of the log channel, 100 in the code
    MaxLogs,   \* bound: logs a guest writes before it panics
    Debugger   \* TRUE if a debugger is connected

ASSUME LoopAssumption ==
    0 \in Cpus /\ IsFiniteSet(Cpus) /\ Max \in Nat \ {0} /\ MaxLogs \in Nat
    /\ Debugger \in BOOLEAN

VARIABLES
    items, waiter, waiting, woken, calling, asleep, sent, got,  \* see Channel
    cpu,        \* where the thread of each vCPU is
    result,     \* what its main_cpu returned
    panicked,   \* vCPUs whose kernel is in its panic handler
    told,       \* oneshot channels whose value has been sent
    exitWaker,  \* oneshot channels that hold the Waker of the main task
    cpus,       \* Vmm::cpus
    shutdown,   \* the flag shared with the vCPUs and the window
    main,       \* where the main task is
    joining,    \* the vCPU Vmm::recv joins, when main = "join"
    outcome     \* why the event loop ended, or Abort

chan == <<items, waiter, waiting, woken, calling, asleep, sent, got>>
thread == <<cpu, result, panicked>>
loop == <<told, exitWaker, cpus, shutdown, main, joining, outcome>>
vars == <<chan, thread, loop>>

(* The main task as Channel's receiving task.                              *)
TaskOf == CASE main = "idle" -> "idle" [] main \in {"exits", "join"} -> "polled"
            [] OTHER -> "running"

Logs == INSTANCE Channel WITH
    Senders <- Cpus, MaxMsgs <- MaxLogs + 1, task <- TaskOf, quiet <- FALSE

Init ==
    /\ items = <<>> /\ waiter = FALSE /\ waiting = FALSE /\ woken = FALSE
    /\ calling = {} /\ asleep = {}
    /\ sent = [c \in Cpus |-> 0] /\ got = [c \in Cpus |-> 0]
    /\ cpu = [c \in Cpus |-> "boot"]
    /\ result = [c \in Cpus |-> "none"]
    /\ panicked = {}
    /\ told = {} /\ exitWaker = {} /\ cpus = Cpus
    /\ shutdown = FALSE
    /\ main = "select" /\ joining = 0 /\ outcome = "none"

-----------------------------------------------------------------------------
(* The thread of vCPU c.                                                   *)

Goto(c, p) == cpu' = [cpu EXCEPT ![c] = p]

Finish(c, r) == Goto(c, "ending") /\ result' = [result EXCEPT ![c] = r]

(* create_cpu and setup_main_cpu may fail.  The code passes no debugger.   *)
Boot(c) ==
    /\ cpu[c] = "boot"
    /\ Finish(c, "Err") \/ (Goto(c, "check") /\ UNCHANGED result)
    /\ UNCHANGED <<chan, panicked, loop>>

(* The top of run_cpu's loop.                                              *)
CheckIgnoresFlag(c) ==
    /\ cpu[c] = "check"
    /\ Goto(c, "guest") /\ UNCHANGED result
    /\ UNCHANGED <<chan, panicked, loop>>

Check(c) ==
    /\ cpu[c] = "check"
    /\ IF shutdown THEN Finish(c, "true")
                   ELSE Goto(c, "guest") /\ UNCHANGED result
    /\ UNCHANGED <<chan, panicked, loop>>

(* The guest halts, or tells the console a length or an address.           *)
GuestSilent(c) ==
    /\ cpu[c] = "guest" /\ Goto(c, "check")
    /\ UNCHANGED <<chan, result, panicked, loop>>

(* The guest commits a log, the last one from its panic handler; the       *)
(* thread blocks in send() while the channel is full.                      *)
SendLog(c) ==
    /\ Logs!Send(c)
    /\ Goto(c, IF c \in calling' THEN "send" ELSE "check")
    /\ UNCHANGED <<waiting, got, result, loop>>

GuestLog(c) ==
    /\ cpu[c] = "guest" /\ c \notin panicked
    /\ \/ sent[c] < MaxLogs /\ UNCHANGED panicked
       \/ panicked' = panicked \cup {c}
    /\ SendLog(c)

SendResumes(c) ==
    /\ cpu[c] = "send" /\ c \notin asleep
    /\ SendLog(c)
    /\ UNCHANGED panicked

SpuriousWake(c) ==
    /\ c \in asleep /\ asleep' = asleep \ {c}
    /\ UNCHANGED <<items, waiter, waiting, woken, calling, sent, got, thread, loop>>

(* The guest writes the shutdown register, Panic only in its panic handler *)
(* and after the log; or the exit is one the VMM cannot handle.            *)
GuestShutdown(c) ==
    /\ cpu[c] = "guest"
    /\ Finish(c, IF c \in panicked THEN "false" ELSE "true")
    /\ UNCHANGED <<chan, panicked, loop>>

GuestError(c) ==
    /\ cpu[c] = "guest" /\ Finish(c, "Err")
    /\ UNCHANGED <<chan, panicked, loop>>

(* A debug exit, or one of no known kind, is a todo!().                    *)
Todo(c) ==
    /\ cpu[c] = "guest" /\ outcome' = "Abort"
    /\ UNCHANGED <<chan, thread, told, exitWaker, cpus, shutdown, main, joining>>

(* tx.send(()), then the thread returns.                                   *)
Announce(c) ==
    /\ cpu[c] = "ending" /\ Goto(c, "returning")
    /\ told' = told \cup {c}
    /\ woken' = (woken \/ c \in exitWaker)
    /\ UNCHANGED <<items, waiter, waiting, calling, asleep, sent, got, result, panicked>>
    /\ UNCHANGED <<exitWaker, cpus, shutdown, main, joining, outcome>>

Return(c) ==
    /\ cpu[c] = "returning" /\ Goto(c, "gone")
    /\ UNCHANGED <<chan, result, panicked, loop>>

Thread(c) ==
    \/ Boot(c) \/ Check(c) \/ GuestSilent(c) \/ GuestLog(c) \/ SendResumes(c)
    \/ SpuriousWake(c) \/ GuestShutdown(c) \/ GuestError(c) \/ Todo(c)
    \/ Announce(c) \/ Return(c)

-----------------------------------------------------------------------------
(* The main task.                                                          *)

(* Polling starts over when the task was woken since the last poll began.  *)
Schedule ==
    /\ main = "idle" /\ woken
    /\ main' = "select" /\ woken' = FALSE
    /\ UNCHANGED <<items, waiter, waiting, calling, asleep, sent, got, thread>>
    /\ UNCHANGED <<told, exitWaker, cpus, shutdown, joining, outcome>>

EndLoop(why) == main' = "drop" /\ outcome' = why

(* The debugger's socket is looked at first; the receive in progress is    *)
(* dropped when it has something.                                          *)
GdbRead ==
    /\ Debugger /\ main = "select"
    /\ Logs!DropRecv
    /\ \/ main' = "reply" /\ UNCHANGED outcome
       \/ EndLoop("Eof") \/ EndLoop("GdbError")
    /\ UNCHANGED <<woken, calling, asleep, sent, got, thread>>
    /\ UNCHANGED <<told, exitWaker, cpus, shutdown, joining>>

(* dispatch_gdb: the requests are handled, some of which are a todo!(),    *)
(* and answered.  write_all suspends the task until the socket takes the   *)
(* answer; whatever else wakes it meanwhile makes it try again.            *)
GdbReply ==
    /\ main = "reply"
    /\ \/ main' = "select" /\ UNCHANGED outcome
       \/ EndLoop("GdbError")
       \/ outcome' = "Abort" /\ UNCHANGED main
    /\ UNCHANGED <<chan, thread, told, exitWaker, cpus, shutdown, joining>>

GdbReplyPends ==
    /\ main = "reply" /\ woken /\ woken' = FALSE
    /\ UNCHANGED <<items, waiter, waiting, calling, asleep, sent, got, thread, loop>>

(* The debugger's socket wakes the task.                                   *)
GdbWake ==
    /\ Debugger /\ main = "idle" /\ woken' = TRUE
    /\ UNCHANGED <<items, waiter, waiting, calling, asleep, sent, got, thread, loop>>

(* Vmm::recv: the logs, then the exits.                                    *)
PollLogsUnarmed ==
    /\ main = "select"
    /\ \/ Logs!PollReady /\ UNCHANGED main
       \/ items = <<>> /\ main' = "exits" /\ UNCHANGED <<items, waiter, waiting, got, asleep>>
    /\ UNCHANGED <<woken, calling, sent, thread>>
    /\ UNCHANGED <<told, exitWaker, cpus, shutdown, joining, outcome>>

PollLogs ==
    /\ main = "select"
    /\ \/ Logs!PollReady /\ UNCHANGED main
       \/ Logs!PollPending /\ main' = "exits"
    /\ UNCHANGED <<woken, calling, sent, thread>>
    /\ UNCHANGED <<told, exitWaker, cpus, shutdown, joining, outcome>>

PollExitsNoWaker ==
    /\ main = "exits"
    /\ \/ /\ cpus \cap told = {}
          /\ main' = "idle"
          /\ UNCHANGED <<cpus, joining, exitWaker>>
       \/ \E c \in cpus \cap told :
             /\ cpus' = cpus \ {c} /\ joining' = c /\ main' = "join"
             /\ UNCHANGED exitWaker
    /\ UNCHANGED <<chan, thread, told, shutdown, outcome>>

PollExitsEager ==
    /\ main = "exits"
    /\ \E c \in cpus : cpus' = cpus \ {c} /\ joining' = c /\ main' = "join"
    /\ UNCHANGED <<chan, thread, told, exitWaker, shutdown, outcome>>

PollExits ==
    /\ main = "exits"
    /\ \/ /\ cpus \cap told = {}
          /\ main' = "idle" /\ exitWaker' = cpus
          /\ UNCHANGED <<cpus, joining>>
       \/ \E c \in cpus \cap told :
             /\ cpus' = cpus \ {c} /\ joining' = c /\ main' = "join"
             /\ UNCHANGED exitWaker
    /\ UNCHANGED <<chan, thread, told, shutdown, outcome>>

(* The thread is joined, and dispatch_vmm acts on its result.              *)
JoinIgnoresPanic ==
    /\ main = "join" /\ cpu[joining] = "gone"
    /\ EndLoop(IF result[joining] = "Err" THEN "CpuThread" ELSE "Ok")
    /\ Logs!DropRecv
    /\ UNCHANGED <<woken, calling, asleep, sent, got, thread>>
    /\ UNCHANGED <<told, exitWaker, cpus, shutdown, joining>>

Join ==
    /\ main = "join" /\ cpu[joining] = "gone"
    /\ CASE result[joining] = "Err" -> EndLoop("CpuThread")
         [] result[joining] = "false" -> EndLoop("CpuPanic")
         [] result[joining] = "true" /\ joining = 0 -> EndLoop("Ok")
         [] OTHER -> main' = "select" /\ UNCHANGED outcome
    /\ Logs!DropRecv
    /\ UNCHANGED <<woken, calling, asleep, sent, got, thread>>
    /\ UNCHANGED <<told, exitWaker, cpus, shutdown, joining>>

(* Vmm::drop.                                                              *)
SetShutdownNever ==
    /\ main = "drop" /\ main' = "reap"
    /\ UNCHANGED <<chan, thread, told, exitWaker, cpus, shutdown, joining, outcome>>

SetShutdown ==
    /\ main = "drop" /\ shutdown' = TRUE /\ main' = "reap"
    /\ UNCHANGED <<chan, thread, told, exitWaker, cpus, joining, outcome>>

Reap ==
    /\ main = "reap"
    /\ \/ cpus = {} /\ main' = "done" /\ UNCHANGED cpus
       \/ \E c \in cpus : cpu[c] = "gone" /\ cpus' = cpus \ {c} /\ UNCHANGED main
    /\ UNCHANGED <<chan, thread, told, exitWaker, shutdown, joining, outcome>>

(* The user closes the window; its handler runs between two polls.         *)
CloseWindow ==
    /\ main \in {"idle", "reply"} /\ ~shutdown /\ shutdown' = TRUE
    /\ UNCHANGED <<chan, thread, told, exitWaker, cpus, main, joining, outcome>>

Running == outcome # "Abort"

MainTask == Schedule \/ PollLogs \/ PollExits \/ Join \/ SetShutdown \/ Reap

Next ==
    /\ Running
    /\ \/ \E c \in Cpus : Thread(c)
       \/ MainTask \/ GdbRead \/ GdbReply \/ GdbReplyPends \/ GdbWake \/ CloseWindow

Spec == Init /\ [][Next]_vars

(* Threads run, and a guest exits to the VMM again and again; neither the  *)
(* debugger nor the user has to do anything.                               *)
Fairness ==
    /\ WF_vars(Running /\ MainTask)
    /\ \A c \in Cpus :
          /\ WF_vars(Running /\ (Boot(c) \/ Check(c) \/ SendResumes(c)
                                           \/ Announce(c) \/ Return(c)))
          /\ WF_vars(Running /\ (GuestSilent(c) \/ GuestLog(c)
                                           \/ GuestShutdown(c) \/ GuestError(c)))

FairSpec == Spec /\ Fairness

-----------------------------------------------------------------------------
(* No vCPU thread is forgotten: Vmm is gone only when its threads are, so  *)
(* that none touches the RAM or the devices of a dropped Vmm, and a Cpu    *)
(* with its receiver is kept until its thread is joined, so that           *)
(* tx.send(()).unwrap() cannot panic.                                      *)
NoOrphan ==
    /\ main = "done" => \A c \in Cpus : cpu[c] = "gone"
    /\ Running => \A c \in Cpus : cpu[c] \in {"boot", "check", "guest", "send", "ending"} => c \in cpus

(* Every vCPU exit reaches the main task: while it sleeps, a vCPU it still *)
(* tracks that has announced its exit has also woken it.                   *)
ExitSeen == main = "idle" => woken \/ cpus \cap told = {}

(* A clean end of the event loop means that the main vCPU stopped cleanly, *)
(* and a vCPU that failed is never reported as one that panicked.          *)
HonestOutcome ==
    /\ outcome = "Ok" => result[0] = "true"
    /\ outcome = "CpuPanic" => \E c \in panicked : result[c] = "false"

(* The threads use the log channel as Channel says: what is shown of       *)
(* Channel (order, no loss, no lost wakeup) holds here.                    *)
UsesChannel == Logs!Spec

(* Vmm::drop sets the flag "before dropping the other fields so their      *)
(* background thread can stop before they try to join with it"             *)
(* (mod.rs:916): once it has begun, it returns.  True while the log        *)
(* channel has room, and not when a vCPU is blocked in send().             *)
DropReturns == main = "drop" ~> (main = "done" \/ ~Running)

(* Closing the window stops the virtual machine, and so does Vmm::drop,    *)
(* but for two things the debugger can do: it went away, which ended the   *)
(* loop, and left a vCPU waiting for room in the log channel; or it keeps  *)
(* the task for ever, by not reading an answer (write_all) or by sending   *)
(* without a pause (select_biased! looks at it first).                     *)
Stuck == main = "reap" /\ outcome \in {"Eof", "GdbError"} /\ calling # {}
Kept == main \in {"select", "reply"}
CloseStops == shutdown ~> (main = "done" \/ ~Running \/ Stuck \/ []Kept)
=============================================================================

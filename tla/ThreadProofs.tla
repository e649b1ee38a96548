---------------------------- MODULE ThreadProofs ----------------------------
(***************************************************************************)
(* Proofs about three parts whose state is shared by threads.              *)
(*                                                                         *)
(* The VMM at run time, for any vCPUs, any capacity of the log channel and *)
(* any number of logs: no vCPU thread is forgotten, no exit goes unseen,   *)
(* the outcome is honest, and the threads use the log channel as Channel   *)
(* says, so that its theorems hold of it.                                  *)
(*                                                                         *)
(* The signal state of a process stays consistent, for any threads,        *)
(* signals, handlers, masks and flags.  SignalsConsistent speaks of fields *)
(* of `acts' that are updated in place: what makes it inductive is that    *)
(* the fields keep their domains.                                          *)
(*                                                                         *)
(* A spawn owns the process id it has taken, for any number of concurrent  *)
(* ordinary spawns and any bounds.  OwnPid is not inductive: that the next *)
(* id is free follows from the ids being counted upwards, except for the   *)
(* high id of the first process, which the kernel's start takes while      *)
(* nobody else spawns (main.rs); spawn itself would let two take it.       *)
(***************************************************************************)
EXTENDS VmmLoop, Signals, Process, WellFoundedInduction, TLAPS

Places == {"boot", "check", "guest", "send", "ending", "returning", "gone"}
Stops == {"select", "reply", "exits", "idle", "join", "drop", "reap", "done"}

Gdb == GdbRead \/ GdbReply \/ GdbReplyPends \/ GdbWake

TypeInv ==
    /\ cpu \in [Cpus -> Places]
    /\ result \in [Cpus -> {"none", "true", "false", "Err"}]
    /\ sent \in [Cpus -> Nat]
    /\ main \in Stops
    /\ cpus \subseteq Cpus /\ joining \in Cpus /\ panicked \subseteq Cpus
    /\ told \subseteq Cpus
    /\ woken \in BOOLEAN

-----------------------------------------------------------------------------
(* The threads and the main task.                                          *)

\* A oneshot channel is used by a thread that is about to return.
Announced == \A c \in told : cpu[c] \in {"returning", "gone"}

\* A vCPU that is not tracked any more is gone, but for the one that
\* Vmm::recv is joining.
Joined ==
    /\ \A c \in Cpus \ cpus :
          cpu[c] = "gone" \/ (main = "join" /\ c = joining /\ cpu[c] = "returning")
    /\ main = "done" => cpus = {}

\* While the main task sleeps, its Waker is in every oneshot channel it
\* still tracks.
Armed == main = "idle" => exitWaker = cpus /\ (woken \/ cpus \cap told = {})

\* A result stands once its thread is ending, and false comes from a panic.
Results ==
    /\ \A c \in Cpus : result[c] = "false" => c \in panicked
    /\ outcome = "Ok" => result[0] = "true" /\ cpu[0] = "gone"
    /\ outcome = "CpuPanic" =>
          \E c \in panicked : result[c] = "false" /\ cpu[c] = "gone"

LoopInv == TypeInv /\ Announced /\ Joined /\ Armed /\ Results

LEMMA InitLoop == Init => LoopInv
  BY LoopAssumption DEF Init, LoopInv, TypeInv, Announced, Joined, Armed, Results,
                        Places, Stops

(* Sending a log moves the thread between the guest, send and the check.   *)
LEMMA SendLogLoop ==
    ASSUME LoopInv, NEW c \in Cpus, GuestLog(c) \/ SendResumes(c)
    PROVE  LoopInv'
  <1>1. /\ cpu[c] \in {"guest", "send"}
        /\ UNCHANGED <<told, exitWaker, cpus, shutdown, main, joining, outcome, result>>
        /\ panicked \subseteq panicked' /\ panicked' \subseteq Cpus
    BY DEF GuestLog, SendResumes, SendLog, loop, LoopInv, TypeInv
  <1>2. \E p \in {"send", "check"} : cpu' = [cpu EXCEPT ![c] = p]
    BY DEF GuestLog, SendResumes, SendLog, Goto
  <1>3. sent' \in [Cpus -> Nat] /\ woken' \in BOOLEAN /\ (woken => woken')
    <2>1. Logs!Send(c)
      BY DEF GuestLog, SendResumes, SendLog
    <2>2. CASE Logs!Push(c)
      BY <2>2 DEF Logs!Push, LoopInv, TypeInv
    <2>3. CASE UNCHANGED <<woken, sent>>
      BY <2>3 DEF LoopInv, TypeInv
    <2> QED
      BY <2>1, <2>2, <2>3 DEF Logs!Send
  <1>4. TypeInv'
    <2>1. cpu' \in [Cpus -> Places]
      BY <1>2 DEF LoopInv, TypeInv, Places
    <2> QED
      BY <1>1, <1>3, <2>1 DEF LoopInv, TypeInv
  <1>5. Announced' /\ Joined' /\ Armed'
    BY <1>1, <1>2, <1>3 DEF LoopInv, TypeInv, Announced, Joined, Armed
  <1>6. Results'
    BY <1>1, <1>2 DEF LoopInv, TypeInv, Results
  <1> QED
    BY <1>4, <1>5, <1>6 DEF LoopInv

(* The other steps of a thread.                                            *)
LEMMA ThreadLoop ==
    ASSUME LoopInv, NEW c \in Cpus,
           \/ Boot(c) \/ Check(c) \/ GuestSilent(c) \/ SpuriousWake(c)
           \/ GuestShutdown(c) \/ GuestError(c) \/ Todo(c) \/ Announce(c) \/ Return(c)
    PROVE  LoopInv'
  <1>1. CASE Boot(c) \/ Check(c) \/ GuestSilent(c) \/ GuestShutdown(c) \/ GuestError(c)
    <2>1. /\ cpu[c] \in {"boot", "check", "guest"}
          /\ UNCHANGED <<told, exitWaker, cpus, shutdown, main, joining, outcome, panicked>>
          /\ UNCHANGED <<sent, woken>>
      BY <1>1 DEF Boot, Check, GuestSilent, GuestShutdown, GuestError, loop, chan
    <2>2. \/ (\E p \in {"check", "guest"} : cpu' = [cpu EXCEPT ![c] = p]) /\ UNCHANGED result
          \/ \E r \in {"true", "false", "Err"} :
                /\ cpu' = [cpu EXCEPT ![c] = "ending"]
                /\ result' = [result EXCEPT ![c] = r]
                /\ r = "false" => c \in panicked
      BY <1>1 DEF Boot, Check, GuestSilent, GuestShutdown, GuestError, Goto, Finish
    <2>3. TypeInv'
      BY <2>1, <2>2 DEF LoopInv, TypeInv, Places
    <2>4. /\ \A d \in Cpus \ {c} : cpu'[d] = cpu[d] /\ result'[d] = result[d]
          /\ cpu'[c] # "gone" /\ (result'[c] = "false" => c \in panicked \/ result[c] = "false")
      BY <2>1, <2>2 DEF LoopInv, TypeInv
    <2>5. Announced' /\ Joined' /\ Armed'
      BY <2>1, <2>4 DEF LoopInv, TypeInv, Announced, Joined, Armed
    <2>6. Results'
      <3>1. \A d \in Cpus : result'[d] = "false" => d \in panicked'
        BY <2>1, <2>4 DEF LoopInv, Results
      <3>2. outcome' = "Ok" => result'[0] = "true" /\ cpu'[0] = "gone"
        BY <2>1, <2>4, LoopAssumption DEF LoopInv, Results
      <3>3. outcome' = "CpuPanic" =>
                \E d \in panicked' : result'[d] = "false" /\ cpu'[d] = "gone"
        BY <2>1, <2>4 DEF LoopInv, TypeInv, Results
      <3> QED
        BY <3>1, <3>2, <3>3 DEF Results
    <2> QED
      BY <2>3, <2>5, <2>6 DEF LoopInv
  <1>2. CASE SpuriousWake(c)
    BY <1>2 DEF SpuriousWake, thread, loop, LoopInv, TypeInv, Announced, Joined, Armed, Results
  <1>3. CASE Todo(c)
    BY <1>3 DEF Todo, thread, chan, LoopInv, TypeInv, Announced, Joined, Armed, Results
  <1>4. CASE Announce(c)
    <2>1. /\ cpu[c] = "ending" /\ cpu' = [cpu EXCEPT ![c] = "returning"]
          /\ told' = told \cup {c} /\ woken' = (woken \/ c \in exitWaker)
          /\ UNCHANGED <<sent, result, panicked, exitWaker, cpus, main, joining, outcome>>
      BY <1>4 DEF Announce, Goto
    <2>2. TypeInv'
      BY <2>1 DEF LoopInv, TypeInv, Places
    <2>3. Announced' /\ Joined'
      BY <2>1 DEF LoopInv, TypeInv, Announced, Joined
    <2>4. Armed'
      BY <2>1 DEF LoopInv, Armed
    <2>5. Results'
      BY <2>1 DEF LoopInv, TypeInv, Results
    <2> QED
      BY <2>2, <2>3, <2>4, <2>5 DEF LoopInv
  <1>5. CASE Return(c)
    <2>1. /\ cpu[c] = "returning" /\ cpu' = [cpu EXCEPT ![c] = "gone"]
          /\ UNCHANGED <<sent, woken, result, panicked>>
          /\ UNCHANGED <<told, exitWaker, cpus, main, joining, outcome>>
      BY <1>5 DEF Return, Goto, chan, loop
    <2> QED
      BY <2>1 DEF LoopInv, TypeInv, Announced, Joined, Armed, Results, Places
  <1> QED
    BY <1>1, <1>2, <1>3, <1>4, <1>5

(* The main task: a vCPU leaves `cpus' after it has announced its end, and *)
(* the loop goes on only when that one is gone.                            *)
LEMMA MainLoop ==
    ASSUME LoopInv, MainTask \/ Gdb \/ CloseWindow
    PROVE  LoopInv'
  <1>1. CASE Schedule \/ GdbReplyPends \/ GdbWake \/ CloseWindow \/ SetShutdown
    BY <1>1 DEF Schedule, GdbReplyPends, GdbWake, CloseWindow, SetShutdown, chan, thread, loop,
                LoopInv, TypeInv, Announced, Joined, Armed, Results, Stops
  <1>2. CASE PollLogs
    <2>1. /\ main = "select" /\ main' \in {"select", "exits"}
          /\ UNCHANGED <<woken, sent, cpu, result, panicked>>
          /\ UNCHANGED <<told, exitWaker, cpus, joining, outcome>>
      BY <1>2 DEF PollLogs, thread
    <2> QED
      BY <2>1 DEF LoopInv, TypeInv, Announced, Joined, Armed, Results, Stops
  <1>3. CASE PollExits
    <2>1. UNCHANGED <<woken, sent, cpu, result, panicked, told, outcome>> /\ main = "exits"
      BY <1>3 DEF PollExits, chan, thread
    <2>2. CASE cpus \cap told = {} /\ main' = "idle" /\ exitWaker' = cpus
               /\ UNCHANGED <<cpus, joining>>
      BY <2>1, <2>2 DEF LoopInv, TypeInv, Announced, Joined, Armed, Results, Stops
    <2>3. ASSUME NEW c \in cpus \cap told, cpus' = cpus \ {c}, joining' = c, main' = "join"
          PROVE  LoopInv'
      <3>1. cpu[c] \in {"returning", "gone"} /\ c \in Cpus
        BY <2>3 DEF LoopInv, TypeInv, Announced
      <3>2. Joined'
        BY <2>1, <2>3, <3>1 DEF LoopInv, Joined
      <3> QED
        BY <2>1, <2>3, <3>1, <3>2 DEF LoopInv, TypeInv, Announced, Armed, Results, Stops
    <2> QED
      BY <1>3, <2>2, <2>3 DEF PollExits
  <1>4. CASE Join
    <2>1. /\ main = "join" /\ cpu[joining] = "gone" /\ main' \in {"drop", "select"}
          /\ UNCHANGED <<woken, sent, cpu, result, panicked, told, exitWaker, cpus, joining>>
      BY <1>4 DEF Join, EndLoop, thread
    <2>2. TypeInv' /\ Announced' /\ Joined' /\ Armed'
      BY <2>1 DEF LoopInv, TypeInv, Announced, Joined, Armed, Stops
    <2>3. \/ outcome' = "CpuThread" \/ outcome' = outcome
          \/ outcome' = "CpuPanic" /\ result[joining] = "false"
          \/ outcome' = "Ok" /\ result[joining] = "true" /\ joining = 0
      BY <1>4 DEF Join, EndLoop
    <2>4. Results'
      BY <2>1, <2>3 DEF LoopInv, TypeInv, Results
    <2> QED
      BY <2>2, <2>4 DEF LoopInv
  <1>5. CASE Reap
    <2>1. /\ main = "reap" /\ main' \in {"reap", "done"}
          /\ UNCHANGED <<woken, sent, cpu, result, panicked, told, outcome, joining>>
          /\ \/ cpus = {} /\ cpus' = cpus
             \/ main' = main /\ \E c \in cpus : cpu[c] = "gone" /\ cpus' = cpus \ {c}
      BY <1>5 DEF Reap, chan, thread
    <2> QED
      BY <2>1 DEF LoopInv, TypeInv, Announced, Joined, Armed, Results, Stops
  <1>6. CASE GdbRead \/ GdbReply
    <2>1. /\ main \in {"select", "reply"} /\ main' \in {"select", "reply", "drop"}
          /\ outcome' \in {outcome, "Eof", "GdbError", "Abort"}
          /\ UNCHANGED <<woken, sent, cpu, result, panicked>>
          /\ UNCHANGED <<told, exitWaker, cpus, joining>>
      BY <1>6 DEF GdbRead, GdbReply, EndLoop, chan, thread
    <2> QED
      BY <2>1 DEF LoopInv, TypeInv, Announced, Joined, Armed, Results, Stops
  <1> QED
    BY <1>1, <1>2, <1>3, <1>4, <1>5, <1>6 DEF MainTask, Gdb

LEMMA StepLoop == LoopInv /\ [Next]_vars => LoopInv'
  <1> SUFFICES ASSUME LoopInv, [Next]_vars PROVE LoopInv'
    OBVIOUS
  <1>1. ASSUME NEW c \in Cpus, Thread(c) PROVE LoopInv'
    BY <1>1, SendLogLoop, ThreadLoop DEF Thread
  <1>2. CASE MainTask \/ Gdb \/ CloseWindow
    BY <1>2, MainLoop
  <1>3. CASE UNCHANGED vars
    BY <1>3 DEF vars, chan, thread, loop, LoopInv, TypeInv, Announced, Joined, Armed, Results
  <1> QED
    BY <1>1, <1>2, <1>3 DEF Next, Gdb

LEMMA LoopInvariant == Spec => []LoopInv
  BY InitLoop, StepLoop, PTL DEF Spec

(* Vmm::drop returns when every vCPU thread is gone, and a vCPU whose      *)
(* thread has not announced its end is still tracked, for any set of       *)
(* vCPUs.                                                                  *)
THEOREM NoThreadForgotten == Spec => []NoOrphan
  <1>1. LoopInv => NoOrphan
    BY DEF LoopInv, TypeInv, Joined, NoOrphan
  <1> QED
    BY <1>1, LoopInvariant, PTL

(* The main task never sleeps on the exit of a vCPU that has happened.     *)
THEOREM ExitsWake == Spec => []ExitSeen
  <1>1. LoopInv => ExitSeen
    BY DEF LoopInv, Armed, ExitSeen
  <1> QED
    BY <1>1, LoopInvariant, PTL

(* The event loop reports a clean stop only of a main vCPU that stopped,   *)
(* and a panic only of a vCPU whose kernel panicked.                       *)
THEOREM OutcomeHonest == Spec => []HonestOutcome
  <1>1. LoopInv => HonestOutcome
    BY DEF LoopInv, Results, HonestOutcome
  <1> QED
    BY <1>1, LoopInvariant, PTL

-----------------------------------------------------------------------------
(* The log channel.                                                        *)

\* A thread is in send() exactly when it calls the channel, and a kernel
\* that has not panicked has not used up its logs.
ChanInv ==
    /\ calling = {c \in Cpus : cpu[c] = "send"} /\ asleep \subseteq calling
    /\ \A c \in Cpus \ panicked :
          sent[c] <= MaxLogs /\ (c \in calling => sent[c] < MaxLogs)

LEMMA InitChan == Init => ChanInv
  BY LoopAssumption DEF Init, ChanInv

LEMMA SendLogChan ==
    ASSUME LoopInv, ChanInv, NEW c \in Cpus, GuestLog(c) \/ SendResumes(c)
    PROVE  ChanInv' /\ Logs!Sending(c)
  <1>1. /\ Logs!Send(c) /\ cpu' = [cpu EXCEPT ![c] = IF c \in calling' THEN "send" ELSE "check"]
        /\ UNCHANGED <<waiting, got, main>>
        /\ panicked' \in {panicked, panicked \cup {c}}
        /\ c \notin panicked' /\ c \notin calling => sent[c] < MaxLogs
    BY DEF GuestLog, SendResumes, SendLog, Goto, loop, ChanInv
  <1>2. c \notin asleep /\ (c \in calling \/ sent[c] < MaxLogs + 1)
    BY LoopAssumption DEF GuestLog, SendResumes, LoopInv, TypeInv, ChanInv
  <1>3. \A d \in Cpus \ {c} : cpu'[d] = cpu[d]
    BY <1>1 DEF LoopInv, TypeInv
  <1>4. cpu'[c] = "send" <=> c \in calling'
    BY <1>1 DEF LoopInv, TypeInv
  <1>5. CASE Logs!Push(c) /\ calling' = calling \ {c} /\ asleep' = asleep
    <2>1. sent' = [sent EXCEPT ![c] = sent[c] + 1]
      BY <1>5 DEF Logs!Push
    <2>2. calling' = {d \in Cpus : cpu'[d] = "send"} /\ asleep' \subseteq calling'
      BY <1>2, <1>3, <1>4, <1>5 DEF ChanInv
    <2>3. \A d \in Cpus \ panicked' :
              sent'[d] <= MaxLogs /\ (d \in calling' => sent'[d] < MaxLogs)
      BY <1>1, <1>5, <2>1, LoopAssumption DEF LoopInv, TypeInv, ChanInv
    <2> QED
      BY <1>1, <1>2, <2>2, <2>3 DEF ChanInv, Logs!Sending, TaskOf
  <1>6. CASE /\ calling' = calling \cup {c} /\ asleep' = asleep \cup {c}
             /\ UNCHANGED sent
    <2>1. calling' = {d \in Cpus : cpu'[d] = "send"} /\ asleep' \subseteq calling'
      BY <1>3, <1>4, <1>6 DEF ChanInv
    <2>2. \A d \in Cpus \ panicked' :
              sent'[d] <= MaxLogs /\ (d \in calling' => sent'[d] < MaxLogs)
      BY <1>1, <1>6 DEF ChanInv
    <2> QED
      BY <1>1, <1>2, <2>1, <2>2 DEF ChanInv, Logs!Sending, TaskOf
  <1> QED
    BY <1>1, <1>5, <1>6 DEF Logs!Send

LEMMA ThreadChan ==
    ASSUME LoopInv, ChanInv, NEW c \in Cpus,
           \/ Boot(c) \/ Check(c) \/ GuestSilent(c) \/ SpuriousWake(c)
           \/ GuestShutdown(c) \/ GuestError(c) \/ Todo(c) \/ Announce(c) \/ Return(c)
    PROVE  ChanInv' /\ [Logs!Next]_(Logs!vars)
  <1>1. CASE SpuriousWake(c)
    <2>1. Logs!SpuriousWake(c) /\ ChanInv'
      BY <1>1 DEF SpuriousWake, Logs!SpuriousWake, thread, loop, TaskOf, ChanInv
    <2> QED
      BY <2>1 DEF Logs!Next
  <1>2. CASE Announce(c)
    <2>1. ChanInv'
      BY <1>2 DEF Announce, Goto, LoopInv, TypeInv, ChanInv
    <2>2. UNCHANGED <<items, waiter, waiting, calling, asleep, sent, got, TaskOf>>
      BY <1>2 DEF Announce, TaskOf
    <2>3. UNCHANGED Logs!vars \/ Logs!OtherWake
      BY <1>2, <2>2 DEF Announce, Logs!vars, Logs!OtherWake, LoopInv, TypeInv
    <2> QED
      BY <2>1, <2>3 DEF Logs!Next
  <1>3. CASE \/ Boot(c) \/ Check(c) \/ GuestSilent(c) \/ GuestShutdown(c)
             \/ GuestError(c) \/ Todo(c) \/ Return(c)
    <2>1. /\ UNCHANGED <<chan, main, panicked>>
          /\ cpu' = cpu \/ \E p \in Places \ {"send"} : cpu' = [cpu EXCEPT ![c] = p]
          /\ cpu[c] # "send"
      BY <1>3 DEF Boot, Check, GuestSilent, GuestShutdown, GuestError, Todo, Return,
                  Goto, Finish, loop, thread, Places
    <2>2. ChanInv'
      BY <2>1 DEF LoopInv, TypeInv, ChanInv, chan
    <2> QED
      BY <2>1, <2>2 DEF Logs!vars, chan, TaskOf
  <1> QED
    BY <1>1, <1>2, <1>3

LEMMA MainChan ==
    ASSUME LoopInv, ChanInv, MainTask \/ Gdb \/ CloseWindow
    PROVE  ChanInv' /\ [Logs!Next]_(Logs!vars)
  <1>1. CASE Schedule
    <2>1. Logs!Schedule /\ ChanInv'
      BY <1>1 DEF Schedule, Logs!Schedule, TaskOf, thread, ChanInv
    <2> QED
      BY <2>1 DEF Logs!Next
  <1>2. CASE PollLogs
    <2>1. /\ main = "select" /\ UNCHANGED <<woken, calling, sent, cpu, panicked>>
          /\ \/ Logs!PollReady /\ main' = "select"
             \/ Logs!PollPending /\ main' = "exits"
      BY <1>2 DEF PollLogs, thread
    <2>2. Logs!Receive
      BY <2>1 DEF Logs!Receive, TaskOf
    <2>3. asleep' \subseteq asleep
      BY <2>1 DEF Logs!PollReady, Logs!PollPending, Logs!NotifyOne
    <2>4. ChanInv'
      BY <2>1, <2>3 DEF ChanInv
    <2> QED
      BY <2>2, <2>4 DEF Logs!Next
  <1>3. CASE PollExits
    <2>1. /\ main = "exits" /\ main' \in {"idle", "join"}
          /\ UNCHANGED <<chan, cpu, panicked>>
      BY <1>3 DEF PollExits, thread
    <2>2. Logs!Sleep \/ UNCHANGED Logs!vars
      BY <2>1 DEF Logs!Sleep, Logs!vars, TaskOf, chan
    <2>3. ChanInv'
      BY <2>1 DEF ChanInv, chan
    <2> QED
      BY <2>2, <2>3 DEF Logs!Next
  <1>4. CASE Join \/ GdbRead
    <2>1. /\ main \in {"join", "select"} /\ main' \in {"drop", "select", "reply"}
          /\ Logs!DropRecv
          /\ UNCHANGED <<woken, calling, asleep, sent, got, cpu, panicked>>
      BY <1>4 DEF Join, GdbRead, EndLoop, thread
    <2>2. Logs!Cancel
      BY <2>1 DEF Logs!Cancel, TaskOf
    <2>3. ChanInv'
      BY <2>1 DEF ChanInv
    <2> QED
      BY <2>2, <2>3 DEF Logs!Next
  <1>5. CASE SetShutdown \/ Reap \/ CloseWindow \/ GdbReply
    <2>1. /\ UNCHANGED <<chan, cpu, panicked>>
          /\ \/ main' = main
             \/ main \in {"drop", "reap", "reply"} /\ main' \in {"reap", "done", "select", "drop"}
      BY <1>5 DEF SetShutdown, Reap, CloseWindow, GdbReply, EndLoop, thread
    <2>2. ChanInv' /\ UNCHANGED Logs!vars
      BY <2>1 DEF ChanInv, Logs!vars, TaskOf, chan
    <2> QED
      BY <2>2
  <1>6. CASE GdbWake
    <2>1. /\ UNCHANGED <<items, waiter, waiting, calling, asleep, sent, got, TaskOf>>
          /\ UNCHANGED <<cpu, panicked>> /\ woken' = TRUE
      BY <1>6 DEF GdbWake, thread, loop, TaskOf
    <2>2. UNCHANGED Logs!vars \/ Logs!OtherWake
      BY <2>1 DEF Logs!vars, Logs!OtherWake, LoopInv, TypeInv
    <2>3. ChanInv'
      BY <2>1 DEF ChanInv
    <2> QED
      BY <2>2, <2>3 DEF Logs!Next
  <1>7. CASE GdbReplyPends
    <2>1. Logs!PollOther /\ ChanInv'
      BY <1>7 DEF GdbReplyPends, Logs!PollOther, TaskOf, thread, loop, ChanInv
    <2> QED
      BY <2>1 DEF Logs!Next
  <1> QED
    BY <1>1, <1>2, <1>3, <1>4, <1>5, <1>6, <1>7 DEF MainTask, Gdb

(* The vCPU threads and the main task use the log channel as the threads   *)
(* of Channel do: every step of the VMM is a step of Channel or leaves it  *)
(* alone, so that what is proved of Channel holds of the logs.             *)
THEOREM LoopUsesChannel == Spec => UsesChannel
  <1>1. Init => Logs!Init
    BY DEF Init, Logs!Init, TaskOf
  <1>2. LoopInv /\ ChanInv /\ [Next]_vars => ChanInv' /\ [Logs!Next]_(Logs!vars)
    <2> SUFFICES ASSUME LoopInv, ChanInv, [Next]_vars
                 PROVE  ChanInv' /\ [Logs!Next]_(Logs!vars)
      OBVIOUS
    <2>1. ASSUME NEW c \in Cpus, GuestLog(c) \/ SendResumes(c)
          PROVE  ChanInv' /\ [Logs!Next]_(Logs!vars)
      BY <2>1, SendLogChan DEF Logs!Next
    <2>2. ASSUME NEW c \in Cpus, Thread(c)
          PROVE  ChanInv' /\ [Logs!Next]_(Logs!vars)
      BY <2>1, <2>2, ThreadChan DEF Thread
    <2>3. CASE MainTask \/ Gdb \/ CloseWindow
      BY <2>3, MainChan
    <2>4. CASE UNCHANGED vars
      BY <2>4 DEF vars, chan, thread, loop, ChanInv, Logs!vars, TaskOf
    <2> QED
      BY <2>2, <2>3, <2>4 DEF Next, Gdb
  <1> QED
    BY <1>1, <1>2, InitChan, LoopInvariant, PTL DEF Spec, UsesChannel, Logs!Spec

-----------------------------------------------------------------------------
(* Signals and processes.                                                  *)

(***************************************************************************)
(* What the proof needs of SignalActs: its fields, and that the two tables *)
(* have one entry for each signal.                                         *)
(***************************************************************************)
SignalActs(a) ==
    /\ DOMAIN a = {"handler", "catchmask", "stack", "interupt", "reset",
                   "nodefer", "modern", "ignore", "catch", "flag"}
    /\ a.handler \in [Sigs -> Handlers \cup {SIG_DFL}]
    /\ a.catchmask \in [Sigs -> SUBSET UNION Masks]

Asked ==
    [handler : Handlers \cup {SIG_DFL}, flags : Flags \cup {{}},
     mask : Masks \cup {{}}]

SignalTypes ==
    /\ SignalActs(acts)
    /\ sigmask \in [Threads -> SUBSET UNION Masks]
    /\ asked \in [Sigs -> Asked]

SignalInv == SignalTypes /\ SignalsConsistent

Assigned(b, a, sig, act) ==
    /\ SignalActs(b)
    /\ b.handler = [a.handler EXCEPT ![sig] = act.handler]
    /\ b.catchmask = [a.catchmask EXCEPT ![sig] = act.mask \ Uncatchable]
    /\ b.catch = IF act.handler = SIG_DFL THEN a.catch \ {sig}
                                          ELSE a.catch \cup {sig}

(***************************************************************************)
(* The assignments of sys_sigaction to the fields of SignalActs, one fact  *)
(* for each field SignalsConsistent reads.                                 *)
(***************************************************************************)
LEMMA NewActsFields ==
    ASSUME NEW a, SignalActs(a), NEW sig \in Sigs, NEW act \in Act
    PROVE  Assigned(NewActs(a, sig, act), a, sig, act)
  <1> DEFINE b == NewActs(a, sig, act)
  <1>1. /\ b.handler = [a.handler EXCEPT ![sig] = act.handler]
        /\ b.catchmask = [a.catchmask EXCEPT ![sig] = act.mask \ Uncatchable]
        /\ b.catch = IF act.handler = SIG_DFL THEN a.catch \ {sig}
                                              ELSE a.catch \cup {sig}
    BY DEF NewActs, SignalActs
  <1>2. SignalActs(b)
    <2>1. act.handler \in Handlers /\ act.mask \ Uncatchable \in SUBSET UNION Masks
      BY DEF Act
    <2>2. b.handler \in [Sigs -> Handlers \cup {SIG_DFL}]
      BY <1>1, <2>1 DEF SignalActs
    <2>3. b.catchmask \in [Sigs -> SUBSET UNION Masks]
      BY <1>1, <2>1 DEF SignalActs
    <2>4. DOMAIN b = DOMAIN a
      BY DEF NewActs
    <2> QED
      BY <2>2, <2>3, <2>4 DEF SignalActs
  <1> QED
    BY <1>1, <1>2 DEF Assigned

(***************************************************************************)
(* SignalActs::new and the empty masks of new threads are consistent.      *)
(***************************************************************************)
LEMMA SignalStart == SignalsInit => SignalInv
  <1> SUFFICES ASSUME SignalsInit PROVE SignalInv
    OBVIOUS
  <1>1. SignalActs(acts)
    BY DEF SignalsInit, SignalActs
  <1>2. sigmask \in [Threads -> SUBSET UNION Masks]
    BY DEF SignalsInit
  <1>3. asked \in [Sigs -> Asked]
    BY DEF SignalsInit, Asked
  <1>4. SignalsConsistent
    BY DEF SignalsInit, SignalsConsistent, Uncatchable
  <1> QED
    BY <1>1, <1>2, <1>3, <1>4 DEF SignalInv, SignalTypes

(***************************************************************************)
(* A sigaction that succeeds sets one signal whole and leaves the others.  *)
(* KILL and STOP get here with SIG_DFL only.                               *)
(***************************************************************************)
LEMMA SigactionInv ==
    ASSUME SignalInv, NEW sig \in Sigs, NEW act \in Act, sys_sigaction(sig, act)
    PROVE  SignalInv'
  <1>1. CASE UNCHANGED <<acts, asked>>
    BY <1>1 DEF SignalInv, SignalTypes, SignalsConsistent, sys_sigaction
  <1>2. CASE /\ ~(sig \in Uncatchable /\ act.handler # 0)
             /\ acts' = NewActs(acts, sig, act)
             /\ asked' = [asked EXCEPT ![sig] = act]
    <2>0. sigmask' = sigmask
      BY DEF sys_sigaction
    <2>1. /\ SignalActs(acts')
          /\ acts'.handler = [acts.handler EXCEPT ![sig] = act.handler]
          /\ acts'.catchmask = [acts.catchmask EXCEPT ![sig] = act.mask \ Uncatchable]
          /\ acts'.catch = IF act.handler = SIG_DFL THEN acts.catch \ {sig}
                                                    ELSE acts.catch \cup {sig}
      <3>1. SignalActs(acts)
        BY DEF SignalInv, SignalTypes
      <3>2. Assigned(NewActs(acts, sig, act), acts, sig, act)
        BY <3>1, NewActsFields, Zenon
      <3>3. acts' = NewActs(acts, sig, act)
        BY <1>2
      <3>4. Assigned(acts', acts, sig, act)
        BY <3>2, <3>3, Zenon
      <3> QED
        BY <3>4, Zenon DEF Assigned
    <2>2. asked' \in [Sigs -> Asked]
      BY <1>2 DEF SignalInv, SignalTypes, Act, Asked
    <2>3. SignalTypes'
      BY <2>0, <2>1, <2>2 DEF SignalInv, SignalTypes
    <2>4. ASSUME NEW s \in Sigs
          PROVE  /\ acts'.catchmask[s] = asked'[s].mask \ Uncatchable
                 /\ acts'.handler[s] = asked'[s].handler
                 /\ s \in acts'.catch <=> acts'.handler[s] # SIG_DFL
                 /\ s \in Uncatchable => s \notin acts'.catch
      <3>1. /\ acts.handler \in [Sigs -> Handlers \cup {SIG_DFL}]
            /\ acts.catchmask \in [Sigs -> SUBSET UNION Masks]
            /\ asked \in [Sigs -> Asked]
        BY DEF SignalInv, SignalTypes, SignalActs
      <3>2. CASE s = sig
        <4>1. /\ acts'.handler[s] = act.handler /\ asked'[s] = act
              /\ acts'.catchmask[s] = act.mask \ Uncatchable
          BY <1>2, <2>1, <3>1, <3>2
        <4>2. s \in acts'.catch <=> act.handler # SIG_DFL
          BY <2>1, <3>2
        <4> QED
          BY <1>2, <3>2, <4>1, <4>2 DEF SIG_DFL
      <3>3. CASE s # sig
        <4>1. /\ acts'.handler[s] = acts.handler[s] /\ asked'[s] = asked[s]
              /\ acts'.catchmask[s] = acts.catchmask[s]
          BY <1>2, <2>1, <3>1, <3>3
        <4>2. s \in acts'.catch <=> s \in acts.catch
          BY <2>1, <3>3
        <4> QED
          BY <4>1, <4>2 DEF SignalInv, SignalsConsistent
      <3> QED
        BY <3>2, <3>3
    <2>5. SignalsConsistent'
      BY <2>0, <2>4 DEF SignalInv, SignalsConsistent
    <2> QED
      BY <2>3, <2>5 DEF SignalInv
  <1> QED
    BY <1>1, <1>2 DEF sys_sigaction

(***************************************************************************)
(* sigprocmask takes KILL and STOP out of what it adds to a mask.          *)
(***************************************************************************)
LEMMA SigprocmaskInv ==
    ASSUME SignalInv, NEW t \in Threads, NEW how \in {"Block", "Unblock", "Set"},
           NEW set \in Masks, sys_sigprocmask(t, how, set)
    PROVE  SignalInv'
  <1> DEFINE new == NewMask(sigmask[t], how, set)
  <1>1. sigmask' = [sigmask EXCEPT ![t] = new] /\ UNCHANGED <<acts, asked>>
    BY DEF sys_sigprocmask
  <1>2. sigmask[t] \in SUBSET UNION Masks /\ sigmask[t] \cap Uncatchable = {}
    BY DEF SignalInv, SignalTypes, SignalsConsistent
  <1>3. new \in SUBSET UNION Masks /\ new \cap Uncatchable = {}
    <2>1. CASE how = "Block"
      BY <1>2, <2>1 DEF NewMask
    <2>2. CASE how = "Unblock"
      BY <1>2, <2>2 DEF NewMask
    <2>3. CASE how = "Set"
      BY <1>2, <2>3 DEF NewMask
    <2> QED
      BY <2>1, <2>2, <2>3
  <1>4. SignalTypes'
    BY <1>1, <1>3 DEF SignalInv, SignalTypes
  <1>5. \A u \in Threads : sigmask'[u] \cap Uncatchable = {}
    BY <1>1, <1>3 DEF SignalInv, SignalTypes, SignalsConsistent
  <1>6. SignalsConsistent'
    BY <1>1, <1>5 DEF SignalInv, SignalsConsistent
  <1> QED
    BY <1>4, <1>6 DEF SignalInv

(***************************************************************************)
(* For every set of threads, signals, handlers, masks and flags, and any   *)
(* sequence of sigaction and sigprocmask: KILL and STOP are never masked   *)
(* or handled, the caught set is the set of signals with a handler, and    *)
(* the action in force is the one asked for last.                          *)
(***************************************************************************)
THEOREM ActionsConsistent == SignalsSpec => []SignalsConsistent
  <1>1. SignalsInit => SignalInv
    BY SignalStart
  <1>2. SignalInv /\ [SignalsNext]_sigvars => SignalInv'
    <2> SUFFICES ASSUME SignalInv, [SignalsNext]_sigvars PROVE SignalInv'
      OBVIOUS
    <2>1. ASSUME NEW sig \in Sigs, sys_sigaction_get(sig) PROVE SignalInv'
      BY <2>1 DEF SignalInv, SignalTypes, SignalsConsistent, sys_sigaction_get
    <2>2. ASSUME NEW sig \in Sigs, NEW act \in Act, sys_sigaction(sig, act)
          PROVE  SignalInv'
      BY <2>2, SigactionInv
    <2>3. ASSUME NEW t \in Threads, NEW how \in {"Block", "Unblock", "Set"},
                 NEW set \in Masks, sys_sigprocmask(t, how, set)
          PROVE  SignalInv'
      BY <2>3, SigprocmaskInv
    <2>4. ASSUME NEW t \in Threads, sys_sigprocmask_get(t) PROVE SignalInv'
      BY <2>4 DEF SignalInv, SignalTypes, SignalsConsistent, sys_sigprocmask_get
    <2>5. CASE UNCHANGED sigvars
      BY <2>5 DEF SignalInv, SignalTypes, SignalsConsistent, sigvars
    <2> QED
      BY <2>1, <2>2, <2>3, <2>4, <2>5 DEF SignalsNext
  <1>3. SignalInv => SignalsConsistent
    BY DEF SignalInv
  <1> QED
    BY <1>1, <1>2, <1>3, PTL DEF SignalsSpec

-----------------------------------------------------------------------------
PidTypes ==
    /\ procs \subseteq 0..MaxPid
    /\ last_pid \in 0..MaxPid
    /\ spawning \in [Spawners -> {None} \cup 0..MaxPid]
    /\ booted \in BOOLEAN
    /\ threads \subseteq Int \X Nat
    /\ next_tid \in Nat

\* Ids are counted upwards once the first process is listed; before, one
\* spawn runs at a time.
Counted ==
    /\ booted => \A s \in Spawners : spawning[s] <= last_pid
    /\ ~booted => \A s, t \in Spawners :
                      spawning[s] # None /\ spawning[t] # None => s = t

\* An id that is taken is not in the list, not even for a process that is
\* gone, and no other spawn has it.
Taken ==
    \A s, t \in Spawners :
        spawning[s] # None =>
            /\ spawning[s] \notin procs
            /\ s # t => spawning[s] # spawning[t]

Tids ==
    /\ \A a \in threads : a[2] < next_tid
    /\ \A a, b \in threads : a[2] = b[2] => a = b

Listed == DOMAIN group \subseteq alive /\ alive \subseteq procs

PidInv == PidTypes /\ Counted /\ Taken /\ Tids /\ Listed

(***************************************************************************)
(* Least returns the least element of a set of numbers.                    *)
(***************************************************************************)
LEMMA LeastIsLeast ==
    ASSUME NEW S, S \subseteq Nat, S # {}
    PROVE  Least(S) \in S /\ \A y \in S : Least(S) <= y
  <1>1. PICK x \in S : \A y \in S : <<y, x>> \notin OpToRel(<, Nat)
    BY WFMin, NatLessThanWellFounded
  <1>2. \A y \in S : x <= y
    <2> SUFFICES ASSUME NEW y \in S, y < x PROVE FALSE
      OBVIOUS
    <2>1. <<y, x>> \in Nat \X Nat /\ <<y, x>>[1] < <<y, x>>[2]
      OBVIOUS
    <2>2. <<y, x>> \in OpToRel(<, Nat)
      BY <2>1 DEF OpToRel
    <2> QED
      BY <1>1, <2>2
  <1> QED
    BY <1>2 DEF Least

(***************************************************************************)
(* The search of alloc_pid ends, at an id that is not in the list.         *)
(***************************************************************************)
LEMMA UnusedIsFree ==
    ASSUME PidTypes, NEW from \in 0..(MaxPid + 1)
    PROVE  Unused(from) \in from..(MaxPid + 1) /\ Unused(from) \notin procs
  <1> DEFINE S == {p \in from..(MaxPid + 1) : p \notin procs}
  <1>1. S \subseteq Nat /\ MaxPid + 1 \in S
    BY ProcessAssumption DEF PidTypes
  <1>2. Least(S) \in S
    BY <1>1, LeastIsLeast
  <1> QED
    BY <1>2 DEF Unused

(***************************************************************************)
(* ProcManager::new.                                                       *)
(***************************************************************************)
LEMMA PidStart == ProcessInit => PidInv
  <1> SUFFICES ASSUME ProcessInit PROVE PidInv
    OBVIOUS
  <1>1. PidTypes
    <2>1. <<0, 0>> \in Int \X Nat
      OBVIOUS
    <2>2. threads \subseteq Int \X Nat
      BY <2>1 DEF ProcessInit, KERNEL
    <2>3. procs \subseteq 0..MaxPid /\ last_pid \in 0..MaxPid
      BY ProcessAssumption DEF ProcessInit, KERNEL, IDLE
    <2> QED
      BY <2>2, <2>3 DEF ProcessInit, PidTypes
  <1>2. Counted /\ Taken
    BY DEF ProcessInit, Counted, Taken, None
  <1>3. Tids
    BY DEF ProcessInit, Tids, KERNEL
  <1>4. Listed
    BY DEF ProcessInit, Listed
  <1> QED
    BY <1>1, <1>2, <1>3, <1>4 DEF PidInv

(***************************************************************************)
(* alloc_pid gives out an id above every id that is taken, or the first    *)
(* one when none is taken.                                                 *)
(***************************************************************************)
LEMMA SpawnInv ==
    ASSUME PidInv, NEW s \in Spawners, spawn(s)
    PROVE  PidInv'
  <1>1. PICK high \in BOOLEAN :
            /\ alloc_pid(s, high)
            /\ high => ~booted /\ \A t \in Spawners : spawning[t] = None
            /\ ~high => booted
    BY DEF spawn, KernelStarts
  <1> DEFINE start == IF high /\ last_pid + 1 < 10 THEN 10 ELSE last_pid + 1
             pid   == Unused(start)
  <1>2. start \in 0..(MaxPid + 1) /\ start > last_pid
    BY ProcessAssumption DEF PidInv, PidTypes, IDLE
  <1>3. pid \in start..(MaxPid + 1) /\ pid \notin procs
    BY <1>2, UnusedIsFree DEF PidInv
  <1>4. /\ pid <= MaxPid
        /\ spawning' = [spawning EXCEPT ![s] = pid]
        /\ last_pid' = IF high THEN last_pid ELSE pid
        /\ spawning[s] = None
        /\ UNCHANGED <<procs, alive, booted, threads, next_tid, group>>
    BY <1>1 DEF spawn, KernelStarts, alloc_pid
  <1> HIDE DEF start, pid
  <1>5. pid \in 0..MaxPid /\ pid > last_pid
    BY <1>2, <1>3, <1>4, ProcessAssumption DEF PidInv, PidTypes
  <1>6. PidTypes'
    BY <1>4, <1>5 DEF PidInv, PidTypes
  <1>7. Counted'
    BY <1>1, <1>4, <1>5 DEF PidInv, PidTypes, Counted, None
  <1>8. \A t \in Spawners \ {s} : spawning[t] # pid
    BY <1>1, <1>5 DEF PidInv, PidTypes, Counted, None
  <1>9. Taken'
    BY <1>3, <1>4, <1>8 DEF PidInv, PidTypes, Taken
  <1> QED
    BY <1>4, <1>6, <1>7, <1>9 DEF PidInv, Tids, Listed

(***************************************************************************)
(* A spawn that fails gives its id up.                                     *)
(***************************************************************************)
LEMMA FailsInv ==
    ASSUME PidInv, NEW s \in Spawners, spawn_fails(s)
    PROVE  PidInv'
  <1>1. PidTypes'
    BY DEF PidInv, PidTypes, spawn_fails
  <1>2. Counted'
    BY DEF PidInv, PidTypes, Counted, spawn_fails, None
  <1>3. Taken'
    BY DEF PidInv, PidTypes, Taken, spawn_fails
  <1> QED
    BY <1>1, <1>2, <1>3 DEF PidInv, Tids, Listed, spawn_fails

(***************************************************************************)
(* Listing a process makes its id known to alloc_pid; the other spawns     *)
(* have other ids.                                                         *)
(***************************************************************************)
LEMMA ListedInv ==
    ASSUME PidInv, NEW s \in Spawners, spawn_listed(s)
    PROVE  PidInv'
  <1>1. PidTypes'
    <2>1. spawning[s] \in 0..MaxPid /\ next_tid \in Nat
      BY DEF PidInv, PidTypes, spawn_listed
    <2>2. <<spawning[s], next_tid>> \in Int \X Nat
      BY <2>1
    <2>3. threads' \subseteq Int \X Nat
      BY <2>2 DEF PidInv, PidTypes, spawn_listed
    <2>4. procs' \subseteq 0..MaxPid
      BY <2>1 DEF PidInv, PidTypes, spawn_listed
    <2> QED
      BY <2>3, <2>4 DEF PidInv, PidTypes, spawn_listed
  <1>2. Counted'
    <2>1. CASE booted
      BY <2>1 DEF PidInv, PidTypes, Counted, spawn_listed, None
    <2>2. CASE ~booted
      BY <2>2 DEF PidInv, PidTypes, Counted, spawn_listed, None
    <2> QED
      BY <2>1, <2>2
  <1>3. Taken'
    BY DEF PidInv, PidTypes, Taken, spawn_listed
  <1>4. Tids'
    BY DEF PidInv, PidTypes, Tids, spawn_listed
  <1>5. Listed'
    BY DEF PidInv, Listed, spawn_listed
  <1> QED
    BY <1>1, <1>2, <1>3, <1>4, <1>5 DEF PidInv

(***************************************************************************)
(* What threads do: the ids of processes are left alone.                   *)
(***************************************************************************)
LEMMA ThreadsInv ==
    ASSUME PidInv,
           \/ spawn_kthread
           \/ \E td \in threads : exit(td)
           \/ \E pid \in alive : gone(pid)
           \/ \E td \in User : sys_setsid(td) \/ \E l \in Logins : sys_setlogin(td, l)
    PROVE  PidInv'
  <1>1. CASE spawn_kthread
    <2>1. Tids' /\ PidTypes'
      BY <1>1 DEF PidInv, PidTypes, Tids, spawn_kthread, KERNEL
    <2> QED
      BY <1>1, <2>1 DEF PidInv, Counted, Taken, Listed, spawn_kthread
  <1>2. ASSUME NEW td \in threads, exit(td) PROVE PidInv'
    BY <1>2 DEF PidInv, PidTypes, Counted, Taken, Tids, Listed, exit
  <1>3. ASSUME NEW pid \in alive, gone(pid) PROVE PidInv'
    BY <1>3 DEF PidInv, PidTypes, Counted, Taken, Tids, Listed, gone
  <1>4. ASSUME NEW td \in User, sys_setsid(td) PROVE PidInv'
    <2>1. Listed'
      BY <1>4 DEF PidInv, Listed, User, sys_setsid
    <2>2. PidTypes' /\ Counted' /\ Taken' /\ Tids'
      BY <1>4 DEF PidInv, PidTypes, Counted, Taken, Tids, sys_setsid
    <2> QED
      BY <2>1, <2>2 DEF PidInv
  <1>5. ASSUME NEW td \in User, NEW l \in Logins, sys_setlogin(td, l) PROVE PidInv'
    <2>1. Listed'
      BY <1>5 DEF PidInv, Listed, User, sys_setlogin
    <2>2. PidTypes' /\ Counted' /\ Taken' /\ Tids'
      BY <1>5 DEF PidInv, PidTypes, Counted, Taken, Tids, sys_setlogin
    <2> QED
      BY <2>1, <2>2 DEF PidInv
  <1> QED
    BY <1>1, <1>2, <1>3, <1>4, <1>5

(***************************************************************************)
(* For any number of ordinary spawns at once, after the one high spawn     *)
(* with which the kernel starts, and any bounds on the ids: a spawn owns   *)
(* the id it has taken until the process is listed, so the assertion in    *)
(* `spawn' holds, and thread ids are never shared.                         *)
(***************************************************************************)
THEOREM SpawnOwnsPid == ProcessSpec => []OwnPid
  <1>1. ProcessInit => PidInv
    BY PidStart
  <1>2. PidInv /\ [ProcessNext]_procvars => PidInv'
    <2> SUFFICES ASSUME PidInv, [ProcessNext]_procvars PROVE PidInv'
      OBVIOUS
    <2>1. ASSUME NEW s \in Spawners, spawn(s) PROVE PidInv'
      BY <2>1, SpawnInv
    <2>2. ASSUME NEW s \in Spawners, spawn_fails(s) PROVE PidInv'
      BY <2>2, FailsInv
    <2>3. ASSUME NEW s \in Spawners, spawn_listed(s) PROVE PidInv'
      BY <2>3, ListedInv
    <2>4. CASE \/ spawn_kthread
               \/ \E td \in threads : exit(td)
               \/ \E pid \in alive : gone(pid)
               \/ \E td \in User : \/ sys_setsid(td)
                                   \/ \E l \in Logins : sys_setlogin(td, l)
      BY <2>4, ThreadsInv
    <2>5. CASE UNCHANGED procvars
      BY <2>5 DEF PidInv, PidTypes, Counted, Taken, Tids, Listed, procvars
    <2> QED
      BY <2>1, <2>2, <2>3, <2>4, <2>5 DEF ProcessNext
  <1>3. PidInv => OwnPid
    BY DEF PidInv, Taken, Tids, Listed, OwnPid
  <1> QED
    BY <1>1, <1>2, <1>3, PTL DEF ProcessSpec
=============================================================================

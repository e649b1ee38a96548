------------------------------ MODULE Channel ------------------------------
(***************************************************************************)
(* The channel between the vCPU threads and the asynchronous main task:    *)
(* src/gui/src/util/channel.  Senders block on a Condvar while the queue   *)
(* is full; the receiver is a future that leaves its Waker in the queue    *)
(* while it is empty, and that may be dropped before it completes.         *)
(*                                                                         *)
(* A step is what is done under one lock of the queue.  A message is       *)
(* <<s, n>>, the n-th message of sender s.                                 *)
(***************************************************************************)
EXTENDS Integers, Sequences, FiniteSets

CONSTANTS
    Senders,  \* threads that own a clone of the Sender
    Max,      \* Sender::max, the capacity
    MaxMsgs   \* bound: messages each sender sends

ASSUME ChannelAssumption ==
    Max \in Nat \ {0} /\ MaxMsgs \in Nat /\ IsFiniteSet(Senders)

VARIABLES
    items,    \* Queue::items
    waiter,   \* Queue::waiter is Some
    waiting,  \* Recv::waiting of the receive in progress
    task,     \* the receiving task: "idle", "running", or "polled" Recv in vain
    woken,    \* its Waker has been invoked since it was last scheduled
    calling,  \* threads in send()
    asleep,   \* those of them inside Condvar::wait_while
    sent,     \* messages each thread has pushed
    got,      \* messages of each thread received
    quiet     \* TRUE once the task has no other event to attend to

vars == <<items, waiter, waiting, task, woken, calling, asleep, sent, got, quiet>>

-----------------------------------------------------------------------------
(* The channel itself: what one call does under the lock.                  *)

Full == Len(items) >= Max

(* Sender::send once there is room.                                        *)
PushNoWake(s) ==
    /\ ~Full
    /\ items' = Append(items, <<s, sent[s] + 1>>)
    /\ sent' = [sent EXCEPT ![s] = @ + 1]
    /\ waiter' = FALSE
    /\ UNCHANGED woken

Push(s) ==
    /\ ~Full
    /\ items' = Append(items, <<s, sent[s] + 1>>)
    /\ sent' = [sent EXCEPT ![s] = @ + 1]
    /\ waiter' = FALSE
    /\ woken' = (woken \/ waiter)

(* Sender::send, entered and then resumed by the Condvar.                  *)
SendTwice(s) ==
    \/ /\ Push(s)
       /\ calling' = calling \ {s} /\ asleep' = asleep
    \/ /\ Full /\ s \in calling
       /\ items' = Append(items, <<s, sent[s] + 1>>)
       /\ sent' = [sent EXCEPT ![s] = @ + 1]
       /\ calling' = calling \ {s} /\ asleep' = asleep
       /\ UNCHANGED <<waiter, woken>>
    \/ /\ Full /\ s \notin calling
       /\ calling' = calling \cup {s} /\ asleep' = asleep \cup {s}
       /\ UNCHANGED <<items, waiter, woken, sent>>

Send(s) ==
    \/ /\ Push(s)
       /\ calling' = calling \ {s} /\ asleep' = asleep
    \/ /\ Full
       /\ calling' = calling \cup {s} /\ asleep' = asleep \cup {s}
       /\ UNCHANGED <<items, waiter, woken, sent>>

NotifyOne ==
    IF asleep = {} THEN asleep' = {}
                   ELSE \E s \in asleep : asleep' = asleep \ {s}

(* Recv::poll.                                                             *)
PollReadySilent ==
    /\ items # <<>>
    /\ items' = Tail(items)
    /\ got' = [got EXCEPT ![Head(items)[1]] = @ + 1]
    /\ waiter' = FALSE /\ waiting' = FALSE
    /\ UNCHANGED asleep

PollReady ==
    /\ items # <<>>
    /\ items' = Tail(items)
    /\ got' = [got EXCEPT ![Head(items)[1]] = @ + 1]
    /\ waiter' = FALSE /\ waiting' = FALSE
    /\ NotifyOne

PollPending ==
    /\ items = <<>>
    /\ waiter' = TRUE /\ waiting' = TRUE
    /\ UNCHANGED <<items, got, asleep>>

(* Recv::drop.                                                             *)
DropRecvEatsItem ==
    /\ waiter' = (waiter /\ ~waiting) /\ waiting' = FALSE
    /\ items' = IF waiting /\ items # <<>> THEN Tail(items) ELSE items

DropRecv ==
    /\ waiter' = (waiter /\ ~waiting) /\ waiting' = FALSE
    /\ UNCHANGED items

-----------------------------------------------------------------------------
(* The threads that use it.                                                *)

Init ==
    /\ items = <<>>
    /\ waiter = FALSE /\ waiting = FALSE
    /\ task = "running" /\ woken = FALSE
    /\ calling = {} /\ asleep = {}
    /\ sent = [s \in Senders |-> 0] /\ got = [s \in Senders |-> 0]
    /\ quiet = FALSE

Sending(s) ==
    /\ s \notin asleep
    /\ s \in calling \/ sent[s] < MaxMsgs
    /\ Send(s)
    /\ UNCHANGED <<waiting, task, got, quiet>>

SpuriousWake(s) ==
    /\ s \in asleep /\ asleep' = asleep \ {s}
    /\ UNCHANGED <<items, waiter, waiting, task, woken, calling, sent, got, quiet>>

(* The executor schedules a woken task; the task polls Recv and goes back  *)
(* to sleep when that is pending.                                          *)
Schedule ==
    /\ task = "idle" /\ woken
    /\ task' = "running" /\ woken' = FALSE
    /\ UNCHANGED <<items, waiter, waiting, calling, asleep, sent, got, quiet>>

Receive ==
    /\ task = "running"
    /\ \/ PollReady /\ task' = "running"
       \/ PollPending /\ task' = "polled"
    /\ UNCHANGED <<woken, calling, sent, quiet>>

Sleep ==
    /\ task = "polled" /\ task' = "idle"
    /\ UNCHANGED <<items, waiter, waiting, woken, calling, asleep, sent, got, quiet>>

(* Something else the task waits for is ready: it is woken, and it drops   *)
(* the receive in progress before or after polling it.  While the task is  *)
(* suspended in something else, a wakeup only makes it look at that again. *)
OtherWake ==
    /\ ~quiet /\ ~woken /\ woken' = TRUE
    /\ UNCHANGED <<items, waiter, waiting, task, calling, asleep, sent, got, quiet>>

Cancel ==
    /\ ~quiet /\ task \in {"running", "polled"}
    /\ DropRecv /\ task' = "running"
    /\ UNCHANGED <<woken, calling, asleep, sent, got, quiet>>

PollOther ==
    /\ ~quiet /\ task = "running" /\ woken /\ woken' = FALSE
    /\ UNCHANGED <<items, waiter, waiting, task, calling, asleep, sent, got, quiet>>

FallQuiet ==
    /\ ~quiet /\ quiet' = TRUE
    /\ UNCHANGED <<items, waiter, waiting, task, woken, calling, asleep, sent, got>>

Next ==
    \/ \E s \in Senders : Sending(s) \/ SpuriousWake(s)
    \/ Schedule \/ Receive \/ Sleep \/ OtherWake \/ Cancel \/ PollOther \/ FallQuiet

Spec == Init /\ [][Next]_vars

(* The task and the threads keep running.                                  *)
Fairness ==
    /\ WF_vars(Schedule) /\ WF_vars(Receive) /\ WF_vars(Sleep)
    /\ \A s \in Senders : WF_vars(s \in calling /\ Sending(s))

FairSpec == Spec /\ Fairness

-----------------------------------------------------------------------------
(* The variables have the types of the fields of Queue and Recv.           *)
TypeOK ==
    /\ items \in Seq(Senders \X Nat)
    /\ waiter \in BOOLEAN /\ waiting \in BOOLEAN /\ woken \in BOOLEAN
    /\ task \in {"idle", "running", "polled"}
    /\ calling \subseteq Senders /\ asleep \subseteq calling
    /\ sent \in [Senders -> Nat] /\ got \in [Senders -> Nat]
    /\ quiet \in BOOLEAN

(* The queue never holds more than its capacity: send() looks at the       *)
(* length again after every wait (sender.rs:125).                          *)
Bounded == Len(items) <= Max

(* No lost wakeup of the receiver: a task that sleeps on Recv, or is about *)
(* to, with a message in the queue has been woken, and as long as it has   *)
(* not, its Waker is in the queue for the next send() to take.             *)
Awake ==
    task # "running" => woken \/ (items = <<>> /\ waiter)

(* Senders that have been woken and have not run yet.                      *)
Notified == calling \ asleep

(* No lost wakeup of a sender: while some sender sleeps, the free places   *)
(* are all spoken for by senders that have been woken and not yet run      *)
(* (PollReady notifies one, receiver.rs:48).                               *)
Spoken == asleep # {} => Len(items) + Cardinality(Notified) >= Max

(* The channel neither overflows nor leaves a side asleep that could go    *)
(* on.                                                                     *)
Wakeups == Bounded /\ Awake /\ Spoken

(* Every message is delivered once and in order: the queue holds exactly   *)
(* the messages of s after the last one received, oldest first.            *)
Numbers(s) == {items[i][2] : i \in {j \in DOMAIN items : items[j][1] = s}}

Fifo ==
    /\ \A s \in Senders : Numbers(s) = got[s] + 1 .. sent[s]
    /\ \A i, j \in DOMAIN items :
          i < j /\ items[i][1] = items[j][1] => items[i][2] < items[j][2]

(* Once the task has nothing else to attend to, every message is received  *)
(* and every send() returns.                                               *)
Delivered ==
    /\ \A s \in Senders : (quiet /\ s \in calling) ~> s \notin calling
    /\ \A s \in Senders : \A n \in 1 .. MaxMsgs :
          (quiet /\ sent[s] >= n) ~> got[s] >= n
=============================================================================

------------------------------ MODULE Signals ------------------------------
(***************************************************************************)
(* The signal state of a process of the older kernel: the signal actions   *)
(* its threads share (process/signal.rs) and the mask each thread has of   *)
(* its own.  sigaction and sigprocmask each run under the lock of what     *)
(* they change, so each is one step.  A `SignalSet' is four words with one *)
(* bit per signal; signal s has bit (s - 1) % 32 of word (s - 1) / 32, so  *)
(* no two of the 128 signals share a bit and the set is modelled as a set  *)
(* of signal numbers.                                                      *)
(*                                                                         *)
(* Arguments that lead to a todo!() stop the emulator; such a call is no   *)
(* step of the model.                                                      *)
(***************************************************************************)
EXTENDS Integers, FiniteSets

CONSTANTS
    Threads,     \* threads of the process
    Sigs,        \* the signals the application uses
    Handlers,    \* handler addresses it passes, SIG_DFL and SIG_IGN included
    Masks,       \* the signal sets it passes
    Flags,       \* the sets of SA_* flags it passes
    Pid          \* the id of the process

SIGKILL == 9
SIGSTOP == 17
SIGCHLD == 20
SIG_DFL == 0
SIG_IGN == 1
SIG_MAXSIG == 128

\* What the calls rely on: signal numbers within SIG_MAXSIG, sets of them.
ASSUME SignalsAssumption ==
    /\ Sigs \subseteq 1..SIG_MAXSIG
    /\ Handlers \subseteq Nat
    /\ \A m \in Masks : m \subseteq 1..SIG_MAXSIG

VARIABLES
    acts,        \* SignalActs: handler, catchmask and the sets of signals
    sigmask,     \* td_sigmask of every thread
    old,         \* what the last call wrote to its "old" argument
    asked        \* the action the last sigaction that returned 0 asked for

sigvars == <<acts, sigmask, old, asked>>

Act == [handler : Handlers, flags : Flags, mask : Masks]
none == [sig |-> 0]

SignalsInit ==
    /\ acts = [handler   |-> [s \in Sigs |-> SIG_DFL],
               catchmask |-> [s \in Sigs |-> {}],
               stack |-> {}, interupt |-> {}, reset |-> {}, nodefer |-> {},
               modern |-> {}, ignore |-> {}, catch |-> {}, flag |-> {}]
    /\ sigmask = [t \in Threads |-> {}]
    /\ old = none
    /\ asked = [s \in Sigs |-> [handler |-> SIG_DFL, flags |-> {}, mask |-> {}]]

(***************************************************************************)
(* signal_flags: the flags as sigaction reports them.                      *)
(***************************************************************************)
signal_flags(a, sig) ==
    {f \in {"SA_ONSTACK"}   : sig \in a.stack} \cup
    {f \in {"SA_RESTART"}   : sig \in a.interupt} \cup
    {f \in {"SA_RESETHAND"} : sig \in a.reset} \cup
    {f \in {"SA_NODEFER"}   : sig \in a.nodefer} \cup
    {f \in {"SA_SIGINFO"}   : sig \in a.modern} \cup
    {f \in {"SA_NOCLDSTOP"} : sig = SIGCHLD /\ "PS_NOCLDSTOP" \in a.flag} \cup
    {f \in {"SA_NOCLDWAIT"} : sig = SIGCHLD /\ "PS_NOCLDWAIT" \in a.flag}

Reported(a, sig) ==
    [handler |-> a.handler[sig], flags |-> signal_flags(a, sig),
     mask |-> a.catchmask[sig]]

\* Bits 15, 18, 19, 22, 27, 28 of 0x184c8000: signals ignored by default.
IgnoredByDefault == {15, 18, 19, 22, 27, 28}

Uncatchable == {SIGKILL, SIGSTOP}

\* The calls that stop at a todo!(): flags not handled yet, and a signal
\* that would have to be ignored.
Unsupported(sig, act) ==
    \/ "SA_SIGINFO" \notin act.flags
    \/ act.flags \cap {"SA_RESTART", "SA_ONSTACK", "SA_RESETHAND", "SA_NODEFER"} # {}
    \/ act.handler = SIG_IGN
    \/ sig \in IgnoredByDefault /\ act.handler = SIG_DFL

(***************************************************************************)
(* The part of sigaction that depends on SIGCHLD.                          *)
(***************************************************************************)
ChldFlag(flag, sig, act) ==
    IF sig # SIGCHLD THEN flag ELSE
        {f \in {"PS_NOCLDSTOP"} : "SA_NOCLDSTOP" \in act.flags} \cup
        {f \in {"PS_NOCLDWAIT"} : "SA_NOCLDWAIT" \in act.flags /\ Pid # 1} \cup
        {f \in {"PS_CLDSIGIGN"} : act.handler = SIG_IGN}

(* Mutant: the signal stays caught when its handler goes back to SIG_DFL. *)
NewActsStillCaught(a, sig, act) ==
    [a EXCEPT !.catchmask[sig] = act.mask \ Uncatchable,
              !.handler[sig]   = act.handler,
              !.modern   = @ \cup {sig},
              !.interupt = @ \cup {sig},
              !.stack    = @ \ {sig},
              !.reset    = @ \ {sig},
              !.nodefer  = @ \ {sig},
              !.flag     = ChldFlag(@, sig, act),
              !.ignore   = @ \ {sig},
              !.catch    = IF act.handler = SIG_DFL THEN @ ELSE @ \cup {sig}]

NewActs(a, sig, act) ==
    [a EXCEPT !.catchmask[sig] = act.mask \ Uncatchable,
              !.handler[sig]   = act.handler,
              !.modern   = @ \cup {sig},
              !.interupt = @ \cup {sig},
              !.stack    = @ \ {sig},
              !.reset    = @ \ {sig},
              !.nodefer  = @ \ {sig},
              !.flag     = ChldFlag(@, sig, act),
              !.ignore   = @ \ {sig},
              !.catch    = IF act.handler = SIG_DFL THEN @ \ {sig}
                                                    ELSE @ \cup {sig}]

(***************************************************************************)
(* sys_sigaction: the old action is reported before anything is checked.   *)
(* Without a new action the call ends there; KILL and STOP take no         *)
(* handler; anything else is set whole.                                    *)
(***************************************************************************)
sys_sigaction_get(sig) ==
    /\ old' = [sig |-> sig, act |-> Reported(acts, sig)]
    /\ UNCHANGED <<acts, sigmask, asked>>

sys_sigaction(sig, act) ==
    /\ old' = [sig |-> sig, act |-> Reported(acts, sig)]
    /\ \/ /\ sig \in Uncatchable /\ act.handler # 0
          /\ UNCHANGED <<acts, asked>>
       \/ /\ ~(sig \in Uncatchable /\ act.handler # 0)
          /\ ~Unsupported(sig, act)
          /\ acts' = NewActs(acts, sig, act)
          /\ asked' = [asked EXCEPT ![sig] = act]
    /\ UNCHANGED sigmask

(***************************************************************************)
(* sys_sigprocmask: the mask before the call is what the caller gets back. *)
(***************************************************************************)
NewMask(mask, how, set) ==
    CASE how = "Block"   -> mask \cup (set \ Uncatchable)
      [] how = "Unblock" -> mask \ set
      [] how = "Set"     -> set \ Uncatchable

sys_sigprocmask(t, how, set) ==
    /\ old' = [sig |-> 0, oset |-> sigmask[t]]
    /\ sigmask' = [sigmask EXCEPT ![t] = NewMask(@, how, set)]
    /\ UNCHANGED <<acts, asked>>

sys_sigprocmask_get(t) ==
    /\ old' = [sig |-> 0, oset |-> sigmask[t]]
    /\ UNCHANGED <<acts, sigmask, asked>>

SignalsNext ==
    \/ \E sig \in Sigs : sys_sigaction_get(sig)
    \/ \E sig \in Sigs, act \in Act : sys_sigaction(sig, act)
    \/ \E t \in Threads, how \in {"Block", "Unblock", "Set"}, set \in Masks :
          sys_sigprocmask(t, how, set)
    \/ \E t \in Threads : sys_sigprocmask_get(t)

SignalsSpec == SignalsInit /\ [][SignalsNext]_sigvars

(***************************************************************************)
(* The signal state is consistent after any sequence of calls: KILL and    *)
(* STOP are never masked by a thread or by a handler and never handled     *)
(* (sys_sigaction, sys_sigprocmask), a signal is in the caught set exactly *)
(* when its handler is not SIG_DFL, and the handler and the mask in force  *)
(* are those of the last sigaction that succeeded.                         *)
(***************************************************************************)
SignalsConsistent ==
    /\ \A t \in Threads : sigmask[t] \cap Uncatchable = {}
    /\ \A s \in Sigs :
          /\ acts.catchmask[s] = asked[s].mask \ Uncatchable
          /\ acts.handler[s] = asked[s].handler
          /\ s \in acts.catch <=> acts.handler[s] # SIG_DFL
          /\ s \in Uncatchable => s \notin acts.catch

(***************************************************************************)
(* "Save the old actions" (process/mod.rs, sys_sigaction): the flags that  *)
(* sigaction reports for a signal are the flags the last successful call   *)
(* set for it.  signal_flags reports SA_RESTART for the signals whose      *)
(* system calls are interrupted, the opposite of what the flag asks for.   *)
(***************************************************************************)
OldFlags ==
    [][ \A s \in Sigs : old'.sig = s => old'.act.flags = asked[s].flags ]_sigvars
=============================================================================

-------------------------------- MODULE Ram --------------------------------
(***************************************************************************)
(* The RAM of the virtual machine: src/lib/hv/src/ram/mod.rs and lock.rs.  *)
(*                                                                         *)
(* Ram keeps a map from block address to Locked/Unlocked behind a Mutex,   *)
(* and a Condvar on which lock() and dealloc() wait for a Locked block.    *)
(* Everything a call does while it owns the Mutex is one step; it gives    *)
(* the Mutex up only inside Condvar::wait.  Addresses are bytes, as in the *)
(* code; the map is keyed by block number (byte address / BlockSize).      *)
(***************************************************************************)
EXTENDS Integers, FiniteSets

CONSTANTS
    Threads,      \* host threads sharing the Ram
    BlockSize,    \* max(vm_page_size, host_page_size), in bytes
    NumBlocks,    \* len / block_size
    MaxUsize,     \* largest usize
    BlockRanges,  \* ranges callers pass to alloc and dealloc
    LockRanges,   \* ranges callers pass to lock
    MaxHeld       \* bound: a thread with this many LockedMem makes no call

Mems == [addr : Nat, len : Nat \ {0}]
Blocks == 0 .. NumBlocks - 1

ASSUME RamAssumption ==
    /\ BlockSize \in Nat \ {0}
    /\ NumBlocks \in Nat \ {0}
    /\ MaxUsize \in Nat
    /\ MaxHeld \in Nat
    /\ BlockRanges \subseteq Mems
    /\ LockRanges \subseteq Mems
    \* What alloc and dealloc assert of their arguments.
    /\ \A m \in BlockRanges : m.addr % BlockSize = 0 /\ m.len % BlockSize = 0

VARIABLES
    allocated,  \* Ram::allocated; "Free" for a block that has no entry
    committed,  \* blocks whose host memory is committed
    held,       \* the LockedMem values each thread owns
    op,         \* the call a thread is in: "none", "lock" or "dealloc"
    arg,        \* its arguments
    next,       \* lock's `next`, dealloc's `addr`: the block it got to
    waiting,    \* threads inside Condvar::wait
    result,     \* what the step returned to its caller, "" if it ended no call
    quiet       \* TRUE once the threads make no further call

vars == <<allocated, committed, held, op, arg, next, waiting, result, quiet>>

-----------------------------------------------------------------------------
(* A byte range covers the blocks whose address is in begin .. end - 1,    *)
(* where begin is addr rounded down.                                       *)

First(m) == m.addr \div BlockSize
Limit(m) == (m.addr + m.len + BlockSize - 1) \div BlockSize
BlocksOf(m) == First(m) .. Limit(m) - 1

Overflows(m) == m.addr + m.len > MaxUsize
InvalidAddr(m) == Overflows(m) \/ m.addr + m.len > NumBlocks * BlockSize

StateOf(b) == IF b \in Blocks THEN allocated[b] ELSE "Free"

(* The blocks a lock call in progress has already marked Locked.           *)
Partial(t) == IF op[t] = "lock" THEN First(arg[t]) .. next[t] - 1 ELSE {}

Set(S, s) == [b \in Blocks |-> IF b \in S THEN s ELSE allocated[b]]

(* range_mut visits the entries that exist.                                *)
Unlock(S) == Set({b \in S : StateOf(b) # "Free"}, "Unlocked")

(* Condvar::notify_one wakes any one of the waiters.                       *)
NotifyOne ==
    IF waiting = {} THEN waiting' = {}
                    ELSE \E w \in waiting : waiting' = waiting \ {w}

MayCall(t) ==
    /\ op[t] = "none"
    /\ Cardinality(held[t]) < MaxHeld
    /\ ~quiet

NoArg == [addr |-> 0, len |-> 1]

(* The locals of a call are gone when it returns.                          *)
Return(t, r) ==
    /\ op' = [op EXCEPT ![t] = "none"]
    /\ arg' = [arg EXCEPT ![t] = NoArg]
    /\ next' = [next EXCEPT ![t] = 0]
    /\ result' = r

Enter(t, o, m) ==
    /\ op' = [op EXCEPT ![t] = o]
    /\ arg' = [arg EXCEPT ![t] = m]
    /\ next' = [next EXCEPT ![t] = First(m)]
    /\ result' = ""

-----------------------------------------------------------------------------
Init ==
    /\ allocated = [b \in Blocks |-> "Free"]
    /\ committed = {}
    /\ held = [t \in Threads |-> {}]
    /\ op = [t \in Threads |-> "none"]
    /\ arg = [t \in Threads |-> NoArg]
    /\ next = [t \in Threads |-> 0]
    /\ waiting = {}
    /\ result = ""
    /\ quiet = FALSE

(* Ram::alloc.  It holds the Mutex from the check to the last insert, and  *)
(* commit or map may fail; what was committed before map failed stays so.  *)
AllocErr(t, m) ==
    \E e \in {"InvalidAddr", "AlreadyAllocated", "Commit", "Map"} :
        /\ (e = "InvalidAddr") = InvalidAddr(m)
        /\ ~InvalidAddr(m) =>
             ((e = "AlreadyAllocated") = \E b \in BlocksOf(m) : StateOf(b) # "Free")
        /\ committed' = committed \cup (IF e = "Map" THEN BlocksOf(m) ELSE {})
        /\ Return(t, e)
        /\ UNCHANGED <<allocated, held>>

AllocOverwrites(t, m) ==
    /\ ~InvalidAddr(m)
    /\ committed' = committed \cup BlocksOf(m)
    /\ allocated' = Set(BlocksOf(m), "Locked")
    /\ held' = [held EXCEPT ![t] = @ \cup {m}]
    /\ Return(t, "Ok")

AllocOk(t, m) ==
    /\ ~InvalidAddr(m)
    /\ \A b \in BlocksOf(m) : StateOf(b) = "Free"
    /\ committed' = committed \cup BlocksOf(m)
    /\ allocated' = Set(BlocksOf(m), "Locked")
    /\ held' = [held EXCEPT ![t] = @ \cup {m}]
    /\ Return(t, "Ok")

Alloc(t, m) ==
    /\ MayCall(t)
    /\ AllocErr(t, m) \/ AllocOk(t, m)
    /\ UNCHANGED <<waiting, quiet>>

(* Ram::lock up to the Mutex: only an address overflow is refused here.    *)
Lock(t, m) ==
    /\ MayCall(t)
    /\ IF Overflows(m)
       THEN Return(t, "None")
       ELSE Enter(t, "lock", m)
    /\ UNCHANGED <<allocated, committed, held, waiting, quiet>>

(* One pass of the 'top loop.  It marks the unlocked blocks from next up   *)
(* to block n, where it stops: n is the end, or Locked, or not allocated.  *)
LockStopsAtGap(t, n) ==
    /\ \A b \in next[t] .. n - 1 : StateOf(b) # "Free"
    /\ n < Limit(arg[t]) => StateOf(n) = "Free"

LockStops(t, n) ==
    /\ \A b \in next[t] .. n - 1 : StateOf(b) = "Unlocked"
    /\ n < Limit(arg[t]) => StateOf(n) # "Unlocked"

LockGranted(t, n) ==
    /\ n = Limit(arg[t])
    /\ allocated' = Set(next[t] .. n - 1, "Locked")
    /\ held' = [held EXCEPT ![t] = @ \cup {arg[t]}]
    /\ Return(t, "Some")
    /\ UNCHANGED waiting

LockGivesUp(t, n) ==
    /\ n < Limit(arg[t]) /\ StateOf(n) = "Locked"
    /\ allocated' = Unlock(First(arg[t]) .. n - 1)
    /\ Return(t, "None")
    /\ UNCHANGED <<held, waiting>>

LockWaits(t, n) ==
    /\ n < Limit(arg[t]) /\ StateOf(n) = "Locked"
    /\ allocated' = Set(next[t] .. n - 1, "Locked")
    /\ next' = [next EXCEPT ![t] = n]
    /\ waiting' = waiting \cup {t}
    /\ result' = ""
    /\ UNCHANGED <<held, op, arg>>

LockRefusedKeepsPrefix(t, n) ==
    /\ n < Limit(arg[t]) /\ StateOf(n) = "Free"
    /\ allocated' = Set(next[t] .. n - 1, "Locked")
    /\ Return(t, "None")
    /\ UNCHANGED <<held, waiting>>

LockRefused(t, n) ==
    /\ n < Limit(arg[t]) /\ StateOf(n) = "Free"
    /\ allocated' = Unlock(First(arg[t]) .. n - 1)
    /\ IF n # First(arg[t]) THEN NotifyOne ELSE UNCHANGED waiting
    /\ Return(t, "None")
    /\ UNCHANGED held

LockRun(t) ==
    /\ op[t] = "lock" /\ t \notin waiting
    /\ \E n \in next[t] .. Limit(arg[t]) :
          /\ LockStops(t, n)
          /\ LockGranted(t, n) \/ LockWaits(t, n) \/ LockRefused(t, n)
    /\ UNCHANGED <<committed, quiet>>

(* Ram::dealloc up to the Mutex.                                           *)
Dealloc(t, m) ==
    /\ MayCall(t)
    /\ IF InvalidAddr(m)
       THEN Return(t, "InvalidAddr")
       ELSE Enter(t, "dealloc", m)
    /\ UNCHANGED <<allocated, committed, held, waiting, quiet>>

(* One pass of dealloc's loop over the entries left in its range.          *)
Entries(t) == {b \in next[t] .. Limit(arg[t]) - 1 : StateOf(b) # "Free"}

DeallocDone(t) ==
    /\ Entries(t) = {}
    /\ Return(t, "Ok")
    /\ UNCHANGED <<allocated, committed, waiting>>

DeallocWaits(t) ==
    /\ \E b \in Entries(t) :
          (\A c \in Entries(t) : b <= c) /\ allocated[b] = "Locked"
    /\ waiting' = waiting \cup {t}
    /\ result' = ""
    /\ UNCHANGED <<allocated, committed, op, arg, next>>

(* The entries up to the first Locked one are decommitted as one range,    *)
(* from the first to the last of them, blocks without an entry included.   *)
DeallocRangeIgnoresLocked(t, first, last) ==
    /\ \A b \in Entries(t) : first <= b /\ b <= last

DeallocRange(t, first, last) ==
    /\ \A b \in Entries(t) : first <= b
    /\ \A b \in Entries(t) : b <= last => allocated[b] = "Unlocked"
    /\ \A b \in Entries(t) : b > last =>
          \E c \in Entries(t) : last < c /\ c <= b /\ allocated[c] = "Locked"

DeallocFreesOnce(t, first, last) ==
    /\ DeallocRange(t, first, last)
    /\ allocated' = Set(first .. last, "Free")
    /\ committed' = committed \ (first .. last)
    /\ Return(t, "Ok")
    /\ UNCHANGED waiting

DeallocFree(t, first, last) ==
    /\ DeallocRange(t, first, last)
    /\ allocated' = Set(first .. last, "Free")
    /\ committed' = committed \ (first .. last)
    /\ IF \E b \in Entries(t) : b > last
       THEN /\ next' = [next EXCEPT ![t] = last + 1]
            /\ waiting' = waiting \cup {t}
            /\ result' = ""
            /\ UNCHANGED <<op, arg>>
       ELSE Return(t, "Ok") /\ UNCHANGED waiting

DeallocErr(t, first, last) ==
    /\ DeallocRange(t, first, last)
    /\ Return(t, "Decommit")
    /\ UNCHANGED <<allocated, committed, waiting>>

DeallocRun(t) ==
    /\ op[t] = "dealloc" /\ t \notin waiting
    /\ \/ DeallocDone(t)
       \/ DeallocWaits(t)
       \/ \E first, last \in Entries(t) :
             DeallocFree(t, first, last) \/ DeallocErr(t, first, last)
    /\ UNCHANGED <<held, quiet>>

(* LockedMem::drop.                                                        *)
DropSilently(t, m) ==
    /\ op[t] = "none" /\ m \in held[t]
    /\ allocated' = Unlock(BlocksOf(m))
    /\ held' = [held EXCEPT ![t] = @ \ {m}]
    /\ result' = ""
    /\ UNCHANGED <<committed, op, arg, next, waiting, quiet>>

Drop(t, m) ==
    /\ op[t] = "none" /\ m \in held[t]
    /\ allocated' = Unlock(BlocksOf(m))
    /\ held' = [held EXCEPT ![t] = @ \ {m}]
    /\ NotifyOne
    /\ result' = ""
    /\ UNCHANGED <<committed, op, arg, next, quiet>>

(* Condvar::wait may return without a notification.                        *)
SpuriousWake(t) ==
    /\ t \in waiting
    /\ waiting' = waiting \ {t}
    /\ result' = ""
    /\ UNCHANGED <<allocated, committed, held, op, arg, next, quiet>>

(* The callers stop making calls; what is in progress goes on.             *)
FallQuiet ==
    /\ ~quiet /\ quiet' = TRUE
    /\ result' = ""
    /\ UNCHANGED <<allocated, committed, held, op, arg, next, waiting>>

Next ==
    \/ FallQuiet
    \/ \E t \in Threads :
        \/ \E m \in BlockRanges : Alloc(t, m) \/ Dealloc(t, m)
        \/ \E m \in LockRanges : Lock(t, m)
        \/ \E m \in held[t] : Drop(t, m)
        \/ LockRun(t) \/ DeallocRun(t) \/ SpuriousWake(t)

Spec == Init /\ [][Next]_vars

(* A running thread keeps running, and a LockedMem is a scoped value that  *)
(* its owner drops.  Nothing makes a thread call, or wakes it spuriously.  *)
Fairness ==
    \A t \in Threads :
        /\ WF_vars(LockRun(t)) /\ WF_vars(DeallocRun(t))
        /\ WF_vars(\E m \in held[t] : Drop(t, m))

FairSpec == Spec /\ Fairness

-----------------------------------------------------------------------------
(* Blocks a thread is entitled to: those of its LockedMem values and those *)
(* a lock call of its has marked on the way.                               *)
Owned(t) == (UNION {BlocksOf(m) : m \in held[t]}) \cup Partial(t)

(* The variables have the types of the fields of Ram and LockedMem, and of *)
(* the locals of lock() and dealloc().                                     *)
TypeOK ==
    /\ allocated \in [Blocks -> {"Free", "Unlocked", "Locked"}]
    /\ committed \subseteq Blocks
    /\ held \in [Threads -> SUBSET Mems]
    /\ op \in [Threads -> {"none", "lock", "dealloc"}]
    /\ arg \in [Threads -> Mems]
    /\ next \in [Threads -> Nat]
    /\ waiting \subseteq {t \in Threads : op[t] # "none"}
    /\ quiet \in BOOLEAN

(* A block is lent to one LockedMem at a time: neither two LockedMem, of   *)
(* one thread or of two, nor a LockedMem and a lock() that is still        *)
(* waiting for the rest of its range, share a block.                       *)
Exclusive ==
    /\ \A t, u \in Threads : t # u => Owned(t) \cap Owned(u) = {}
    /\ \A t \in Threads : \A m, n \in held[t] :
          m # n => BlocksOf(m) \cap BlocksOf(n) = {}
    /\ \A t \in Threads : \A m \in held[t] : BlocksOf(m) \cap Partial(t) = {}

(* The map says Locked for exactly the blocks somebody owns: a failing     *)
(* lock() or a drop() leaves no block Locked for good, and none unlocked   *)
(* under its owner.                                                        *)
LockedIsOwned ==
    /\ \A t \in Threads : Owned(t) \subseteq Blocks
    /\ \A b \in Blocks : allocated[b] = "Locked" <=> \E t \in Threads : b \in Owned(t)

(* LockedMem is a "RAII struct to prevent a range of memory from           *)
(* deallocated" (lock.rs:7): the memory behind a LockedMem, and behind any *)
(* block in the map, is committed, whatever dealloc() calls run meanwhile. *)
Committed ==
    /\ \A b \in Blocks : allocated[b] # "Free" => b \in committed
    /\ \A t \in Threads : \A m \in held[t] : BlocksOf(m) \subseteq committed

(* What alloc, lock, dealloc and drop keep true together.                  *)
SafeLoans == Exclusive /\ LockedIsOwned /\ Committed

(* "Return None if some part of the requested range is not allocated"      *)
(* (mod.rs:197), and only then: when a lock() that met no overflow returns *)
(* None, a block of its range is unallocated; when it returns a LockedMem, *)
(* the caller owns all of its range.                                       *)
LockAnswer ==
    [][\A t \in Threads :
         (op[t] = "lock" /\ op'[t] = "none") =>
            \/ /\ result' = "None"
               /\ \E b \in BlocksOf(arg[t]) : StateOf(b)' = "Free"
            \/ /\ result' = "Some"
               /\ BlocksOf(arg[t]) \subseteq Owned(t)']_vars

(* The detailed map, with its half-locked ranges, seen as BlockLending:    *)
(* blocks a waiting lock() has marked count as not lent.                   *)
Live == {b \in Blocks : allocated[b] # "Free"}
Lent == [t \in Threads |-> UNION {BlocksOf(m) : m \in held[t]}]

Lending == INSTANCE BlockLending WITH live <- Live, lent <- Lent

(* Ram implements BlockLending: lock() takes effect at one instant on the  *)
(* whole range although it proceeds block by block and gives the Mutex up  *)
(* in between, and nothing that is lent is deallocated.                    *)
LendsWholeRanges == Lending!Spec

(* Between two threads, every lock() and dealloc() returns once no further *)
(* call is made, if a thread that waits holds nothing and the other drops  *)
(* what it locks: drop() and a lock() that is refused part way both wake   *)
(* the one thread that may wait, and the two never wait for each other.    *)
(* The claim ends there: notify_one wakes one thread (lock.rs:116), and of *)
(* two that wait it may be the one that cannot go on (LockReturnsNone).    *)
HoldNothing == \A t \in Threads : op[t] # "none" => held[t] = {}
CallsReturn ==
    \A t \in Threads : (quiet /\ HoldNothing /\ op[t] # "none") ~> op[t] = "none"

(* "Return None if some part of the requested range is not allocated"      *)
(* (mod.rs:197): a lock() waiting for a block that is deallocated under it *)
(* returns.                                                                *)
LockReturnsNone ==
    \A t \in Threads :
        (quiet /\ op[t] = "lock" /\ StateOf(next[t]) = "Free") ~> op[t] = "none"
=============================================================================

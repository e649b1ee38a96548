----------------------------- MODULE RamProofs -----------------------------
(***************************************************************************)
(* Proofs about Ram, for any number of threads, blocks and ranges.         *)
(***************************************************************************)
EXTENDS RamHistory, TLAPS

(* Dividing a byte address by the block size gives a block number.         *)
LEMMA DivType ==
    ASSUME NEW a \in Nat, NEW d \in Nat \ {0}
    PROVE  /\ a \div d \in Nat
           /\ d * (a \div d) <= a
           /\ a < d * (a \div d) + d
  OBVIOUS

(* First and Limit of a range are block numbers.                           *)
LEMMA RangeType ==
    ASSUME NEW m \in Mems
    PROVE  First(m) \in Nat /\ Limit(m) \in Nat
  <1>1. m.addr \in Nat /\ m.len \in Nat /\ m.len >= 1
    BY DEF Mems
  <1>2. m.addr + m.len + BlockSize - 1 \in Nat
    BY <1>1, RamAssumption
  <1> QED
    BY <1>1, <1>2, DivType, RamAssumption DEF First, Limit

(* A range alloc and dealloc accept lies inside the RAM.                   *)
LEMMA ValidRange ==
    ASSUME NEW m \in Mems, ~InvalidAddr(m)
    PROVE  BlocksOf(m) \subseteq Blocks
  <1> DEFINE x == m.addr + m.len
             y == x + BlockSize - 1
             q == y \div BlockSize
  <1>1. m.addr \in Nat /\ m.len \in Nat /\ x \in Nat /\ y \in Nat /\ m.len >= 1
    BY RamAssumption DEF Mems
  <1>2. x <= NumBlocks * BlockSize
    BY <1>1, RamAssumption DEF InvalidAddr
  <1>3. q \in Nat /\ BlockSize * q <= y
    BY <1>1, DivType, RamAssumption
  <1>4. q <= NumBlocks
    <2> SUFFICES ASSUME q >= NumBlocks + 1 PROVE FALSE
      BY <1>3, RamAssumption
    <2> HIDE DEF q
    <2>1. BlockSize * q >= BlockSize * (NumBlocks + 1)
      BY <1>3, RamAssumption
    <2>2. BlockSize * (NumBlocks + 1) = NumBlocks * BlockSize + BlockSize
      BY RamAssumption
    <2> QED
      BY <1>1, <1>2, <1>3, <2>1, <2>2, RamAssumption
  <1>5. Limit(m) = q /\ First(m) \in Nat
    BY RangeType DEF Limit
  <1> QED
    BY <1>3, <1>4, <1>5, RamAssumption DEF BlocksOf, Blocks

-----------------------------------------------------------------------------
(* What a map update does, block by block.                                 *)
LEMMA SetType ==
    ASSUME TypeOK, NEW S, NEW s \in {"Free", "Unlocked", "Locked"}
    PROVE  Set(S, s) \in [Blocks -> {"Free", "Unlocked", "Locked"}]
  BY DEF TypeOK, Set

LEMMA UnlockType ==
    ASSUME TypeOK, NEW S
    PROVE  Unlock(S) \in [Blocks -> {"Free", "Unlocked", "Locked"}]
  BY SetType DEF Unlock

(* A thread that starts or ends a call keeps the locals well typed.        *)
LEMMA ReturnType ==
    ASSUME TypeOK, NEW t \in Threads, NEW r, Return(t, r)
    PROVE  /\ op' \in [Threads -> {"none", "lock", "dealloc"}]
           /\ arg' \in [Threads -> Mems]
           /\ next' \in [Threads -> Nat]
           /\ \A u \in Threads : u # t => op'[u] = op[u]
  BY DEF TypeOK, Return, NoArg, Mems

LEMMA EnterType ==
    ASSUME TypeOK, NEW t \in Threads, NEW m \in Mems,
           NEW o \in {"lock", "dealloc"}, Enter(t, o, m)
    PROVE  /\ op' \in [Threads -> {"none", "lock", "dealloc"}]
           /\ arg' \in [Threads -> Mems]
           /\ next' \in [Threads -> Nat]
           /\ op'[t] # "none"
           /\ \A u \in Threads : u # t => op'[u] = op[u]
  BY RangeType DEF TypeOK, Enter

(* NotifyOne only takes threads out of the wait set.                       *)
LEMMA NotifyShrinks == NotifyOne => waiting' \subseteq waiting
  BY DEF NotifyOne

(* The types of Ram's fields and locals are preserved by every step.       *)
THEOREM TypeCorrect == Spec => []TypeOK
  <1>1. Init => TypeOK
    <2>1. NoArg \in Mems
      BY DEF NoArg, Mems
    <2> SUFFICES ASSUME Init PROVE TypeOK
      OBVIOUS
    <2>2. /\ held \in [Threads -> SUBSET Mems]
          /\ arg \in [Threads -> Mems]
          /\ next \in [Threads -> Nat]
      BY <2>1 DEF Init
    <2>3. /\ allocated \in [Blocks -> {"Free", "Unlocked", "Locked"}]
          /\ op \in [Threads -> {"none", "lock", "dealloc"}]
          /\ committed \subseteq Blocks
          /\ waiting \subseteq {t \in Threads : op[t] # "none"}
      BY DEF Init
    <2>4. quiet \in BOOLEAN
      BY DEF Init
    <2> QED
      BY <2>2, <2>3, <2>4 DEF TypeOK
  <1>2. ASSUME TypeOK, [Next]_vars PROVE TypeOK'
    <2>1. CASE FallQuiet
      BY <1>2, <2>1 DEF TypeOK, FallQuiet
    <2>2. ASSUME NEW t \in Threads, NEW m \in BlockRanges, Alloc(t, m)
          PROVE  TypeOK'
      <3>1. m \in Mems
        BY RamAssumption
      <3>2. CASE AllocErr(t, m)
        <4>1. PICK e \in {"InvalidAddr", "AlreadyAllocated", "Commit", "Map"} :
                 /\ (e = "InvalidAddr") = InvalidAddr(m)
                 /\ committed' = committed \cup (IF e = "Map" THEN BlocksOf(m) ELSE {})
                 /\ Return(t, e)
                 /\ UNCHANGED <<allocated, held>>
          BY <3>2 DEF AllocErr
        <4>2. committed' \subseteq Blocks
          BY <1>2, <3>1, <4>1, ValidRange DEF TypeOK
        <4>3. waiting' \subseteq {u \in Threads : op'[u] # "none"}
          BY <1>2, <2>2, <4>1, ReturnType DEF TypeOK, Alloc, MayCall
        <4> QED
          BY <1>2, <2>2, <4>1, <4>2, <4>3, ReturnType DEF TypeOK, Alloc
      <3>3. CASE AllocOk(t, m)
        <4>1. committed' \subseteq Blocks
          BY <1>2, <3>1, <3>3, ValidRange DEF TypeOK, AllocOk
        <4>2. waiting' \subseteq {u \in Threads : op'[u] # "none"}
          BY <1>2, <2>2, <3>3, ReturnType DEF TypeOK, Alloc, AllocOk, MayCall
        <4>3. held' \in [Threads -> SUBSET Mems]
          BY <1>2, <3>1, <3>3 DEF TypeOK, AllocOk
        <4> QED
          BY <1>2, <2>2, <3>3, <4>1, <4>2, <4>3, ReturnType, SetType
          DEF TypeOK, Alloc, AllocOk
      <3> QED
        BY <2>2, <3>2, <3>3 DEF Alloc
    <2>3. ASSUME NEW t \in Threads, NEW m \in BlockRanges, Dealloc(t, m)
          PROVE  TypeOK'
      <3>1. m \in Mems
        BY RamAssumption
      <3>2. CASE Return(t, "InvalidAddr")
        BY <1>2, <2>3, <3>2, ReturnType DEF TypeOK, Dealloc, MayCall
      <3>3. CASE Enter(t, "dealloc", m)
        BY <1>2, <2>3, <3>1, <3>3, EnterType DEF TypeOK, Dealloc, MayCall
      <3> QED
        BY <2>3, <3>2, <3>3 DEF Dealloc
    <2>4. ASSUME NEW t \in Threads, NEW m \in LockRanges, Lock(t, m)
          PROVE  TypeOK'
      <3>1. m \in Mems
        BY RamAssumption
      <3>2. CASE Return(t, "None")
        BY <1>2, <2>4, <3>2, ReturnType DEF TypeOK, Lock, MayCall
      <3>3. CASE Enter(t, "lock", m)
        BY <1>2, <2>4, <3>1, <3>3, EnterType DEF TypeOK, Lock, MayCall
      <3> QED
        BY <2>4, <3>2, <3>3 DEF Lock
    <2>5. ASSUME NEW t \in Threads, NEW m \in held[t], Drop(t, m)
          PROVE  TypeOK'
      <3>1. held' \in [Threads -> SUBSET Mems]
        BY <1>2, <2>5 DEF TypeOK, Drop
      <3> QED
        BY <1>2, <2>5, <3>1, UnlockType, NotifyShrinks DEF TypeOK, Drop
    <2>6. ASSUME NEW t \in Threads, LockRun(t) PROVE TypeOK'
      <3>1. PICK n \in next[t] .. Limit(arg[t]) :
               LockGranted(t, n) \/ LockWaits(t, n) \/ LockRefused(t, n)
        BY <2>6 DEF LockRun
      <3>2. n \in Nat
        BY <1>2, <3>1, RangeType DEF TypeOK
      <3>3. CASE LockGranted(t, n)
        <4>1. held' \in [Threads -> SUBSET Mems]
          BY <1>2, <3>3 DEF TypeOK, LockGranted
        <4> QED
          BY <1>2, <2>6, <3>3, <4>1, ReturnType, SetType
          DEF TypeOK, LockRun, LockGranted
      <3>4. CASE LockWaits(t, n)
        BY <1>2, <2>6, <3>2, <3>4, SetType DEF TypeOK, LockRun, LockWaits
      <3>5. CASE LockRefused(t, n)
        BY <1>2, <2>6, <3>5, ReturnType, UnlockType, NotifyShrinks
        DEF TypeOK, LockRun, LockRefused
      <3> QED
        BY <3>1, <3>3, <3>4, <3>5
    <2>7. ASSUME NEW t \in Threads, DeallocRun(t) PROVE TypeOK'
      <3>1. CASE DeallocDone(t)
        BY <1>2, <2>7, <3>1, ReturnType DEF TypeOK, DeallocRun, DeallocDone
      <3>2. CASE DeallocWaits(t)
        BY <1>2, <2>7, <3>2 DEF TypeOK, DeallocRun, DeallocWaits
      <3>3. ASSUME NEW first \in Entries(t), NEW last \in Entries(t),
                   DeallocFree(t, first, last)
            PROVE  TypeOK'
        <4>1. last + 1 \in Nat
          BY <1>2, RangeType DEF TypeOK, Entries
        <4>2. CASE Return(t, "Ok") /\ UNCHANGED waiting
          BY <1>2, <2>7, <3>3, <4>2, ReturnType, SetType
          DEF TypeOK, DeallocRun, DeallocFree
        <4>3. CASE /\ next' = [next EXCEPT ![t] = last + 1]
                   /\ waiting' = waiting \cup {t}
                   /\ UNCHANGED <<op, arg>>
          BY <1>2, <2>7, <3>3, <4>1, <4>3, SetType
          DEF TypeOK, DeallocRun, DeallocFree
        <4> QED
          BY <3>3, <4>2, <4>3 DEF DeallocFree
      <3>4. ASSUME NEW first \in Entries(t), NEW last \in Entries(t),
                   DeallocErr(t, first, last)
            PROVE  TypeOK'
        BY <1>2, <2>7, <3>4, ReturnType DEF TypeOK, DeallocRun, DeallocErr
      <3> QED
        BY <2>7, <3>1, <3>2, <3>3, <3>4 DEF DeallocRun
    <2>8. ASSUME NEW t \in Threads, SpuriousWake(t) PROVE TypeOK'
      BY <1>2, <2>8 DEF TypeOK, SpuriousWake
    <2>9. CASE UNCHANGED vars
      BY <1>2, <2>9 DEF TypeOK, vars
    <2> QED
      BY <1>2, <2>1, <2>2, <2>3, <2>4, <2>5, <2>6, <2>7, <2>8, <2>9 DEF Next
  <1> QED
    BY <1>1, <1>2, PTL DEF Spec

-----------------------------------------------------------------------------
(* The inductive invariant.  NextInBounds is the strengthening: what a     *)
(* lock() in progress has marked starts at its first block.                *)
NextInBounds == \A t \in Threads : op[t] = "lock" => First(arg[t]) <= next[t]

IInv == TypeOK /\ NextInBounds /\ Exclusive /\ LockedIsOwned /\ Committed

(* Owned, block by block, before and after a step.                         *)
LEMMA OwnedIff ==
    ASSUME NEW t, NEW b
    PROVE  /\ b \in Owned(t) <=> \/ \E m \in held[t] : b \in BlocksOf(m)
                                 \/ b \in Partial(t)
           /\ b \in Owned(t)' <=> \/ \E m \in held'[t] : b \in BlocksOf(m)
                                  \/ b \in Partial(t)'
  <1>1. b \in UNION {BlocksOf(m) : m \in held[t]} <=>
           \E m \in held[t] : b \in BlocksOf(m)
    BY Zenon
  <1>2. b \in UNION {BlocksOf(m) : m \in held'[t]} <=>
           \E m \in held'[t] : b \in BlocksOf(m)
    BY Zenon
  <1> QED
    BY <1>1, <1>2 DEF Owned

(* Only the thread that steps changes what it owns.                        *)
LEMMA OwnedFrame ==
    ASSUME NEW u \in Threads,
           held'[u] = held[u], op'[u] = op[u], arg'[u] = arg[u], next'[u] = next[u]
    PROVE  Owned(u)' = Owned(u) /\ Partial(u)' = Partial(u)
  BY DEF Owned, Partial

(* Nobody else's blocks: what Exclusive says of two threads.               *)
Disjoint == \A t, u \in Threads : t # u => Owned(t) \cap Owned(u) = {}

(* What Exclusive says of one thread.                                      *)
Separate(t) ==
    /\ \A m, n \in held[t] : m # n => BlocksOf(m) \cap BlocksOf(n) = {}
    /\ \A m \in held[t] : BlocksOf(m) \cap Partial(t) = {}

LEMMA ExclusiveParts == /\ Exclusive <=> Disjoint /\ \A t \in Threads : Separate(t)
                        /\ Exclusive' <=> Disjoint' /\ \A t \in Threads : Separate(t)'
  BY DEF Exclusive, Disjoint, Separate

(* A thread takes blocks that were not Locked.                             *)
LEMMA Grow ==
    ASSUME TypeOK, Disjoint, LockedIsOwned,
           NEW t \in Threads, NEW S \in SUBSET Blocks,
           \A b \in S : allocated[b] # "Locked",
           allocated' = Set(S, "Locked"),
           Owned(t)' = Owned(t) \cup S,
           \A u \in Threads : u # t => Owned(u)' = Owned(u)
    PROVE  Disjoint' /\ LockedIsOwned'
  <1>1. \A u \in Threads : Owned(u) \cap S = {} /\ Owned(u) \subseteq Blocks
    BY DEF LockedIsOwned
  <1>2. Disjoint'
    BY <1>1 DEF Disjoint
  <1>3. \A b \in Blocks : allocated'[b] = IF b \in S THEN "Locked" ELSE allocated[b]
    BY DEF Set
  <1>4. \A b \in Blocks : allocated'[b] = "Locked" <=> \E u \in Threads : b \in Owned(u)'
    BY <1>3 DEF LockedIsOwned
  <1> QED
    BY <1>1, <1>2, <1>4 DEF LockedIsOwned

(* A thread gives back blocks it owned.                                    *)
LEMMA Shrink ==
    ASSUME TypeOK, Disjoint, LockedIsOwned,
           NEW t \in Threads, NEW S \in SUBSET Owned(t),
           allocated' = Unlock(S),
           Owned(t)' = Owned(t) \ S,
           \A u \in Threads : u # t => Owned(u)' = Owned(u)
    PROVE  Disjoint' /\ LockedIsOwned'
  <1>1. S \subseteq Blocks
    BY DEF LockedIsOwned
  <1>2. \A b \in S : StateOf(b) # "Free"
    BY <1>1 DEF LockedIsOwned, StateOf
  <1>3. \A b \in Blocks : allocated'[b] = IF b \in S THEN "Unlocked" ELSE allocated[b]
    BY <1>1, <1>2 DEF Unlock, Set
  <1>4. Disjoint'
    BY DEF Disjoint
  <1>5. \A b \in Blocks : allocated'[b] = "Locked" <=> \E u \in Threads : b \in Owned(u)'
    BY <1>3 DEF LockedIsOwned, Disjoint
  <1> QED
    BY <1>4, <1>5 DEF LockedIsOwned

(* A step that neither locks nor unlocks.                                  *)
LEMMA Keep ==
    ASSUME Disjoint, LockedIsOwned,
           \A b \in Blocks : allocated'[b] = "Locked" <=> allocated[b] = "Locked",
           \A u \in Threads : Owned(u)' = Owned(u)
    PROVE  Disjoint' /\ LockedIsOwned'
  BY DEF Disjoint, LockedIsOwned

(* What is lent is Locked, so it is in the map, so it is committed.        *)
LEMMA LentCommitted ==
    ASSUME TypeOK', LockedIsOwned',
           \A b \in Blocks : allocated'[b] # "Free" => b \in committed'
    PROVE  Committed'
  <1>1. ASSUME NEW t \in Threads, NEW m \in held'[t], NEW b \in BlocksOf(m)
        PROVE  b \in committed'
    <2>1. b \in Owned(t)'
      BY OwnedIff
    <2> QED
      BY <2>1 DEF LockedIsOwned
  <1> QED
    BY <1>1 DEF Committed

-----------------------------------------------------------------------------
(* IInv, action by action.  A call that begins or ends without touching    *)
(* the map leaves everybody's blocks alone.                                *)
LEMMA LocalsOnly ==
    ASSUME IInv, TypeOK', NEW t \in Threads,
           UNCHANGED <<allocated, held>>, committed \subseteq committed',
           Partial(t) = {}, Partial(t)' = {},
           op'[t] = "lock" => First(arg'[t]) <= next'[t],
           \A u \in Threads : u # t =>
               op'[u] = op[u] /\ arg'[u] = arg[u] /\ next'[u] = next[u]
    PROVE  IInv'
  <1>1. \A u \in Threads : Owned(u)' = Owned(u) /\ Partial(u)' = Partial(u)
    BY DEF Owned, Partial
  <1>2. Disjoint' /\ LockedIsOwned'
    BY <1>1, Keep, ExclusiveParts DEF IInv
  <1>3. \A u \in Threads : Separate(u)'
    BY <1>1, ExclusiveParts DEF IInv, Separate
  <1>4. Committed'
    BY <1>2, LentCommitted DEF IInv, Committed
  <1>5. NextInBounds'
    BY DEF IInv, NextInBounds
  <1> QED
    BY <1>2, <1>3, <1>4, <1>5, ExclusiveParts DEF IInv

LEMMA AllocInv ==
    ASSUME IInv, TypeOK', NEW t \in Threads, NEW m \in BlockRanges, Alloc(t, m)
    PROVE  IInv'
  <1>1. op[t] = "none" /\ Partial(t) = {} /\ m \in Mems
    BY RamAssumption DEF Alloc, MayCall, Partial
  <1>2. CASE AllocErr(t, m)
    <2>1. PICK e : /\ committed' = committed \cup (IF e = "Map" THEN BlocksOf(m) ELSE {})
                   /\ Return(t, e)
                   /\ UNCHANGED <<allocated, held>>
      BY <1>2 DEF AllocErr
    <2>2. op'[t] = "none" /\ Partial(t)' = {}
      BY <2>1 DEF Return, Partial, IInv, TypeOK
    <2> QED
      BY <1>1, <2>1, <2>2, LocalsOnly DEF Return, IInv, TypeOK
  <1>3. CASE AllocOk(t, m)
    <2> DEFINE S == BlocksOf(m)
    <2>1. S \in SUBSET Blocks /\ \A b \in S : allocated[b] = "Free"
      BY <1>1, <1>3, ValidRange DEF AllocOk, StateOf
    <2>2. op'[t] = "none" /\ Partial(t)' = {} /\ held'[t] = held[t] \cup {m}
      BY <1>3 DEF AllocOk, Return, Partial, IInv, TypeOK
    <2>3. \A u \in Threads : u # t => Owned(u)' = Owned(u) /\ Partial(u)' = Partial(u)
      BY <1>3, OwnedFrame DEF AllocOk, Return, IInv, TypeOK
    <2>4. Owned(t)' = Owned(t) \cup S
      BY <1>1, <2>2, OwnedIff
    <2>5. Disjoint' /\ LockedIsOwned'
      BY <1>3, <2>1, <2>3, <2>4, Grow, ExclusiveParts DEF AllocOk, IInv
    <2>6. \A n \in held[t] : BlocksOf(n) \cap S = {}
      BY <2>1, OwnedIff DEF IInv, LockedIsOwned
    <2>7. \A u \in Threads : Separate(u)'
      BY <1>3, <2>2, <2>3, <2>6, ExclusiveParts DEF IInv, Separate, AllocOk, TypeOK
    <2>8. Committed'
      BY <1>3, <2>5, LentCommitted DEF AllocOk, Set, IInv, Committed
    <2>9. NextInBounds'
      BY <1>3, <2>2 DEF AllocOk, Return, IInv, TypeOK, NextInBounds
    <2> QED
      BY <2>5, <2>7, <2>8, <2>9, ExclusiveParts DEF IInv
  <1> QED
    BY <1>2, <1>3 DEF Alloc

LEMMA LockInv ==
    ASSUME IInv, TypeOK', NEW t \in Threads, NEW m \in LockRanges, Lock(t, m)
    PROVE  IInv'
  <1>1. op[t] = "none" /\ Partial(t) = {} /\ m \in Mems
    BY RamAssumption DEF Lock, MayCall, Partial
  <1>2. First(m) \in Nat
    BY <1>1, RangeType
  <1>3. Partial(t)' = {} /\ (op'[t] = "lock" => First(arg'[t]) <= next'[t])
    <2>1. CASE Return(t, "None")
      BY <2>1 DEF Return, Partial, IInv, TypeOK
    <2>2. CASE Enter(t, "lock", m)
      <3>1. op'[t] = "lock" /\ arg'[t] = m /\ next'[t] = First(m)
        BY <2>2 DEF Enter, IInv, TypeOK
      <3> QED
        BY <1>2, <3>1 DEF Partial
    <2> QED
      BY <2>1, <2>2 DEF Lock
  <1> QED
    BY <1>1, <1>3, LocalsOnly DEF Lock, Return, Enter, IInv, TypeOK

LEMMA DeallocInv ==
    ASSUME IInv, TypeOK', NEW t \in Threads, NEW m \in BlockRanges, Dealloc(t, m)
    PROVE  IInv'
  <1>1. op[t] = "none" /\ Partial(t) = {}
    BY DEF Dealloc, MayCall, Partial
  <1>2. op'[t] # "lock"
    <2>1. op' = [op EXCEPT ![t] = "none"] \/ op' = [op EXCEPT ![t] = "dealloc"]
      BY DEF Dealloc, Return, Enter
    <2>2. t \in DOMAIN op
      BY DEF IInv, TypeOK
    <2> QED
      BY <2>1, <2>2
  <1>3. Partial(t)' = {}
    BY <1>2 DEF Partial
  <1> QED
    BY <1>1, <1>2, <1>3, LocalsOnly DEF Dealloc, Return, Enter, IInv, TypeOK

LEMMA DropInv ==
    ASSUME IInv, TypeOK', NEW t \in Threads, NEW m \in held[t], Drop(t, m)
    PROVE  IInv'
  <1> DEFINE S == BlocksOf(m)
  <1>1. Partial(t) = {} /\ Partial(t)' = {} /\ held'[t] = held[t] \ {m}
    BY DEF Drop, Partial, IInv, TypeOK
  <1>2. \A u \in Threads : u # t => Owned(u)' = Owned(u) /\ Partial(u)' = Partial(u)
    BY OwnedFrame DEF Drop, IInv, TypeOK
  <1>3. S \in SUBSET Owned(t)
    BY OwnedIff
  <1>4. Owned(t)' = Owned(t) \ S
    BY <1>1, OwnedIff DEF IInv, Exclusive
  <1>5. Disjoint' /\ LockedIsOwned'
    BY <1>2, <1>3, <1>4, Shrink, ExclusiveParts DEF Drop, IInv
  <1>6. \A u \in Threads : Separate(u)'
    BY <1>1, <1>2, ExclusiveParts DEF IInv, Separate, Drop, TypeOK
  <1>7. Committed'
    BY <1>5, LentCommitted DEF Drop, Unlock, Set, StateOf, IInv, Committed
  <1>8. NextInBounds'
    BY DEF Drop, IInv, NextInBounds
  <1> QED
    BY <1>5, <1>6, <1>7, <1>8, ExclusiveParts DEF IInv

(* One pass of lock(): the blocks from next to n are taken, and then the   *)
(* call returns with all it has, waits with it, or gives it back.          *)
LEMMA LockRunInv ==
    ASSUME IInv, TypeOK', NEW t \in Threads, LockRun(t)
    PROVE  IInv'
  <1>1. PICK n \in next[t] .. Limit(arg[t]) :
           /\ LockStops(t, n)
           /\ LockGranted(t, n) \/ LockWaits(t, n) \/ LockRefused(t, n)
    BY DEF LockRun
  <1> DEFINE S == next[t] .. n - 1
             f == First(arg[t])
  <1>2. /\ f \in Nat /\ next[t] \in Nat /\ n \in Nat /\ f <= next[t] /\ next[t] <= n
        /\ Partial(t) = f .. next[t] - 1
    BY <1>1, RangeType DEF IInv, TypeOK, NextInBounds, LockRun, Partial
  <1>3. S \in SUBSET Blocks /\ \A b \in S : allocated[b] = "Unlocked"
    BY <1>1 DEF LockStops, StateOf
  <1>4. Partial(t) \cup S = f .. n - 1 /\ Partial(t) \cap S = {}
    BY <1>2
  <1>5. \A m \in held[t] : BlocksOf(m) \cap S = {}
    BY <1>3, OwnedIff DEF IInv, LockedIsOwned
  <1>6. \A m \in held[t] : BlocksOf(m) \cap (f .. n - 1) = {}
    BY <1>4, <1>5 DEF IInv, Exclusive
  <1>7. \A u \in Threads : u # t => Owned(u)' = Owned(u) /\ Partial(u)' = Partial(u)
    <2>1. \A u \in Threads : u # t =>
             held'[u] = held[u] /\ op'[u] = op[u] /\ arg'[u] = arg[u] /\ next'[u] = next[u]
      <3>1. DOMAIN held = Threads /\ DOMAIN op = Threads /\ DOMAIN arg = Threads
            /\ DOMAIN next = Threads
        BY DEF IInv, TypeOK
      <3>2. /\ held' = held \/ \E h : held' = [held EXCEPT ![t] = h]
            /\ op' = op \/ \E o : op' = [op EXCEPT ![t] = o]
            /\ arg' = arg \/ \E a : arg' = [arg EXCEPT ![t] = a]
            /\ next' = next \/ \E l : next' = [next EXCEPT ![t] = l]
        <4>1. CASE LockGranted(t, n)
          BY <4>1 DEF LockGranted, Return
        <4>2. CASE LockWaits(t, n)
          BY <4>2 DEF LockWaits
        <4>3. CASE LockRefused(t, n)
          BY <4>3 DEF LockRefused, Return
        <4> QED
          BY <1>1, <4>1, <4>2, <4>3
      <3> QED
        BY <3>1, <3>2
    <2> QED
      BY <2>1, OwnedFrame
  <1>8. committed' = committed
    BY DEF LockRun
  <1>9. CASE LockGranted(t, n)
    <2>1. /\ Partial(t)' = {} /\ held'[t] = held[t] \cup {arg[t]}
          /\ op'[t] = "none" /\ BlocksOf(arg[t]) = f .. n - 1
      BY <1>9 DEF LockGranted, Return, Partial, IInv, TypeOK, BlocksOf
    <2>2. Owned(t)' = Owned(t) \cup S
      BY <1>4, <2>1, OwnedIff
    <2>3. Disjoint' /\ LockedIsOwned'
      BY <1>3, <1>7, <1>9, <2>2, Grow, ExclusiveParts DEF LockGranted, IInv
    <2>4. \A u \in Threads : Separate(u)'
      <3>1. Separate(t)'
        BY <1>6, <2>1 DEF IInv, Exclusive, Separate
      <3>2. ASSUME NEW u \in Threads, u # t PROVE Separate(u)'
        BY <1>7, <1>9, <3>2 DEF IInv, Exclusive, Separate, LockGranted, TypeOK
      <3> QED
        BY <3>1, <3>2
    <2>5. Committed'
      BY <1>3, <1>8, <1>9, <2>3, LentCommitted DEF LockGranted, Set, IInv, Committed
    <2>6. NextInBounds'
      BY <1>9, <2>1 DEF LockGranted, Return, IInv, TypeOK, NextInBounds
    <2> QED
      BY <2>3, <2>4, <2>5, <2>6, ExclusiveParts DEF IInv
  <1>10. CASE LockWaits(t, n)
    <2>1. Partial(t)' = f .. n - 1 /\ held' = held /\ next'[t] = n /\ arg' = arg /\ op' = op
      BY <1>10 DEF LockWaits, LockRun, Partial, IInv, TypeOK
    <2>2. Owned(t)' = Owned(t) \cup S
      BY <1>4, <2>1, OwnedIff
    <2>3. Disjoint' /\ LockedIsOwned'
      BY <1>3, <1>7, <1>10, <2>2, Grow, ExclusiveParts DEF LockWaits, IInv
    <2>4. \A u \in Threads : Separate(u)'
      BY <1>6, <1>7, <2>1, ExclusiveParts DEF IInv, Separate
    <2>5. Committed'
      BY <1>3, <1>8, <1>10, <2>3, LentCommitted DEF LockWaits, Set, IInv, Committed
    <2>6. NextInBounds'
      <3>1. First(arg'[t]) <= next'[t]
        BY <1>2, <2>1
      <3>2. \A u \in Threads : u # t => next'[u] = next[u]
        BY <1>10 DEF LockWaits, IInv, TypeOK
      <3> QED
        BY <2>1, <3>1, <3>2 DEF IInv, NextInBounds
    <2> QED
      BY <2>3, <2>4, <2>5, <2>6, ExclusiveParts DEF IInv
  <1>11. CASE LockRefused(t, n)
    <2> DEFINE P == Partial(t)
    <2>1. Partial(t)' = {} /\ held' = held /\ op'[t] = "none"
      BY <1>11 DEF LockRefused, Return, Partial, IInv, TypeOK
    <2>2. P \in SUBSET Owned(t) /\ Owned(t)' = Owned(t) \ P
      BY <2>1, OwnedIff DEF IInv, Exclusive
    <2>3. \A b \in Blocks :
             allocated'[b] = IF b \in P \cup S THEN "Unlocked" ELSE allocated[b]
      <3>1. \A b \in P : b \in Blocks /\ allocated[b] = "Locked"
        BY <2>2 DEF IInv, LockedIsOwned
      <3>2. \A b \in P \cup S : b \in Blocks /\ StateOf(b) # "Free"
        BY <1>3, <3>1 DEF StateOf
      <3> QED
        BY <1>4, <1>11, <3>2 DEF LockRefused, Unlock, Set
    <2>4. \A b \in Blocks : allocated'[b] = "Locked" <=> \E u \in Threads : b \in Owned(u)'
      BY <1>3, <1>7, <2>2, <2>3, ExclusiveParts DEF IInv, LockedIsOwned, Disjoint
    <2>5. LockedIsOwned'
      BY <1>7, <2>2, <2>4 DEF IInv, LockedIsOwned
    <2>6. Disjoint'
      BY <1>7, <2>2, ExclusiveParts DEF IInv, Disjoint
    <2>7. \A u \in Threads : Separate(u)'
      BY <1>7, <2>1, ExclusiveParts DEF IInv, Separate
    <2>8. Committed'
      <3>1. \A b \in P \cup S : b \in Blocks /\ allocated[b] # "Free"
        BY <1>3, <2>2 DEF IInv, LockedIsOwned
      <3> QED
        BY <1>8, <2>3, <2>5, <3>1, LentCommitted DEF IInv, Committed
    <2>9. NextInBounds'
      BY <1>11, <2>1 DEF LockRefused, Return, IInv, TypeOK, NextInBounds
    <2> QED
      BY <2>5, <2>6, <2>7, <2>8, <2>9, ExclusiveParts DEF IInv
  <1> QED
    BY <1>1, <1>9, <1>10, <1>11

(* One pass of dealloc(): only Unlocked blocks, and blocks without an      *)
(* entry, lie between the first and the last entry it frees.               *)
LEMMA DeallocRunInv ==
    ASSUME IInv, TypeOK', NEW t \in Threads, DeallocRun(t)
    PROVE  IInv'
  <1>1. held' = held /\ op[t] = "dealloc"
    BY DEF DeallocRun
  <1>2. ASSUME NEW first \in Entries(t), NEW last \in Entries(t),
               DeallocRange(t, first, last)
        PROVE  \A b \in first .. last : b \in Blocks => allocated[b] # "Locked"
    BY <1>2, RangeType DEF DeallocRange, Entries, StateOf, IInv, TypeOK
  <1>3. /\ \A u \in Threads : u # t =>
               op'[u] = op[u] /\ arg'[u] = arg[u] /\ next'[u] = next[u]
        /\ op'[t] # "lock"
    <2>1. \/ \E r : Return(t, r)
          \/ UNCHANGED <<op, arg, next>>
          \/ UNCHANGED <<op, arg>> /\ \E l : next' = [next EXCEPT ![t] = l]
      BY DEF DeallocRun, DeallocDone, DeallocWaits, DeallocFree, DeallocErr
    <2> QED
      BY <1>1, <2>1 DEF Return, IInv, TypeOK
  <1>4. Partial(t) = {} /\ Partial(t)' = {}
    BY <1>1, <1>3 DEF Partial
  <1>5. \A u \in Threads : Owned(u)' = Owned(u) /\ Partial(u)' = Partial(u)
    BY <1>1, <1>3, <1>4, OwnedFrame DEF Owned
  <1>6. \/ UNCHANGED <<allocated, committed>>
        \/ \E first, last \in Entries(t) :
              /\ DeallocRange(t, first, last)
              /\ allocated' = Set(first .. last, "Free")
              /\ committed' = committed \ (first .. last)
    BY DEF DeallocRun, DeallocDone, DeallocWaits, DeallocFree, DeallocErr
  <1>7. /\ \A b \in Blocks : allocated'[b] = "Locked" <=> allocated[b] = "Locked"
        /\ \A b \in Blocks : allocated'[b] # "Free" => b \in committed'
    <2>1. CASE UNCHANGED <<allocated, committed>>
      BY <2>1 DEF IInv, Committed
    <2>2. ASSUME NEW first \in Entries(t), NEW last \in Entries(t),
                 DeallocRange(t, first, last),
                 allocated' = Set(first .. last, "Free"),
                 committed' = committed \ (first .. last)
          PROVE  /\ \A b \in Blocks : allocated'[b] = "Locked" <=> allocated[b] = "Locked"
                 /\ \A b \in Blocks : allocated'[b] # "Free" => b \in committed'
      BY <1>2, <2>2 DEF Set, IInv, Committed
    <2> QED
      BY <1>6, <2>1, <2>2
  <1>8. Disjoint' /\ LockedIsOwned'
    BY <1>5, <1>7, Keep, ExclusiveParts DEF IInv
  <1>9. \A u \in Threads : Separate(u)'
    BY <1>1, <1>5, ExclusiveParts DEF IInv, Separate
  <1>10. Committed'
    BY <1>7, <1>8, LentCommitted
  <1>11. NextInBounds'
    BY <1>3 DEF IInv, NextInBounds
  <1> QED
    BY <1>8, <1>9, <1>10, <1>11, ExclusiveParts DEF IInv

-----------------------------------------------------------------------------
(* Every step preserves IInv.                                              *)
LEMMA StepInv == IInv /\ TypeOK' /\ [Next]_vars => IInv'
  <1> SUFFICES ASSUME IInv, TypeOK', [Next]_vars PROVE IInv'
    OBVIOUS
  <1>1. CASE FallQuiet \/ UNCHANGED vars \/ \E t \in Threads : SpuriousWake(t)
    <2>1. UNCHANGED <<allocated, committed, held, op, arg, next>>
      BY <1>1 DEF FallQuiet, vars, SpuriousWake
    <2>2. \A u \in Threads : Owned(u)' = Owned(u) /\ Partial(u)' = Partial(u)
      BY <2>1, OwnedFrame
    <2>3. NextInBounds'
      BY <2>1 DEF IInv, NextInBounds
    <2>4. Exclusive'
      BY <2>1, <2>2 DEF IInv, Exclusive
    <2>5. LockedIsOwned'
      BY <2>1, <2>2 DEF IInv, LockedIsOwned
    <2>6. Committed'
      BY <2>1 DEF IInv, Committed
    <2> QED
      BY <2>3, <2>4, <2>5, <2>6 DEF IInv
  <1> QED
    BY <1>1, AllocInv, LockInv, DeallocInv, DropInv, LockRunInv, DeallocRunInv DEF Next

LEMMA InductiveInv == Spec => []IInv
  <1>1. Init => NextInBounds /\ Exclusive /\ LockedIsOwned /\ Committed
    <2> SUFFICES ASSUME Init PROVE NextInBounds /\ Exclusive /\ LockedIsOwned /\ Committed
      OBVIOUS
    <2>1. \A t \in Threads : held[t] = {} /\ op[t] = "none" /\ Partial(t) = {}
      BY DEF Init, Partial
    <2>2. \A t \in Threads : Owned(t) = {}
      BY <2>1, OwnedIff
    <2> QED
      BY <2>1, <2>2 DEF Init, NextInBounds, Exclusive, LockedIsOwned, Committed
  <1>2. Init /\ TypeOK => IInv
    BY <1>1 DEF IInv
  <1> QED
    BY <1>2, TypeCorrect, StepInv, PTL DEF Spec

(* For any number of threads and blocks: a block is lent to one LockedMem  *)
(* at a time, the map says Locked for exactly the blocks somebody owns,    *)
(* and lent or allocated memory is committed.                              *)
THEOREM LendingSafe == Spec => []SafeLoans
  <1>1. IInv => SafeLoans
    BY DEF IInv, SafeLoans
  <1> QED
    BY <1>1, InductiveInv, PTL

-----------------------------------------------------------------------------
(* Ram implements BlockLending.                                            *)
LEMMA LentIff ==
    ASSUME NEW t \in Threads, NEW b
    PROVE  /\ b \in Lent[t] <=> \E m \in held[t] : b \in BlocksOf(m)
           /\ b \in Lent'[t] <=> \E m \in held'[t] : b \in BlocksOf(m)
  <1>1. b \in UNION {BlocksOf(m) : m \in held[t]} <=>
           \E m \in held[t] : b \in BlocksOf(m)
    BY Zenon
  <1>2. b \in UNION {BlocksOf(m) : m \in held'[t]} <=>
           \E m \in held'[t] : b \in BlocksOf(m)
    BY Zenon
  <1> QED
    BY <1>1, <1>2 DEF Lent

(* A block that is Unlocked, or that only a waiting lock() has marked, is  *)
(* open: lent to nobody.                                                   *)
LEMMA OpenBlock ==
    ASSUME IInv, NEW b \in Blocks, allocated[b] # "Free",
           \/ allocated[b] = "Unlocked"
           \/ \E t \in Threads : b \in Partial(t)
    PROVE  b \in Lending!Open
  <1>1. ASSUME NEW u \in Threads, b \in Lent[u] PROVE FALSE
    <2>1. PICK m \in held[u] : b \in BlocksOf(m)
      BY <1>1, LentIff
    <2>2. b \in Owned(u) /\ allocated[b] = "Locked"
      BY <2>1, OwnedIff DEF IInv, LockedIsOwned
    <2>3. PICK t \in Threads : b \in Partial(t)
      BY <2>2
    <2>4. b \in Owned(t)
      BY <2>3, OwnedIff
    <2>5. t = u
      BY <2>2, <2>4 DEF IInv, Exclusive
    <2> QED
      BY <2>1, <2>3, <2>5 DEF IInv, Exclusive
  <1>2. b \notin UNION {Lent[u] : u \in Threads}
    BY <1>1, Zenon
  <1> QED
    BY <1>2 DEF Lending!Open, Live

(* A step of one thread on its LockedMem values, seen as an update.        *)
LEMMA LentUpdate ==
    ASSUME TypeOK, TypeOK', NEW t \in Threads, NEW S,
           \A u \in Threads : u # t => held'[u] = held[u],
           \A b : (\E m \in held'[t] : b \in BlocksOf(m)) <=> b \in S
    PROVE  Lent' = [Lent EXCEPT ![t] = S]
  <1>1. \A u \in Threads : u # t => Lent'[u] = Lent[u]
    BY DEF Lent
  <1>2. Lent'[t] = S
    <2>1. \A b : b \in Lent'[t] <=> b \in S
      BY LentIff
    <2>2. Lent'[t] = UNION {BlocksOf(m) : m \in held'[t]}
      BY DEF Lent
    <2> QED
      BY <2>1, SetExtensionality
  <1> QED
    BY <1>1, <1>2 DEF Lent

LEMMA SameHeld ==
    ASSUME UNCHANGED held,
           \A b \in Blocks : allocated'[b] = "Free" <=> allocated[b] = "Free"
    PROVE  UNCHANGED Lending!vars
  <1>1. UNCHANGED Live
    BY DEF Live
  <1>2. UNCHANGED Lent
    BY DEF Lent
  <1> QED
    BY <1>1, <1>2 DEF Lending!vars

LEMMA AllocLends ==
    ASSUME IInv, TypeOK', NEW t \in Threads, NEW m \in BlockRanges, Alloc(t, m)
    PROVE  [Lending!Next]_(Lending!vars)
  <1>1. CASE AllocErr(t, m)
    BY <1>1, SameHeld DEF AllocErr
  <1>2. CASE AllocOk(t, m)
    <2>1. BlocksOf(m) \in SUBSET Blocks
      BY <1>2, ValidRange, RamAssumption DEF AllocOk
    <2>2. BlocksOf(m) \cap Live = {}
      BY <1>2 DEF AllocOk, Live, StateOf
    <2>3. Live' = Live \cup BlocksOf(m)
      BY <1>2, <2>1 DEF AllocOk, Live, Set
    <2>4. Lent' = [Lent EXCEPT ![t] = Lent[t] \cup BlocksOf(m)]
      <3>1. \A u \in Threads : u # t => held'[u] = held[u]
        BY <1>2 DEF AllocOk, IInv, TypeOK
      <3>2. held'[t] = held[t] \cup {m}
        BY <1>2 DEF AllocOk, IInv, TypeOK
      <3>3. \A b : (\E n \in held'[t] : b \in BlocksOf(n)) <=>
                   b \in Lent[t] \cup BlocksOf(m)
        BY <3>2, LentIff
      <3> QED
        BY <3>1, <3>3, LentUpdate DEF IInv
    <2>5. Lending!Allocate(t, BlocksOf(m))
      BY <2>2, <2>3, <2>4 DEF Lending!Allocate
    <2> QED
      BY <2>1, <2>5 DEF Lending!Next
  <1> QED
    BY <1>1, <1>2 DEF Alloc

LEMMA LockRunLends ==
    ASSUME IInv, TypeOK', NEW t \in Threads, LockRun(t)
    PROVE  [Lending!Next]_(Lending!vars)
  <1>1. PICK n \in next[t] .. Limit(arg[t]) :
           /\ LockStops(t, n)
           /\ LockGranted(t, n) \/ LockWaits(t, n) \/ LockRefused(t, n)
    BY DEF LockRun
  <1>2. CASE LockWaits(t, n)
    BY <1>1, <1>2, SameHeld DEF LockWaits, LockStops, Set, StateOf
  <1>3. CASE LockRefused(t, n)
    BY <1>1, <1>3, SameHeld DEF LockRefused, Unlock, Set, StateOf
  <1>4. CASE LockGranted(t, n)
    <2> DEFINE S == BlocksOf(arg[t])
    <2>1. /\ next[t] \in Nat /\ First(arg[t]) \in Nat /\ Limit(arg[t]) \in Nat
          /\ First(arg[t]) <= next[t]
      BY RangeType DEF IInv, TypeOK, NextInBounds, LockRun
    <2>2. \A b \in S : b \in Partial(t) \/ b \in next[t] .. n - 1
      <3>1. Partial(t) = First(arg[t]) .. next[t] - 1
        BY DEF LockRun, Partial
      <3>2. n = Limit(arg[t])
        BY <1>4 DEF LockGranted
      <3>3. S = First(arg[t]) .. Limit(arg[t]) - 1
        BY DEF BlocksOf
      <3> QED
        BY <2>1, <3>1, <3>2, <3>3
    <2>3. \A b \in next[t] .. n - 1 : b \in Blocks /\ allocated[b] = "Unlocked"
      BY <1>1 DEF LockStops, StateOf
    <2>4. \A b \in Partial(t) : b \in Blocks /\ allocated[b] = "Locked"
      BY OwnedIff DEF IInv, LockedIsOwned
    <2>5. S \subseteq Lending!Open
      BY <2>2, <2>3, <2>4, OpenBlock
    <2>6. UNCHANGED Live
      BY <1>4, <2>3 DEF LockGranted, Live, Set
    <2>7. Lent' = [Lent EXCEPT ![t] = Lent[t] \cup S]
      <3>1. \A u \in Threads : u # t => held'[u] = held[u]
        BY <1>4 DEF LockGranted, IInv, TypeOK
      <3>2. held'[t] = held[t] \cup {arg[t]}
        BY <1>4 DEF LockGranted, IInv, TypeOK
      <3>3. \A b : (\E m \in held'[t] : b \in BlocksOf(m)) <=> b \in Lent[t] \cup S
        BY <3>2, LentIff
      <3> QED
        BY <3>1, <3>3, LentUpdate DEF IInv
    <2>8. Lending!Lend(t, S)
      BY <2>5, <2>6, <2>7 DEF Lending!Lend
    <2>9. S \in SUBSET Blocks
      BY <2>2, <2>3, <2>4
    <2> QED
      BY <2>8, <2>9 DEF Lending!Next
  <1> QED
    BY <1>1, <1>2, <1>3, <1>4

LEMMA DeallocRunLends ==
    ASSUME IInv, TypeOK', NEW t \in Threads, DeallocRun(t)
    PROVE  [Lending!Next]_(Lending!vars)
  <1>1. CASE UNCHANGED allocated
    BY <1>1, SameHeld DEF DeallocRun
  <1>2. ASSUME NEW first \in Entries(t), NEW last \in Entries(t),
               DeallocFree(t, first, last)
        PROVE  [Lending!Next]_(Lending!vars)
    <2> DEFINE S == (first .. last) \cap Live
    <2>1. ASSUME NEW b \in S PROVE b \in Lending!Open
      <3>1. b \in Blocks /\ allocated[b] # "Free"
        BY <2>1 DEF Live
      <3>2. next[t] \in Nat /\ Limit(arg[t]) \in Nat
        BY RangeType DEF IInv, TypeOK
      <3>3. b \in Entries(t) /\ b <= last
        <4>1. /\ first \in next[t] .. Limit(arg[t]) - 1
              /\ last \in next[t] .. Limit(arg[t]) - 1
          BY DEF Entries
        <4>2. b \in next[t] .. Limit(arg[t]) - 1 /\ b <= last
          BY <2>1, <3>2, <4>1
        <4> QED
          BY <3>1, <4>2 DEF Entries, StateOf
      <3>4. allocated[b] = "Unlocked"
        BY <1>2, <3>3 DEF DeallocFree, DeallocRange
      <3> QED
        BY <3>1, <3>4, OpenBlock
    <2>2. Live' = Live \ S
      BY <1>2 DEF DeallocFree, Live, Set
    <2>3. UNCHANGED Lent
      BY DEF DeallocRun, Lent
    <2>4. Lending!Deallocate(S)
      BY <2>1, <2>2, <2>3 DEF Lending!Deallocate
    <2>5. S \in SUBSET Blocks
      BY DEF Live
    <2> QED
      BY <2>4, <2>5 DEF Lending!Next
  <1> QED
    BY <1>1, <1>2 DEF DeallocRun, DeallocDone, DeallocWaits, DeallocErr

LEMMA DropLends ==
    ASSUME IInv, TypeOK', NEW t \in Threads, NEW m \in held[t], Drop(t, m)
    PROVE  [Lending!Next]_(Lending!vars)
  <1>1. UNCHANGED Live
    BY DEF Drop, Live, Unlock, Set, StateOf
  <1>2. BlocksOf(m) \subseteq Lent[t]
    BY LentIff
  <1>3. Lent' = [Lent EXCEPT ![t] = Lent[t] \ BlocksOf(m)]
    <2>1. \A u \in Threads : u # t => held'[u] = held[u]
      BY DEF Drop, IInv, TypeOK
    <2>2. held'[t] = held[t] \ {m}
      BY DEF Drop, IInv, TypeOK
    <2>3. \A b : (\E n \in held'[t] : b \in BlocksOf(n)) <=>
                 b \in Lent[t] \ BlocksOf(m)
      BY <2>2, LentIff DEF IInv, Exclusive
    <2> QED
      BY <2>1, <2>3, LentUpdate DEF IInv
  <1>4. BlocksOf(m) \in SUBSET Blocks
    BY OwnedIff DEF IInv, LockedIsOwned
  <1>5. Lending!GiveBack(t, BlocksOf(m))
    BY <1>1, <1>2, <1>3 DEF Lending!GiveBack
  <1> QED
    BY <1>4, <1>5 DEF Lending!Next

(* Ram implements BlockLending: whatever interleaving of alloc, lock,      *)
(* dealloc, drop and spurious wakeups, lock() and dealloc() take effect on *)
(* the blocks as BlockLending's one-step Lend and Deallocate.              *)
THEOREM RamLends == Spec => LendsWholeRanges
  <1>1. Init => Lending!Init
    <2> SUFFICES ASSUME Init PROVE Lending!Init
      OBVIOUS
    <2>1. Live = {}
      BY DEF Init, Live
    <2>2. \A t \in Threads : Lent[t] = {}
      <3>1. ASSUME NEW t \in Threads, NEW b \in Lent[t] PROVE FALSE
        BY <3>1, LentIff DEF Init
      <3> QED
        BY <3>1
    <2>3. Lent = [t \in Threads |-> {}]
      BY <2>2 DEF Lent
    <2> QED
      BY <2>1, <2>3 DEF Lending!Init
  <1>2. IInv /\ IInv' /\ [Next]_vars => [Lending!Next]_(Lending!vars)
    <2> SUFFICES ASSUME IInv, IInv', [Next]_vars
                 PROVE  [Lending!Next]_(Lending!vars)
      OBVIOUS
    <2>0. TypeOK'
      BY DEF IInv
    <2>1. CASE UNCHANGED <<held, allocated>>
      BY <2>1, SameHeld
    <2>2. ASSUME NEW t \in Threads, NEW m \in BlockRanges, Alloc(t, m)
          PROVE  [Lending!Next]_(Lending!vars)
      BY <2>0, <2>2, AllocLends
    <2>3. ASSUME NEW t \in Threads, LockRun(t)
          PROVE  [Lending!Next]_(Lending!vars)
      BY <2>0, <2>3, LockRunLends
    <2>4. ASSUME NEW t \in Threads, DeallocRun(t)
          PROVE  [Lending!Next]_(Lending!vars)
      BY <2>0, <2>4, DeallocRunLends
    <2>5. ASSUME NEW t \in Threads, NEW m \in held[t], Drop(t, m)
          PROVE  [Lending!Next]_(Lending!vars)
      BY <2>0, <2>5, DropLends
    <2> QED
      BY <2>1, <2>2, <2>3, <2>4, <2>5
      DEF Next, vars, FallQuiet, Lock, Dealloc, SpuriousWake
  <1>3. Spec => []IInv
    BY InductiveInv
  <1> QED
    BY <1>1, <1>2, <1>3, PTL DEF Spec, LendsWholeRanges, Lending!Spec

-----------------------------------------------------------------------------
(* lock() answers None only when a block of its range is unallocated, and  *)
(* Some only when all of its range is the caller's.                        *)
THEOREM LockAnswers == Spec => LockAnswer
  <1> DEFINE Answer(t) ==
        \/ /\ result' = "None"
           /\ \E b \in BlocksOf(arg[t]) : StateOf(b)' = "Free"
        \/ /\ result' = "Some"
           /\ BlocksOf(arg[t]) \subseteq Owned(t)'
  <1>1. ASSUME IInv, NEW t \in Threads, op[t] = "lock", op'[t] = "none", [Next]_vars
        PROVE  Answer(t)
    <2>1. LockRun(t)
      <3>1. ~ UNCHANGED op
        BY <1>1
      <3>2. ASSUME NEW u \in Threads, op[u] # "lock", NEW o, op' = [op EXCEPT ![u] = o]
            PROVE  FALSE
        BY <1>1, <3>2 DEF IInv, TypeOK
      <3>3. ASSUME NEW u \in Threads, NEW m, Alloc(u, m) \/ Dealloc(u, m) \/ Lock(u, m)
            PROVE  FALSE
        BY <3>2, <3>3 DEF Alloc, AllocErr, AllocOk, Dealloc, Lock, MayCall, Return, Enter
      <3>4. ASSUME NEW u \in Threads, DeallocRun(u) PROVE FALSE
        BY <3>1, <3>2, <3>4
        DEF DeallocRun, DeallocDone, DeallocWaits, DeallocFree, DeallocErr, Return
      <3>5. ASSUME NEW u \in Threads, LockRun(u) PROVE u = t
        BY <1>1, <3>1, <3>5
        DEF LockRun, LockGranted, LockWaits, LockRefused, Return, IInv, TypeOK
      <3> QED
        BY <1>1, <3>1, <3>3, <3>4, <3>5 DEF Next, vars, FallQuiet, SpuriousWake, Drop
    <2>2. PICK n \in next[t] .. Limit(arg[t]) :
             /\ LockStops(t, n)
             /\ LockGranted(t, n) \/ LockWaits(t, n) \/ LockRefused(t, n)
      BY <2>1 DEF LockRun
    <2>3. CASE LockGranted(t, n)
      <3>1. arg[t] \in held'[t]
        BY <1>1, <2>3 DEF LockGranted, IInv, TypeOK
      <3> QED
        BY <2>3, <3>1, OwnedIff DEF LockGranted, Return
    <2>4. CASE LockWaits(t, n)
      BY <1>1, <2>4 DEF LockWaits
    <2>5. CASE LockRefused(t, n)
      <3>1. /\ next[t] \in Nat /\ First(arg[t]) \in Nat /\ Limit(arg[t]) \in Nat
            /\ First(arg[t]) <= next[t]
        BY <1>1, RangeType DEF IInv, TypeOK, NextInBounds
      <3>2. n \in BlocksOf(arg[t]) /\ n \notin First(arg[t]) .. n - 1
        <4>1. n < Limit(arg[t]) /\ n \in next[t] .. Limit(arg[t])
          BY <2>2, <2>5 DEF LockRefused
        <4> QED
          BY <3>1, <4>1 DEF BlocksOf
      <3>3. StateOf(n) = "Free"
        BY <2>5 DEF LockRefused
      <3>4. n \in Blocks => allocated'[n] = allocated[n]
        BY <2>5, <3>2 DEF LockRefused, Unlock, Set
      <3>5. StateOf(n)' = "Free"
        BY <3>3, <3>4 DEF StateOf
      <3> QED
        BY <2>5, <3>2, <3>5 DEF LockRefused, Return
    <2> QED
      BY <2>2, <2>3, <2>4, <2>5
  <1>2. IInv /\ [Next]_vars =>
          [\A t \in Threads : (op[t] = "lock" /\ op'[t] = "none") => Answer(t)]_vars
    BY <1>1
  <1> QED
    BY <1>2, InductiveInv, PTL DEF Spec, LockAnswer

-----------------------------------------------------------------------------
(* RamHistory: dealloc() while others take the Mutex.                      *)

(* The part of a dealloc() in a step: it passes only entries that it       *)
(* frees, begins at the start of its range, and returns Ok with none left. *)
LEMMA DeallocPart ==
    ASSUME TypeOK, Next, NEW t \in Threads
    PROVE  /\ op[t] = "dealloc" /\ op'[t] = "dealloc" =>
                 /\ arg'[t] = arg[t]
                 /\ \A b \in Entries(t) : StateOf(b)' = "Free" \/ next'[t] <= b
           /\ op[t] # "dealloc" /\ op'[t] = "dealloc" => next'[t] = First(arg'[t])
           /\ op[t] = "dealloc" /\ op'[t] # "dealloc" /\ result' = "Ok" =>
                 \A b \in Entries(t) : StateOf(b)' = "Free"
  <1> DEFINE Same(u) == op'[u] = op[u] /\ arg'[u] = arg[u] /\ next'[u] = next[u]
  <1>1. \A b \in Entries(t) : next[t] <= b /\ b \in Int
    BY RangeType DEF Entries, TypeOK
  <1>2. CASE Same(t)
    BY <1>1, <1>2
  <1>3. CASE op[t] = "none" /\ op'[t] = "lock"
    BY <1>3
  <1>4. ASSUME NEW u \in Threads, NEW r, Return(u, r)
        PROVE  op'[u] = "none" /\ (u # t => Same(t))
    BY <1>4 DEF Return, TypeOK
  <1>5. ASSUME NEW u \in Threads, NEW o, NEW m, Enter(u, o, m)
        PROVE  op'[u] = o /\ next'[u] = First(arg'[u]) /\ (u # t => Same(t))
    BY <1>5 DEF Enter, TypeOK
  <1>6. CASE UNCHANGED <<op, arg, next>>
    BY <1>2, <1>6
  <1>7. ASSUME NEW u \in Threads, NEW m, Alloc(u, m)
        PROVE  (op[t] # "dealloc" /\ op'[t] # "dealloc") \/ Same(t)
    <2>1. PICK r : Return(u, r)
      BY <1>7 DEF Alloc, AllocErr, AllocOk
    <2>2. op[u] = "none"
      BY <1>7 DEF Alloc, MayCall
    <2> QED
      BY <1>4, <2>1, <2>2
  <1>8. ASSUME NEW u \in Threads, NEW m, Lock(u, m)
        PROVE  (op[t] # "dealloc" /\ op'[t] # "dealloc") \/ Same(t)
    <2>1. op[u] = "none"
      BY <1>8 DEF Lock, MayCall
    <2>2. Return(u, "None") \/ Enter(u, "lock", m)
      BY <1>8 DEF Lock
    <2> QED
      BY <1>4, <1>5, <2>1, <2>2
  <1>9. ASSUME NEW u \in Threads, NEW m, Dealloc(u, m)
        PROVE  \/ op[t] # "dealloc" /\ (op'[t] = "dealloc" => next'[t] = First(arg'[t]))
               \/ Same(t)
    <2>1. op[u] = "none"
      BY <1>9 DEF Dealloc, MayCall
    <2>2. Return(u, "InvalidAddr") \/ Enter(u, "dealloc", m)
      BY <1>9 DEF Dealloc
    <2> QED
      BY <1>4, <1>5, <2>1, <2>2
  <1>10. ASSUME NEW u \in Threads, LockRun(u)
         PROVE  (op[t] # "dealloc" /\ op'[t] # "dealloc") \/ Same(t)
    <2>1. op[u] = "lock"
      BY <1>10 DEF LockRun
    <2>2. PICK n : LockGranted(u, n) \/ LockWaits(u, n) \/ LockRefused(u, n)
      BY <1>10 DEF LockRun
    <2>3. CASE LockWaits(u, n)
      BY <2>1, <2>3 DEF LockWaits, TypeOK
    <2>4. CASE LockGranted(u, n) \/ LockRefused(u, n)
      <3>1. PICK r : Return(u, r)
        BY <2>4 DEF LockGranted, LockRefused
      <3> QED
        BY <1>4, <2>1, <3>1
    <2> QED
      BY <2>2, <2>3, <2>4
  <1>11. ASSUME DeallocRun(t)
         PROVE  /\ op[t] = "dealloc"
                /\ op'[t] = "dealloc" =>
                     /\ arg'[t] = arg[t]
                     /\ \A b \in Entries(t) : StateOf(b)' = "Free" \/ next'[t] <= b
                /\ op'[t] # "dealloc" /\ result' = "Ok" =>
                     \A b \in Entries(t) : StateOf(b)' = "Free"
    <2>1. op[t] = "dealloc"
      BY <1>11 DEF DeallocRun
    <2>2. CASE DeallocDone(t)
      BY <1>4, <2>1, <2>2 DEF DeallocDone
    <2>3. CASE DeallocWaits(t)
      BY <1>1, <2>1, <2>3 DEF DeallocWaits
    <2>4. ASSUME NEW first \in Entries(t), NEW last \in Entries(t), DeallocFree(t, first, last)
          PROVE  /\ op'[t] = "dealloc" =>
                     /\ arg'[t] = arg[t]
                     /\ \A b \in Entries(t) : StateOf(b)' = "Free" \/ next'[t] <= b
                 /\ op'[t] # "dealloc" => \A b \in Entries(t) : StateOf(b)' = "Free"
      <3>1. \A b \in Entries(t) : first <= b
        BY <2>4 DEF DeallocFree, DeallocRange
      <3>2. ASSUME NEW b \in Entries(t), b <= last PROVE StateOf(b)' = "Free"
        <4>1. b \in first .. last
          BY <1>1, <3>1, <3>2
        <4>2. b \in Blocks
          BY DEF Entries, StateOf
        <4>3. allocated' = Set(first .. last, "Free")
          BY <2>4 DEF DeallocFree
        <4> QED
          BY <4>1, <4>2, <4>3 DEF StateOf, Set
      <3>3. CASE \E b \in Entries(t) : b > last
        <4>1. next'[t] = last + 1 /\ op'[t] = "dealloc" /\ arg'[t] = arg[t]
          BY <2>1, <2>4, <3>3 DEF DeallocFree, TypeOK
        <4> QED
          BY <1>1, <3>2, <4>1
      <3>4. CASE ~\E b \in Entries(t) : b > last
        <4>1. Return(t, "Ok")
          BY <2>4, <3>4 DEF DeallocFree
        <4>2. \A b \in Entries(t) : StateOf(b)' = "Free"
          BY <1>1, <3>2, <3>4
        <4> QED
          BY <1>4, <4>1, <4>2
      <3> QED
        BY <3>3, <3>4
    <2>5. ASSUME NEW first, NEW last, DeallocErr(t, first, last)
          PROVE  op'[t] # "dealloc" /\ result' # "Ok"
      BY <1>4, <2>5 DEF DeallocErr, Return
    <2> QED
      BY <1>11, <2>1, <2>2, <2>3, <2>4, <2>5 DEF DeallocRun
  <1>12. ASSUME NEW u \in Threads, u # t, DeallocRun(u) PROVE Same(t)
    <2>1. CASE DeallocDone(u)
      BY <1>4, <1>12, <2>1 DEF DeallocDone
    <2>2. CASE DeallocWaits(u)
      BY <2>2 DEF DeallocWaits
    <2>3. ASSUME NEW first, NEW last, DeallocFree(u, first, last) PROVE Same(t)
      <3>1. CASE Return(u, "Ok")
        BY <1>4, <1>12, <3>1
      <3>2. CASE ~Return(u, "Ok")
        <4>1. next' = [next EXCEPT ![u] = last + 1] /\ UNCHANGED <<op, arg>>
          BY <2>3, <3>2 DEF DeallocFree
        <4> QED
          BY <1>12, <4>1 DEF TypeOK
      <3> QED
        BY <3>1, <3>2
    <2>4. ASSUME NEW first, NEW last, DeallocErr(u, first, last) PROVE Same(t)
      BY <1>4, <1>12, <2>4 DEF DeallocErr
    <2> QED
      BY <1>12, <2>1, <2>2, <2>3, <2>4 DEF DeallocRun
  <1>13. \/ UNCHANGED <<op, arg, next>>
         \/ \E u \in Threads :
              \/ \E m : Alloc(u, m) \/ Dealloc(u, m) \/ Lock(u, m)
              \/ LockRun(u) \/ DeallocRun(u)
    BY DEF Next, FallQuiet, Drop, SpuriousWake
  <1> HIDE DEF Same
  <1>14. CASE \E u \in Threads : \E m : Alloc(u, m) \/ Dealloc(u, m) \/ Lock(u, m)
    BY <1>2, <1>7, <1>8, <1>9, <1>14
  <1>15. CASE \E u \in Threads : LockRun(u)
    BY <1>2, <1>10, <1>15
  <1>16. CASE \E u \in Threads : DeallocRun(u)
    BY <1>2, <1>11, <1>12, <1>16
  <1> QED
    BY <1>6, <1>13, <1>14, <1>15, <1>16

(* A dealloc() still has to visit every block that has been there since it *)
(* began.                                                                  *)
HistInv == \A t \in Threads : op[t] = "dealloc" => old[t] \subseteq Entries(t)

(* dealloc() that returns Ok has left no block that was there when it was  *)
(* called, for any number of threads and ranges.                           *)
THEOREM DeallocCompletes == HSpec => DeallocComplete
  <1>1. HInit => HistInv
    BY DEF HInit, Init, HistInv
  <1>2. ASSUME TypeOK, HistInv, HNext, NEW t \in Threads
        PROVE  /\ op'[t] = "dealloc" => old'[t] \subseteq Entries(t)'
               /\ op[t] = "dealloc" /\ op'[t] = "none" /\ result' = "Ok" => old'[t] = {}
    <2>1. Next /\ ("dealloc" \in {op[t], op'[t]} => old'[t] = StillThere(t))
      BY <1>2 DEF HNext
    <2>2. CASE op[t] = "dealloc"
      <3>1. old'[t] \subseteq {b \in Entries(t) : StateOf(b)' # "Free"}
        BY <1>2, <2>1, <2>2 DEF StillThere, HistInv
      <3>2. ASSUME op'[t] = "dealloc", NEW b \in old'[t] PROVE b \in Entries(t)'
        <4>1. b \in Entries(t) /\ StateOf(b)' # "Free"
          BY <3>1, <3>2
        <4>2. arg'[t] = arg[t] /\ next'[t] <= b
          BY <1>2, <2>1, <2>2, <3>2, <4>1, DeallocPart
        <4>3. b \in Int /\ b <= Limit(arg[t]) - 1 /\ Limit(arg[t]) \in Nat
          BY <1>2, <4>1, RangeType DEF Entries, TypeOK
        <4>4. b \in Nat
          BY <4>1 DEF Entries, StateOf, Blocks
        <4> QED
          BY <4>1, <4>2, <4>3, <4>4 DEF Entries, Limit
      <3>3. ASSUME op'[t] = "none", result' = "Ok" PROVE old'[t] = {}
        BY <1>2, <2>1, <2>2, <3>1, <3>3, DeallocPart
      <3> QED
        BY <3>2, <3>3
    <2>3. CASE op[t] # "dealloc" /\ op'[t] = "dealloc"
      <3>1. next'[t] = First(arg'[t])
        BY <1>2, <2>1, <2>3, DeallocPart
      <3>2. old'[t] \subseteq {b \in BlocksOf(arg'[t]) : StateOf(b)' # "Free"}
        BY <2>1, <2>3 DEF StillThere
      <3> QED
        BY <2>3, <3>1, <3>2 DEF Entries, BlocksOf, First, Limit
    <2> QED
      BY <2>2, <2>3
  <1>3. TypeOK /\ HistInv /\ [HNext]_hvars => HistInv'
    <2>1. ASSUME TypeOK, HistInv, HNext PROVE HistInv'
      BY <1>2, <2>1 DEF HistInv
    <2>2. ASSUME HistInv, UNCHANGED hvars PROVE HistInv'
      BY <2>2 DEF HistInv, hvars, vars, Entries, StateOf, Limit
    <2> QED
      BY <2>1, <2>2
  <1>4. TypeOK /\ HistInv /\ [HNext]_hvars =>
            [\A t \in Threads :
               (op[t] = "dealloc" /\ op'[t] = "none" /\ result' = "Ok") => old'[t] = {}]_hvars
    BY <1>2
  <1>5. HInit => Init
    BY DEF HInit
  <1>6. [HNext]_hvars => [Next]_vars
    BY DEF HNext, hvars
  <1> QED
    BY <1>1, <1>3, <1>4, <1>5, <1>6, TypeCorrect, PTL DEF HSpec, Spec, DeallocComplete
=============================================================================

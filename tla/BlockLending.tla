---------------------------- MODULE BlockLending ----------------------------
(***************************************************************************)
(* What Ram promises its callers: memory is allocated, lent to one thread  *)
(* at a time as a whole range, given back, and deallocated only when it is *)
(* not lent.  A lock() that fails, or that waits, has lent nothing.        *)
(***************************************************************************)
CONSTANTS Threads, Blocks

VARIABLES
    live,  \* allocated blocks
    lent   \* blocks lent to each thread

vars == <<live, lent>>

Open == live \ UNION {lent[t] : t \in Threads}

Init == live = {} /\ lent = [t \in Threads |-> {}]

Allocate(t, S) ==
    /\ S \cap live = {}
    /\ live' = live \cup S
    /\ lent' = [lent EXCEPT ![t] = @ \cup S]

Lend(t, S) ==
    /\ S \subseteq Open
    /\ lent' = [lent EXCEPT ![t] = @ \cup S]
    /\ UNCHANGED live

GiveBack(t, S) ==
    /\ S \subseteq lent[t]
    /\ lent' = [lent EXCEPT ![t] = @ \ S]
    /\ UNCHANGED live

Deallocate(S) ==
    /\ S \subseteq Open
    /\ live' = live \ S
    /\ UNCHANGED lent

Next ==
    \E S \in SUBSET Blocks :
        \/ Deallocate(S)
        \/ \E t \in Threads : Allocate(t, S) \/ Lend(t, S) \/ GiveBack(t, S)

Spec == Init /\ [][Next]_vars
=============================================================================

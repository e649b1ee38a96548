----------------------------- MODULE RamHistory -----------------------------
(***************************************************************************)
(* Ram with a history variable: for each thread in dealloc(), the blocks   *)
(* of its range that have had an entry ever since the call began.          *)
(***************************************************************************)
EXTENDS Ram

VARIABLE old

hvars == <<vars, old>>

StillThere(t) ==
    LET S == IF op[t] = "dealloc" THEN old[t] ELSE BlocksOf(arg'[t])
    IN  {b \in S : StateOf(b) # "Free" /\ StateOf(b)' # "Free"}

HInit == Init /\ old = [t \in Threads |-> {}]

HNext ==
    /\ Next
    /\ old' = [t \in Threads |->
                 IF "dealloc" \in {op[t], op'[t]} THEN StillThere(t) ELSE {}]

HSpec == HInit /\ [][HNext]_hvars
HFairSpec == HSpec /\ Fairness

(* dealloc() that returns Ok has deallocated its whole range: no block     *)
(* that was there when it was called is left, although it gives the Mutex  *)
(* up between two parts and skips what it has already freed.               *)
DeallocComplete ==
    [][\A t \in Threads :
         (op[t] = "dealloc" /\ op'[t] = "none" /\ result' = "Ok")
            => old'[t] = {}]_hvars
=============================================================================

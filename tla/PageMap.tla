------------------------------ MODULE PageMap ------------------------------
(***************************************************************************)
(* What VmSpace promises its callers, page by page and without splits,     *)
(* storages or host memory: every page is unmapped or has a protection and *)
(* a name, and a call changes the pages it was given as it was asked to,   *)
(* and no other page.                                                      *)
(***************************************************************************)
EXTENDS Integers

CONSTANT Top    \* the pages are 0 .. Top - 1

VARIABLES
    pages,  \* the protection and the name of each page
    call    \* the last call: [op, on, page], the pages it is on and what they are to be

Pages == 0 .. Top - 1
Unmapped == [prot |-> {"unmapped"}, name |-> "unmapped"]
Mapped(m) == {u \in Pages : m[u] # Unmapped}

NoCall == [op |-> "none", on |-> {}, page |-> Unmapped]

Init == pages = [u \in Pages |-> Unmapped] /\ call = NoCall

(* The pages that a call on S finds: those that are mapped, or none when   *)
(* the first page of S is not.                                             *)
Found(m, S) == {u \in S \cap Mapped(m) : \E f \in S \cap Mapped(m) : \A v \in S : f <= v}

(* It finds some, and there is no gap before the last of them.             *)
Whole(m, S) == Found(m, S) # {} /\ \A u \in Found(m, S), v \in S : v <= u => v \in Mapped(m)

(* New pages, none of which are in use.                                    *)
Map(m, n, c) ==
    /\ c.op = "map" /\ c.on \subseteq Pages \ Mapped(m)
    /\ n = [u \in Pages |-> IF u \in c.on THEN c.page ELSE m[u]]

Unmap(m, n, c) ==
    /\ c.op = "unmap"
    /\ \E F \in {Found(m, c.on)} : n = [u \in Pages |-> IF u \in F THEN Unmapped ELSE m[u]]

Protect(m, n, c) ==
    /\ c.op = "protect" /\ Whole(m, c.on)
    /\ \E F \in {Found(m, c.on)} :
          n = [u \in Pages |-> IF u \in F THEN [prot |-> c.page.prot, name |-> m[u].name] ELSE m[u]]

Name(m, n, c) ==
    /\ c.op = "name" /\ Whole(m, c.on)
    /\ \E F \in {Found(m, c.on)} :
          n = [u \in Pages |-> IF u \in F THEN [prot |-> m[u].prot, name |-> c.page.name] ELSE m[u]]

Call(m, n, c) == Map(m, n, c) \/ Unmap(m, n, c) \/ Protect(m, n, c) \/ Name(m, n, c)

Next == \E m \in {pages}, n \in {pages'}, c \in {call'} : Call(m, n, c)

Spec == Init /\ [][Next]_<<pages, call>>
=============================================================================

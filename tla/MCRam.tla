------------------------------- MODULE MCRam -------------------------------
(* Ram for TLC: blocks of two bytes, so that ranges start and end inside   *)
(* blocks, and addresses past the end of RAM and of usize.                 *)
EXTENDS Ram

R(a, n) == [addr |-> a, len |-> n]

MCBlockRanges == {R(0, 2), R(2, 4), R(0, 6), R(4, 4)}
MCLockRanges == {R(1, 1), R(1, 2), R(3, 2), R(0, 6), R(5, 2), R(7, 4)}

OneBlockRanges == {R(0, 2)}
OneLockRanges == {R(1, 1)}
=============================================================================

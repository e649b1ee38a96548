---------------------------- MODULE MCRamHistory ----------------------------
(* RamHistory with the constants of MCRam.                                 *)
EXTENDS MCRam, RamHistory
=============================================================================

------------------------------ MODULE MCLegacy ------------------------------
(* Four services of the older kernel that share no state, one at a time:   *)
(* the registry, the signals of a process, the process list and the        *)
(* virtual file system.                                                    *)
(*                                                                         *)
(* The registry is asked for keys of every kind of entry, for keys that no *)
(* entry has and for the keys the code names; and workaround8849 for every *)
(* key that an entry of the table stands for and for the one just past it. *)
EXTENDS RegMgr, RegTable, Signals, Process

CONSTANTS t1, t2

VARIABLES
    part,
    boot, mounts, root, proc_root, live, items, cache, nulls, tree, devices,
    populated, op, fds

vfsvars == <<boot, mounts, root, proc_root, live, items, cache, nulls, tree,
             devices, populated, op, fds>>

MCKeys ==
    {NET_WIFI_FREQ_BAND, AUDIOOUT_CODEC, NP_DEBUG, <<\h0105, 0>>, <<\h0202, 0>>, <<\h0205, 0>>,
     <<\h0A03, 0>>, <<\h0780, \h0100>>, <<\h0781, \h0100>>, <<\h0790, \h0100>>, <<\hFFFF, \hFFFF>>,
     <<\h3705, 0>>, <<\h141E, \h0300>>}

MCAsked ==
    DebugKeys \cup UNION {{KeyAt(e.key, n, e.unk2) : n \in 0 .. e.unk1} : e \in Range(ENTRIES)}

(* The mounts of a start as main.rs makes them, and paths to a file of the *)
(* game, to one that is missing, through a nullfs, to a device and to a    *)
(* mount point.                                                            *)
MCTargets ==
     <<"app0", "eboot">> :> <<[kind |-> "pfs", file |-> <<"eboot">>]>>
  @@ <<"app0", "gone">> :> <<>>
  @@ <<"QXuNNl0Zhn", "common", "lib", "libc">> :>
        <<[kind |-> "exfatfs", file |-> <<"system", "common", "lib", "libc">>]>>
  @@ <<"dev", "gc">> :> <<[kind |-> "devfs", file |-> <<"gc">>]>>
  @@ <<"dev">> :> <<[kind |-> "devfs", file |-> <<>>]>>

F == INSTANCE Vfs WITH
        Paths <- DOMAIN MCTargets, Targets <- MCTargets, MaxFd <- 2,
        Devices <- <<"console", "gc">>, Game <- {<<"eboot">>},
        System <- {<<"system">>, <<"system", "common">>, <<"system", "common", "lib">>,
                   <<"system", "common", "lib", "libc">>}

-----------------------------------------------------------------------------
MCInit ==
    /\ part \in {"registry", "signals", "processes", "files"}
    /\ Init /\ SignalsInit /\ ProcessInit /\ F!Init

MCNext ==
    /\ \/ part = "registry" /\ Next /\ UNCHANGED <<sigvars, procvars, vfsvars>>
       \/ part = "signals" /\ SignalsNext /\ UNCHANGED <<vars, procvars, vfsvars>>
       \/ part = "processes" /\ ProcessNext /\ UNCHANGED <<vars, sigvars, vfsvars>>
       \/ part = "files" /\ F!Next /\ UNCHANGED <<vars, sigvars, procvars>>
    /\ UNCHANGED part

allvars == <<part, vars, sigvars, procvars, vfsvars>>

MCSpec == MCInit /\ [][MCNext]_allvars

-----------------------------------------------------------------------------
(* The properties of the file system, explained where they are defined     *)
(* (Fs::lookup, Fs::mount); those of the other parts are their own.        *)
OneVnode == F!OneVnode
Lands == F!Lands
=============================================================================

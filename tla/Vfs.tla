-------------------------------- MODULE Vfs --------------------------------
(***************************************************************************)
(* The virtual file system of the older kernel: the mounts that the kernel *)
(* sets up while it starts, the vnodes of its four file systems (a host    *)
(* directory, tmpfs, devfs, nullfs) and the files that the threads of the  *)
(* application open and close afterwards.                                  *)
(*                                                                         *)
(* A vnode lives as long as something holds it.  What makes a directory a  *)
(* mount point is the `item' of its vnode, so a mount can be reached only  *)
(* while the vnode it covers stays alive; and a file must have one vnode,  *)
(* which the file systems ensure with caches of weak references (host,     *)
(* devfs), of strong ones (tmpfs) and with one table for all of nullfs.    *)
(* The model keeps these references and drops every vnode that none holds. *)
(*                                                                         *)
(* A file is a sequence of names below the root of its file system.        *)
(***************************************************************************)
EXTENDS Integers, Sequences, FiniteSets, SequencesExt, TLC

CONSTANTS
    Threads,     \* threads of the application
    Paths,       \* the paths they open
    System,      \* files of the host directory mounted as the root
    Game,        \* files of the host directory of the game
    Devices,     \* the names of the devices the kernel makes, in order
    Targets,     \* for every path, the kind of file system and the file it names
    MaxFd        \* bound on the descriptors of the process

VARIABLES
    boot,        \* 0 before Fs::new, then the position in Script; see Running
    mounts,      \* the mounts, in the order of the list: kind, lower and parent
    root,        \* Fs::root, the vnode absolute paths of the kernel start at
    proc_root,   \* root and cwd of the process
    live,        \* the vnodes that exist
    items,       \* the mount a vnode is covered by
    cache,       \* actives (host), Dirent::vnode (devfs), Node::vnode (tmpfs)
    nulls,       \* NULL_HASHTABLE
    tree,        \* the directories of every mount that mkdir has made
    devices,     \* DEVICES
    populated,   \* the devices that every devfs has an entry for
    op,          \* the open that each thread is in
    fds          \* the file of every descriptor

vfsvars == <<boot, mounts, root, proc_root, live, items, cache, nulls, tree,
             devices, populated, op, fds>>

none == <<>>     \* no vnode: an optional vnode is a sequence of at most one
Idle == [path |-> <<>>, rest |-> <<>>, vn |-> none]

(***************************************************************************)
(* What the kernel does between Fs::new and the application, in order:     *)
(* directories it makes, file systems it mounts, devices, the process.     *)
(***************************************************************************)
Mkdir(path) == [op |-> "mkdir", path |-> path]
Mount(kind, path) == [op |-> "mount", kind |-> kind, path |-> path, target |-> <<>>]
Nullfs(path, target) == [op |-> "mount", kind |-> "nullfs", path |-> path, target |-> target]

sandbox == <<"mnt", "sandbox">>
game == sandbox \o <<"pfsmnt", "CUSAXXXXX-app0">>
procdir == Append(sandbox, "CUSAXXXXX_000")
app == Append(procdir, "app0")

GameMounts ==
    <<Mkdir(<<"mnt">>), Mount("tmpfs", <<"mnt">>), Mkdir(sandbox),
      Mkdir(Append(sandbox, "pfsmnt")), Mkdir(game), Mount("pfs", game),
      Mkdir(procdir), Mkdir(app), Nullfs(app, game)>>

SystemMounts ==
    LET system == Append(procdir, "QXuNNl0Zhn")
        common == Append(system, "common")
        lib    == Append(common, "lib")
        union  == sandbox \o <<"pfsmnt", "CUSAXXXXX-app0-patch0-union">>
        dev    == Append(procdir, "dev")
    IN  <<Mkdir(system), Mkdir(common), Mkdir(lib),
          Nullfs(lib, <<"system", "common", "lib">>),
          Mkdir(union), Nullfs(union, app), Mkdir(dev), Mount("devfs", dev)>>

Managers == [i \in DOMAIN Devices |-> [op |-> "make_dev", name |-> Devices[i]]]

Script == GameMounts \o SystemMounts \o Managers \o <<[op |-> "spawn", path |-> procdir]>>

\* find_config: the implementation behind the name of a file system.  A host
\* directory stands in for exFAT and for PFS; the other names are todo!().
find_config == [exfatfs |-> "host", pfs |-> "host", tmpfs |-> "tmpfs",
                devfs |-> "devfs", nullfs |-> "nullfs"]

(***************************************************************************)
(* Vnodes.  `lower' is the vnode below that of a nullfs; `n' tells apart   *)
(* two vnodes of one file, should there ever be two.                       *)
(***************************************************************************)
NewVnode(s, m, file, lower) ==
    LET taken == {v.n : v \in {w \in s.live : w.mount = m /\ w.file = file
                                              /\ w.lower = lower}}
    IN  [mount |-> m, file |-> file, lower |-> lower,
         n |-> CHOOSE i \in 0..Cardinality(taken) : i \notin taken]

\* What lookups change: a record of these variables, threaded through them.
Vnodes == [live |-> live, cache |-> cache, nulls |-> nulls,
           populated |-> populated]

\* A new vnode for the file, which the cache of its mount refers to.
Cached(s, m, file) ==
    LET key == <<m, file>>
        new == NewVnode(s, m, file, none)
    IN  [s  |-> [s EXCEPT !.live = @ \cup {new},
                          !.cache = [k \in DOMAIN @ \cup {key} |->
                                        IF k = key THEN new ELSE @[k]]],
         vn |-> new]

\* HostFs::get_vnode: `actives' is keyed by the identity of the host file and
\* its references are weak.
get_vnode(s, m, file) ==
    IF <<m, file>> \in DOMAIN s.cache /\ s.cache[<<m, file>>] \in s.live
    THEN [s |-> s, vn |-> s.cache[<<m, file>>]] ELSE Cached(s, m, file)

\* TempFs::alloc_vnode: a node owns its vnode from the first use on.
tmpfs_alloc_vnode(s, m, file) ==
    IF <<m, file>> \in DOMAIN s.cache
    THEN [s |-> s, vn |-> s.cache[<<m, file>>]] ELSE Cached(s, m, file)

\* DevFs::alloc_vnode: the entry has a weak reference to its vnode.
devfs_alloc_vnode(s, m, file) ==
    IF <<m, file>> \in DOMAIN s.cache /\ s.cache[<<m, file>>] \in s.live
    THEN [s |-> s, vn |-> s.cache[<<m, file>>]] ELSE Cached(s, m, file)

\* NullHashTable::get: one entry for a lower vnode, of any of the mounts.
Remembered(s, m, lower) == lower \in DOMAIN s.nulls /\ s.nulls[lower].mount = m

(* Mutant: nullfs does not remember the vnodes it makes. *)
null_nodegetForgets(s, m, lower) ==
    LET new == NewVnode(s, m, <<>>, <<lower>>)
    IN  [s |-> [s EXCEPT !.live = @ \cup {new}], vn |-> new]

\* null_nodeget: a new vnode replaces the entry of another mount.
null_nodeget(s, m, lower) ==
    LET new == NewVnode(s, m, <<>>, <<lower>>)
    IN  IF Remembered(s, m, lower) THEN [s |-> s, vn |-> s.nulls[lower]]
        ELSE [s  |-> [s EXCEPT !.live = @ \cup {new},
                               !.nulls = [l \in DOMAIN @ \cup {lower} |->
                                             IF l = lower THEN new ELSE @[l]]],
              vn |-> new]

\* Filesystem::root, of a mount as mount functions describe it.
Root(s, m, mnt) ==
    CASE mnt.fs = "host"   -> get_vnode(s, m, <<>>)
      [] mnt.fs = "tmpfs"  -> tmpfs_alloc_vnode(s, m, <<>>)
      [] mnt.fs = "devfs"  -> devfs_alloc_vnode(s, m, <<>>)
      [] mnt.fs = "nullfs" -> null_nodeget(s, m, mnt.lower[1])

\* Fs::follow: the root of what is mounted on the vnode, if anything is.
follow(s, vn) ==
    IF vn \in DOMAIN items THEN Root(s, items[vn], mounts[items[vn]])
                           ELSE [s |-> s, vn |-> vn]

Error(s, e) == [s |-> s, vn |-> none, err |-> e]
Found(r) == [s |-> r.s, vn |-> <<r.vn>>, err |-> "ok"]

(***************************************************************************)
(* Vnode::lookup of the file systems.  HostFile::open asks the host for    *)
(* the file; a tmpfs has what mkdir made; devfs brings its entries up to   *)
(* date with the list of devices first (populate) and stops the kernel     *)
(* when there is no such device.                                           *)
(***************************************************************************)
OnHost(m) ==
    tree[m] \cup (IF mounts[m].kind = "exfatfs" THEN System ELSE Game)

host_lookup(s, m, file) ==
    IF file \in OnHost(m) THEN Found(get_vnode(s, m, file)) ELSE Error(s, "EIO")

tmpfs_lookup(s, m, file) ==
    IF file \in tree[m] THEN Found(tmpfs_alloc_vnode(s, m, file)) ELSE Error(s, "ENOENT")

populate(s, m) == [s EXCEPT !.populated[m] = devices]

devfs_lookup(s, m, dir, name) ==
    IF dir # <<>> THEN Error(populate(s, m), "ENOTDIR")
    ELSE IF name \notin populate(s, m).populated[m] THEN Error(s, "todo")
    ELSE Found(devfs_alloc_vnode(populate(s, m), m, <<name>>))

\* nullfs asks the vnode below, not what is mounted there, and wraps the answer.
RECURSIVE lookup_in(_, _, _)
lookup_in(s, vn, name) ==
    LET m  == vn.mount
        fs == mounts[m].fs
    IN  CASE fs = "host"   -> host_lookup(s, m, Append(vn.file, name))
          [] fs = "tmpfs"  -> tmpfs_lookup(s, m, Append(vn.file, name))
          [] fs = "devfs"  -> devfs_lookup(s, m, vn.file, name)
          [] fs = "nullfs" ->
                LET r == lookup_in(s, vn.lower[1], name)
                IN  IF r.vn = none THEN r ELSE Found(null_nodeget(r.s, m, r.vn[1]))

\* One round of the loop of Fs::lookup.
walk(s, vn, name) ==
    LET r == follow(s, vn) IN lookup_in(r.s, r.vn, name)

\* Fs::lookup as the kernel calls it while it starts: all of the path at once.
RECURSIVE lookup(_, _, _, _)
lookup(s, vn, path, ends) ==
    IF path = <<>>
    THEN Found(IF ends THEN follow(s, vn) ELSE [s |-> s, vn |-> vn])
    ELSE LET r == walk(s, vn, Head(path))
         IN  IF r.vn = none THEN r ELSE lookup(r.s, r.vn[1], Tail(path), ends)

(***************************************************************************)
(* What keeps a vnode: the vnode below it belongs to each nullfs vnode.    *)
(***************************************************************************)
RECURSIVE WithLower(_)
WithLower(S) ==
    LET below == {v.lower[1] : v \in {w \in S : w.lower # none}} \ S
    IN  IF below = {} THEN S ELSE WithLower(S \cup below)

ToSetOf(opt) == {opt[i] : i \in DOMAIN opt}

(* Mutant: tmpfs, too, has only a weak reference to the vnode of a node. *)
HeldByNobody(s, ms) == {}

\* A tmpfs holds the vnodes of its nodes for good.
HeldByTmpfs(s, ms) ==
    {s.cache[k] : k \in {j \in DOMAIN s.cache : ms[j[1]].fs = "tmpfs"}}

HeldByMounts(ms) ==
    UNION {ToSetOf(ms[m].parent) \cup ToSetOf(ms[m].lower) : m \in DOMAIN ms}

HeldByNullfs(s) == DOMAIN s.nulls \cup {s.nulls[l] : l \in DOMAIN s.nulls}

Held(s, ms, rt, pr, o, f) ==
    WithLower(HeldByTmpfs(s, ms) \cup HeldByMounts(ms) \cup HeldByNullfs(s)
              \cup ToSetOf(rt) \cup ToSetOf(pr)
              \cup UNION {ToSetOf(o[t].vn) : t \in Threads}
              \cup {f[i][1].vn : i \in {j \in DOMAIN f : f[j] # none}})

\* The end of every step: what is not held any more is dropped, and with
\* it the item of the vnode.
Settle(s, is) ==
    /\ live' = s.live \cap Held(s, mounts', root', proc_root', op', fds')
    /\ items' = [v \in DOMAIN is \cap live' |-> is[v]]
    /\ cache' = [k \in {j \in DOMAIN s.cache : s.cache[j] \in live'} |-> s.cache[k]]
    /\ nulls' = s.nulls
    /\ populated' = s.populated

(***************************************************************************)
(* The mount functions: what a mount records.  nullfs has the vnode it     *)
(* shows as its parent, the others the vnode they cover.                   *)
(***************************************************************************)
host_mount(kind, covered, lower) ==
    [kind |-> kind, fs |-> "host", parent |-> covered, lower |-> none]

tmpfs_mount(kind, covered, lower) ==
    [kind |-> kind, fs |-> "tmpfs", parent |-> covered, lower |-> none]

devfs_mount(kind, covered, lower) ==
    [kind |-> kind, fs |-> "devfs", parent |-> covered, lower |-> none]

nullfs_mount(kind, covered, lower) ==
    [kind |-> kind, fs |-> "nullfs", parent |-> lower, lower |-> lower]

Mounted(kind, covered, lower) ==
    CASE find_config[kind] = "host"   -> host_mount(kind, covered, lower)
      [] find_config[kind] = "tmpfs"  -> tmpfs_mount(kind, covered, lower)
      [] find_config[kind] = "devfs"  -> devfs_mount(kind, covered, lower)
      [] find_config[kind] = "nullfs" -> nullfs_mount(kind, covered, lower)

\* The vnode that a nullfs is to show; the mount fails when there is none.
Target(s, a) ==
    IF find_config[a.kind] = "nullfs"
    THEN {l \in {lookup(s, root[1], a.target, TRUE)} : l.vn # none}
    ELSE {Error(s, "none")}

(***************************************************************************)
(* Fs::new: devfs is mounted first and the host directory over its root.   *)
(* The two then change places: the item and the parent that linked them    *)
(* are cleared, /dev is made in the host directory, or looked up when it   *)
(* is there already, and devfs is hung below it.                           *)
(***************************************************************************)
new ==
    /\ boot = 0
    /\ tree' = <<{}, {<<"dev">>}>>
    /\ boot' = 1
    /\ UNCHANGED <<proc_root, devices, op, fds>>
    /\ \E r \in {get_vnode(Vnodes, 2, <<>>)} : \E dev \in {get_vnode(r.s, 2, <<"dev">>)} :
         /\ root' = <<r.vn>>
         /\ mounts' = <<devfs_mount("devfs", <<dev.vn>>, none), host_mount("exfatfs", none, none)>>
         /\ Settle([dev.s EXCEPT !.populated = <<{}, {}>>], dev.vn :> 1)

\* The kernel stops when a step of its start fails (KernelError).
fails ==
    /\ boot \in 0..Len(Script)
    /\ boot' = Len(Script) + 2
    /\ UNCHANGED <<mounts, root, proc_root, live, items, cache, nulls, tree,
                   devices, populated, op, fds>>

At(kind) == boot \in 1..Len(Script) /\ Script[boot].op = kind

(***************************************************************************)
(* Fs::mkdir in the directory that the path without its last name leads    *)
(* to.  A host directory may be there already (the kernel goes on when it  *)
(* is /mnt); a tmpfs adds a node.  nullfs and devfs have no mkdir.         *)
(***************************************************************************)
host_mkdir(s, m, file) == get_vnode(s, m, file).s
tmpfs_mkdir(s, m, file) == tmpfs_alloc_vnode(s, m, file).s

Made(s, m, file) ==
    CASE mounts[m].fs = "host"  -> {host_mkdir(s, m, file)}
      [] mounts[m].fs = "tmpfs" -> {tmpfs_mkdir(s, m, file)}
      [] OTHER                  -> {}

mkdir ==
    /\ At("mkdir")
    /\ boot' = boot + 1
    /\ UNCHANGED <<mounts, root, proc_root, devices, op, fds>>
    /\ \E r \in {lookup(Vnodes, root[1], Front(Script[boot].path), TRUE)} :
         \E dir \in ToSetOf(r.vn) : \E file \in {Append(dir.file, Last(Script[boot].path))} :
            /\ tree' = [tree EXCEPT ![dir.mount] = @ \cup {file}]
            /\ \E s \in Made(r.s, dir.mount, file) : Settle(s, items)

(***************************************************************************)
(* Fs::mount: the vnode at the path is looked up without following it, and *)
(* nullfs then looks its target up.  A vnode that is covered already is    *)
(* not covered again (PathAlreadyMounted).                                 *)
(***************************************************************************)
mount ==
    /\ At("mount")
    /\ tree' = Append(tree, {})
    /\ boot' = boot + 1
    /\ UNCHANGED <<root, proc_root, devices, op, fds>>
    /\ \E a \in {Script[boot]} : \E r \in {lookup(Vnodes, root[1], a.path, FALSE)} :
         \E l \in Target(r.s, a), covered \in ToSetOf(r.vn) \ DOMAIN items :
           \E m \in {Mounted(a.kind, r.vn, l.vn)} :
              /\ mounts' = Append(mounts, m)
              /\ Settle(Root([l.s EXCEPT !.populated = Append(@, {})], Len(mounts) + 1, m).s,
                        (covered :> Len(mounts) + 1) @@ items)

\* make_dev, as each of the device managers calls it: a name not in use.
make_dev ==
    /\ At("make_dev")
    /\ Script[boot].name \notin devices
    /\ devices' = devices \cup {Script[boot].name}
    /\ boot' = boot + 1
    /\ UNCHANGED <<mounts, root, proc_root, live, items, cache, nulls, tree,
                   populated, op, fds>>

\* The first process: its root and its current directory.
spawn ==
    /\ At("spawn")
    /\ boot' = boot + 1
    /\ UNCHANGED <<mounts, root, tree, devices, op, fds>>
    /\ \E r \in {lookup(Vnodes, root[1], Script[boot].path, TRUE)} :
         /\ r.vn # none
         /\ proc_root' = r.vn
         /\ Settle(r.s, items)

Running == boot = Len(Script) + 1

(***************************************************************************)
(* sys_open: one step per component, with the vnode reached so far held in *)
(* between; then the last vnode is followed and the file gets the lowest   *)
(* descriptor that is free (FileDesc::alloc).  An open that has failed     *)
(* keeps its path until the thread's next one.                             *)
(***************************************************************************)
open(t, path) ==
    /\ Running /\ op[t].vn = none
    /\ op' = [op EXCEPT ![t] = [path |-> path, rest |-> path, vn |-> proc_root]]
    /\ UNCHANGED <<boot, mounts, root, proc_root, live, items, cache, nulls,
                   tree, devices, populated, fds>>

step(t) ==
    /\ op[t].vn # none /\ op[t].rest # <<>>
    /\ UNCHANGED <<boot, mounts, root, proc_root, tree, devices, fds>>
    /\ \E r \in {walk(Vnodes, op[t].vn[1], Head(op[t].rest))} :
         /\ r.err # "todo"
         /\ op' = [op EXCEPT ![t].vn = r.vn, ![t].rest = Tail(@)]
         /\ Settle(r.s, items)

Free == {i \in DOMAIN fds : fds[i] = none}
Lowest(S) == CHOOSE i \in S : \A j \in S : i <= j

install(t) ==
    /\ op[t].vn # none /\ op[t].rest = <<>>
    /\ op' = [op EXCEPT ![t] = Idle]
    /\ UNCHANGED <<boot, mounts, root, proc_root, tree, devices>>
    /\ \E r \in {follow(Vnodes, op[t].vn[1])} :
         /\ \E file \in {<<[vn |-> r.vn, path |-> op[t].path]>>} :
              \/ Free # {} /\ fds' = [fds EXCEPT ![Lowest(Free)] = file]
              \/ Free = {} /\ Len(fds) < MaxFd /\ fds' = Append(fds, file)
         /\ Settle(r.s, items)

\* sys_close: FileDesc::free clears any slot of the table, used or not.
close(fd) ==
    /\ Running /\ fd \in DOMAIN fds
    /\ fds' = [fds EXCEPT ![fd] = none]
    /\ UNCHANGED <<boot, mounts, root, proc_root, tree, devices, op>>
    /\ Settle(Vnodes, items)

Init ==
    /\ boot = 0
    /\ mounts = <<>> /\ tree = <<>> /\ populated = <<>>
    /\ root = none /\ proc_root = none
    /\ live = {} /\ items = <<>> /\ cache = <<>> /\ nulls = <<>>
    /\ devices = {}
    /\ op = [t \in Threads |-> Idle]
    /\ fds = <<>>

Next ==
    \/ new \/ mkdir \/ mount \/ make_dev \/ spawn \/ fails
    \/ \E t \in Threads : (\E path \in Paths : open(t, path)) \/ step(t) \/ install(t)
    \/ \E fd \in 1..MaxFd : close(fd)

Spec == Init /\ [][Next]_vfsvars

-----------------------------------------------------------------------------
(***************************************************************************)
(* A file has one vnode at a time, in every mount it is reached through,   *)
(* as the documentation of Vnode demands of the file systems: two vnodes   *)
(* would each have an item of their own, and a mount on one would be       *)
(* missing from the other.  The caches are weak, strong and shared in      *)
(* turn, and vnodes come and go under them as files are closed.            *)
(***************************************************************************)
OneVnode ==
    \A v, w \in live :
        v.mount = w.mount /\ v.file = w.file /\ v.lower = w.lower => v = w

RECURSIVE Bottom(_)
Bottom(v) ==
    IF v.lower # none THEN Bottom(v.lower[1])
    ELSE [kind |-> mounts[v.mount].kind, file |-> v.file]

(***************************************************************************)
(* Every open ends at the file its path names, through all of the mounts   *)
(* on the way, and fails only where there is no such file: the mounts that *)
(* the kernel has set up stay reachable however vnodes are dropped.  The   *)
(* parent of a nullfs mount is its target, not the directory it covers, so *)
(* nothing but the strong references of tmpfs keeps those mount points.    *)
(***************************************************************************)
Lands ==
    /\ \A i \in DOMAIN fds : fds[i] # none =>
           <<Bottom(fds[i][1].vn)>> = Targets[fds[i][1].path]
    /\ \A t \in Threads : op[t].path # <<>> /\ op[t].vn = none =>
           Targets[op[t].path] = none
=============================================================================

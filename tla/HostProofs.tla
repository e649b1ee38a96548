----------------------------- MODULE HostProofs -----------------------------
(***************************************************************************)
(* Proofs about three parts of the desktop program.                        *)
(*                                                                         *)
(* The setup wizard, for any locations and any firmware dump: the window   *)
(* and the disk name the same location up to white space, an installation  *)
(* that succeeds is whole, and the launcher finds it so.  The invariant    *)
(* says what the running installation has written, whatever was there      *)
(* before, and which locations a start may take for installed.             *)
(*                                                                         *)
(* A debugging session, for any number of packets: whatever the reads of   *)
(* the socket cut them into, the server meets no error and the two sides   *)
(* agree.  At any time one exchange is in progress, and the invariant says *)
(* where its packet or its answer is.                                      *)
(*                                                                         *)
(* The launcher, for any profiles and files: what the user saved stays     *)
(* saved, and what is launched is what is shown.  The invariant relates    *)
(* the list of profiles to the files while a job of the launcher is under  *)
(* way.                                                                    *)
(***************************************************************************)
EXTENDS Setup, Gdb, Launcher, TLAPS

(* The launcher.                                                           *)

Names == Ids \cup {Settings}

IsProfile(p) == p = [id |-> p.id, text |-> p.text, env |-> p.env] /\ p.id \in Ids

(* The profiles are a list of profiles, whatever their fields hold.        *)
Listed == \E S : profiles \in Seq(S) /\ \A p \in S : IsProfile(p)

(* The save in progress, and the handler that waits for it.                *)
JobOf(what, p, s) ==
    /\ job = Job(what, p, s) /\ s \in {"dir", "create", "write"} /\ p.id \in Names
    /\ \/ what = "default" /\ launcher = "start" /\ p.id \in Ids /\ IsProfile(p)
       \/ what = "create" /\ launcher = "window" /\ dialog = "profile" /\ p.id \in Ids /\ IsProfile(p)
       \/ what = "settings" /\ launcher = "window" /\ dialog = "settings" /\ s # "dir"
       \/ /\ what = "save" /\ launcher = "window" /\ dialog = "none" /\ s # "dir"
          /\ p = profiles[selected] /\ Content(p) = Shown
    /\ s = "dir" /\ p.id \notin cut => stored[p.id] = kept[p.id]

LauncherInv ==
    /\ Listed
    /\ DOMAIN stored = Names /\ DOMAIN kept = Names
    /\ job = <<>> \/ \E what, p, s : JobOf(what, p, s)
    /\ \A f \in Names : f \notin cut /\ (job = <<>> \/ job[1].p.id # f) => stored[f] = kept[f]
    /\ launcher \in {"off", "start"} => selected = 0
    /\ launcher = "window" => selected = index /\ selected \in DOMAIN profiles
    /\ dialog # "none" => launcher = "window"
    /\ launched # <<>> =>
        /\ launcher \in {"wait", "vmm"} /\ job = <<>>
        /\ selected # 0 => launched[1].id = profiles[index].id /\ Content(launched[1]) = Shown

LEMMA InitLauncher == LauncherInit => LauncherInv
<1> SUFFICES ASSUME LauncherInit PROVE LauncherInv
  OBVIOUS
<1>1. Listed
  <2>1. profiles \in Seq({}) /\ \A p \in {} : IsProfile(p)
    BY DEF LauncherInit
  <2> QED
    BY <2>1 DEF Listed
<1> QED
  BY <1>1 DEF LauncherInit, LauncherInv, Names

(* While a save runs, the dialogs are the ones that wait for it.           *)
LEMMA JobDialog ==
    ASSUME LauncherInv, job # <<>>
    PROVE  /\ launcher \in {"start", "window"} /\ dialog # "variable"
           /\ launched = <<>>
  BY DEF LauncherInv, JobOf

(* What is shown depends on the fields of the window only.                 *)
LEMMA ShownSame ==
    ASSUME text' = text, shown' = shown
    PROVE  Shown' = Shown
  BY DEF Shown, extend_env, Used

(* Steps that leave the disk alone while no save runs or starts.           *)
LEMMA LauncherEdits ==
    ASSUME LauncherInv, job = <<>>, job' = <<>>, UNCHANGED disk, Listed',
           launcher' \in {"off", "start"} => selected' = 0,
           launcher' = "window" => selected' = index' /\ selected' \in DOMAIN profiles',
           dialog' # "none" => launcher' = "window",
           launched' # <<>> =>
              /\ launcher' \in {"wait", "vmm"}
              /\ selected' # 0 =>
                    launched'[1].id = profiles'[index'].id /\ (Content(launched[1]) = Shown)'
    PROVE  LauncherInv'
  BY DEF LauncherInv, disk

LEMMA LauncherStarts ==
    ASSUME LauncherInv, NEW default \in BOOLEAN, Start(default)
    PROVE  LauncherInv'
<1>1. /\ launcher = "off" /\ launcher' = "start" /\ job' = job /\ selected' = selected
      /\ dialog' = dialog /\ launched' = launched /\ UNCHANGED disk
  BY DEF Start, popup, disk
<1>2. job = <<>> /\ launched = <<>> /\ dialog = "none" /\ selected = 0
  BY <1>1, JobDialog DEF LauncherInv
<1>3. Listed'
  <2>0. PICK n \in 0 .. Cardinality(Ids) : \E order \in [1 .. n -> OnDisk] :
            profiles' = [k \in 1 .. n |-> [id |-> order[k], text |-> stored[order[k]].text,
                                           env |-> stored[order[k]].env]]
    BY DEF Start
  <2>1. PICK order \in [1 .. n -> OnDisk] :
            profiles' = [k \in 1 .. n |-> [id |-> order[k], text |-> stored[order[k]].text,
                                           env |-> stored[order[k]].env]]
    BY <2>0
  <2> DEFINE S == {[id |-> i, text |-> stored[i].text, env |-> stored[i].env] : i \in OnDisk}
  <2>2. profiles' \in [1 .. n -> S] /\ n \in Nat
    BY <2>1
  <2>3. profiles' \in Seq(S)
    BY <2>2
  <2>4. \A p \in S : IsProfile(p)
    BY DEF IsProfile, OnDisk
  <2> HIDE DEF S
  <2>5. IsProfile(1)' <=> IsProfile(1)
    BY DEF IsProfile
  <2> QED
    BY <2>3, <2>4 DEF Listed, IsProfile
<1> QED
  BY <1>1, <1>2, <1>3, LauncherEdits

LEMMA LauncherOpens ==
    ASSUME LauncherInv, Open \/ Debug
    PROVE  LauncherInv'
<1>1. /\ launcher = "start" /\ job = <<>> /\ job' = <<>> /\ UNCHANGED disk /\ profiles' = profiles
      /\ dialog' = dialog /\ profiles # <<>>
  BY DEF Open, Debug, popup, window
<1>2. launched = <<>> /\ dialog = "none" /\ selected = 0
  BY <1>1 DEF LauncherInv
<1>3. Listed'
  BY <1>1 DEF LauncherInv, Listed, IsProfile
<1>4. 1 \in DOMAIN profiles
  BY <1>1 DEF LauncherInv, Listed
<1>5. CASE Open
  BY <1>5, <1>1, <1>2, <1>3, <1>4, LauncherEdits DEF Open, select
<1>6. CASE Debug
  BY <1>6, <1>1, <1>2, <1>3, LauncherEdits DEF Debug, window
<1> QED
  BY <1>5, <1>6

LEMMA LauncherWindow ==
    ASSUME LauncherInv,
           \/ Edit \/ settings \/ new_profile \/ new_environment \/ CancelDialog
           \/ \E r \in DOMAIN profiles : profile_selected(r)
           \/ \E r \in DOMAIN shown : edit_environment(r) \/ delete_environment(r)
           \/ \E v \in Variables : create_environment(v) \/ apply_edited_environment(v)
    PROVE  LauncherInv'
<1>1. /\ launcher = "window" /\ launcher' = launcher /\ profiles' = profiles /\ job = <<>>
      /\ job' = <<>> /\ launched' = launched /\ UNCHANGED disk
  <2>1. CASE Edit \/ settings \/ new_profile \/ new_environment
    BY <2>1 DEF Edit, settings, new_profile, new_environment, OpenDialog, Idle, window
  <2>2. CASE CancelDialog
    BY <2>2, Zenon DEF CancelDialog, window, LauncherInv
  <2>3. CASE \E r \in DOMAIN profiles : profile_selected(r)
    BY <2>3 DEF profile_selected, Idle
  <2>4. CASE \E r \in DOMAIN shown : edit_environment(r) \/ delete_environment(r)
    BY <2>4 DEF edit_environment, delete_environment, OpenDialog, Idle, window
  <2>5. CASE \E v \in Variables : create_environment(v) \/ apply_edited_environment(v)
    <3>1. dialog = "variable"
      BY <2>5 DEF create_environment, apply_edited_environment
    <3>2. job = <<>>
      BY <3>1, JobDialog, Zenon
    <3> QED
      BY <2>5, <3>1, <3>2, Zenon DEF create_environment, apply_edited_environment, LauncherInv
  <2> QED
    BY <2>1, <2>2, <2>3, <2>4, <2>5, Zenon
<1>2. launched = <<>> /\ selected = index /\ selected \in DOMAIN profiles
  BY <1>1 DEF LauncherInv
<1>3. selected' = index' /\ selected' \in DOMAIN profiles
  <2>1. CASE \E r \in DOMAIN profiles : profile_selected(r)
    BY <2>1, Zenon DEF profile_selected, select
  <2>2. CASE Edit \/ settings \/ new_profile \/ new_environment \/ CancelDialog
    BY <2>2, <1>2 DEF Edit, settings, new_profile, new_environment, CancelDialog,
       OpenDialog, window
  <2>3. CASE \E r \in DOMAIN shown : edit_environment(r) \/ delete_environment(r)
    BY <2>3, <1>2 DEF edit_environment, delete_environment, OpenDialog, window
  <2>4. CASE \E v \in Variables : create_environment(v) \/ apply_edited_environment(v)
    BY <2>4, <1>2 DEF create_environment, apply_edited_environment
  <2> QED
    BY <2>1, <2>2, <2>3, <2>4
<1>4. Listed'
  BY <1>1 DEF LauncherInv, Listed, IsProfile
<1> QED
  BY <1>1, <1>2, <1>3, <1>4, LauncherEdits

LEMMA TextField ==
    ASSUME NEW a, NEW b, NEW c, NEW t, NEW r, r = [id |-> a, text |-> b, env |-> c],
           NEW q, q = [r EXCEPT !.text = t]
    PROVE  q = [id |-> a, text |-> t, env |-> c]
  BY SMT

LEMMA EnvField ==
    ASSUME NEW a, NEW b, NEW c, NEW t, NEW r, r = [id |-> a, text |-> b, env |-> c],
           NEW q, q = [r EXCEPT !.env = t]
    PROVE  q = [id |-> a, text |-> b, env |-> t]
  BY SMT

(* ProfileModel::update keeps the list and changes the fields of one row.  *)
LEMMA Updates ==
    ASSUME LauncherInv, launcher = "window", profiles' = update
    PROVE  /\ Listed' /\ DOMAIN profiles' = DOMAIN profiles
           /\ update[selected].id = profiles[selected].id /\ profiles[selected].id \in Ids
           /\ Content(update[selected]) = Shown
<1>1. PICK S : profiles \in Seq(S) /\ \A p \in S : IsProfile(p)
  BY DEF LauncherInv, Listed
<1>2. selected \in DOMAIN profiles /\ profiles[selected] \in S
  BY <1>1 DEF LauncherInv
<1>3. IsProfile(profiles[selected])
  BY <1>1, <1>2
<1> DEFINE q == [id |-> profiles[selected].id, text |-> text, env |-> extend_env(shown)]
<1>4. update = [profiles EXCEPT ![selected] = q]
  <2>1. profiles[selected] = [id |-> profiles[selected].id, text |-> profiles[selected].text,
                              env |-> profiles[selected].env]
    BY <1>3 DEF IsProfile
  <2> DEFINE p1 == [profiles[selected] EXCEPT !.text = text]
             p2 == [p1 EXCEPT !.env = extend_env(shown)]
  <2>2. p1 = [id |-> profiles[selected].id, text |-> text, env |-> profiles[selected].env]
    BY <2>1, TextField
  <2>3. p2 = q
    <3> HIDE DEF p1
    <3> QED
      BY <2>2, EnvField
  <2> QED
    BY <2>3, <1>1, <1>2, Zenon DEF update
<1>5. update[selected] = q
  BY <1>4, <1>2
<1>6. IsProfile(q)
  BY <1>3 DEF IsProfile
<1>7. profiles' \in Seq(S \cup {q}) /\ DOMAIN profiles' = DOMAIN profiles
  <2> HIDE DEF q
  <2> QED
    BY <1>4, <1>1, <1>2
<1>8. Listed'
  BY <1>7, <1>6, <1>1 DEF Listed, IsProfile
<1> QED
  BY <1>5, <1>7, <1>8, <1>3 DEF Content, Shown, IsProfile

LEMMA LauncherRuns ==
    ASSUME LauncherInv, (\E debug \in BOOLEAN : start_vmm(debug)) \/ wait_for_debugger
    PROVE  LauncherInv'
<1>1. CASE \E debug \in BOOLEAN : start_vmm(debug)
  <2>1. /\ launcher = "window" /\ job = <<>> /\ job' = <<>> /\ profiles' = update
        /\ launched' = <<update[index]>> /\ launcher' \in {"wait", "vmm"} /\ dialog' = "none"
        /\ UNCHANGED disk /\ UNCHANGED <<selected, index, text, shown>>
    BY <1>1 DEF start_vmm, Idle, popup
  <2>2. selected = index
    BY <2>1 DEF LauncherInv
  <2>3. /\ Listed' /\ launched'[1] = profiles'[index']
        /\ Content(update[selected]) = Shown
    BY <2>1, <2>2, Updates
  <2>4. (Content(launched[1]) = Shown)'
    <3>1. Shown' = Shown
      BY <2>1, ShownSame, Zenon
    <3>2. launched'[1] = update[selected]
      BY <2>1, <2>2
    <3>3. Content(launched[1])' = Content(update[selected])
      BY <3>2, Zenon DEF Content
    <3> QED
      BY <3>1, <3>3, <2>3
  <2> QED
    BY <2>1, <2>3, <2>4, LauncherEdits
<1>2. CASE wait_for_debugger
  <2>1. /\ launcher = "wait" /\ launcher' = "vmm" /\ job' = job /\ launched' = launched
        /\ UNCHANGED <<profiles, selected, index, text, shown, dialog>> /\ UNCHANGED disk
    BY <1>2 DEF wait_for_debugger, window, popup
  <2>2. job = <<>> /\ dialog = "none"
    BY <2>1, JobDialog, Zenon DEF LauncherInv
  <2>3. (Content(launched[1]) = Shown)' <=> Content(launched[1]) = Shown
    <3>1. Shown' = Shown
      BY <2>1, ShownSame, Zenon
    <3> QED
      BY <2>1, <3>1, Zenon DEF Content
  <2>4. Listed'
    BY <2>1, Zenon DEF LauncherInv, Listed, IsProfile
  <2> QED
    BY <2>1, <2>2, <2>3, <2>4, LauncherEdits DEF LauncherInv
<1> QED
  BY <1>1, <1>2

(* The save that runs, taken apart.                                        *)
LEMMA Picked ==
    ASSUME NEW what, NEW p, NEW s, JobOf(what, p, s)
    PROVE  /\ job # <<>> /\ Doing.what = what /\ Doing.p = p /\ Doing.step = s
           /\ Target = p.id /\ job[1].p.id = p.id /\ p.id \in Names
  BY DEF JobOf, Job, Doing, Target

LEMMA Chosen ==
    ASSUME LauncherInv, launcher = "window"
    PROVE  /\ selected = index /\ selected \in DOMAIN profiles /\ profiles[index].id \in Ids
           /\ launched = <<>>
<1>1. PICK S : profiles \in Seq(S) /\ \A p \in S : IsProfile(p)
  BY Zenon DEF LauncherInv, Listed
<1>2. selected \in DOMAIN profiles /\ selected = index /\ launched = <<>>
  BY DEF LauncherInv
<1>3. profiles[selected] \in S
  BY <1>1, <1>2
<1> QED
  BY <1>1, <1>2, <1>3, Zenon DEF IsProfile

(* A handler starts a save.                                                *)
LEMMA LauncherAsks ==
    ASSUME LauncherInv, job = <<>>, UNCHANGED disk, NEW what, NEW p, NEW s, JobOf(what, p, s)',
           launcher' = launcher, launched' = launched, launched = <<>>, dialog' = dialog, Listed',
           selected' = selected, index' = index, DOMAIN profiles' = DOMAIN profiles
    PROVE  LauncherInv'
<1>1. job'[1].p.id = p.id
  BY DEF JobOf, Job
<1> QED
  BY <1>1, Zenon DEF LauncherInv, disk

LEMMA NewProfile ==
    ASSUME NEW i \in Ids
    PROVE  new(i).id = i /\ IsProfile(new(i)) /\ i \in Names
  BY DEF new, IsProfile, Names

LEMMA LauncherAsked ==
    ASSUME LauncherInv,
           \/ save_settings \/ save_profile
           \/ \E i \in Ids : DefaultProfile(i) \/ create_profile(i)
    PROVE  LauncherInv'
<1>1. CASE save_settings
  <2> DEFINE p == [id |-> Settings, text |-> Bad, env |-> <<>>]
  <2>1. /\ dialog = "settings" /\ job = <<>> /\ job' = Job("settings", p, "create")
        /\ UNCHANGED <<launcher, launched, dialog, profiles, selected, index>> /\ UNCHANGED disk
    BY <1>1 DEF save_settings, window, popup
  <2>2. launcher = "window"
    BY <2>1 DEF LauncherInv
  <2>3. p.id \in Names
    BY Zenon DEF Names
  <2>4. JobOf("settings", p, "create")'
    <3> HIDE DEF p
    <3> QED
      BY <2>1, <2>2, <2>3 DEF JobOf, Job
  <2>5. Listed'
    BY <2>1 DEF LauncherInv, Listed, IsProfile
  <2> HIDE DEF p
  <2> QED
    BY <2>1, <2>2, <2>4, <2>5, Chosen, LauncherAsks
<1>2. CASE save_profile
  <2>0. PICK p : p = update[selected]
    OBVIOUS
  <2>1. /\ launcher = "window" /\ dialog = "none" /\ job = <<>> /\ profiles' = update
        /\ job' = Job("save", p, "create") /\ UNCHANGED disk
        /\ UNCHANGED <<launcher, launched, dialog, selected, index, text, shown>>
    BY <1>2, <2>0 DEF save_profile, Idle, popup
  <2>2. /\ Listed' /\ DOMAIN profiles' = DOMAIN profiles /\ p.id \in Names /\ Content(p) = Shown
    BY <2>0, <2>1, Updates, Zenon DEF Names
  <2>a. text' = text /\ shown' = shown
    BY <2>1, Zenon
  <2>3. Shown' = Shown
    BY <2>a, ShownSame, Zenon
  <2>4. p = profiles'[selected']
    BY <2>0, <2>1
  <2>5. JobOf("save", p, "create")'
    BY <2>1, <2>2, <2>3, <2>4, Zenon DEF JobOf, Job, Content
  <2>6. /\ launcher' = launcher /\ launched' = launched /\ launched = <<>> /\ dialog' = dialog
        /\ selected' = selected /\ index' = index /\ job = <<>> /\ UNCHANGED disk
    BY <2>1, Chosen
  <2>7. Listed' /\ DOMAIN profiles' = DOMAIN profiles
    BY <2>2, Zenon
  <2> QED
    BY <2>5, <2>6, <2>7, LauncherAsks
<1>3. ASSUME NEW i \in Ids, DefaultProfile(i) PROVE LauncherInv'
  <2> DEFINE p == new(i)
  <2>1. /\ launcher = "start" /\ job = <<>> /\ job' = Job("default", p, "dir") /\ UNCHANGED disk
        /\ UNCHANGED <<launcher, launched, dialog, profiles, selected, index>>
    BY <1>3 DEF DefaultProfile, window, popup
  <2>2. p.id = i /\ IsProfile(p) /\ i \in Names
    BY NewProfile, Zenon
  <2>3. i \notin cut => stored[i] = kept[i]
    BY <2>1, <2>2 DEF LauncherInv
  <2> HIDE DEF p
  <2>4. JobOf("default", p, "dir")'
    BY <2>1, <2>2, <2>3 DEF JobOf, Job, disk, IsProfile
  <2>5. Listed' /\ launched = <<>>
    BY <2>1 DEF LauncherInv, Listed, IsProfile
  <2> QED
    BY <2>1, <2>4, <2>5, LauncherAsks
<1>4. ASSUME NEW i \in Ids, create_profile(i) PROVE LauncherInv'
  <2> DEFINE p == new(i)
  <2>1. /\ dialog = "profile" /\ job = <<>> /\ job' = Job("create", p, "dir") /\ UNCHANGED disk
        /\ UNCHANGED <<launcher, launched, dialog, profiles, selected, index>>
    BY <1>4, Zenon DEF create_profile, window, popup
  <2>2. p.id = i /\ IsProfile(p) /\ i \in Names
    BY NewProfile
  <2>3. i \notin cut => stored[i] = kept[i]
    BY <2>1, <2>2, Zenon DEF LauncherInv
  <2>4. launcher = "window"
    BY <2>1 DEF LauncherInv
  <2> HIDE DEF p
  <2>5. JobOf("create", p, "dir")'
    BY <2>1, <2>2, <2>3, <2>4, Zenon DEF JobOf, Job, disk, IsProfile
  <2>6. Listed' /\ launched = <<>>
    BY <2>1, <2>4, Chosen, Zenon DEF LauncherInv, Listed, IsProfile
  <2> QED
    BY <2>1, <2>5, <2>6, LauncherAsks
<1> QED
  BY <1>1, <1>2, <1>3, <1>4

LEMMA LauncherMakes ==
    ASSUME LauncherInv, MakeDir \/ CreateFile
    PROVE  LauncherInv'
<1>0. job # <<>>
  BY Zenon DEF MakeDir, CreateFile, Running
<1>1. PICK what, p, s : JobOf(what, p, s)
  BY <1>0 DEF LauncherInv
<1>2. /\ Doing.what = what /\ Doing.p = p /\ Doing.step = s /\ Target = p.id
      /\ job[1].p.id = p.id /\ p.id \in Names
  BY <1>1, Picked
<1>3. PICK t : t \in {"create", "write"} /\ job' = Job(what, p, t)
  BY <1>2 DEF MakeDir, CreateFile
<1>4. /\ DOMAIN stored' = DOMAIN stored /\ \A f \in Names \ {p.id} : stored'[f] = stored[f]
      /\ UNCHANGED <<kept, cut, launcher, launched, dialog, profiles, selected, index, text, shown>>
  BY <1>2 DEF MakeDir, CreateFile, window, popup, LauncherInv
<1>5. job'[1].p.id = p.id
  BY <1>3 DEF Job
<1>6. Shown' = Shown
  BY <1>4, ShownSame, Zenon
<1>7. JobOf(what, p, t)'
  BY <1>1, <1>3, <1>4, <1>6, Zenon DEF JobOf, Job, IsProfile, Content
<1>8. Listed'
  BY <1>4 DEF LauncherInv, Listed, IsProfile
<1>9. launched = <<>>
  BY <1>0, JobDialog, Zenon
<1>10. /\ DOMAIN stored' = Names /\ DOMAIN kept' = Names
       /\ \A f \in Names : f \notin cut' /\ job'[1].p.id # f => stored'[f] = kept'[f]
  BY <1>2, <1>4, <1>5 DEF LauncherInv
<1>11. job' # <<>>
  BY <1>3, Zenon DEF Job
<1>12. /\ launcher' \in {"off", "start"} => selected' = 0
       /\ launcher' = "window" => selected' = index' /\ selected' \in DOMAIN profiles'
       /\ dialog' # "none" => launcher' = "window"
  BY <1>4 DEF LauncherInv
<1> QED
  BY <1>4, <1>7, <1>8, <1>9, <1>10, <1>11, <1>12 DEF LauncherInv

(* A save ends before the file is written.                                 *)
LEMMA CutShort ==
    ASSUME LauncherInv, Cut, stored' = stored
    PROVE  /\ DOMAIN stored' = Names /\ DOMAIN kept' = Names
           /\ \A f \in Names : f \notin cut' => stored'[f] = kept'[f]
<1>1. CASE job = <<>>
  BY <1>1 DEF Cut, Running, LauncherInv
<1>2. CASE job # <<>>
  <2>1. PICK what, p, s : JobOf(what, p, s)
    BY <1>2 DEF LauncherInv
  <2>2. /\ Doing.step = s /\ Target = p.id /\ job[1].p.id = p.id /\ p.id \in Names
    BY <2>1, Picked, Zenon
  <2>3. CASE s = "dir"
    <3>1. p.id \notin cut => stored[p.id] = kept[p.id]
      BY <2>1, <2>3 DEF JobOf
    <3>2. cut' = cut /\ kept' = kept
      BY <2>2, <2>3, Zenon DEF Cut
    <3> QED
      BY <2>2, <3>1, <3>2, Zenon DEF LauncherInv
  <2>4. CASE s # "dir"
    <3>1. /\ cut' = cut \cup {p.id} /\ DOMAIN kept' = DOMAIN kept
          /\ \A f \in Names \ {p.id} : kept'[f] = kept[f]
      BY <1>2, <2>2, <2>4 DEF Cut, Running, LauncherInv
    <3> QED
      BY <2>2, <3>1, Zenon DEF LauncherInv
  <2> QED
    BY <2>3, <2>4, Zenon
<1> QED
  BY <1>1, <1>2, Zenon

LEMMA LauncherEnds ==
    ASSUME LauncherInv, Stop \/ SaveError
    PROVE  LauncherInv'
<1>1. Cut /\ job' = <<>> /\ stored' = stored
  BY DEF Stop, SaveError
<1>2. /\ DOMAIN stored' = Names /\ DOMAIN kept' = Names
      /\ \A f \in Names : f \notin cut' => stored'[f] = kept'[f]
  BY <1>1, CutShort, Zenon
<1>3. CASE Ends
  <2>1. profiles' \in Seq({}) /\ \A p \in {} : IsProfile(p)
    BY <1>3 DEF Ends
  <2>2. Listed'
    BY <2>1 DEF Listed, IsProfile
  <2> QED
    BY <1>1, <1>2, <1>3, <2>2 DEF LauncherInv, Ends
<1>4. CASE UNCHANGED <<launcher, window, popup, launched>> /\ job # <<>>
  <2>1. UNCHANGED <<launcher, profiles, selected, index, text, shown, dialog, launched>>
    BY <1>4 DEF window, popup
  <2>2. Listed'
    BY <2>1 DEF LauncherInv, Listed, IsProfile
  <2>3. launched = <<>>
    BY <1>4, JobDialog, Zenon
  <2> QED
    BY <1>1, <1>2, <2>1, <2>2, <2>3 DEF LauncherInv
<1> QED
  BY <1>3, <1>4 DEF Stop, SaveError, Running

LEMMA LauncherWrites ==
    ASSUME LauncherInv, Write
    PROVE  LauncherInv'
<1>0. job # <<>>
  BY DEF Write, Running
<1>1. PICK what, p, s : JobOf(what, p, s)
  BY <1>0 DEF LauncherInv
<1>2. /\ Doing.what = what /\ Doing.p = p /\ Doing.step = s /\ Target = p.id
      /\ job[1].p.id = p.id /\ p.id \in Names
  BY <1>1, Picked, Zenon
<1>3. /\ stored' = [stored EXCEPT ![p.id] = Content(p)] /\ cut' = cut \ {p.id}
      /\ job' = <<>> /\ dialog' = "none" /\ launcher' = launcher /\ launched' = launched
      /\ kept' = IF what = "save" THEN [kept EXCEPT ![profiles[index].id] = Shown]
                                  ELSE [kept EXCEPT ![p.id] = Content(p)]
  BY <1>2, Zenon DEF Write
<1>4. kept' = [kept EXCEPT ![p.id] = Content(p)]
  <2>1. CASE what = "save"
    <3>1. launcher = "window" /\ p = profiles[selected] /\ Content(p) = Shown
      BY <1>1, <2>1, Zenon DEF JobOf
    <3> QED
      BY <1>3, <2>1, <3>1, Chosen, Zenon
  <2> QED
    BY <1>3, <2>1
<1>5. /\ DOMAIN stored' = Names /\ DOMAIN kept' = Names
      /\ \A f \in Names : f \notin cut' => stored'[f] = kept'[f]
  BY <1>2, <1>3, <1>4 DEF LauncherInv
<1>6. launched = <<>>
  BY <1>0, JobDialog, Zenon
<1>7. PICK S : profiles \in Seq(S) /\ \A q \in S : IsProfile(q)
  BY DEF LauncherInv, Listed
<1>8. /\ Listed'
      /\ launcher' \in {"off", "start"} => selected' = 0
      /\ launcher' = "window" => selected' = index' /\ selected' \in DOMAIN profiles'
  <2>1. CASE what = "create"
    <3>1. /\ profiles' = Append(profiles, p) /\ index' = Len(profiles) + 1
          /\ selected' = Len(profiles) + 1
      BY <1>2, <2>1 DEF Write, Finished, Push, select
    <3>2. IsProfile(p) /\ launcher = "window"
      BY <1>1, <2>1 DEF JobOf
    <3>3. profiles' \in Seq(S \cup {p}) /\ Len(profiles) + 1 \in DOMAIN profiles'
      BY <1>7, <3>1
    <3> QED
      BY <1>3, <1>7, <3>1, <3>2, <3>3, Zenon DEF Listed, IsProfile
  <2>2. CASE what = "default"
    <3>1. profiles' = <<p>> /\ selected' = selected
      BY <1>2, <2>2, Zenon DEF Write, Finished
    <3>2. IsProfile(p) /\ launcher = "start"
      BY <1>1, <2>2 DEF JobOf
    <3>3. profiles' \in Seq({p})
      BY <3>1
    <3>4. Listed'
      BY <3>2, <3>3 DEF Listed, IsProfile
    <3>5. selected = 0
      BY <3>2, Zenon DEF LauncherInv
    <3> QED
      BY <1>3, <3>1, <3>2, <3>4, <3>5
  <2>3. CASE what # "create" /\ what # "default"
    <3>1. UNCHANGED <<profiles, selected, index>>
      BY <1>2, <2>3 DEF Write, Finished, window
    <3> QED
      BY <1>3, <1>7, <3>1 DEF Listed, IsProfile, LauncherInv
  <2> QED
    BY <2>1, <2>2, <2>3, Zenon
<1> QED
  BY <1>3, <1>5, <1>6, <1>8 DEF LauncherInv

LEMMA LauncherStep == LauncherInv /\ [LauncherNext]_launcherVars => LauncherInv'
<1> SUFFICES ASSUME LauncherInv, [LauncherNext]_launcherVars PROVE LauncherInv'
  BY Zenon
<1>1. CASE UNCHANGED launcherVars
  <2>1. UNCHANGED <<launcher, profiles, selected, index, text, shown, dialog, job, launched,
                    stored, kept, cut>>
    BY <1>1 DEF launcherVars, window, popup, disk
  <2>a. text' = text /\ shown' = shown
    BY <2>1, Zenon
  <2>2. Shown' = Shown
    BY <2>a, ShownSame, Zenon
  <2>3. Listed'
    <3>1. profiles' = profiles
      BY <2>1, Zenon
    <3>2. Listed
      BY Zenon DEF LauncherInv
    <3> QED
      BY <3>1, <3>2 DEF Listed, IsProfile
  <2>4. ASSUME NEW what, NEW p, NEW s, JobOf(what, p, s) PROVE JobOf(what, p, s)'
    BY <2>1, <2>2, <2>4, Zenon DEF JobOf, IsProfile, Job, Content
  <2> QED
    BY <2>1, <2>2, <2>3, <2>4, Zenon DEF LauncherInv, Content
<1>2. CASE LauncherNext
  BY <1>2, LauncherStarts, LauncherOpens, LauncherWindow, LauncherRuns, LauncherAsked,
     LauncherMakes, LauncherWrites, LauncherEnds DEF LauncherNext, Save
<1> QED
  BY <1>1, <1>2

(* What Save reported as saved is what the next start loads, after any     *)
(* sequence of edits, errors and restarts (Profile::save, Profile::load).  *)
THEOREM LauncherDurable == LauncherSpec => []Durable
<1>1. LauncherInv => Durable
  BY Zenon DEF LauncherInv, Durable, Names, Running, Target, Doing
<1> QED
  BY InitLauncher, LauncherStep, <1>1, PTL DEF LauncherSpec

(* The machine starts with the profile that the window names and with the  *)
(* fields that it shows (start_vmm, run_launcher).                         *)
THEOREM LauncherShows == LauncherSpec => []LaunchIsShown
<1>1. LauncherInv => LaunchIsShown
  BY DEF LauncherInv, LaunchIsShown
<1> QED
  BY InitLauncher, LauncherStep, <1>1, PTL DEF LauncherSpec

-----------------------------------------------------------------------------
(* The setup wizard.                                                       *)

(* The partitions that the running installation has finished.              *)
Done(p) == \E i \in 1 .. (part - 1) : Dump[i] = p

Whole(r) == \A p \in Parts : meta[r][p] = "committed" /\ files[r][p] = Steps

SetupTypes ==
    /\ run \in {"off", "wizard", "launcher"}
    /\ page \in {"Intro", "DataRoot", "Firmware", "Conclusion"}
    /\ field \in Roots \cup {NoRoot} /\ saved \in Roots \cup {NoRoot}
    /\ part \in 0 .. (Len(Dump) + 1) /\ item \in 0 .. (Steps + 1)
    /\ meta \in [Dirs -> [Parts -> {"none", "created", "committed"}]]
    /\ files \in [Dirs -> [Parts -> Nat]]

(* Where the wizard is, and the locations it works with.                   *)
Placed ==
    /\ part > 0 => run = "wizard" /\ page = "Firmware"
    /\ run = "wizard" /\ page \in {"Firmware", "Conclusion"} => saved = field /\ field \in Dirs
    /\ run = "wizard" /\ page = "Conclusion" => HasFirmware(field)
    /\ run = "launcher" =>
          /\ opened = ReadDataRoot /\ opened \in Dirs
          /\ Trim[field] = field => HasFirmware(opened)

(* Nothing is extracted for a partition without a metadata file.           *)
Clean == \A r \in Dirs : \A p \in Parts : meta[r][p] = "none" => files[r][p] = 0

(* A location that a start takes for installed is, or was cut short.       *)
Settled == \A r \in Dirs : HasFirmware(r) => Whole(r) \/ r \in broken \/ (part > 0 /\ r = field)

(* What the running installation has written, whatever was there before.   *)
Writing ==
    /\ \A p \in Parts : Done(p) => meta[field][p] = "committed" /\ files[field][p] = Steps
    /\ item > 0 =>
          /\ part \in 1 .. Len(Dump) /\ meta[field][Dump[part]] = "created"
          /\ files[field][Dump[part]] = item - 1

SetupInv == SetupTypes /\ Placed /\ Clean /\ Settled /\ (part > 0 => Writing)

(* What an assignment to an element of an array of arrays leaves alone.    *)
LEMMA Assigned ==
    ASSUME NEW R, NEW P, NEW V, NEW f \in [R -> [P -> V]], NEW r \in R, NEW p \in P, NEW v \in V,
           NEW g, g = [f EXCEPT ![r][p] = v]
    PROVE  /\ g \in [R -> [P -> V]] /\ g[r][p] = v
           /\ \A q \in P \ {p} : g[r][q] = f[r][q]
           /\ \A s \in R \ {r} : g[s] = f[s]
  BY Zenon

LEMMA SetupFacts ==
    /\ Dump \in Seq(Parts) /\ Main \in Parts /\ NoRoot \notin Roots
    /\ Dirs \subseteq Roots /\ \A t \in Roots : Trim[t] \in Roots
    /\ Steps \in Nat /\ Steps > 0 /\ Len(Dump) \in Nat
    /\ \A i \in 1 .. Len(Dump) : Dump[i] \in Parts
    /\ \A p \in Parts : \E i \in 1 .. Len(Dump) : Dump[i] = p
<1>1. /\ Dump \in Seq(Parts) /\ Main \in Parts /\ NoRoot \notin Roots /\ Items \in Nat \ {0}
      /\ Dirs \subseteq Roots /\ Trim \in [Roots -> Roots]
  BY SetupAssumption
<1>2. DOMAIN Dump = 1 .. Len(Dump) /\ Len(Dump) \in Nat
  BY <1>1
<1>3. Parts = {Dump[i] : i \in 1 .. Len(Dump)}
  BY <1>2 DEF Parts
<1>4. Steps \in Nat /\ Steps > 0
  BY <1>1 DEF Steps
<1> QED
  BY <1>1, <1>2, <1>3, <1>4

LEMMA InitSetup == SetupInit => SetupInv
<1> SUFFICES ASSUME SetupInit PROVE SetupInv
  OBVIOUS
<1>1. SetupTypes
  BY SetupFacts DEF SetupInit, SetupTypes
<1>2. Clean /\ Settled
  BY SetupFacts DEF SetupInit, Clean, Settled, HasFirmware
<1> QED
  BY <1>1, <1>2 DEF SetupInit, SetupInv, Placed

(* The steps that write nothing but the configuration file.                *)
LEMMA SetupQuiet ==
    ASSUME SetupInv,
           StartSetup \/ Browse \/ SetDataRoot \/ SetDataRootFails \/ NextPage \/ Back \/ Cancel
           \/ Finish \/ UNCHANGED setupVars
    PROVE  SetupInv'
<1> USE DEF SetupInv
<1>a. part' = part /\ item' = item /\ meta' = meta /\ files' = files /\ broken' = broken
  BY Zenon DEF StartSetup, Browse, SetDataRoot, SetDataRootFails, NextPage, Back, Cancel, Finish,
         setupDisk, form, setupVars
<1>b. \A r : (HasFirmware(r)' <=> HasFirmware(r)) /\ (Whole(r)' <=> Whole(r))
  BY <1>a, Zenon DEF HasFirmware, Whole
<1>c. part > 0 => UNCHANGED setupVars
  <2>1. part > 0 => part # 0 /\ run # "off"
    BY DEF Placed
  <2> QED
    BY <2>1, Zenon DEF StartSetup, Browse, SetDataRoot, SetDataRootFails, NextPage, Back, Cancel,
       Finish, Waiting
<1>d. ReadDataRoot \in Roots \cup {NoRoot}
  BY SetupFacts, Zenon DEF ReadDataRoot, SetupTypes
<1>1. SetupTypes'
  <2>1. field' \in Roots \cup {NoRoot} /\ saved' \in Roots \cup {NoRoot}
    BY <1>d, SetupFacts, Zenon DEF SetupTypes, StartSetup, Browse, SetDataRoot, SetDataRootFails,
       NextPage, Back, Cancel, Finish, setupDisk, form, setupVars
  <2>2. /\ run' \in {"off", "wizard", "launcher"}
        /\ page' \in {"Intro", "DataRoot", "Firmware", "Conclusion"}
    BY DEF SetupTypes, StartSetup, Browse, SetDataRoot, SetDataRootFails, NextPage, Back, Cancel,
       Finish, setupDisk, form, setupVars
  <2> QED
    BY <1>a, <2>1, <2>2 DEF SetupTypes
<1>2. Placed'
  <2>1. CASE StartSetup
    <3>1. /\ saved' = saved /\ page' = "Intro" /\ part' = part /\ ~(part > 0)
          /\ run' = "launcher" => opened' = ReadDataRoot /\ HasFirmware(ReadDataRoot)
      BY <2>1, Zenon DEF StartSetup, setupDisk, Placed
    <3>2. ReadDataRoot' = ReadDataRoot
      BY <3>1, Zenon DEF ReadDataRoot
    <3>3. run' = "launcher" => opened' \in Dirs /\ HasFirmware(opened)'
      BY <3>1, <1>a, Zenon DEF HasFirmware
    <3> QED
      BY <3>1, <3>2, <3>3 DEF Placed
  <2>2. CASE Browse \/ SetDataRootFails
    BY <2>2 DEF Placed, Browse, SetDataRootFails, Waiting, setupDisk
  <2>3. CASE SetDataRoot
    <3>1. /\ run = "wizard" /\ run' = run /\ part' = 0 /\ saved' = field
          /\ field' = field /\ field \in Dirs
          /\ page' = IF HasFirmware(field) THEN "Conclusion" ELSE "Firmware"
      BY <2>3, <1>a, Zenon DEF SetDataRoot, Waiting
    <3> QED
      BY <3>1, <1>b DEF Placed
  <2>4. CASE NextPage \/ Back
    BY <2>4 DEF SetupTypes, Placed, NextPage, Back, Waiting, setupDisk, form
  <2>5. CASE Cancel
    BY <2>5 DEF Placed, Cancel, Waiting, form
  <2>6. CASE Finish
    <3>1. /\ run = "wizard" /\ page = "Conclusion" /\ field' = field /\ saved' = saved
          /\ part' = 0
          /\ run' = "off" \/ (run' = "launcher" /\ opened' = ReadDataRoot /\ ReadDataRoot \in Dirs)
      BY <2>6, <1>a, Zenon DEF Finish, Waiting, form, setupDisk
    <3>2. saved = field /\ field \in Dirs /\ HasFirmware(field)
      BY <3>1 DEF Placed
    <3>3. ReadDataRoot = Trim[field] /\ ReadDataRoot' = ReadDataRoot
      BY <3>1, <3>2, SetupFacts DEF ReadDataRoot
    <3>4. Trim[field] = field => HasFirmware(ReadDataRoot)'
      BY <3>2, <3>3, <1>b, <1>a, Zenon DEF HasFirmware
    <3> QED
      BY <3>1, <3>2, <3>3, <3>4 DEF Placed, HasFirmware
  <2>7. CASE UNCHANGED setupVars
    BY <2>7, <1>b, Zenon DEF Placed, setupVars, ReadDataRoot, HasFirmware
  <2> QED
    BY <2>1, <2>2, <2>3, <2>4, <2>5, <2>6, <2>7, Zenon
<1>3. part' > 0 => Writing'
  BY <1>a, <1>c DEF Writing, Done, setupVars
<1>4. Clean'
  BY <1>a, Zenon DEF Clean
<1>5. Settled'
  BY <1>a, <1>b, <1>c DEF Settled, setupVars
<1> QED
  BY <1>1, <1>2, <1>3, <1>4, <1>5, Zenon

(* The end of an installation part way: an error, or the program's end.    *)
LEMMA SetupBreaks ==
    ASSUME SetupInv, (Extracting /\ GiveUp) \/ StopSetup
    PROVE  SetupInv'
<1> USE DEF SetupInv
<1>a. /\ part' = 0 /\ item' = 0 /\ meta' = meta /\ files' = files /\ page' = page /\ field' = field
      /\ saved' = saved /\ broken \subseteq broken' /\ run' \in {run, "off"}
      /\ part > 0 /\ HasFirmware(field) => field \in broken'
      /\ run' = "off" \/ (part > 0 /\ run' = run)
  BY Zenon DEF Extracting, GiveUp, StopSetup, Break
<1>b. \A r : (HasFirmware(r)' <=> HasFirmware(r)) /\ (Whole(r)' <=> Whole(r))
  BY <1>a, Zenon DEF HasFirmware, Whole
<1>1. SetupTypes'
  <2>1. part' \in 0 .. (Len(Dump) + 1) /\ item' \in 0 .. (Steps + 1)
    BY <1>a, SetupFacts
  <2> QED
    BY <2>1, <1>a DEF SetupTypes
<1>2. Placed'
  BY <1>a, <1>b DEF Placed
<1>3. Clean'
  BY <1>a, Zenon DEF Clean
<1>4. Settled'
  BY <1>a, <1>b, Zenon DEF Settled
<1> QED
  BY <1>a, <1>1, <1>2, <1>3, <1>4

(* The steps of an installation, wherever they lead.                       *)
LEMMA SetupWrites ==
    ASSUME SetupInv,
           Install \/ CreateMeta \/ ExtractItem \/ Commit \/ InstallEnds,
           ~(Extracting /\ GiveUp)
    PROVE  SetupInv'
<1> USE DEF SetupInv
<1>n. Len(Dump) \in Nat /\ Steps \in Nat /\ Steps > 0
  BY SetupFacts, Zenon
<1>m. ASSUME CreateMeta
      PROVE  /\ Extracting /\ part <= Len(Dump) /\ item = 0
             /\ meta[field][Dump[part]] = "none"
             /\ meta' = [meta EXCEPT ![field][Dump[part]] = "created"] /\ item' = 1
             /\ UNCHANGED <<run, page, field, part, saved, files, broken>>
  <2>1. ~GiveUp
    BY <1>m, Zenon DEF CreateMeta
  <2> QED
    BY <1>m, <2>1, Zenon DEF CreateMeta, MayCreate, Current
<1>x. ASSUME ExtractItem
      PROVE  /\ Extracting /\ part <= Len(Dump) /\ item \in 1 .. Steps
             /\ files' = [files EXCEPT ![field][Dump[part]] = item] /\ item' = item + 1
             /\ UNCHANGED <<run, page, field, part, saved, meta, broken>>
  <2>1. ~GiveUp
    BY <1>x DEF ExtractItem
  <2> QED
    BY <1>x, <2>1, Zenon DEF ExtractItem, Current, MoreItems
<1>a. /\ run = "wizard" /\ run' = run /\ page = "Firmware" /\ field' = field /\ saved' = saved
      /\ broken' = broken /\ field \in Dirs /\ saved = field
  BY SetupFacts, Zenon DEF Install, CreateMeta, ExtractItem, Commit, InstallEnds, Extracting, Waiting,
     Placed, SetupTypes, setupDisk
<1>b. /\ part' > 0 => page' = page
      /\ part' = 0 => page' = "Conclusion" /\ InstallEnds
      /\ part' \in 0 .. (Len(Dump) + 1) /\ item' \in 0 .. (Steps + 1)
  <2>1. CASE Install
    BY <2>1, SetupFacts DEF Install, SetupTypes, setupDisk
  <2>2. CASE CreateMeta
    BY <2>2, <1>m, <1>n DEF SetupTypes, Extracting
  <2>3. CASE ExtractItem
    BY <2>3, <1>x, <1>n DEF SetupTypes, Extracting
  <2>4. CASE Commit
    BY <2>4, <1>n DEF Commit, SetupTypes, Extracting
  <2>5. CASE InstallEnds
    BY <2>5, SetupFacts DEF InstallEnds, SetupTypes, Extracting
  <2> QED
    BY <2>1, <2>2, <2>3, <2>4, <2>5, Zenon
<1>p. part \in 1 .. Len(Dump) => Dump[part] \in Parts
  BY SetupFacts
<1>q. part > 0 /\ part <= Len(Dump) => part \in 1 .. Len(Dump)
  BY <1>n DEF SetupTypes
<1>c. /\ meta' \in [Dirs -> [Parts -> {"none", "created", "committed"}]]
      /\ files' \in [Dirs -> [Parts -> Nat]]
      /\ \A r \in Dirs \ {field} : meta'[r] = meta[r] /\ files'[r] = files[r]
      /\ CreateMeta \/ Commit =>
            /\ meta'[field][Dump[part]] = IF Commit THEN "committed" ELSE "created"
            /\ \A p \in Parts \ {Dump[part]} : meta'[field][p] = meta[field][p]
      /\ ExtractItem =>
            /\ files'[field][Dump[part]] = item
            /\ \A p \in Parts \ {Dump[part]} : files'[field][p] = files[field][p]
  <2> DEFINE States == {"none", "created", "committed"}
  <2>1. CASE Install \/ InstallEnds
    <3>1. meta' = meta /\ files' = files
      BY <2>1, Zenon DEF Install, InstallEnds, setupDisk
    <3>2. ~CreateMeta /\ ~Commit /\ ~ExtractItem
      <4>1. part = 0 \/ part > Len(Dump)
        BY <2>1, Zenon DEF Install, InstallEnds, Waiting, LastPart
      <4>2. ~(part > 0 /\ part <= Len(Dump))
        BY <4>1, <1>n DEF SetupTypes
      <4> QED
        BY <4>2, <1>m, <1>x, Zenon DEF Extracting, Commit
    <3> QED
      BY <3>1, <3>2, Zenon DEF SetupTypes
  <2>2. CASE CreateMeta
    <3>1. /\ meta' = [meta EXCEPT ![field][Dump[part]] = "created"] /\ files' = files
          /\ Dump[part] \in Parts /\ meta \in [Dirs -> [Parts -> States]] /\ "created" \in States
          /\ item = 0
      BY <2>2, <1>m, <1>p, <1>q, Zenon DEF SetupTypes, Extracting
    <3>2. ~Commit /\ ~ExtractItem
      BY <3>1, <1>n, <1>x DEF Commit
    <3> HIDE DEF States
    <3>3. /\ meta' \in [Dirs -> [Parts -> States]] /\ meta'[field][Dump[part]] = "created"
          /\ \A p \in Parts \ {Dump[part]} : meta'[field][p] = meta[field][p]
          /\ \A r \in Dirs \ {field} : meta'[r] = meta[r]
      BY <3>1, <1>a, Assigned
    <3> QED
      BY <3>1, <3>2, <3>3, Zenon DEF States, SetupTypes
  <2>3. CASE ExtractItem
    <3>1. /\ files' = [files EXCEPT ![field][Dump[part]] = item] /\ meta' = meta
          /\ Dump[part] \in Parts /\ files \in [Dirs -> [Parts -> Nat]] /\ item \in Nat
          /\ item \in 1 .. Steps
      BY <2>3, <1>x, <1>p, <1>q, <1>n DEF SetupTypes, Extracting
    <3>2. ~Commit /\ ~CreateMeta
      BY <3>1, <1>n, <1>m DEF Commit
    <3>3. /\ files' \in [Dirs -> [Parts -> Nat]] /\ files'[field][Dump[part]] = item
          /\ \A p \in Parts \ {Dump[part]} : files'[field][p] = files[field][p]
          /\ \A r \in Dirs \ {field} : files'[r] = files[r]
      BY <3>1, <1>a, Assigned
    <3> QED
      BY <3>1, <3>2, <3>3, Zenon DEF SetupTypes
  <2>4. CASE Commit
    <3>1. /\ meta' = [meta EXCEPT ![field][Dump[part]] = "committed"] /\ files' = files
          /\ Dump[part] \in Parts /\ meta \in [Dirs -> [Parts -> States]] /\ "committed" \in States
          /\ item = Steps + 1
      BY <2>4, <1>p, <1>q, Zenon DEF SetupTypes, Commit, Current, Extracting
    <3>2. ~CreateMeta /\ ~ExtractItem
      BY <3>1, <1>n, <1>m, <1>x
    <3> HIDE DEF States
    <3>3. /\ meta' \in [Dirs -> [Parts -> States]] /\ meta'[field][Dump[part]] = "committed"
          /\ \A p \in Parts \ {Dump[part]} : meta'[field][p] = meta[field][p]
          /\ \A r \in Dirs \ {field} : meta'[r] = meta[r]
      BY <3>1, <1>a, Assigned
    <3> QED
      BY <3>1, <3>2, <3>3, <2>4, Zenon DEF States, SetupTypes
  <2> QED
    BY <2>1, <2>2, <2>3, <2>4, Zenon
<1>1. SetupTypes'
  BY <1>a, <1>b, <1>c, SMTT(30) DEF SetupTypes
<1>3. ASSUME part' > 0 PROVE Writing'
  <2>1. CASE Install
    <3>1. part' = 1 /\ item' = 0
      BY <2>1 DEF Install
    <3>2. ~(item' > 0) /\ \A p : ~Done(p)'
      BY <3>1 DEF Done
    <3> QED
      BY <3>2, Zenon DEF Writing
  <2>2. CASE CreateMeta
    <3>1. /\ part' = part /\ item = 0 /\ item' = 1 /\ files' = files /\ part \in 1 .. Len(Dump)
          /\ meta[field][Dump[part]] = "none" /\ meta'[field][Dump[part]] = "created"
          /\ \A p \in Parts \ {Dump[part]} : meta'[field][p] = meta[field][p]
      <4>1. ~Commit
        BY <2>2, <1>m, <1>n DEF Commit
      <4> QED
        BY <2>2, <4>1, <1>m, <1>q, <1>c, Zenon DEF Extracting
    <3>2. Writing
      BY <3>1
    <3>3. ~Done(Dump[part]) /\ files[field][Dump[part]] = 0
      <4>1. Dump[part] \in Parts /\ meta[field][Dump[part]] # "committed"
        BY <3>1, <1>p
      <4> QED
        BY <4>1, <3>1, <3>2, <1>a, Zenon DEF Writing, Clean
    <3>4. \A p : Done(p)' <=> Done(p)
      BY <3>1, Zenon DEF Done
    <3>5. \A p \in Parts : Done(p)' => meta'[field][p] = "committed" /\ files'[field][p] = Steps
      BY <3>1, <3>2, <3>3, <3>4, Zenon DEF Writing
    <3>6. item' - 1 = 0
      BY <3>1
    <3> QED
      BY <3>1, <3>3, <3>5, <3>6, <1>a, Zenon DEF Writing
  <2>3. CASE ExtractItem
    <3>1. /\ part' = part /\ item \in 1 .. Steps /\ item' = item + 1 /\ meta' = meta
          /\ part \in 1 .. Len(Dump) /\ files'[field][Dump[part]] = item
          /\ \A p \in Parts \ {Dump[part]} : files'[field][p] = files[field][p]
      BY <2>3, <1>x, <1>q, <1>c, Zenon DEF Extracting
    <3>2. \A p : Done(p)' <=> Done(p)
      BY <3>1, Zenon DEF Done
    <3>3. Writing
      BY <3>1
    <3>4. item' > 0 /\ item > 0 /\ item' - 1 = item
      BY <3>1, <1>n
    <3>5. meta[field][Dump[part]] = "created"
      BY <3>3, <3>4, Zenon DEF Writing
    <3>6. ~Done(Dump[part])
      <4>1. Dump[part] \in Parts /\ meta[field][Dump[part]] # "committed"
        BY <3>1, <3>5, <1>p
      <4> QED
        BY <4>1, <3>3, Zenon DEF Writing
    <3> QED
      BY <1>a, <3>1, <3>2, <3>3, <3>4, <3>5, <3>6, Zenon DEF Writing
  <2>4. CASE Commit
    <3>1. /\ part' = part + 1 /\ item = Steps + 1 /\ item' = 0 /\ files' = files
          /\ part \in 1 .. Len(Dump) /\ meta'[field][Dump[part]] = "committed"
          /\ \A p \in Parts \ {Dump[part]} : meta'[field][p] = meta[field][p]
      BY <2>4, <1>q, <1>c, Zenon DEF Extracting, Commit
    <3>2. \A p : Done(p)' <=> Done(p) \/ p = Dump[part]
      <4>1. 1 .. (part' - 1) = (1 .. (part - 1)) \cup {part}
        BY <3>1, <1>n
      <4> QED
        BY <4>1, Zenon DEF Done
    <3>3. Writing
      BY <3>1
    <3>4. files[field][Dump[part]] = Steps
      <4>1. item > 0 /\ item - 1 = Steps
        BY <3>1, <1>n
      <4> QED
        BY <3>3, <4>1, Zenon DEF Writing
    <3>5. ~(item' > 0)
      BY <3>1
    <3> QED
      BY <1>a, <3>1, <3>2, <3>3, <3>4, <3>5, Zenon DEF Writing
  <2>5. CASE InstallEnds
    BY <2>5, <1>3 DEF InstallEnds
  <2> QED
    BY <2>1, <2>2, <2>3, <2>4, <2>5, Zenon
<1>4. ASSUME part' = 0 PROVE Whole(field)'
  <2>1. part > Len(Dump) /\ meta' = meta /\ files' = files /\ part \in 1 .. (Len(Dump) + 1)
    BY <1>4, <1>b, SetupFacts, SMTT(30) DEF InstallEnds, Extracting, LastPart, setupDisk, SetupTypes
  <2>2. Writing /\ part - 1 = Len(Dump)
    BY <2>1, <1>n
  <2>3. \A p \in Parts : Done(p)
    BY <2>2, SetupFacts, Zenon DEF Done
  <2> QED
    BY <1>a, <2>1, <2>2, <2>3, Zenon DEF Writing, Whole
<1>5. Placed'
  <2>1. part' = 0 => HasFirmware(field)'
    <3>1. ASSUME part' = 0 PROVE meta'[field][Main] = "committed"
      BY <3>1, <1>4, SetupFacts, <1>a, Zenon DEF Whole
    <3> QED
      BY <3>1, <1>a DEF HasFirmware
  <2>2. part' \in Nat
    BY <1>b, <1>n
  <2> QED
    BY <1>a, <1>b, <2>1, <2>2 DEF Placed
<1>6. Clean'
  <2>1. ASSUME NEW r \in Dirs \ {field} PROVE meta'[r] = meta[r] /\ files'[r] = files[r]
    BY <1>c, Zenon
  <2>2. ASSUME NEW p \in Parts, meta'[field][p] = "none" PROVE files'[field][p] = 0
    <3>1. CASE Install \/ InstallEnds
      BY <3>1, <2>2, <1>a, Zenon DEF Install, InstallEnds, setupDisk, Clean
    <3>2. CASE CreateMeta \/ Commit
      <4>1. p # Dump[part]
        BY <3>2, <2>2, <1>c
      <4>2. files' = files
        BY <3>2, <1>m, Zenon DEF Commit
      <4> QED
        BY <3>2, <4>1, <4>2, <2>2, <1>a, <1>c, Zenon DEF Clean
    <3>3. CASE ExtractItem
      <4>1. meta' = meta /\ item > 0 /\ part > 0
        BY <3>3, <1>x, <1>n DEF Extracting
      <4>2. meta[field][Dump[part]] = "created"
        BY <4>1, Zenon DEF Writing
      <4>3. p # Dump[part]
        BY <4>1, <4>2, <2>2
      <4> QED
        BY <3>3, <4>1, <4>3, <2>2, <1>a, <1>c, Zenon DEF Clean
    <3> QED
      BY <3>1, <3>2, <3>3, Zenon
  <2> QED
    BY <2>1, <2>2, <1>a, Zenon DEF Clean
<1>7. Settled'
  <2>1. ASSUME NEW r \in Dirs \ {field}
        PROVE  (HasFirmware(r)' <=> HasFirmware(r)) /\ (Whole(r)' <=> Whole(r))
    <3>1. meta'[r] = meta[r] /\ files'[r] = files[r]
      BY <2>1, <1>c, Zenon
    <3> QED
      BY <3>1, Zenon DEF HasFirmware, Whole
  <2>2. part' > 0 \/ Whole(field)'
    BY <1>b, <1>n, <1>4
  <2> QED
    BY <2>1, <2>2, <1>a, Zenon DEF Settled
<1> QED
  BY <1>1, <1>3, <1>5, <1>6, <1>7, Zenon

LEMMA SetupStep == SetupInv /\ [SetupNext]_setupVars => SetupInv'
<1> SUFFICES ASSUME SetupInv, [SetupNext]_setupVars PROVE SetupInv'
  OBVIOUS
<1>1. CASE Extracting /\ GiveUp
  BY <1>1, SetupBreaks
<1> QED
  BY <1>1, SetupQuiet, SetupBreaks, SetupWrites DEF SetupNext, IoError

LEMMA SetupInvariant == SetupSpec => []SetupInv
  BY InitSetup, SetupStep, PTL DEF SetupSpec

(* What run_setup opens, and later starts open, is the location to which   *)
(* install_firmware extracts without the white space around its name, and  *)
(* so the same location when there is none.                                *)
THEOREM SetupRootAgrees == SetupSpec => []RootAgrees
<1>1. SetupInv => RootAgrees
  BY SetupFacts, Zenon DEF SetupInv, Placed, RootAgrees, Waiting, ReadDataRoot
<1> QED
  BY SetupInvariant, <1>1, PTL

(* install_firmware reports success only when each partition is whole,     *)
(* whatever earlier errors and kills have left where it extracts.          *)
THEOREM SetupInstalls == SetupSpec => InstallIsWhole
<1>1. SetupInv /\ [SetupNext]_setupVars =>
          [page = "Firmware" /\ page' = "Conclusion" => Installed(field)]_setupVars
  <2> SUFFICES ASSUME SetupInv, SetupNext, page = "Firmware", page' = "Conclusion"
               PROVE  Installed(field)
    BY Zenon
  <2>1. InstallEnds
    BY DEF SetupNext, StartSetup, Browse, SetDataRoot, SetDataRootFails, NextPage, Back, Cancel,
       Finish, Install, IoError, CreateMeta, ExtractItem, Commit, StopSetup, GiveUp, form
  <2>a. Len(Dump) \in Nat
    BY SetupFacts, Zenon
  <2>b. part > Len(Dump) /\ part \in 0 .. (Len(Dump) + 1)
    BY <2>1 DEF SetupInv, SetupTypes, InstallEnds, Extracting, LastPart
  <2>2. Writing /\ field \in Dirs
    BY <2>1 DEF SetupInv, Placed, InstallEnds, Extracting
  <2>3. part - 1 = Len(Dump)
    BY ONLY <2>a, <2>b
  <2>4. \A p \in Parts : Done(p)
    BY <2>3, SetupFacts, Zenon DEF Done
  <2> QED
    BY <2>2, <2>4, Zenon DEF Writing, Installed
<1> QED
  BY SetupInvariant, <1>1, PTL DEF SetupSpec, InstallIsWhole

(* The launcher only opens on a location that holds every partition in     *)
(* full, unless an installation to it was cut short after the file that a  *)
(* start looks for was made, or its name has white space around it         *)
(* (run_setup).                                                            *)
THEOREM SetupComplete == SetupSpec => []LaunchIsComplete
<1>1. SetupInv => LaunchIsComplete
  <2> SUFFICES ASSUME SetupInv, run = "launcher", opened \notin broken, Trim[field] = field
               PROVE  Installed(opened)
    BY DEF LaunchIsComplete
  <2>1. opened \in Dirs /\ HasFirmware(opened) /\ ~(part > 0)
    BY DEF SetupInv, Placed
  <2> QED
    BY <2>1, Zenon DEF SetupInv, Settled, Whole, Installed
<1> QED
  BY SetupInvariant, <1>1, PTL

-----------------------------------------------------------------------------
(* The debugging session.                                                  *)

NoAckMode == "QStartNoAckMode"
Plus == [t |-> "+"]
Dollar == [t |-> "$"]
Cmd(c) == [t |-> "$", cmd |-> c]
Sum(ok) == [t |-> "#", ok |-> ok]
Tokens == {Plus} \cup {Cmd(c) : c \in Commands} \cup {Sum(ok) : ok \in BOOLEAN}

(* What the server has still to handle, read from the socket or not.       *)
Input == req \o toServer

(* Whether packets are acknowledged, once the input is at a packet and     *)
(* when an acknowledgement is ahead of it.                                 *)
Agreed == no_ack = IF noack THEN SomeTrue ELSE None
Agreeing == no_ack = IF noack THEN SomeFalse ELSE None

(* The four places where the one exchange in progress can be.              *)
Calm ==
    /\ asked = <<>> /\ toClient = <<>>
    /\ (Input = <<>> /\ Agreed) \/ (Input = <<Plus>> /\ Agreeing)
Sent(c, ok) ==
    /\ asked = <<c>> /\ toClient = <<>> /\ (noack => ok /\ c # NoAckMode)
    /\ \/ Input = <<Cmd(c), Sum(ok)>> /\ Agreed
       \/ Input = <<Plus, Cmd(c), Sum(ok)>> /\ Agreeing
Refused(c) ==
    /\ asked = <<c>> /\ Input = <<>> /\ toClient = <<[t |-> "-"]>>
    /\ ~noack /\ no_ack = None
Answering(c) ==
    /\ asked = <<c>> /\ Input = <<>>
    /\ toClient = <<Dollar>> \/ (toClient = <<Plus, Dollar>> /\ ~noack)
    /\ noack => no_ack = SomeTrue /\ c # NoAckMode
    /\ ~noack => no_ack = IF c = NoAckMode THEN SomeFalse ELSE None

Exchange ==
    Calm \/ \E c \in Commands : Refused(c) \/ Answering(c) \/ \E ok \in BOOLEAN : Sent(c, ok)
Halted == req = <<>> \/ (Len(req) = 1 /\ req[1].t = "$")

GdbInv ==
    /\ req \in Seq(Tokens) /\ toServer \in Seq(Tokens) /\ noack \in BOOLEAN /\ ~error
    /\ Exchange
    /\ ~pumping => Halted

LEMMA Kinds ==
    /\ Plus.t = "+" /\ Dollar.t = "$"
    /\ \A c : Cmd(c).t = "$" /\ Cmd(c).cmd = c
    /\ \A ok : Sum(ok).t = "#" /\ Sum(ok).ok = ok
    /\ Plus \in Tokens
    /\ \A c \in Commands : Cmd(c) \in Tokens
    /\ \A ok \in BOOLEAN : Sum(ok) \in Tokens
  BY Zenon DEF Plus, Dollar, Cmd, Sum, Tokens

(* Sequences: a part of b moves to a, or what is read is taken from a.     *)
LEMMA SameSeq ==
    ASSUME NEW S, NEW s \in Seq(S), NEW t \in Seq(S), Len(s) = Len(t),
           \A i \in 1 .. Len(s) : s[i] = t[i]
    PROVE  s = t
  OBVIOUS

LEMMA Concat ==
    ASSUME NEW S, NEW a \in Seq(S), NEW b \in Seq(S)
    PROVE  /\ a \o b \in Seq(S) /\ Len(a \o b) = Len(a) + Len(b)
           /\ \A i \in 1 .. Len(a) : (a \o b)[i] = a[i]
           /\ \A i \in 1 .. Len(b) : (a \o b)[Len(a) + i] = b[i]
  OBVIOUS

LEMMA Joined ==
    ASSUME NEW S, NEW a \in Seq(S), NEW b \in Seq(S), NEW s \in Seq(S)
    PROVE  b \o s \in Seq(S) /\ a \o b \in Seq(S) /\ a \o (b \o s) = (a \o b) \o s
  OBVIOUS

(* b is x and then y.                                                      *)
CutInto(S, b, x, y) ==
    /\ b \in Seq(S) /\ x \in Seq(S) /\ y \in Seq(S) /\ Len(b) = Len(x) + Len(y)
    /\ \A i \in 1 .. Len(x) : b[i] = x[i]
    /\ \A i \in 1 .. Len(y) : b[Len(x) + i] = y[i]

LEMMA IsCut ==
    ASSUME NEW S, NEW a \in Seq(S), NEW b \in Seq(S), NEW r, r = a \o b
    PROVE  CutInto(S, r, a, b)
  BY Concat DEF CutInto

LEMMA Glued ==
    ASSUME NEW S, NEW a \in Seq(S), NEW b, NEW x, NEW y, CutInto(S, b, x, y)
    PROVE  a \o x \in Seq(S) /\ (a \o x) \o y = a \o b
<1>0. /\ b \in Seq(S) /\ x \in Seq(S) /\ y \in Seq(S) /\ Len(b) = Len(x) + Len(y)
      /\ \A i \in 1 .. Len(x) : b[i] = x[i]
      /\ \A i \in 1 .. Len(y) : b[Len(x) + i] = y[i]
  BY Zenon DEF CutInto
<1>1. PICK l, r, m : l = m \o y /\ r = a \o b /\ m = a \o x
  BY Zenon
<1>2a. CutInto(S, m, a, x) /\ CutInto(S, r, a, b)
  BY <1>0, <1>1, IsCut, Zenon
<1>2. /\ m \in Seq(S) /\ Len(m) = Len(a) + Len(x)
      /\ \A i \in 1 .. Len(a) : m[i] = a[i]
      /\ \A i \in 1 .. Len(x) : m[Len(a) + i] = x[i]
  BY <1>2a, Zenon DEF CutInto
<1>3a. CutInto(S, l, m, y)
  BY <1>0, <1>1, <1>2, IsCut, Zenon
<1>3. /\ l \in Seq(S) /\ Len(l) = Len(m) + Len(y)
      /\ \A i \in 1 .. Len(m) : l[i] = m[i]
      /\ \A i \in 1 .. Len(y) : l[Len(m) + i] = y[i]
  BY <1>3a, Zenon DEF CutInto
<1>4. /\ r \in Seq(S) /\ Len(r) = Len(a) + Len(b)
      /\ \A i \in 1 .. Len(a) : r[i] = a[i]
      /\ \A i \in 1 .. Len(b) : r[Len(a) + i] = b[i]
  BY <1>2a, Zenon DEF CutInto
<1>5. ASSUME NEW i \in 1 .. Len(l) PROVE l[i] = r[i]
  <2>1. CASE i <= Len(a)
    BY <1>0, <1>2, <1>3, <1>4, <2>1
  <2>2. CASE i > Len(a) /\ i <= Len(m)
    <3>1. i - Len(a) \in 1 .. Len(x) /\ i = Len(a) + (i - Len(a))
      BY <1>0, <1>2, <2>2
    <3>2. m[i] = x[i - Len(a)]
      BY <1>0, <1>2, <3>1, Zenon
    <3>3. l[i] = m[i]
      BY <1>0, <1>2, <1>3, <2>2
    <3>4. i - Len(a) \in 1 .. Len(b)
      BY <1>0, <3>1
    <3>5. r[i] = b[i - Len(a)]
      BY <1>0, <1>4, <3>1, <3>4, Zenon
    <3> QED
      BY <1>0, <3>1, <3>2, <3>3, <3>5, Zenon
  <2>3. CASE i > Len(m)
    <3>1. i - Len(m) \in 1 .. Len(y) /\ i = Len(m) + (i - Len(m))
      <4>1. /\ Len(m) \in Nat /\ Len(y) \in Nat /\ Len(l) = Len(m) + Len(y)
            /\ i \in 1 .. Len(l) /\ i > Len(m)
        BY <1>0, <1>2, <1>3, <2>3
      <4> QED
        BY ONLY <4>1
    <3>2. l[i] = y[i - Len(m)]
      BY <1>0, <1>3, <3>1, Zenon
    <3>3. Len(x) + (i - Len(m)) \in 1 .. Len(b) /\ i = Len(a) + (Len(x) + (i - Len(m)))
      BY <1>0, <1>2, <3>1
    <3>4. r[i] = b[Len(x) + (i - Len(m))]
      BY <1>0, <1>4, <3>3, Zenon
    <3> QED
      BY <1>0, <3>1, <3>2, <3>4, Zenon
  <2> QED
    BY <1>0, <1>2, <2>1, <2>2, <2>3
<1>6. Len(l) = Len(r)
  BY <1>0, <1>2, <1>3, <1>4
<1> QED
  BY <1>0, <1>1, <1>2, <1>3, <1>4, <1>5, <1>6, SameSeq, Zenon

LEMMA Cuts ==
    ASSUME NEW S, NEW b \in Seq(S), NEW n \in 1 .. Len(b)
    PROVE  CutInto(S, b, SubSeq(b, 1, n), SubSeq(b, n + 1, Len(b)))
  BY DEF CutInto

LEMMA TakenOne ==
    ASSUME NEW S, NEW a \in Seq(S), NEW b \in Seq(S), a # <<>>
    PROVE  /\ Tail(a) \in Seq(S) /\ Tail(a) \o b = Tail(a \o b) /\ a[1] = (a \o b)[1]
           /\ Len(a \o b) >= 1
  OBVIOUS

LEMMA TakenTwo ==
    ASSUME NEW S, NEW a \in Seq(S), NEW b \in Seq(S), Len(a) >= 2
    PROVE  /\ SubSeq(a, 3, Len(a)) \in Seq(S)
           /\ SubSeq(a, 3, Len(a)) \o b = Tail(Tail(a \o b))
           /\ a[1] = (a \o b)[1] /\ a[2] = (a \o b)[2] /\ Len(a \o b) >= 2
<1>1. SubSeq(a, 3, Len(a)) \in Seq(S) /\ a[1] = (a \o b)[1] /\ a[2] = (a \o b)[2] /\ Len(a \o b) >= 2
  OBVIOUS
<1>2. Tail(a) \in Seq(S) /\ a # <<>> /\ Len(Tail(a)) >= 1
  OBVIOUS
<1>2a. Tail(a) # <<>>
  <2>1. Len(<<>>) = 0
    OBVIOUS
  <2>2. ~(0 >= 1)
    OBVIOUS
  <2> QED
    BY <1>2, <2>1, <2>2, Zenon
<1>3. Tail(Tail(a)) \o b = Tail(Tail(a) \o b) /\ Tail(a) \o b = Tail(a \o b)
  BY <1>2, <1>2a, TakenOne, Zenon
<1>4. Tail(Tail(a)) = SubSeq(a, 3, Len(a))
  BY <1>1, <1>2
<1> QED
  BY <1>1, <1>3, <1>4, Zenon

LEMMA Appended ==
    ASSUME NEW S, NEW s \in Seq(S), NEW x \in S
    PROVE  Append(s, x) = s \o <<x>>
  OBVIOUS

LEMMA Pairs ==
    ASSUME NEW x, NEW y, NEW z
    PROVE  /\ <<>> \o <<x, y>> = <<x, y>> /\ <<x>> \o <<y>> = <<x, y>>
           /\ <<z>> \o <<x, y>> = <<z, x, y>>
<1> DEFINE S == {x, y, z}
<1>0. /\ <<>> \in Seq(S) /\ <<x>> \in Seq(S) /\ <<y>> \in Seq(S) /\ <<z>> \in Seq(S)
      /\ <<x, y>> \in Seq(S) /\ <<z, x, y>> \in Seq(S)
  OBVIOUS
<1> HIDE DEF S
<1>1. <<>> \o <<x, y>> = <<x, y>>
  <2> DEFINE c == <<>> \o <<x, y>>
  <2>1. c \in Seq(S) /\ Len(c) = 2 /\ c[1] = x /\ c[2] = y
    BY <1>0, Concat
  <2> HIDE DEF c
  <2>2. c = <<x, y>>
    BY <1>0, <2>1
  <2> QED
    BY <2>2, Zenon DEF c
<1>2. <<x>> \o <<y>> = <<x, y>>
  <2> DEFINE c == <<x>> \o <<y>>
  <2>1. c \in Seq(S) /\ Len(c) = 2 /\ c[1] = x /\ c[2] = y
    BY <1>0, Concat
  <2> HIDE DEF c
  <2>2. c = <<x, y>>
    BY <1>0, <2>1
  <2> QED
    BY <2>2, Zenon DEF c
<1>3. <<z>> \o <<x, y>> = <<z, x, y>>
  <2> DEFINE c == <<z>> \o <<x, y>>
  <2>1. c \in Seq(S) /\ Len(c) = 3 /\ c[1] = z /\ c[2] = x /\ c[3] = y
    BY <1>0, Concat
  <2> HIDE DEF c
  <2>2. c = <<z, x, y>>
    BY <1>0, <2>1
  <2> QED
    BY <2>2, Zenon DEF c
<1> QED
  BY <1>1, <1>2, <1>3

LEMMA Small ==
    ASSUME NEW x, NEW y, NEW z
    PROVE  /\ <<>> \o <<x>> = <<x>> /\ <<>> \o <<>> = <<>>
           /\ Tail(<<x>>) = <<>> /\ Tail(<<x, y>>) = <<y>> /\ Tail(<<x, y, z>>) = <<y, z>>
  OBVIOUS

(* Which exchange it is, told by the first piece of the input.             *)
LEMMA AtAck ==
    ASSUME GdbInv, First("+")
    PROVE  /\ Agreeing /\ toClient = <<>> /\ Input[1] = Plus
           /\ \/ asked = <<>> /\ Input = <<Plus>>
              \/ \E c \in Commands, ok \in BOOLEAN :
                    asked = <<c>> /\ (noack => ok /\ c # NoAckMode) /\ Input = <<Plus, Cmd(c), Sum(ok)>>
<1>1. req # <<>> /\ req[1].t = "+"
  BY Zenon DEF First
<1>2. Len(Input) >= 1 /\ Input[1].t = "+"
  BY <1>1, TakenOne, Zenon DEF GdbInv, Input
<1>3. Input # <<>>
  BY <1>2
<1>4. ASSUME NEW c, NEW ok PROVE Input # <<Cmd(c), Sum(ok)>>
  BY <1>2, Kinds
<1>5. Calm \/ \E c \in Commands : \E ok \in BOOLEAN : Sent(c, ok)
  BY <1>3, Zenon DEF GdbInv, Exchange, Refused, Answering
<1> QED
  BY <1>3, <1>4, <1>5 DEF Calm, Sent

LEMMA AtPacket ==
    ASSUME GdbInv, Complete
    PROVE  /\ Agreed /\ toClient = <<>>
           /\ \E c \in Commands, ok \in BOOLEAN :
                 /\ asked = <<c>> /\ (noack => ok /\ c # NoAckMode)
                 /\ Input = <<Cmd(c), Sum(ok)>> /\ req[1] = Cmd(c) /\ req[2] = Sum(ok)
<1>1. Len(req) >= 2 /\ req[1].t = "$"
  BY Zenon DEF Complete, First
<1>2. Len(Input) >= 2 /\ Input[1] = req[1] /\ Input[2] = req[2]
  BY <1>1, TakenTwo DEF GdbInv, Input
<1>3. Input # <<>> /\ Input # <<Plus>>
  BY <1>2
<1>4. ASSUME NEW c, NEW ok PROVE Input # <<Plus, Cmd(c), Sum(ok)>>
  <2>1. ASSUME Input = <<Plus, Cmd(c), Sum(ok)>> PROVE Input[1] = Plus
    BY ONLY <2>1
  <2>2. Plus.t # "$"
    BY ONLY Kinds
  <2>3. Input[1].t = "$"
    BY <1>1, <1>2, Zenon
  <2> QED
    BY <2>1, <2>2, <2>3, Zenon
<1>5. \E c \in Commands : \E ok \in BOOLEAN : Sent(c, ok)
  BY <1>3 DEF GdbInv, Exchange, Refused, Answering, Calm
<1>6. PICK c \in Commands, ok \in BOOLEAN : Sent(c, ok)
  BY <1>5, Zenon
<1>7. Input = <<Cmd(c), Sum(ok)>> /\ Agreed
  BY <1>4, <1>6, Zenon DEF Sent
<1>8. req[1] = Cmd(c) /\ req[2] = Sum(ok)
  BY <1>2, <1>7
<1> QED
  BY <1>6, <1>7, <1>8, Zenon DEF Sent

LEMMA InitGdb == GdbInit => GdbInv
<1> SUFFICES ASSUME GdbInit PROVE GdbInv
  OBVIOUS
<1>1. req = <<>> /\ toServer \in {<<>>, <<Plus>>}
  BY DEF GdbInit, Plus
<1>2. req \in Seq(Tokens) /\ toServer \in Seq(Tokens)
  <2>1. Plus \in Tokens
    BY Kinds
  <2>2. <<Plus>> \in Seq(Tokens) /\ <<>> \in Seq(Tokens)
    BY <2>1
  <2> QED
    BY <1>1, <2>2, Zenon
<1>2a. Input = toServer
  BY <1>1, Small, Zenon DEF Input
<1>3. Calm
  BY <1>1, <1>2a, Zenon DEF GdbInit, Calm, Agreed, Agreeing
<1> QED
  BY <1>1, <1>2, <1>3, Zenon DEF GdbInv, GdbInit, Exchange, Halted

LEMMA GdbRead ==
    ASSUME GdbInv, NEW n \in 1 .. Len(toServer), dispatch_client(n)
    PROVE  GdbInv'
<1>1. /\ req' = req \o SubSeq(toServer, 1, n) /\ toServer' = SubSeq(toServer, n + 1, Len(toServer))
      /\ pumping' = TRUE /\ UNCHANGED <<no_ack, error, toClient, asked, noack>>
  BY DEF dispatch_client, client
<1>2. req' \in Seq(Tokens) /\ toServer' \in Seq(Tokens) /\ Input' = Input
  <2>1. req \in Seq(Tokens) /\ toServer \in Seq(Tokens)
    BY DEF GdbInv
  <2>2. PICK a, b : a = req /\ b = toServer
    OBVIOUS
  <2>3. a \in Seq(Tokens) /\ b \in Seq(Tokens) /\ n \in 1 .. Len(b)
    BY <2>1, <2>2
  <2>4. PICK x, y : x = SubSeq(b, 1, n) /\ y = SubSeq(b, n + 1, Len(b))
    BY Zenon
  <2>a. CutInto(Tokens, b, x, y)
    BY <2>3, <2>4, Cuts, Zenon
  <2>b. y \in Seq(Tokens)
    BY <2>a, Zenon DEF CutInto
  <2>5. a \o x \in Seq(Tokens) /\ y \in Seq(Tokens) /\ (a \o x) \o y = a \o b
    <3>1. a \in Seq(Tokens)
      BY <2>3
    <3>2. a \o x \in Seq(Tokens) /\ (a \o x) \o y = a \o b
      BY ONLY <2>a, <3>1, Glued, SMTT(30)
    <3> QED
      BY <2>b, <3>2
  <2> QED
    BY <1>1, <2>2, <2>4, <2>5, Zenon DEF Input
<1>3. Exchange'
  BY <1>1, <1>2 DEF GdbInv, Exchange, Calm, Refused, Answering, Sent, Agreed, Agreeing
<1> QED
  BY <1>1, <1>2, <1>3, Zenon DEF GdbInv

LEMMA GdbAcknowledged ==
    ASSUME GdbInv, PumpAck
    PROVE  GdbInv'
<1>1. First("+") /\ UNCHANGED <<toServer, asked, noack>>
  BY Zenon DEF PumpAck, client
<1>2. /\ Agreeing /\ toClient = <<>>
      /\ \/ asked = <<>> /\ Input = <<Plus>>
         \/ \E c \in Commands, ok \in BOOLEAN :
               asked = <<c>> /\ (noack => ok /\ c # NoAckMode) /\ Input = <<Plus, Cmd(c), Sum(ok)>>
  BY <1>1, AtAck, Zenon
<1>3. no_ack # SomeTrue
  BY <1>2, Zenon DEF Agreeing, None, SomeTrue, SomeFalse
<1>4. /\ no_ack' = IF no_ack = SomeFalse THEN SomeTrue ELSE no_ack
      /\ req' = Tail(req) /\ UNCHANGED <<pumping, error, toClient>>
  BY <1>3, Zenon DEF PumpAck
<1>5. Agreed'
  BY <1>1, <1>2, <1>4, Zenon DEF Agreed, Agreeing, None, SomeTrue, SomeFalse
<1>6. pumping /\ req # <<>>
  BY <1>1 DEF First
<1>7. req' \in Seq(Tokens) /\ toServer' \in Seq(Tokens) /\ Input' = Tail(Input)
  BY <1>1, <1>4, <1>6, TakenOne, Zenon DEF GdbInv, Input
<1>8. CASE asked = <<>> /\ Input = <<Plus>>
  <2>1. Input' = <<>>
    BY <1>7, <1>8, Small, Zenon
  <2>2. Calm'
    BY <1>1, <1>2, <1>4, <1>5, <1>8, <2>1, Zenon DEF Calm
  <2> QED
    BY <1>1, <1>4, <1>6, <1>7, <2>2, Zenon DEF GdbInv, Exchange
<1>9. ASSUME NEW c \in Commands, NEW ok \in BOOLEAN, asked = <<c>>,
             noack => ok /\ c # NoAckMode, Input = <<Plus, Cmd(c), Sum(ok)>>
      PROVE  GdbInv'
  <2>1. Input' = <<Cmd(c), Sum(ok)>>
    BY <1>7, <1>9, Small
  <2>2. Sent(c, ok)'
    BY <1>1, <1>2, <1>4, <1>5, <1>9, <2>1, Zenon DEF Sent
  <2> QED
    BY <1>1, <1>4, <1>6, <1>7, <2>2, Zenon DEF GdbInv, Exchange
<1> QED
  BY <1>2, <1>8, <1>9, Zenon

LEMMA GdbPacket ==
    ASSUME GdbInv, PumpDamaged \/ PumpCommand
    PROVE  GdbInv'
<1>1. /\ Complete /\ Drained /\ UNCHANGED <<toServer, asked, noack>>
  BY Zenon DEF PumpDamaged, PumpCommand, client
<1>2. /\ Agreed /\ toClient = <<>>
      /\ \E c \in Commands, ok \in BOOLEAN :
            /\ asked = <<c>> /\ (noack => ok /\ c # NoAckMode)
            /\ Input = <<Cmd(c), Sum(ok)>> /\ req[1] = Cmd(c) /\ req[2] = Sum(ok)
  BY <1>1, AtPacket, Zenon
<1>3. PICK c \in Commands, ok \in BOOLEAN :
        /\ asked = <<c>> /\ (noack => ok /\ c # NoAckMode)
        /\ Input = <<Cmd(c), Sum(ok)>> /\ req[1] = Cmd(c) /\ req[2] = Sum(ok)
  BY <1>2, Zenon
<1>4. pumping /\ Len(req) >= 2
  BY <1>1 DEF Complete, First
<1>5. req' \in Seq(Tokens) /\ toServer' \in Seq(Tokens) /\ Input' = Tail(Tail(Input))
  BY <1>1, <1>4, TakenTwo, Zenon DEF GdbInv, Input, Drained
<1>6. Input' = <<>>
  BY <1>3, <1>5, Small
<1>7. req[1].cmd = c /\ req[2].ok = ok
  BY <1>3, Kinds, Zenon
<1>8. CASE PumpDamaged
  <2>1. ~ok
    BY <1>7, <1>8, Zenon DEF PumpDamaged
  <2>2. ~noack /\ no_ack = None
    BY <1>2, <1>3, <2>1, Zenon DEF Agreed
  <2>3. toClient' = toClient \o <<[t |-> "-"]>> /\ UNCHANGED <<no_ack, pumping, error>>
    BY <1>8, <2>2, Zenon DEF PumpDamaged, Reply
  <2>4. toClient' = <<[t |-> "-"]>>
    BY <1>2, <2>3, Small
  <2>5. Refused(c)'
    BY <1>1, <1>3, <1>6, <2>2, <2>3, <2>4, Zenon DEF Refused
  <2> QED
    BY <1>1, <1>4, <1>5, <2>3, <2>5, Zenon DEF GdbInv, Exchange
<1>9. CASE PumpCommand
  <2>1. no_ack # SomeFalse
    BY <1>2 DEF Agreed, None, SomeTrue, SomeFalse
  <2>2. /\ IF c = NoAckMode THEN no_ack' = SomeFalse ELSE no_ack' = no_ack
        /\ toClient' = toClient \o ((IF no_ack = None THEN <<Plus>> ELSE <<>>) \o <<Dollar>>)
        /\ UNCHANGED <<pumping, error>>
    BY <1>7, <1>9, <2>1, Zenon DEF PumpCommand, Reply, parse_start_no_ack_mode, Plus, Dollar, NoAckMode
  <2>3. CASE noack
    <3>1. no_ack = SomeTrue /\ no_ack # None
      BY <1>2, <2>3, Zenon DEF Agreed, None, SomeTrue
    <3>2. toClient' = <<Dollar>> /\ no_ack' = no_ack /\ c # NoAckMode
      BY <1>2, <1>3, <2>2, <2>3, <3>1, Small, Zenon
    <3>3. Answering(c)'
      BY <1>1, <1>3, <1>6, <2>3, <3>1, <3>2, Zenon DEF Answering
    <3> QED
      BY <1>1, <1>4, <1>5, <2>2, <3>3, Zenon DEF GdbInv, Exchange
  <2>4. CASE ~noack
    <3>1. no_ack = None
      BY <1>2, <2>4 DEF Agreed
    <3>2. toClient' = <<Plus, Dollar>>
      <4>1. toClient' = <<>> \o (<<Plus>> \o <<Dollar>>)
        BY <1>2, <2>2, <3>1
      <4> QED
        BY <4>1, Pairs, Zenon
    <3>3. Answering(c)'
      BY <1>1, <1>3, <1>6, <2>2, <2>4, <3>1, <3>2, Zenon DEF Answering
    <3> QED
      BY <1>1, <1>4, <1>5, <2>2, <3>3 DEF GdbInv, Exchange
  <2> QED
    BY <2>3, <2>4, Zenon
<1> QED
  BY <1>8, <1>9, Zenon

LEMMA GdbSends ==
    ASSUME GdbInv, NEW c \in Commands, NEW ok \in {TRUE, noack}, noack => c # NoAckMode,
           toServer' = toServer \o Packet(c, ok), asked' = <<c>>, toClient' = <<>>,
           UNCHANGED <<req, no_ack, pumping, error, noack>>,
           (Input = <<>> /\ Agreed) \/ (Input = <<Plus>> /\ Agreeing)
    PROVE  GdbInv'
<1>0. ok \in BOOLEAN /\ (noack => ok)
  BY Zenon DEF GdbInv
<1>1. Packet(c, ok) = <<Cmd(c), Sum(ok)>>
  BY Zenon DEF Packet, Cmd, Sum
<1>2. <<Cmd(c), Sum(ok)>> \in Seq(Tokens)
  BY <1>0, Kinds
<1>3. toServer' \in Seq(Tokens) /\ Input' = Input \o <<Cmd(c), Sum(ok)>>
  <2>1. PICK s : s = <<Cmd(c), Sum(ok)>>
    BY Zenon
  <2>2. s \in Seq(Tokens) /\ toServer' = toServer \o s /\ Input' = req \o (toServer \o s)
    BY <1>1, <1>2, <2>1, Zenon DEF Input
  <2>3. req \in Seq(Tokens) /\ toServer \in Seq(Tokens)
    BY Zenon DEF GdbInv
  <2>a. PICK a \in Seq(Tokens), b \in Seq(Tokens) : a = req /\ b = toServer
    BY <2>3, Zenon
  <2>b. b \o s \in Seq(Tokens) /\ a \o (b \o s) = (a \o b) \o s
    <3>1. s \in Seq(Tokens) /\ a \in Seq(Tokens) /\ b \in Seq(Tokens)
      BY <2>2, Zenon
    <3>2. ASSUME NEW T, s \in Seq(T), a \in Seq(T), b \in Seq(T)
          PROVE  b \o s \in Seq(T) /\ a \o (b \o s) = (a \o b) \o s
      BY ONLY <3>2, Joined
    <3> QED
      BY <3>1, <3>2, Zenon
  <2>4. toServer \o s \in Seq(Tokens) /\ req \o (toServer \o s) = (req \o toServer) \o s
    BY <2>a, <2>b, Zenon
  <2>5. toServer' \in Seq(Tokens) /\ Input' = Input \o s
    BY <2>2, <2>4, Zenon DEF Input
  <2> QED
    BY <2>1, <2>5, Zenon
<1>4. Agreed' = Agreed /\ Agreeing' = Agreeing
  BY Zenon DEF Agreed, Agreeing
<1>5. Sent(c, ok)'
  <2>1. CASE Input = <<>> /\ Agreed
    <3>1. Input' = <<Cmd(c), Sum(ok)>>
      BY <1>3, <2>1, Pairs, Zenon
    <3> QED
      BY <1>0, <1>4, <2>1, <3>1, Zenon DEF Sent
  <2>2. CASE Input = <<Plus>> /\ Agreeing
    <3>0. \A x, y, z : <<z>> \o <<x, y>> = <<z, x, y>>
      BY Pairs, Zenon
    <3>1. Input' = <<Plus, Cmd(c), Sum(ok)>>
      BY <1>3, <2>2, <3>0, Zenon
    <3> QED
      BY <1>0, <1>4, <2>2, <3>1 DEF Sent
  <2> QED
    BY <2>1, <2>2, Zenon
<1> QED
  BY <1>0, <1>3, <1>5 DEF GdbInv, Exchange, Halted

LEMMA GdbDebugger ==
    ASSUME GdbInv, Debugger
    PROVE  GdbInv'
<1>1. ASSUME NEW c \in Commands, Ask(c) PROVE GdbInv'
  <2>1. /\ asked = <<>> /\ asked' = <<c>> /\ UNCHANGED <<req, no_ack, pumping, error, noack, toClient>>
        /\ noack => c # NoAckMode
    BY <1>1 DEF Ask, server, NoAckMode
  <2>2. PICK ok \in {TRUE, noack} : toServer' = toServer \o Packet(c, ok)
    BY <1>1, Zenon DEF Ask, Transmit
  <2>3. Calm
    BY <2>1, Zenon DEF GdbInv, Exchange, Refused, Answering, Sent
  <2>4. toClient = <<>> /\ ((Input = <<>> /\ Agreed) \/ (Input = <<Plus>> /\ Agreeing))
    BY <2>3 DEF Calm
  <2> QED
    BY <2>1, <2>2, <2>4, GdbSends, Zenon
<1>2. CASE Nacked
  <2>1. toClient # <<>> /\ Head(toClient).t = "-" /\ toClient' = Tail(toClient)
    BY <1>2, Zenon DEF Nacked, Take
  <2>2. /\ UNCHANGED <<req, no_ack, pumping, error, noack, asked>>
    BY <1>2, Zenon DEF Nacked, server
  <2>3. PICK c \in Commands : Refused(c)
    <3>1. ~Calm /\ \A c, ok : ~Sent(c, ok)
      BY <2>1, Zenon DEF Calm, Sent
    <3>2. ASSUME NEW c, Answering(c) PROVE FALSE
      BY <2>1, <3>2, Kinds DEF Answering
    <3> QED
      BY <3>1, <3>2, Zenon DEF GdbInv, Exchange
  <2>4. asked[1] = c /\ toClient' = <<>> /\ Input = <<>> /\ Agreed /\ ~noack
    BY <2>1, <2>3, Small DEF Refused, Agreed
  <2>5. PICK ok \in {TRUE, noack} : toServer' = toServer \o Packet(c, ok)
    BY <1>2, <2>4, Zenon DEF Nacked, Transmit
  <2>6. asked' = <<c>>
    BY <2>2, <2>3, Zenon DEF Refused
  <2> QED
    BY <2>2, <2>4, <2>5, <2>6, GdbSends, Zenon
<1>3. ASSUME NEW x, x \in {"+", "$"}, Take(x), NEW c \in Commands, Answering(c), UNCHANGED <<req, no_ack, pumping, error>>,
             x = "+" => UNCHANGED <<asked, noack, toServer>>,
             x = "$" => /\ asked' = <<>> /\ noack' = (noack \/ asked = <<NoAckMode>>)
                        /\ toServer' = IF noack THEN toServer ELSE Append(toServer, Plus)
      PROVE  GdbInv'
  <2>1. Head(toClient).t = x /\ toClient' = Tail(toClient)
    BY <1>3 DEF Take
  <2>2. CASE toClient = <<Plus, Dollar>> /\ ~noack
    <3>1. x = "+" /\ toClient' = <<Dollar>>
      BY <2>1, <2>2, Kinds, <1>3
    <3>2. Answering(c)'
      BY <1>3, <2>2, <3>1 DEF Answering, Input
    <3> QED
      BY <1>3, <3>1, <3>2, Zenon DEF GdbInv, Exchange, Halted
  <2>3. CASE toClient = <<Dollar>>
    <3>1. x = "$" /\ toClient' = <<>>
      BY <2>1, <2>3, Kinds, <1>3
    <3>2. asked' = <<>> /\ noack' = (noack \/ c = NoAckMode)
      BY <1>3, <3>1, Zenon DEF Answering
    <3>3. CASE noack
      <4>1. noack' = TRUE /\ no_ack' = SomeTrue /\ toServer' = toServer
        BY <1>3, <3>1, <3>2, <3>3, Zenon DEF Answering
      <4>2. Input' = <<>>
        BY <1>3, <4>1, Zenon DEF Input, Answering
      <4>3. Calm'
        BY <3>1, <3>2, <4>1, <4>2 DEF Calm, Agreed
      <4> QED
        BY <1>3, <4>1, <4>3, Zenon DEF GdbInv, Exchange, Halted
    <3>4. CASE ~noack
      <4>1. noack' = (c = NoAckMode) /\ no_ack' = IF c = NoAckMode THEN SomeFalse ELSE None
        BY <1>3, <3>2, <3>4 DEF Answering
      <4>2. Agreeing'
        BY <4>1, Zenon DEF Agreeing
      <4>3. toServer' = toServer \o <<Plus>>
        <5>1. toServer' = Append(toServer, Plus)
          BY <1>3, <3>1, <3>4, Zenon
        <5>2. toServer \in Seq(Tokens) /\ Plus \in Tokens
          BY Kinds, Zenon DEF GdbInv
        <5> QED
          BY <5>1, <5>2, Appended, Zenon
      <4>4. toServer' \in Seq(Tokens) /\ Input' = Input \o <<Plus>>
        <5>1. PICK a, b, s : a = req /\ b = toServer /\ s = <<Plus>>
          BY Zenon
        <5>2. a \in Seq(Tokens) /\ b \in Seq(Tokens) /\ Plus \in Tokens
          BY <5>1, Kinds, Zenon DEF GdbInv
        <5>3. s \in Seq(Tokens)
          BY ONLY <5>1, <5>2
        <5>4. b \o s \in Seq(Tokens) /\ a \o (b \o s) = (a \o b) \o s
          BY ONLY <5>2, <5>3, SMTT(30)
        <5> QED
          BY <1>3, <4>3, <5>1, <5>4, Zenon DEF Input
      <4>5. Input' = <<Plus>>
        BY <1>3, <4>4, Small, Zenon DEF Answering
      <4>6. Calm'
        BY <3>1, <3>2, <4>2, <4>5, Zenon DEF Calm
      <4> QED
        BY <1>3, <4>1, <4>4, <4>6, Zenon DEF GdbInv, Exchange, Halted
    <3> QED
      BY <3>3, <3>4, Zenon
  <2> QED
    BY <1>3, <2>2, <2>3, Zenon DEF Answering
<1>4. ASSUME NEW x, x \in {"+", "$"}, Take(x) PROVE \E c \in Commands : Answering(c)
  <2>1. toClient # <<>> /\ Head(toClient).t = x
    BY <1>4, Zenon DEF Take
  <2>2. ~Calm /\ \A c, ok : ~Sent(c, ok)
    BY <2>1, Zenon DEF Calm, Sent
  <2>3. ASSUME NEW c, Refused(c) PROVE FALSE
    BY <1>4, <2>1, <2>3 DEF Refused
  <2> QED
    BY <2>2, <2>3 DEF GdbInv, Exchange
<1>5. CASE Acked
  <2>1. Take("+") /\ UNCHANGED <<req, no_ack, pumping, error, asked, noack, toServer>>
    BY <1>5, Zenon DEF Acked, server, client
  <2>2. PICK c \in Commands : Answering(c)
    BY <2>1, <1>4, Zenon
  <2> QED
    BY <1>3, <2>1, <2>2, Zenon
<1>6. CASE Answered
  <2>1. /\ Take("$") /\ UNCHANGED <<req, no_ack, pumping, error>> /\ asked' = <<>>
        /\ noack' = (noack \/ asked = <<NoAckMode>>)
        /\ toServer' = IF noack THEN toServer ELSE Append(toServer, Plus)
    BY <1>6, Zenon DEF Answered, server, Plus, NoAckMode
  <2>2. PICK c \in Commands : Answering(c)
    BY <2>1, <1>4, Zenon
  <2> QED
    BY <1>3, <2>1, <2>2, Zenon
<1> QED
  BY <1>1, <1>2, <1>5, <1>6 DEF Debugger

LEMMA GdbStep == GdbInv /\ [GdbNext]_gdbVars => GdbInv'
<1> SUFFICES ASSUME GdbInv, [GdbNext]_gdbVars PROVE GdbInv'
  OBVIOUS
<1>1. ASSUME UNCHANGED <<req, no_ack, error, toServer, toClient, asked, noack>>,
             ~pumping' => ~pumping \/ Halted
      PROVE  GdbInv'
  <2>1. Exchange' /\ Halted' = Halted
    BY <1>1, Zenon DEF GdbInv, Exchange, Calm, Refused, Answering, Sent, Agreed, Agreeing, Input, Halted
  <2> QED
    BY <1>1, <2>1 DEF GdbInv
<1>2. CASE UNCHANGED gdbVars
  BY <1>1, <1>2, Zenon DEF gdbVars, server, client
<1>3. CASE PumpNone
  <2>1. req = <<>> \/ (req[1].t = "$" /\ ~(Len(req) >= 2))
    BY <1>3 DEF PumpNone, First, Complete
  <2>2. req # <<>> => Len(req) \in Nat /\ Len(req) >= 1
    BY DEF GdbInv
  <2>a. req = <<>> \/ Len(req) = 1
    <3>1. PICK n : n = Len(req)
      BY Zenon
    <3>2. req = <<>> \/ ~(n >= 2)
      BY <2>1, <3>1, Zenon
    <3>3. req = <<>> \/ (n \in Nat /\ n >= 1)
      BY <2>2, <3>1, Zenon
    <3>4. req = <<>> \/ n = 1
      BY <3>2, <3>3
    <3> QED
      BY <3>1, <3>4, Zenon
  <2>3. Halted
    BY <2>1, <2>a, Zenon DEF Halted
  <2> QED
    BY <1>1, <1>3, <2>3, Zenon DEF PumpNone, client
<1> QED
  BY <1>2, <1>3, GdbRead, GdbAcknowledged, GdbPacket, GdbDebugger, Zenon DEF GdbNext, Pump

(* A debugger that follows the protocol meets no error, and when nothing   *)
(* is on its way both sides agree (ClientDispatcher::pump).                *)
THEOREM GdbInStep == GdbSpec => []InStep
<1>1. GdbInv => InStep
  <2> SUFFICES ASSUME GdbInv, Quiet
               PROVE  asked = <<>> /\ req = <<>> /\ no_ack = (IF noack THEN SomeTrue ELSE None)
    BY Zenon DEF InStep, GdbInv
  <2>1. Halted /\ Input = req /\ toClient = <<>>
    BY DEF GdbInv, Quiet, Input
  <2>2. Input = <<>> \/ (Len(Input) = 1 /\ Input[1].t = "$")
    BY <2>1, Zenon DEF Halted
  <2>3. Input # <<Plus>> /\ \A c, ok : Input # <<Cmd(c), Sum(ok)>> /\ Input # <<Plus, Cmd(c), Sum(ok)>>
    BY <2>2, Kinds
  <2>4. Calm
    BY <2>1, <2>3 DEF GdbInv, Exchange, Refused, Answering, Sent
  <2> QED
    BY <2>1, <2>3, <2>4, Zenon DEF Calm, Agreed
<1> QED
  BY InitGdb, GdbStep, <1>1, PTL DEF GdbSpec
=============================================================================

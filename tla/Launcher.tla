------------------------------ MODULE Launcher ------------------------------
(***************************************************************************)
(* The launcher (src/gui/src/main.rs run_launcher and its handlers,        *)
(* ui/profile.rs), the profiles and the settings it keeps on disk          *)
(* (profile/mod.rs, settings/mod.rs, data/prof.rs), over several starts of *)
(* the program.  A save makes the directory when the profile is new,       *)
(* truncates the file and writes it: an error or a kill may end it between *)
(* two of these, and what it did stays on disk.                            *)
(*                                                                         *)
(* A profile is what its fields say: `text` stands for those that the user *)
(* edits, Bad being one that does not parse, and `env` for the environment *)
(* variables of its Config.  spawn_handler discards the input of a window  *)
(* while one of its handlers runs, which includes the dialog it opened.    *)
(***************************************************************************)
EXTENDS Naturals, Sequences, FiniteSets

CONSTANTS
    Ids,       \* identifiers of profiles, never used twice (Uuid::new_v4)
    Texts,     \* texts of the fields that parse
    Bad,       \* a text that does not
    DefaultText,
    Variables, \* environment variables: name and value
    Size,      \* the bytes one takes in env_vars
    DefaultVar,
    EnvSpace,  \* the bytes of env_vars
    MaxShown   \* bound: variables in the window

NoProfile == [kind |-> "none", text |-> Bad, env |-> <<>>]
Settings == "settings"

VARIABLES
    launcher, \* "off", "start", "window", "launch", "wait", "vmm"
    profiles, \* the Vec<Profile>
    selected, \* ProfileModel's selected row, 0 if None
    index,    \* MainWindow's selected-profile
    text,     \* its fields
    shown,    \* its EnvironmentList
    dialog,   \* the window on top of it: "none", "settings", "profile", "variable"
    row,      \* the variable being edited, 0 for a new one
    job,      \* the save that runs: [what, p, step], as a sequence
    launched, \* the profile the VMM was started with, as a sequence
    stored,   \* on disk: what is there for a profile or the settings
    kept,     \* history: what the window showed in the last save, if it ended well
    cut       \* history: the files whose last save did not

window == <<profiles, selected, index, text, shown>>
popup == <<dialog, row>>
disk == <<stored, kept, cut>>
launcherVars == <<launcher, window, popup, job, launched, disk>>

LauncherInit ==
    /\ launcher = "off" /\ profiles = <<>> /\ selected = 0 /\ index = 0
    /\ text = DefaultText /\ shown = <<>> /\ dialog = "none" /\ row = 0
    /\ job = <<>> /\ launched = <<>> /\ cut = {}
    /\ stored = [f \in Ids \cup {Settings} |-> NoProfile]
    /\ kept = [f \in Ids \cup {Settings} |-> NoProfile]

-----------------------------------------------------------------------------
(* Config::extend_env on a cleared Config: it stops at the first variable  *)
(* that does not fit, and update ignores what is left.                     *)
Used(s) ==
    LET used[n \in 0 .. Len(s)] == IF n = 0 THEN 0 ELSE used[n - 1] + Size[s[n]]
    IN  used[Len(s)]
extend_env(s) ==
    SubSeq(s, 1, CHOOSE n \in 0 .. Len(s) :
        /\ Used(SubSeq(s, 1, n)) <= EnvSpace
        /\ n = Len(s) \/ Used(SubSeq(s, 1, n + 1)) > EnvSpace)

(* Profile::new.                                                           *)
new(i) == [id |-> i, text |-> DefaultText, env |-> extend_env(<<DefaultVar>>)]
Content(p) == [kind |-> "full", text |-> p.text, env |-> p.env]

(* ProfileModel::select, with the window's fields it sets.                 *)
select(ps, r) ==
    /\ text' = ps[r].text /\ shown' = ps[r].env /\ selected' = r

(* ProfileModel::update: the fields are parsed before any is assigned.     *)
update == [profiles EXCEPT ![selected].text = text, ![selected].env = extend_env(shown)]

-----------------------------------------------------------------------------
(* MainProgram::run up to the launcher.                                    *)
OnDisk == {i \in Ids : stored[i].kind # "none"}

(* Settings::load, which takes a missing file for the default, and         *)
(* Profile::load.                                                          *)
SettingsLoad(default) == default \/ stored[Settings].kind \in {"none", "full"}
Loads == \A i \in OnDisk : stored[i].kind = "full"

(* The directory is listed in any order.  A start that cannot load all it  *)
(* finds ends with an error and changes nothing.                           *)
Start(default) ==
    /\ launcher = "off" /\ SettingsLoad(default) /\ Loads
    /\ \E n \in 0 .. Cardinality(Ids) : \E order \in [1 .. n -> OnDisk] :
        /\ \A i \in OnDisk : \E k \in 1 .. n : order[k] = i
        /\ \A i, j \in 1 .. n : order[i] = order[j] => i = j
        /\ profiles' = [k \in 1 .. n |->
                          [id |-> order[k], text |-> stored[order[k]].text,
                           env |-> stored[order[k]].env]]
    /\ launcher' = "start"
    /\ UNCHANGED <<selected, index, text, shown, popup, job, launched, disk>>

Job(what, p, step) == <<[what |-> what, p |-> p, step |-> step]>>
Fresh == {i \in Ids : stored[i].kind = "none"}

DefaultProfile(i) ==
    /\ launcher = "start" /\ profiles = <<>> /\ job = <<>> /\ i \in Fresh
    /\ job' = Job("default", new(i), "dir")
    /\ UNCHANGED <<launcher, window, popup, launched, disk>>

Open ==
    /\ launcher = "start" /\ profiles # <<>> /\ job = <<>>
    /\ launcher' = "window" /\ index' = 1 /\ select(profiles, 1)
    /\ UNCHANGED <<profiles, popup, job, launched, disk>>

(* --debug: the last profile, without the launcher.                        *)
Debug ==
    /\ launcher = "start" /\ profiles # <<>> /\ job = <<>>
    /\ launcher' = "wait" /\ launched' = <<profiles[Len(profiles)]>>
    /\ UNCHANGED <<window, popup, job, disk>>

-----------------------------------------------------------------------------
(* The user, at the main window.                                           *)
Idle == launcher = "window" /\ dialog = "none" /\ job = <<>>

Edit ==
    /\ Idle /\ text' \in (Texts \cup {Bad}) \ {text}
    /\ UNCHANGED <<launcher, profiles, selected, index, shown, popup, job, launched, disk>>

profile_selected(r) ==
    /\ Idle /\ r \in DOMAIN profiles /\ index' = r /\ select(profiles, r)
    /\ UNCHANGED <<launcher, profiles, popup, job, launched, disk>>

(* The handlers that open a window and wait for it.                        *)
OpenDialog(d, r) ==
    /\ Idle /\ dialog' = d /\ row' = r
    /\ UNCHANGED <<launcher, window, job, launched, disk>>

settings == OpenDialog("settings", 0)
new_profile == OpenDialog("profile", 0)
new_environment == OpenDialog("variable", 0)
edit_environment(r) == r \in DOMAIN shown /\ OpenDialog("variable", r)

delete_environment(r) ==
    /\ Idle /\ r \in DOMAIN shown
    /\ shown' = SubSeq(shown, 1, r - 1) \o SubSeq(shown, r + 1, Len(shown))
    /\ UNCHANGED <<launcher, profiles, selected, index, text, popup, job, launched, disk>>

(* The dialog of a variable, which refuses an empty name or value.         *)
Close == dialog' = "none" /\ row' = 0

create_environment(v) ==
    /\ dialog = "variable" /\ row = 0
    /\ Len(shown) < MaxShown /\ shown' = Append(shown, v) /\ Close
    /\ UNCHANGED <<launcher, profiles, selected, index, text, job, launched, disk>>

apply_edited_environment(v) ==
    /\ dialog = "variable" /\ row # 0
    /\ shown' = [shown EXCEPT ![row] = v] /\ Close
    /\ UNCHANGED <<launcher, profiles, selected, index, text, job, launched, disk>>

CancelDialog ==
    /\ dialog # "none" /\ job = <<>> /\ Close
    /\ UNCHANGED <<launcher, window, job, launched, disk>>

save_settings ==
    /\ dialog = "settings" /\ job = <<>>
    /\ job' = Job("settings", [id |-> Settings, text |-> Bad, env |-> <<>>], "create")
    /\ UNCHANGED <<launcher, window, popup, launched, disk>>

create_profile(i) ==
    /\ dialog = "profile" /\ job = <<>> /\ i \in Fresh
    /\ job' = Job("create", new(i), "dir")
    /\ UNCHANGED <<launcher, window, popup, launched, disk>>

(* Mutant: the profile as it was before the update is written.             *)
save_profileStale ==
    /\ Idle /\ text # Bad
    /\ profiles' = update /\ job' = Job("save", profiles[selected], "create")
    /\ UNCHANGED <<launcher, selected, index, text, shown, popup, launched, disk>>

save_profile ==
    /\ Idle /\ text # Bad
    /\ profiles' = update /\ job' = Job("save", update[selected], "create")
    /\ UNCHANGED <<launcher, selected, index, text, shown, popup, launched, disk>>

(* start_vmm, and run_launcher after the window is gone.                   *)
start_vmm(debug) ==
    /\ Idle /\ text # Bad
    /\ profiles' = update /\ launched' = <<update[index]>>
    /\ launcher' = IF debug THEN "wait" ELSE "vmm"
    /\ UNCHANGED <<selected, index, text, shown, popup, job, disk>>

wait_for_debugger ==
    /\ launcher = "wait" /\ launcher' = "vmm"
    /\ UNCHANGED <<window, popup, job, launched, disk>>

-----------------------------------------------------------------------------
(* Profile::save and Settings::save, one system call at a time.            *)
Running == job # <<>>
Doing == job[1]
Target == Doing.p.id
Shown == [kind |-> "full", text |-> text, env |-> extend_env(shown)]

MakeDir ==
    /\ Running /\ Doing.step = "dir"
    /\ stored' = [stored EXCEPT ![Target].kind = "dir"]
    /\ job' = Job(Doing.what, Doing.p, "create")
    /\ UNCHANGED <<launcher, window, popup, launched, kept, cut>>

CreateFile ==
    /\ Running /\ Doing.step = "create"
    /\ stored' = [stored EXCEPT ![Target] = [NoProfile EXCEPT !.kind = "cut"]]
    /\ job' = Job(Doing.what, Doing.p, "write")
    /\ UNCHANGED <<launcher, window, popup, launched, kept, cut>>

(* Mutant: the row is named in the window and not selected in the model.   *)
PushUnselected(p) ==
    /\ profiles' = Append(profiles, p) /\ index' = Len(profiles) + 1
    /\ UNCHANGED <<selected, text, shown>>

(* The handler's end, once the profile is written.  new_profile selects    *)
(* the row that ProfileModel::push answers.                                *)
Push(p) ==
    /\ profiles' = Append(profiles, p) /\ index' = Len(profiles) + 1
    /\ select(Append(profiles, p), Len(profiles) + 1)

Finished ==
    CASE Doing.what = "create" -> Push(Doing.p)
      [] Doing.what = "default" ->
           profiles' = <<Doing.p>> /\ UNCHANGED <<selected, index, text, shown>>
      [] OTHER -> UNCHANGED window

Write ==
    /\ Running /\ Doing.step = "write"
    /\ stored' = [stored EXCEPT ![Target] = Content(Doing.p)]
    /\ kept' = IF Doing.what = "save" THEN [kept EXCEPT ![profiles[index].id] = Shown]
                                       ELSE [kept EXCEPT ![Target] = Content(Doing.p)]
    /\ cut' = cut \ {Target}
    /\ job' = <<>> /\ dialog' = "none" /\ Finished
    /\ UNCHANGED <<launcher, row, launched>>

(* What the program held is gone when it exits or is killed.               *)
Cut ==
    IF Running /\ Doing.step # "dir"
    THEN cut' = cut \cup {Target} /\ kept' = [kept EXCEPT ![Target] = NoProfile]
    ELSE UNCHANGED <<cut, kept>>

Ends ==
    /\ launcher' = "off" /\ profiles' = <<>> /\ selected' = 0 /\ index' = 0
    /\ text' = DefaultText /\ shown' = <<>> /\ dialog' = "none" /\ row' = 0
    /\ launched' = <<>>

Stop ==
    /\ launcher # "off" /\ Ends /\ job' = <<>> /\ Cut /\ UNCHANGED stored

(* A system call fails.  For the default profile that ends the program; a  *)
(* handler shows the error and leaves its window as it is.                 *)
SaveError ==
    /\ Running /\ Cut /\ job' = <<>> /\ UNCHANGED stored
    /\ IF Doing.what = "default" THEN Ends ELSE UNCHANGED <<launcher, window, popup, launched>>

Save == MakeDir \/ CreateFile \/ Write \/ SaveError

LauncherNext ==
    \/ \E default \in BOOLEAN : Start(default)
    \/ \E i \in Ids : DefaultProfile(i) \/ create_profile(i)
    \/ Open \/ Debug \/ Edit \/ CancelDialog \/ save_settings \/ save_profile
    \/ \E r \in DOMAIN profiles : profile_selected(r)
    \/ settings \/ new_profile \/ new_environment
    \/ \E r \in DOMAIN shown : edit_environment(r) \/ delete_environment(r)
    \/ \E v \in Variables : create_environment(v) \/ apply_edited_environment(v)
    \/ \E debug \in BOOLEAN : start_vmm(debug)
    \/ wait_for_debugger \/ Save \/ Stop

LauncherSpec == LauncherInit /\ [][LauncherNext]_launcherVars

-----------------------------------------------------------------------------
(* What Save reported as saved is what the next start loads: the file of a *)
(* profile holds what the window showed for it then, whatever saves of it  *)
(* or of others failed before, so that a start only fails to load when the *)
(* last save of a file was cut short (Profile::save, Prof::data).          *)
Durable ==
    \A f \in Ids \cup {Settings} :
        f \notin cut /\ ~(Running /\ Target = f) => stored[f] = kept[f]

(* The machine starts with the profile that the window names and with the  *)
(* fields that it shows, saved or not: the row that update writes is the   *)
(* one that run_launcher takes, after any selection, creation or error.    *)
LaunchIsShown ==
    launched # <<>> /\ selected # 0 =>
        launched[1].id = profiles[index].id /\ Content(launched[1]) = Shown
=============================================================================

------------------------------- MODULE Setup -------------------------------
(***************************************************************************)
(* The setup wizard (src/gui/src/setup/mod.rs and linux.rs): it saves the  *)
(* location of the user's data and extracts a firmware dump there, and is  *)
(* skipped by later starts.  The handlers yield while they extract, so the *)
(* program may be killed at any step; what it has written stays on disk.   *)
(*                                                                         *)
(* spawn_handler discards the input of a window while one of its handlers  *)
(* runs, and the progress window cannot be closed.  A handler that rejects *)
(* its input shows an error and changes nothing.                           *)
(*                                                                         *)
(* A location is the text in the window.  The configuration file holds the *)
(* text as it is, and read_data_root removes the white space around it, so *)
(* that the text and what is read back may name two directories.           *)
(***************************************************************************)
EXTENDS Naturals, Sequences, FiniteSets

CONSTANTS
    Roots,   \* texts that name a location
    Dirs,    \* those that name a directory
    Trim,    \* a text without the white space around it
    NoRoot,  \* no text: there is no configuration file, or an empty one
    Dump,    \* the partitions in the firmware dump, in order
    Main,    \* the partition that a start looks for, "md0"
    Items    \* files and directories of a partition

Parts == {Dump[i] : i \in DOMAIN Dump}

ASSUME SetupAssumption ==
    /\ Dump \in Seq(Parts) /\ Main \in Parts
    /\ NoRoot \notin Roots /\ Dirs \subseteq Roots /\ Items \in Nat \ {0}
    /\ Trim \in [Roots -> Roots] /\ \A t \in Roots : Trim[Trim[t]] = Trim[t]

(* A file is created, then its contents are copied.                        *)
Steps == 2 * Items
Creates(step) == step % 2 = 1

VARIABLES
    run,    \* "off", "wizard", "launcher"
    page,   \* SetupWizard's page
    field,  \* its data-root
    opened, \* the location of the DataMgr that run_setup returned
    part,   \* the partition being extracted, 0 if install_firmware does not run
    item,   \* the step of it that is next, 0 before its metadata file exists
    saved,  \* on disk: the configuration file
    meta,   \* on disk: for a location and a partition, its .obp file
    files,  \* on disk: for a location and a partition, the steps that were done
    broken  \* history: locations where an error or a kill ended an installation
            \* after the file that a start looks for was made

setupVars == <<run, page, field, opened, part, item, saved, meta, files, broken>>
setupDisk == <<saved, meta, files, broken>>
form == <<page, field, part, item>>

SetupInit ==
    /\ run = "off" /\ page = "Intro" /\ field = NoRoot /\ opened = NoRoot
    /\ part = 0 /\ item = 0
    /\ saved = NoRoot
    /\ meta = [r \in Dirs |-> [p \in Parts |-> "none"]]
    /\ files = [r \in Dirs |-> [p \in Parts |-> 0]]
    /\ broken = {}

-----------------------------------------------------------------------------
ReadDataRoot == IF saved = NoRoot THEN NoRoot ELSE Trim[saved]

(* meta("md0").is_file().                                                  *)
HasFirmware(r) == r \in Dirs /\ meta[r][Main] # "none"

(* run_setup, up to the wizard.                                            *)
StartSetup ==
    /\ run = "off"
    /\ IF HasFirmware(ReadDataRoot)
       THEN run' = "launcher" /\ opened' = ReadDataRoot
       ELSE run' = "wizard" /\ opened' = NoRoot
    /\ page' = "Intro" /\ field' = ReadDataRoot
    /\ UNCHANGED <<part, item, setupDisk>>

Waiting == run = "wizard" /\ part = 0

(* A directory is chosen in a dialog, or any text typed.                   *)
Browse ==
    /\ Waiting /\ page = "DataRoot" /\ field' \in Roots
    /\ UNCHANGED <<run, page, opened, part, item, setupDisk>>

(* set_data_root, whose write empties the configuration file first.        *)
SetDataRootKeeps ==
    /\ Waiting /\ page = "DataRoot" /\ field \in Dirs
    /\ saved' = IF saved = NoRoot THEN field ELSE saved
    /\ page' = IF HasFirmware(field) THEN "Conclusion" ELSE "Firmware"
    /\ UNCHANGED <<run, field, opened, part, item, meta, files, broken>>

SetDataRoot ==
    /\ Waiting /\ page = "DataRoot" /\ field \in Dirs
    /\ saved' = field
    /\ page' = IF HasFirmware(field) THEN "Conclusion" ELSE "Firmware"
    /\ UNCHANGED <<run, field, opened, part, item, meta, files, broken>>

SetDataRootFails ==
    /\ Waiting /\ page = "DataRoot" /\ field \in Dirs
    /\ saved' = NoRoot
    /\ UNCHANGED <<run, page, field, opened, part, item, meta, files, broken>>

(* The other buttons of the wizard.                                        *)
NextPage ==
    /\ Waiting /\ page = "Intro" /\ page' = "DataRoot"
    /\ UNCHANGED <<run, field, opened, part, item, setupDisk>>

Back ==
    /\ Waiting /\ page \in {"DataRoot", "Firmware"}
    /\ page' = IF page = "DataRoot" THEN "Intro" ELSE "DataRoot"
    /\ UNCHANGED <<run, field, opened, part, item, setupDisk>>

Cancel == Waiting /\ run' = "off" /\ UNCHANGED <<form, opened, setupDisk>>

(* The wizard is closed, and run_setup opens the location on disk; it ends *)
(* in an error when that is no directory.                                  *)
Finish ==
    /\ Waiting /\ page = "Conclusion"
    /\ IF ReadDataRoot \in Dirs
       THEN run' = "launcher" /\ opened' = ReadDataRoot
       ELSE run' = "off" /\ UNCHANGED opened
    /\ UNCHANGED <<form, setupDisk>>

-----------------------------------------------------------------------------
(* install_firmware and extract_partition.  Every file is made with        *)
(* create_new, and an error ends the installation where it is.             *)

Install ==
    /\ Waiting /\ page = "Firmware" /\ part' = 1 /\ item' = 0
    /\ UNCHANGED <<run, page, field, opened, setupDisk>>

Extracting == run = "wizard" /\ part > 0
Break == broken' = IF part > 0 /\ HasFirmware(field) THEN broken \cup {field} ELSE broken
GiveUp ==
    /\ part' = 0 /\ item' = 0 /\ Break
    /\ UNCHANGED <<run, page, field, opened, saved, meta, files>>
Current == Dump[part]

IoError == Extracting /\ GiveUp

MayCreate(exists) == ~exists

(* The metadata database; its contents are committed at the end.           *)
CreateMetaOrSkip ==
    /\ Extracting /\ part <= Len(Dump) /\ item = 0
    /\ IF MayCreate(meta[field][Current] # "none")
       THEN /\ meta' = [meta EXCEPT ![field][Current] = "created"]
            /\ item' = 1 /\ UNCHANGED part
       ELSE part' = part + 1 /\ UNCHANGED <<meta, item>>
    /\ UNCHANGED <<run, page, field, opened, saved, files, broken>>

CreateMeta ==
    /\ Extracting /\ part <= Len(Dump) /\ item = 0
    /\ IF MayCreate(meta[field][Current] # "none")
       THEN /\ meta' = [meta EXCEPT ![field][Current] = "created"]
            /\ item' = 1
            /\ UNCHANGED <<run, page, field, opened, part, saved, files, broken>>
       ELSE GiveUp

MoreItems == item \in 1 .. Steps

ExtractItem ==
    /\ Extracting /\ part <= Len(Dump) /\ MoreItems
    /\ IF Creates(item) => MayCreate(files[field][Current] >= item)
       THEN /\ files' = [files EXCEPT ![field][Current] = item]
            /\ item' = item + 1
            /\ UNCHANGED <<run, page, field, opened, part, saved, meta, broken>>
       ELSE GiveUp

Commit ==
    /\ Extracting /\ part <= Len(Dump) /\ item = Steps + 1
    /\ meta' = [meta EXCEPT ![field][Current] = "committed"]
    /\ part' = part + 1 /\ item' = 0
    /\ UNCHANGED <<run, page, field, opened, saved, files, broken>>

LastPartEarly == Len(Dump) - 1
LastPart == Len(Dump)

InstallEnds ==
    /\ Extracting /\ part > LastPart
    /\ page' = "Conclusion" /\ part' = 0 /\ item' = 0
    /\ UNCHANGED <<run, field, opened, setupDisk>>

(* The program is killed, or exits.                                        *)
StopSetup ==
    /\ run # "off"
    /\ run' = "off" /\ opened' = NoRoot /\ part' = 0 /\ item' = 0 /\ Break
    /\ UNCHANGED <<page, field, saved, meta, files>>

SetupNext ==
    \/ StartSetup \/ Browse \/ SetDataRoot \/ SetDataRootFails \/ NextPage \/ Back \/ Cancel
    \/ Finish \/ Install \/ IoError \/ CreateMeta \/ ExtractItem \/ Commit \/ InstallEnds
    \/ StopSetup

SetupSpec == SetupInit /\ [][SetupNext]_setupVars

-----------------------------------------------------------------------------
(* install_firmware extracts to the location in the window and run_setup   *)
(* opens the one that read_data_root returns: on the pages that lead there *)
(* the latter is the former without the white space around it, however the *)
(* user went back and forth, so that both are one location when its name   *)
(* has none.  The launcher has the location that the next start opens.     *)
RootAgrees ==
    /\ Waiting /\ page \in {"Firmware", "Conclusion"} => ReadDataRoot = Trim[field]
    /\ run = "launcher" => opened = ReadDataRoot /\ opened \in Dirs

Installed(r) ==
    r \in Dirs /\ \A p \in Parts : meta[r][p] = "committed" /\ files[r][p] = Steps

(* install_firmware reports success only when each partition of the dump   *)
(* is whole, whatever errors, kills and earlier attempts have left in the  *)
(* location: it refuses what exists (File::create_new).                    *)
InstallIsWhole ==
    [][page = "Firmware" /\ page' = "Conclusion" => Installed(field)]_setupVars

(* The launcher starts with a whole firmware although run_setup and        *)
(* set_data_root look for one file of it, with two exceptions: an error or *)
(* a kill ended an installation after that file was made, which the        *)
(* program cannot tell from a finished one; and white space around the     *)
(* name of the location made run_setup open another one.                   *)
LaunchIsComplete ==
    run = "launcher" => Installed(opened) \/ opened \in broken \/ Trim[field] # field
=============================================================================

------------------------------ MODULE FakeHalCli ------------------------------
(***************************************************************************)
(* Invocations of the fake_hal.py commands as separate processes sharing  *)
(* the two config files, with nothing ordering them.  An editing command  *)
(* (add_camera, remove_cameras, connect_cameras, disconnect_cameras) does *)
(* _load_config, changes the config in memory, then _save_config: open   *)
(* the file for writing, which truncates it, and write the JSON.  A file *)
(* between the two is empty and json.loads fails on it.  persist checks   *)
(* which file exists and copies or unlinks.  edit_config_with_editor runs *)
(* the editor on the runtime config, then only checks with _load_config  *)
(* that what was saved parses.                                           *)
(*                                                                         *)
(* Running bounds how many invocations are in progress at once: 1 is a    *)
(* user running one command at a time.                                   *)
(***************************************************************************)
EXTENDS FakeHalOps

CONSTANTS Procs,       \* invocation slots: one process at a time each
          Running,     \* invocations in progress at once
          Truncated    \* a config file opened for writing, not yet written

VARIABLES file,       \* /run/camera/fake_hal.json
          persisted,  \* /etc/camera/fake_hal.json
          pc,         \* pc[p]: "idle", "load", "save", "write", "editor",
                      \* "check" or "failed"
          cmd,        \* the command p runs
          selected,   \* the camera ids its filter callback accepts
          local       \* the config p holds in memory, to be saved

vars == <<file, persisted, pc, cmd, selected, local>>

Busy == {p \in Procs : pc[p] \in {"load", "save", "write", "editor", "check"}}

\* A file json.loads rejects: empty, or not JSON.
Unparsable(f) == f \in {Truncated, Invalid}

Size(f) == IF f = Absent \/ Unparsable(f) THEN 0 ELSE Len(f)

\* The most cameras a config written from now on can hold: the longest of
\* the file and the configs held in memory, plus one for every add_camera
\* that has not loaded yet.
PendingAdds == Cardinality({p \in Busy : pc[p] = "load" /\ cmd[p] = "add"})

MostCameras ==
  Max({Size(file)} \cup {Len(local[p]) : p \in {q \in Busy : pc[q] = "save" \/ pc[q] = "write"}})
  + PendingAdds

\* The process p has ended and holds nothing.
Exit(p, how) ==
  /\ pc' = [pc EXCEPT ![p] = how]
  /\ cmd' = [cmd EXCEPT ![p] = "add"]
  /\ selected' = [selected EXCEPT ![p] = {}]
  /\ local' = [local EXCEPT ![p] = EmptyConfig]

Init ==
  /\ file = Absent /\ persisted = Absent
  /\ pc = [p \in Procs |-> "idle"]
  /\ cmd = [p \in Procs |-> "add"]
  /\ selected = [p \in Procs |-> {}]
  /\ local = [p \in Procs |-> EmptyConfig]

\* A command is started.  add_camera is not started when the config it
\* writes could exceed MaxCameras.  The editor command goes to the editor.
Start(p) ==
  /\ pc[p] \in {"idle", "failed"}
  /\ Cardinality(Busy) < Running
  /\ \E c \in Commands \cup {"edit"}, s \in SUBSET Ids :
       /\ c = "add" => MostCameras < MaxCameras
       /\ cmd' = [cmd EXCEPT ![p] = c]
       /\ selected' = [selected EXCEPT ![p] = IF c \in {"add", "edit"} THEN {} ELSE s]
       /\ pc' = [pc EXCEPT ![p] = IF c = "edit" THEN "editor" ELSE "load"]
  /\ UNCHANGED <<file, persisted, local>>

\* config = _load_config() and the change in memory.
Load(p) ==
  /\ pc[p] = "load"
  /\ ~Unparsable(file)
  /\ local' = [local EXCEPT ![p] = Apply(cmd[p], selected[p], LoadConfig(file))]
  /\ pc' = [pc EXCEPT ![p] = "save"]
  /\ UNCHANGED <<file, persisted, cmd, selected>>

\* _load_config on an empty or non-JSON file: json.loads raises and the
\* command exits with the exception, saving nothing.
LoadFails(p) ==
  /\ pc[p] = "load"
  /\ Unparsable(file)
  /\ Exit(p, "failed")
  /\ UNCHANGED <<file, persisted>>

\* _save_config: json.dumps, then open(_CONFIG_PATH, "w") truncates.
SaveOpen(p) ==
  /\ pc[p] = "save"
  /\ file' = Truncated
  /\ pc' = [pc EXCEPT ![p] = "write"]
  /\ UNCHANGED <<persisted, cmd, selected, local>>

\* f.write(config_json)
SaveWrite(p) ==
  /\ pc[p] = "write"
  /\ file' = local[p]
  /\ Exit(p, "idle")
  /\ UNCHANGED persisted

\* persist: shutil.copy2 when the runtime config exists (whatever it holds
\* at that moment), else unlink the persistent config if there is one.
Persist(p) ==
  /\ pc[p] \in {"idle", "failed"}
  /\ Cardinality(Busy) < Running
  /\ persisted' = file
  /\ pc' = [pc EXCEPT ![p] = "idle"]
  /\ UNCHANGED <<file, cmd, selected, local>>

\* subprocess.check_call(editor -- _CONFIG_PATH): the user saves the file
\* (within the MaxCameras bound, counting the adds that will load it) or
\* quits without saving; an editor exiting non-zero raises
\* CalledProcessError and the command ends there.
Editor(p) ==
  /\ pc[p] = "editor"
  /\ file' \in {f \in EditorSaves : Size(f) + PendingAdds <= MaxCameras} \cup {file}
  /\ \/ pc' = [pc EXCEPT ![p] = "check"] /\ UNCHANGED <<cmd, selected, local>>
     \/ Exit(p, "failed")
  /\ UNCHANGED persisted

\* _load_config() after the editor returns: it raises on a file that does
\* not parse, which stays in place; "Config updated" otherwise.
EditCheck(p) ==
  /\ pc[p] = "check"
  /\ Exit(p, IF Unparsable(file) THEN "failed" ELSE "idle")
  /\ UNCHANGED <<file, persisted>>

\* A reboot empties /run and ends every invocation.
Reboot ==
  /\ file' = Absent
  /\ pc' = [p \in Procs |-> "idle"]
  /\ cmd' = [p \in Procs |-> "add"]
  /\ selected' = [p \in Procs |-> {}]
  /\ local' = [p \in Procs |-> EmptyConfig]
  /\ UNCHANGED persisted

Next ==
  \/ \E p \in Procs :
       Start(p) \/ Load(p) \/ LoadFails(p) \/ SaveOpen(p) \/ SaveWrite(p)
       \/ Editor(p) \/ EditCheck(p) \/ Persist(p)
  \/ Reboot

Spec == Init /\ [][Next]_vars

\* The invocation is killed (Ctrl-C, SIGTERM) wherever it is: the with
\* block closes the file as it stands, nothing more is written.
Kill(p) ==
  /\ p \in Busy
  /\ Exit(p, "failed")
  /\ UNCHANGED <<file, persisted>>

\* Commands may be killed part way.
KillSpec == Init /\ [][Next \/ \E p \in Procs : Kill(p)]_vars

\* The runs in which the persistent config is never changed: only the
\* editing commands are used.
EditsOnlySpec == Init /\ [][Next /\ UNCHANGED persisted]_vars

-----------------------------------------------------------------------------
Config == BoundedSeq(Camera, MaxCameras)

TypeOK ==
  /\ file \in Config \cup {Absent, Truncated, Invalid}
  /\ persisted \in Config \cup {Absent, Truncated, Invalid}
  /\ pc \in [Procs -> {"idle", "load", "save", "write", "editor", "check", "failed"}]
  /\ cmd \in [Procs -> Commands \cup {"edit"}]
  /\ selected \in [Procs -> SUBSET Ids]
  /\ local \in [Procs -> Config]

IdsDistinct(f) == f = Absent \/ Unparsable(f) \/ DistinctIds(f)

(* No two cameras of either config file share an id: add_camera picks a  *)
(* free id from the config it loaded, across any sequence of adds and    *)
(* removes, and a persisted copy keeps that.                             *)
UniqueCameraIds == IdsDistinct(file) /\ IdsDistinct(persisted)

\* The runtime config as the atomic commands see it: while a save is in
\* progress, the config being written.
Writer == CHOOSE p \in Procs : pc[p] = "write"
AbsConfig == IF file = Truncated THEN local[Writer] ELSE file

Atomic == INSTANCE FakeHalConfig
            WITH config <- AbsConfig,
                 editors <- Cardinality({p \in Procs : pc[p] = "editor"})

(* Every run of the commands is one where each command loaded, changed   *)
(* and saved the config in a single step: no change made by one command  *)
(* is overwritten by another that loaded the config before it.           *)
AtomicCommands == Atomic!Spec

(* _save_config: "Serialize the config to string first ... so it won't   *)
(* break the config file with a partially written JSON".  No config file  *)
(* is left broken: the runtime config is empty only while a command is    *)
(* between open() and write(), and the persistent copy is never empty.   *)
NoPartiallyWrittenConfig ==
  /\ file = Truncated => \E p \in Procs : pc[p] = "write"
  /\ persisted # Truncated
=============================================================================

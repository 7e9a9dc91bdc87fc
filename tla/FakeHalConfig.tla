---------------------------- MODULE FakeHalConfig ----------------------------
(***************************************************************************)
(* The Fake HAL configuration commands of fake_hal.py, each taken as one  *)
(* atomic step on the two config files: the runtime config                *)
(* /run/camera/fake_hal.json and the persistent copy                      *)
(* /etc/camera/fake_hal.json.  This is what a user running one command at *)
(* a time sees; FakeHalCli splits every command into the file operations  *)
(* the code performs and is checked against this module.                 *)
(***************************************************************************)
EXTENDS FakeHalOps

VARIABLES config,    \* the runtime config file, or Absent
          persisted, \* the persistent config file, or Absent
          editors    \* editor sessions of edit_config_with_editor open

\* A command that edits the runtime config: load, change, save.  add is
\* not run on a config that already holds MaxCameras cameras; on a config
\* that does not parse the command fails and changes nothing.
Edit ==
  /\ config # Invalid
  /\ \E cmd \in Commands, selected \in SUBSET Ids :
       /\ cmd = "add" => Len(LoadConfig(config)) < MaxCameras
       /\ config' = Apply(cmd, selected, LoadConfig(config))
  /\ UNCHANGED <<persisted, editors>>

\* edit_config_with_editor starts the editor on the runtime config.
OpenEditor ==
  /\ editors' = editors + 1
  /\ UNCHANGED <<config, persisted>>

\* The editor ends: the runtime config is whatever the user saved, or is
\* left as it is.
EditWithEditor ==
  /\ editors > 0
  /\ editors' = editors - 1
  /\ config' \in EditorSaves \cup {config}
  /\ UNCHANGED persisted

\* persist: copy the runtime config over the persistent one, or remove the
\* persistent one when there is no runtime config.
Persist ==
  /\ persisted' = config
  /\ UNCHANGED <<config, editors>>

\* /run is a tmpfs: a reboot loses the runtime config.
Reboot ==
  /\ config' = Absent
  /\ editors' = 0
  /\ UNCHANGED persisted

Init == config = Absent /\ persisted = Absent /\ editors = 0

Next == Edit \/ OpenEditor \/ EditWithEditor \/ Persist \/ Reboot

Spec == Init /\ [][Next]_<<config, persisted, editors>>
=============================================================================

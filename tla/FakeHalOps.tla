------------------------------ MODULE FakeHalOps ------------------------------
(***************************************************************************)
(* The config operations of fake_hal.py as operators on a config.  A      *)
(* config is the list config["cameras"]; a camera keeps its "id" and      *)
(* "connected" fields.  Supported formats and frame paths are written     *)
(* once by add_camera and never read back by these commands, so they are *)
(* left out.                                                             *)
(***************************************************************************)
EXTENDS Naturals, Sequences, FiniteSets, SequencesExt

CONSTANTS MaxCameras,  \* cameras a config may hold (bounds add_camera)
          Absent,      \* a file that does not exist
          Invalid      \* a file that is not JSON (json.loads raises)

Ids == 1..MaxCameras

Camera == [id : Ids, connected : BOOLEAN]

\* _EMPTY_CONFIG
EmptyConfig == <<>>

UsedIds(cfg) == {cfg[i].id : i \in DOMAIN cfg}

\* _load_config: a missing file reads as the empty config.
LoadConfig(file) == IF file = Absent THEN EmptyConfig ELSE file

\* Mutant: the next id taken as one past the number of cameras.
GetNextAvailableIdFromCount(cfg) == Len(cfg) + 1

\* Mutant: the search for a free id starts at 0.
GetNextAvailableIdFromZero(cfg) == Min({n \in 0..Len(cfg) : n \notin UsedIds(cfg)})

\* _get_next_available_id: the least id >= 1 not used by a camera.
GetNextAvailableId(cfg) == Min({n \in 1..(Len(cfg) + 1) : n \notin UsedIds(cfg)})

\* add_camera: a new connected camera is appended.
AddCamera(cfg) ==
  Append(cfg, [id |-> GetNextAvailableId(cfg), connected |-> TRUE])

\* remove_cameras: the cameras selected by should_remove are dropped, the
\* others kept in order.
RemoveCameras(cfg, selected) ==
  SelectSeq(cfg, LAMBDA c : c.id \notin selected)

\* connect_cameras / disconnect_cameras: the selected cameras get the new
\* connected value (those already at it are left as they are).
SetConnected(cfg, selected, value) ==
  [i \in DOMAIN cfg |->
     IF cfg[i].id \in selected THEN [cfg[i] EXCEPT !.connected = value]
                               ELSE cfg[i]]

\* The config a command writes, from the config it loaded.
Apply(cmd, selected, cfg) ==
  CASE cmd = "add"        -> AddCamera(cfg)
    [] cmd = "remove"     -> RemoveCameras(cfg, selected)
    [] cmd = "connect"    -> SetConnected(cfg, selected, TRUE)
    [] cmd = "disconnect" -> SetConnected(cfg, selected, FALSE)

Commands == {"add", "remove", "connect", "disconnect"}

DistinctIds(cfg) == \A i, j \in DOMAIN cfg : cfg[i].id = cfg[j].id => i = j

\* What the user may save from the editor of edit_config_with_editor: a
\* config whose camera ids are distinct (the schema its TODO would
\* validate is assumed kept), or text with a JSON syntax error.
EditorSaves == {c \in BoundedSeq(Camera, MaxCameras) : DistinctIds(c)} \cup {Invalid}

=============================================================================

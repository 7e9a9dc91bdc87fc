------------------------------ MODULE MC_FakeHal ------------------------------
(***************************************************************************)
(* Three camera ids are enough for a remove to free an id below the       *)
(* largest one in use, so that add_camera must reuse it.  Two invocation  *)
(* slots with Running = 2 let a command load while another saves.         *)
(***************************************************************************)
EXTENDS FakeHalCli

CONSTANTS p1, p2

OneProc == {p1}
TwoProcs == {p1, p2}
=============================================================================

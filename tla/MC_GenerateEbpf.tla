---------------------------- MODULE MC_GenerateEbpf ----------------------------
(***************************************************************************)
(* Banner numbers around the edges of linux_version_code: a patch level   *)
(* of 255, sub-levels of 255 and past it; dumps of up to three lines, so  *)
(* that one may hold no guard line, or two.                               *)
(***************************************************************************)
EXTENDS GenerateEbpf

MCVersions == {5, 6}
MCPatchLevels == {0, 1, 255}
MCSubLevels == {0, 255, 300}
=============================================================================

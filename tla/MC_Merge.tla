------------------------------- MODULE MC_Merge -------------------------------
(***************************************************************************)
(* design_list, whose key is lowercased, and components, whose key is the *)
(* id itself.  Two names, each upper or lower case, and lists of up to     *)
(* two elements: enough for ids that differ only in case, for an id in    *)
(* both bundles and for an id twice in the backfilled list.               *)
(***************************************************************************)
EXTENDS MergeConfigBundles

MCFields == <<"components", "design_list">>
=============================================================================

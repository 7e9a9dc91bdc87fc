------------------------ MODULE MC_CrossVersionLogin ------------------------
(***************************************************************************)
(* Two images: enough for one image's VM to be up when the next one's    *)
(* start_vm comes, and for the check of the second image to matter to    *)
(* the first image's run.                                                *)
(***************************************************************************)
EXTENDS CrossVersionLogin

CONSTANTS im1, im2

TwoImages == <<im1, im2>>
=============================================================================

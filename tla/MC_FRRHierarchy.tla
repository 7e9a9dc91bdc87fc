------------------------- MODULE MC_FRRHierarchy -------------------------
(***************************************************************************)
(* Two users, two fingers, two samples; the row pool holds two genuine   *)
(* false rejects on different users and fingers, a genuine accept, and a *)
(* rejected impostor attempt that check() must refuse in an FRR table,  *)
(* and an impostor attempt against the template and sample of the first *)
(* false reject, which the (user, finger, sample) projection merges.    *)
(***************************************************************************)
EXTENDS BootstrapFRRHierarchy

MCUsers == {1, 2}
MCFingers == {1, 2}
MCSamples == {1, 2}

Row(eu, ef, vu, vf, vs, d) ==
  [EnrollUser |-> eu, EnrollFinger |-> ef, VerifyUser |-> vu,
   VerifyFinger |-> vf, VerifySample |-> vs, Decision |-> d]

MCFRRRows ==
  { Row(1, 2, 1, 2, 1, "REJECT"),
    Row(2, 1, 2, 1, 2, "REJECT"),
    Row(1, 1, 1, 1, 2, "ACCEPT"),
    Row(2, 2, 1, 2, 1, "REJECT"),
    Row(1, 2, 2, 2, 1, "REJECT") }
=============================================================================

------------------------- MODULE MC_FARHierarchy -------------------------
(***************************************************************************)
(* Two users, two fingers and one verification sample: enough for a      *)
(* template user equal to the verifying user, for two finger orders, and *)
(* for every table over the row pool below (one impostor false accept    *)
(* per user pair, one genuine row that check() must reject, one          *)
(* same-user row with another finger that it accepts, and one rejected   *)
(* impostor row).                                                        *)
(***************************************************************************)
EXTENDS BootstrapFARHierarchy

MCUsers == {1, 2}
MCFingers == {1, 2}
MCSamples == {1}

Row(eu, ef, vu, vf, vs, d) ==
  [EnrollUser |-> eu, EnrollFinger |-> ef, VerifyUser |-> vu,
   VerifyFinger |-> vf, VerifySample |-> vs, Decision |-> d]

MCFARRows ==
  { Row(1, 1, 2, 2, 1, "ACCEPT"),
    Row(2, 1, 1, 1, 1, "ACCEPT"),
    Row(1, 1, 1, 1, 1, "ACCEPT"),
    Row(1, 2, 1, 1, 1, "ACCEPT"),
    Row(2, 2, 1, 2, 1, "REJECT") }
=============================================================================

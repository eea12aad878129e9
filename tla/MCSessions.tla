----------------------------- MODULE MCSessions -----------------------------
(* Values of the constants of Sessions for model checking.  The devices    *)
(* are alike.                                                              *)
EXTENDS Sessions

MCFields == {"password", "totalExp", "latitude", "longitude"}
MCSymmetry == Permutations(Devices)
=============================================================================

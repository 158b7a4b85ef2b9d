---------------------------- MODULE MCAdmission -----------------------------
(* Small instances of Admission.                                           *)
EXTENDS Admission, TLC

Symmetry == Permutations(Req) \cup Permutations(IP)
=============================================================================

----------------------------- MODULE MCUpgrade ------------------------------
(* Small instances of Upgrade.                                             *)
EXTENDS Upgrade, TLC
=============================================================================

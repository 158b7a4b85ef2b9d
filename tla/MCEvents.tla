------------------------------ MODULE MCEvents ------------------------------
(* Small instances of Events.                                              *)
EXTENDS Events, TLC
=============================================================================

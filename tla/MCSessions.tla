----------------------------- MODULE MCSessions -----------------------------
(* Small instances of Sessions.  The bound is the number of connections a  *)
(* behaviour creates; histories stay small with it.                        *)
EXTENDS Sessions, TLC

(* Sessions, namespaces and connections are interchangeable.               *)
Symmetry == Permutations(Session) \cup Permutations(NS) \cup Permutations(Conn)

=============================================================================

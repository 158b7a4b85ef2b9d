------------------------------ MODULE MCRooms -------------------------------
(* Small instances of Rooms.                                               *)
EXTENDS Rooms, TLC

InTurn == [solo |-> TRUE, each |-> FALSE, max |-> 2]
AllAtOnce == [solo |-> FALSE, each |-> FALSE, max |-> 1]
EachInTurn == [solo |-> FALSE, each |-> TRUE, max |-> 1]
Every == {InTurn, AllAtOnce, EachInTurn}
OnlyEach == {EachInTurn}

Symmetry == Permutations(Room) \cup Permutations(Conn) \cup Permutations(Thread)

(* Room objects that neither the map nor a thread refers to are garbage:   *)
(* states that differ in their members only are one state.                 *)
View == <<mode, index, [o \in Obj \ Unused |-> members[o]], mgMu, joined, pc, arg, todo,
          got, stay, stale>>
=============================================================================

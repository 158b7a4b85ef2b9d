----------------------------- MODULE Membership -----------------------------
(***************************************************************************)
(* What rooms.Manager promises to callers that take turns: membership is a *)
(* relation, and a call for a connection changes the rooms of that         *)
(* connection only, one room in one step.                                  *)
(***************************************************************************)
CONSTANTS Room, Conn, NONE,
  MayClear   \* Clear is used
VARIABLES
  in,    \* the pairs <<room, connection>>
  who    \* the connection the call under way is for

vars == <<in, who>>

Init == in = {} /\ who = NONE

Begin(c) == who = NONE /\ who' = c /\ UNCHANGED in
End      == who # NONE /\ who' = NONE /\ UNCHANGED in

Join(r) ==
  /\ who # NONE
  /\ in' = in \cup {<<r, who>>}
  /\ who' = NONE

(* Also a step of LeaveAll, which takes one room after the other.          *)
Leave(r) ==
  /\ who # NONE
  /\ in' = in \ {<<r, who>>}
  /\ UNCHANGED who

Clear(r) ==
  /\ MayClear /\ who = NONE
  /\ in' = {p \in in : p[1] # r}
  /\ UNCHANGED who

Next ==
  \/ \E c \in Conn : Begin(c)
  \/ End
  \/ \E r \in Room : Join(r) \/ Leave(r) \/ Clear(r)

Spec == Init /\ [][Next]_vars
=============================================================================

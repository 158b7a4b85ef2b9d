------------------------------ MODULE Lifecycle -----------------------------
(***************************************************************************)
(* What server.Server promises of its connections, whatever peers, the     *)
(* application and Server.Close do at the same time: a connection comes    *)
(* once, to a place (a session and a namespace) that no other has, and     *)
(* goes once; OnDisconnect is called for those only that have gone, once   *)
(* for each, and once more for its Close and for its refusal.              *)
(***************************************************************************)
EXTENDS Naturals

CONSTANTS Session, NS, Conn, NONE

VARIABLES
  state,    \* "new", "connected" or "gone", for each connection
  place,    \* its session and namespace, each NONE while it is new
  closed,   \* those that Close was called for
  refused,  \* those that OnConnect refused
  calls     \* of OnDisconnect, for each connection

vars == <<state, place, closed, refused, calls>>

Init ==
  /\ state = [c \in Conn |-> "new"]
  /\ place = [c \in Conn |-> <<NONE, NONE>>]
  /\ closed = {} /\ refused = {}
  /\ calls = [c \in Conn |-> 0]

Connected == {c \in Conn : state[c] = "connected"}

Open(c, s, n) ==
  /\ state[c] = "new"
  /\ \A d \in Connected : place[d] # <<s, n>>
  /\ state' = [state EXCEPT ![c] = "connected"]
  /\ place' = [place EXCEPT ![c] = <<s, n>>]
  /\ UNCHANGED <<closed, refused, calls>>

Go(C) ==
  /\ state' = [c \in Conn |-> IF c \in C THEN "gone" ELSE state[c]]
  /\ UNCHANGED <<place, closed, refused, calls>>

(* One goes, or all those of a session.                                    *)
End(c) == c \in Connected /\ Go({c})
EndAll(s) == Go({c \in Connected : place[c][1] = s})

(* Close asks for one more call, and so does a refusal.                    *)
Close(c) ==
  /\ state[c] # "new" /\ c \notin closed
  /\ closed' = closed \cup {c}
  /\ UNCHANGED <<state, place, refused, calls>>

Refuse(c) ==
  /\ state[c] # "new" /\ c \notin refused
  /\ refused' = refused \cup {c}
  /\ UNCHANGED <<state, place, closed, calls>>

Asked(c) == (IF c \in closed THEN 1 ELSE 0) + (IF c \in refused THEN 1 ELSE 0)

OnDisconnect(c) ==
  /\ state[c] = "gone" /\ calls[c] <= Asked(c)
  /\ calls' = [calls EXCEPT ![c] = @ + 1]
  /\ UNCHANGED <<state, place, closed, refused>>

Next ==
  \/ \E c \in Conn :
       \/ \E s \in Session, n \in NS : Open(c, s, n)
       \/ End(c) \/ Close(c) \/ Refuse(c) \/ OnDisconnect(c)
  \/ \E s \in Session : EndAll(s)

Spec == Init /\ [][Next]_vars
=============================================================================

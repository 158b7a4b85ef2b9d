------------------------------- MODULE Rooms --------------------------------
(***************************************************************************)
(* Rooms of one namespace: rooms/rooms.go under the calls that             *)
(* server/server.go makes of it (conn.Join, Leave, leaveAll, Server's      *)
(* ClearRoom, ToRoom, ToNamespace).                                        *)
(*                                                                         *)
(* A room is an object with members and a lock of its own, found by name   *)
(* in the manager's map under mg.mu.  Manager.Join fetches the object      *)
(* under mg.mu and adds to it later, under the room's lock only; Leave and *)
(* LeaveAll keep mg.mu while they remove a member, look whether the room   *)
(* is empty and delete it from the map.  conn.joined is a third record,    *)
(* under roomMu.  A step is one critical section of a thread.              *)
(***************************************************************************)
EXTENDS Naturals, FiniteSets

CONSTANTS
  Room,      \* room names, "" left out
  Conn,      \* connections of the namespace
  Obj,       \* room objects: a bound on those in use at once
  Thread,    \* goroutines that call into rooms, one call at a time
  Modes,     \* whether all mutating calls take turns, or those for one
             \* connection, or none do, and MaxRoomsPerConn
  NONE,
  Ops        \* the operations the application uses

ASSUME RoomsAssumption ==
  /\ Modes \subseteq [solo : BOOLEAN, each : BOOLEAN, max : Nat \ {0}]
  /\ NONE \notin Room \cup Conn \cup Obj \cup Thread
  /\ Ops \subseteq {"join", "leave", "leaveAll", "clear", "send", "sendAll"}

VARIABLES
  mode,     \* one of the Modes
  index,    \* Manager.rooms: name -> object
  members,  \* room.members of each object
  mgMu,     \* who keeps mg.mu from one step to the next
  joined,   \* conn.joined
  pc,       \* where each thread is
  arg,      \* the connection, room and object it works with
  todo,     \* the room names (Leave, LeaveAll) or objects (Send, SendAll) left
  got,      \* history: Emit calls of the thread's current broadcast
  stay,     \* history: <<connection, room>> unbroken since that broadcast began
  stale     \* history, solo: <<connection, room>> a Clear has parted, as yet
            \* not left by the connection

vars == <<mode, index, members, mgMu, joined, pc, arg, todo, got, stay, stale>>

PCs == {"idle", "lookup", "add", "lock", "sweep", "check", "delete", "reset", "send"}
NoArg == [c |-> NONE, r |-> NONE, o |-> NONE]
MembersOf(r) == IF index[r] = NONE THEN {} ELSE members[index[r]]

Init ==
  /\ mode \in Modes
  /\ index = [r \in Room |-> NONE]
  /\ members = [o \in Obj |-> {}]
  /\ mgMu = NONE
  /\ joined = [c \in Conn |-> {}]
  /\ pc = [t \in Thread |-> "idle"]
  /\ arg = [t \in Thread |-> NoArg]
  /\ todo = [t \in Thread |-> {}]
  /\ got = [t \in Thread |-> [c \in Conn |-> 0]]
  /\ stay = [t \in Thread |-> {}]
  /\ stale = {}

Goto(t, l) == pc' = [pc EXCEPT ![t] = l]
Step(t, l, m) == pc[t] = l /\ Goto(t, m)
Free == mgMu = NONE

(* Threads in a call that changes rooms, the connections they call for,    *)
(* and whether one more may begin for c (NONE for Clear).                  *)
Changing == {t \in Thread : pc[t] \notin {"idle", "send"}}
Busy == {arg[t].c : t \in Changing}
MayChange(c) == (mode.solo => Changing = {}) /\ (mode.each => c \notin Busy)

-----------------------------------------------------------------------------
(* conn.Join.                                                              *)

(* Under roomMu: a room already joined, or one too many, ends the call.    *)
Join(t, c, r) ==
  /\ "join" \in Ops /\ MayChange(c)
  /\ r \notin joined[c] /\ Cardinality(joined[c]) < mode.max
  /\ Step(t, "idle", "lookup")
  /\ joined' = [joined EXCEPT ![c] = @ \cup {r}]
  /\ arg' = [arg EXCEPT ![t] = [c |-> c, r |-> r, o |-> NONE]]
  /\ UNCHANGED <<index, members, mgMu, todo, got>>

Unused == {o \in Obj : (\A r \in Room : index[r] # o) /\ (\A t \in Thread : arg[t].o # o)
                       /\ \A t \in Thread : o \notin todo[t]}

(* Manager.Join under mg.mu: the room's object, made if there is none.     *)
Lookup(t) ==
  LET r == arg[t].r IN
  /\ Free
  /\ Step(t, "lookup", "add")
  /\ \/ /\ index[r] # NONE
        /\ arg' = [arg EXCEPT ![t].o = index[r]]
        /\ UNCHANGED <<index, members>>
     \/ /\ index[r] = NONE /\ Unused # {}
        /\ LET o == CHOOSE o \in Unused : TRUE IN
             /\ index' = [index EXCEPT ![r] = o]
             /\ members' = [members EXCEPT ![o] = {}]
             /\ arg' = [arg EXCEPT ![t].o = o]
  /\ UNCHANGED <<mgMu, joined, todo, got>>

(* room.add, without mg.mu: the object may have left the map meanwhile.    *)
Add(t) ==
  /\ Step(t, "add", "idle")
  /\ members' = [members EXCEPT ![arg[t].o] = @ \cup {arg[t].c}]
  /\ arg' = [arg EXCEPT ![t] = NoArg]
  /\ UNCHANGED <<index, mgMu, joined, todo, got>>

-----------------------------------------------------------------------------
(* conn.Leave and conn.leaveAll: the latter resets conn.joined at the end. *)

Leave(t, c, r) ==
  /\ "leave" \in Ops /\ MayChange(c)
  /\ Step(t, "idle", "lock")
  /\ joined' = [joined EXCEPT ![c] = @ \ {r}]
  /\ arg' = [arg EXCEPT ![t] = [c |-> c, r |-> r, o |-> NONE]]
  /\ UNCHANGED <<index, members, mgMu, todo, got>>

LeaveAll(t, c) ==
  /\ "leaveAll" \in Ops /\ MayChange(c)
  /\ Step(t, "idle", "lock")
  /\ arg' = [arg EXCEPT ![t] = [c |-> c, r |-> NONE, o |-> NONE]]
  /\ UNCHANGED <<index, members, mgMu, joined, todo, got>>

(* mg.mu.Lock.  Mutant: it is forgotten.                                   *)
NotTaken(t) == NONE
Taken(t) == t

(* Manager.Leave, LeaveAll: mg.mu is taken and kept.                       *)
Lock(t) ==
  /\ Free
  /\ Step(t, "lock", "sweep")
  /\ mgMu' = Taken(t)
  /\ todo' = [todo EXCEPT ![t] =
       {r \in Room : index[r] # NONE /\ (arg[t].r = NONE \/ arg[t].r = r)}]
  /\ UNCHANGED <<index, members, joined, arg, got>>

(* room.remove for the next room in hand; none left releases mg.mu.        *)
Sweep(t) ==
  /\ pc[t] = "sweep"
  /\ \/ \E r \in todo[t] :
          /\ members' = [members EXCEPT ![index[r]] = @ \ {arg[t].c}]
          /\ arg' = [arg EXCEPT ![t].o = index[r]]
          /\ Goto(t, "check")
          /\ UNCHANGED mgMu
     \/ /\ todo[t] = {}
        /\ mgMu' = NONE
        /\ Goto(t, IF arg[t].r = NONE THEN "reset" ELSE "idle")
        /\ arg' = IF arg[t].r = NONE THEN arg ELSE [arg EXCEPT ![t] = NoArg]
        /\ UNCHANGED members
  /\ UNCHANGED <<index, joined, todo, got>>

(* Mutants: an empty room is kept; any room is deleted.                    *)
EmptyKept(o) == FALSE
AnyDeleted(o) == TRUE
EmptyDeleted(o) == members[o] = {}

(* room.len under the room's lock: whether it is to be deleted.            *)
Check(t) ==
  /\ pc[t] = "check"
  /\ \/ EmptyDeleted(arg[t].o) /\ Goto(t, "delete") /\ UNCHANGED todo
     \/ /\ ~EmptyDeleted(arg[t].o)
        /\ todo' = [todo EXCEPT ![t] = {r \in @ : index[r] # arg[t].o}]
        /\ Goto(t, "sweep")
  /\ UNCHANGED <<index, members, mgMu, joined, arg, got>>

Delete(t) ==
  /\ Step(t, "delete", "sweep")
  /\ index' = [r \in Room |-> IF index[r] = arg[t].o THEN NONE ELSE index[r]]
  /\ todo' = [todo EXCEPT ![t] = {r \in @ : index[r] # arg[t].o}]
  /\ UNCHANGED <<members, mgMu, joined, arg, got>>

(* Mutant: conn.joined stays as it is.                                     *)
JoinedKept(c) == joined
JoinedReset(c) == [joined EXCEPT ![c] = {}]

Reset(t) ==
  /\ Step(t, "reset", "idle")
  /\ joined' = JoinedReset(arg[t].c)
  /\ arg' = [arg EXCEPT ![t] = NoArg]
  /\ UNCHANGED <<index, members, mgMu, todo, got>>

-----------------------------------------------------------------------------
(* Manager.Clear: conn.joined of the members is left as it is.             *)

Clear(t, r) ==
  /\ "clear" \in Ops /\ MayChange(NONE) /\ Free
  /\ pc[t] = "idle"
  /\ index' = [index EXCEPT ![r] = NONE]
  /\ UNCHANGED <<members, mgMu, joined, pc, arg, todo, got>>

-----------------------------------------------------------------------------
(* Broadcasts.  The rooms are listed under mg.mu, each room's members are  *)
(* listed under its lock, and Emit is called outside both.                 *)

(* Send, to one room but for the connection `skip` (NONE for nobody).      *)
Send(t, r, skip) ==
  /\ "send" \in Ops /\ Free
  /\ Step(t, "idle", "send")
  /\ todo' = [todo EXCEPT ![t] = {index[r]} \ {NONE}]
  /\ arg' = [arg EXCEPT ![t] = [c |-> skip, r |-> r, o |-> NONE]]
  /\ UNCHANGED <<index, members, mgMu, joined, got>>

SendAll(t) ==
  /\ "sendAll" \in Ops /\ Free
  /\ Step(t, "idle", "send")
  /\ todo' = [todo EXCEPT ![t] = {index[r] : r \in Room} \ {NONE}]
  /\ UNCHANGED <<index, members, mgMu, joined, arg, got>>

(* Mutant: SendAll keeps no record of whom it has sent to.                 *)
SkippedOnly(t, c) == c = arg[t].c
Skipped(t, c) == c = arg[t].c \/ got[t][c] > 0

SendRoom(t) ==
  /\ pc[t] = "send"
  /\ \/ \E o \in todo[t] :
          /\ got' = [got EXCEPT ![t] =
               [c \in Conn |-> IF c \in members[o] /\ ~Skipped(t, c) THEN @[c] + 1 ELSE @[c]]]
          /\ todo' = [todo EXCEPT ![t] = @ \ {o}]
          /\ UNCHANGED <<pc, arg>>
     \/ /\ todo[t] = {}
        /\ Goto(t, "idle")
        /\ arg' = [arg EXCEPT ![t] = NoArg]
        /\ got' = [got EXCEPT ![t] = [c \in Conn |-> 0]]
        /\ UNCHANGED todo
  /\ UNCHANGED <<index, members, mgMu, joined>>

-----------------------------------------------------------------------------
Call(t) ==
  \/ \E c \in Conn : LeaveAll(t, c) \/ \E r \in Room : Join(t, c, r) \/ Leave(t, c, r)
  \/ \E r \in Room : Clear(t, r) \/ \E skip \in Conn \cup {NONE} : Send(t, r, skip)
  \/ SendAll(t)

Continue(t) ==
  \/ Lookup(t) \/ Add(t) \/ Lock(t) \/ Sweep(t) \/ Check(t) \/ Delete(t)
  \/ Reset(t) \/ SendRoom(t)

(* The pairs a broadcast began with, for as long as they last; and those   *)
(* that conn.joined alone still has.                                       *)
Watch ==
  /\ stay' = [t \in Thread |->
       LET here == {p \in Conn \X Room : p[1] \in MembersOf(p[2])'} IN
       IF pc'[t] # "send" THEN {}
       ELSE IF pc[t] = "send" THEN stay[t] \cap here
       ELSE {p \in here : arg'[t].r \in {NONE, p[2]} /\ arg'[t].c # p[1]}]
  /\ stale' = IF ~mode.solo THEN {}
              ELSE LET parted == {r \in Room : Changing = {} /\ Changing' = {}
                                               /\ index[r] # NONE /\ index'[r] = NONE} IN
                   {p \in stale \cup {q \in Conn \X parted : q[1] \in MembersOf(q[2])} :
                      p[2] \in joined'[p[1]]}

Next == (\E t \in Thread : Call(t) \/ Continue(t)) /\ Watch /\ UNCHANGED mode

Spec == Init /\ [][Next]_vars

-----------------------------------------------------------------------------
(* Properties.                                                             *)

(* Every variable has its type.  A connection's list of rooms stays within *)
(* MaxRoomsPerConn however many goroutines join for it at once, and mg.mu  *)
(* is kept exactly by the thread that is removing members.                 *)
TypeOK ==
  /\ mode \in Modes
  /\ index \in [Room -> Obj \cup {NONE}]
  /\ members \in [Obj -> SUBSET Conn]
  /\ mgMu \in Thread \cup {NONE}
  /\ joined \in [Conn -> {S \in SUBSET Room : Cardinality(S) <= mode.max}]
  /\ pc \in [Thread -> PCs]
  /\ arg \in [Thread -> [c : Conn \cup {NONE}, r : Room \cup {NONE}, o : Obj \cup {NONE}]]
  /\ todo \in [Thread -> SUBSET (Room \cup Obj)]
  /\ got \in [Thread -> [Conn -> Nat]]
  /\ stay \in [Thread -> SUBSET (Conn \X Room)]
  /\ stale \subseteq Conn \X Room
  /\ \A t \in Thread : pc[t] \in {"sweep", "check", "delete"} <=> mgMu = t

(* An empty room does not linger in Manager.Names: one that is empty is    *)
(* about to get the member it was made for, or about to be deleted.        *)
NoEmptyRoomLingers ==
  \A r \in Room : index[r] # NONE /\ MembersOf(r) = {} =>
    \E t \in Thread : arg[t].o = index[r] /\ pc[t] \in {"add", "check", "delete"}

(* A broadcast calls Emit once for every connection that is in a room it   *)
(* addresses from its first to its last step, at most once for one that is *)
(* in several or moves meanwhile, and not for the one to skip.             *)
BroadcastExact ==
  [][\A t \in Thread : pc[t] = "send" /\ pc'[t] = "idle" =>
       /\ \A p \in stay[t] : got[t][p[1]] = 1
       /\ \A c \in Conn : got[t][c] <= IF c = arg[t].c THEN 0 ELSE 1]_vars

(* Whoever has joined a room is a member of it, once the call is over and  *)
(* until the next call for the same connection, if ClearRoom is not used.  *)
(* It does not hold, not even when the calls for each connection take      *)
(* turns: a Leave of another connection between the halves of a Join       *)
(* deletes the room object that the Join adds to.                          *)
JoinedIsMember ==
  \A c \in Conn \ Busy, r \in Room : r \in joined[c] => c \in MembersOf(r)

(* When all calls take turns, conn.Rooms lists what the manager has and,   *)
(* until the connection leaves them, the rooms that ClearRoom took it out  *)
(* of: those it is not in, however it and others join and leave meanwhile. *)
(* When only the calls for each connection do, and those for others race   *)
(* them, a connection is still in no room that it does not list: leaving   *)
(* ends its membership, whatever happens to the objects of the rooms.      *)
TurnsInSync ==
  /\ mode.solo /\ Changing = {} =>
       \A c \in Conn, r \in Room :
         r \in joined[c] <=> (c \in MembersOf(r)) # (<<c, r>> \in stale)
  /\ mode.each => \A c \in Conn \ Busy, r \in Room : c \in MembersOf(r) => r \in joined[c]

(* And they get what Membership promises: no call takes a connection out   *)
(* of a room but its own Leave or LeaveAll, or a Clear, whoever broadcasts *)
(* at the same time.                                                       *)
Promise == INSTANCE Membership WITH
             MayClear <- "clear" \in Ops,
             in <- {p \in Room \X Conn : mode.solo /\ p[2] \in MembersOf(p[1])},
             who <- IF mode.solo /\ Changing # {}
                    THEN arg[CHOOSE t \in Changing : TRUE].c ELSE NONE
RefinesMembership == Promise!Spec
=============================================================================

---------------------------- MODULE RoomsProofs -----------------------------
(***************************************************************************)
(* Theorems about Rooms, for any number of rooms, connections and threads: *)
(* no empty room lingers and every broadcast is exact; and when the calls  *)
(* that change rooms take turns, conn.joined and the manager agree, and    *)
(* membership changes as Membership says, whoever broadcasts meanwhile;    *)
(* when only those for each connection do, it is in no room it left.       *)
(***************************************************************************)
EXTENDS Rooms, FiniteSetTheorems, TLAPS

USE RoomsAssumption

Arg == [c : Conn \cup {NONE}, r : Room \cup {NONE}, o : Obj \cup {NONE}]

-----------------------------------------------------------------------------
(* Types.                                                                  *)

(* What a thread has in hand where it is, and the lists of rooms that      *)
(* TypeOK counts are finite.                                               *)
InHand ==
  /\ \A c \in Conn : IsFiniteSet(joined[c])
  /\ \A t \in Thread :
       /\ pc[t] = "idle" => arg[t] = NoArg
       /\ pc[t] \notin {"idle", "send"} => arg[t].c \in Conn
       /\ pc[t] \in {"lookup", "add"} => arg[t].r \in Room
       /\ pc[t] = "reset" => arg[t].r = NONE
       /\ pc[t] \in {"add", "check", "delete"} => arg[t].o \in Obj
       /\ pc[t] \in {"sweep", "check", "delete"} => todo[t] \subseteq {r \in Room : index[r] # NONE}

Hands == TypeOK /\ InHand

(* Every action but for Watch.                                             *)
Act(t) == Call(t) \/ Continue(t)

LEMMA NextAct ==
  ASSUME [Next]_vars
  PROVE  UNCHANGED vars \/ \E t \in Thread : Act(t) /\ Watch /\ mode' = mode
  BY DEF Next, Act

LEMMA NoArgType == NoArg \in Arg
  BY DEF NoArg, Arg

LEMMA ObjType ==
  ASSUME NEW a \in Arg, NEW o \in Obj \cup {NONE}
  PROVE  [a EXCEPT !.o = o] \in Arg
  BY DEF Arg

LEMMA GotoStep ==
  ASSUME TypeOK, NEW t \in Thread, NEW l \in PCs, Goto(t, l)
  PROVE  /\ pc' \in [Thread -> PCs]
         /\ pc'[t] = l
         /\ \A u \in Thread \ {t} : pc'[u] = pc[u]
  BY DEF TypeOK, Goto

LEMMA WatchType ==
  ASSUME TypeOK, Watch
  PROVE  stay' \in [Thread -> SUBSET (Conn \X Room)] /\ stale' \subseteq Conn \X Room
<1>1. stay' \in [Thread -> SUBSET (Conn \X Room)]
  BY DEF Watch, TypeOK
<1>2. stale' \subseteq Conn \X Room
  BY DEF Watch, TypeOK
<1> QED
  BY <1>1, <1>2

Fresh == CHOOSE o \in Unused : TRUE

LEMMA FreshUnused == ASSUME Unused # {} PROVE Fresh \in Obj /\ Fresh \in Unused
  BY DEF Unused, Fresh

(* conn.joined within MaxRoomsPerConn.                                     *)
Lists == {S \in SUBSET Room : Cardinality(S) <= mode.max}

LEMMA OneRoomMore ==
  ASSUME Hands, NEW c \in Conn, NEW r \in Room,
         r \notin joined[c], Cardinality(joined[c]) < mode.max
  PROVE  joined[c] \cup {r} \in Lists /\ IsFiniteSet(joined[c] \cup {r})
<1>1. IsFiniteSet(joined[c]) /\ joined[c] \subseteq Room /\ mode.max \in Nat
  BY DEF Hands, InHand, TypeOK
<1>2. Cardinality(joined[c]) \in Nat
  BY <1>1, FS_CardinalityType
<1>3. IsFiniteSet(joined[c] \cup {r}) /\ Cardinality(joined[c] \cup {r}) = Cardinality(joined[c]) + 1
  BY <1>1, FS_AddElement
<1> QED
  BY <1>1, <1>2, <1>3 DEF Lists

LEMMA RoomsLess ==
  ASSUME Hands, NEW c \in Conn, NEW S \in SUBSET joined[c]
  PROVE  S \in Lists /\ IsFiniteSet(S)
<1>1. /\ IsFiniteSet(joined[c]) /\ joined[c] \subseteq Room /\ mode.max \in Nat
      /\ Cardinality(joined[c]) <= mode.max
  BY DEF Hands, InHand, TypeOK
<1>2. /\ IsFiniteSet(S) /\ Cardinality(S) <= Cardinality(joined[c])
      /\ Cardinality(S) \in Nat /\ Cardinality(joined[c]) \in Nat
  BY <1>1, FS_Subset, FS_CardinalityType
<1> QED
  BY <1>1, <1>2 DEF Lists

Typed ==
  /\ index \in [Room -> Obj \cup {NONE}]
  /\ members \in [Obj -> SUBSET Conn]
  /\ mgMu \in Thread \cup {NONE}
  /\ joined \in [Conn -> Lists]
  /\ pc \in [Thread -> PCs]
  /\ arg \in [Thread -> Arg]
  /\ todo \in [Thread -> SUBSET (Room \cup Obj)]
  /\ got \in [Thread -> [Conn -> Nat]]
  /\ \A t \in Thread : pc[t] \in {"sweep", "check", "delete"} <=> mgMu = t

LEMMA TypedOK ==
  Hands <=> /\ Typed /\ InHand /\ mode \in Modes
            /\ stay \in [Thread -> SUBSET (Conn \X Room)] /\ stale \subseteq Conn \X Room
  BY DEF Hands, TypeOK, Typed, Arg, Lists

(* What Join and Leave do to all but conn.joined: an idle thread takes up   *)
(* a connection and a room, and goes on at l.                              *)
TakesUp(t, c, r, l) ==
  /\ pc[t] = "idle" /\ pc' = [pc EXCEPT ![t] = l]
  /\ arg' = [arg EXCEPT ![t] = [c |-> c, r |-> r, o |-> NONE]]
  /\ UNCHANGED <<index, members, mgMu, todo, got>>

LEMMA TakesUpTyped ==
  ASSUME Hands, NEW t \in Thread, NEW c \in Conn, NEW r \in Room,
         NEW l \in {"lookup", "lock"}, TakesUp(t, c, r, l), mode' = mode,
         joined' \in [Conn -> Lists], \A d \in Conn : IsFiniteSet(joined'[d])
  PROVE  Typed' /\ InHand'
<1> DEFINE a == [c |-> c, r |-> r, o |-> NONE]
<1>1. a \in Arg /\ a.c = c /\ a.r = r
  BY DEF Arg
<1>2. /\ pc[t] = "idle" /\ pc' = [pc EXCEPT ![t] = l] /\ arg' = [arg EXCEPT ![t] = a]
      /\ UNCHANGED <<index, members, mgMu, todo, got>>
  BY DEF TakesUp
<1>3. Typed /\ InHand
  BY TypedOK
<1> HIDE DEF a
<1>4. /\ pc' \in [Thread -> PCs] /\ pc'[t] = l /\ \A u \in Thread \ {t} : pc'[u] = pc[u]
      /\ arg' \in [Thread -> Arg] /\ arg'[t] = a /\ \A u \in Thread \ {t} : arg'[u] = arg[u]
  BY <1>1, <1>2, <1>3 DEF Typed, PCs
<1>5. Typed'
  <2>1. Lists' = Lists
    BY DEF Lists
  <2>2. \A u \in Thread : pc'[u] \in {"sweep", "check", "delete"} <=> mgMu' = u
    BY <1>2, <1>3, <1>4 DEF Typed
  <2> QED
    BY <1>2, <1>3, <1>4, <2>1, <2>2 DEF Typed
<1>6. InHand'
  <2>1. ASSUME NEW u \in Thread \ {t}
        PROVE  pc'[u] = pc[u] /\ arg'[u] = arg[u] /\ todo' = todo /\ index' = index
    BY <1>2, <1>4
  <2> QED
    BY <1>1, <1>3, <1>4, <2>1 DEF InHand
<1> QED
  BY <1>5, <1>6

LEMMA ActTyped == ASSUME Hands, NEW t \in Thread, Act(t), mode' = mode PROVE Typed' /\ InHand'
<1> USE TypedOK DEF Typed, InHand
<1>0. Lists' = Lists
  BY DEF Lists
<1>1. ASSUME NEW c \in Conn, NEW r \in Room, Join(t, c, r) PROVE Typed' /\ InHand'
  <2>1. joined' \in [Conn -> Lists] /\ \A d \in Conn : IsFiniteSet(joined'[d])
    BY <1>1, OneRoomMore DEF Join
  <2>2. TakesUp(t, c, r, "lookup")
    BY <1>1 DEF Join, Step, Goto, TakesUp
  <2> QED
    BY <2>1, <2>2, TakesUpTyped
<1>2. ASSUME NEW c \in Conn, NEW r \in Room, Leave(t, c, r) PROVE Typed' /\ InHand'
  <2>1. joined' \in [Conn -> Lists] /\ \A d \in Conn : IsFiniteSet(joined'[d])
    BY <1>2, RoomsLess DEF Leave
  <2>2. TakesUp(t, c, r, "lock")
    BY <1>2 DEF Leave, Step, Goto, TakesUp
  <2> QED
    BY <2>1, <2>2, TakesUpTyped
<1>3. ASSUME NEW c \in Conn, LeaveAll(t, c) PROVE Typed' /\ InHand'
  <2>1. [c |-> c, r |-> NONE, o |-> NONE] \in Arg
    BY DEF Arg
  <2> QED
    BY <1>0, <1>3, <2>1 DEF LeaveAll, Step, Goto, PCs
<1>4. ASSUME NEW r \in Room, Clear(t, r) PROVE Typed' /\ InHand'
  BY <1>0, <1>4 DEF Clear, Free
<1>5. ASSUME NEW r \in Room, NEW skip \in Conn \cup {NONE}, Send(t, r, skip) PROVE Typed' /\ InHand'
  <2>1. [c |-> skip, r |-> r, o |-> NONE] \in Arg
    BY DEF Arg
  <2> QED
    BY <1>0, <1>5, <2>1 DEF Send, Step, Goto, PCs
<1>6. CASE SendAll(t)
  <2>1. {index[r] : r \in Room} \ {NONE} \in SUBSET (Room \cup Obj)
    OBVIOUS
  <2> QED
    BY <1>0, <1>6, <2>1 DEF SendAll, Step, Goto, PCs
<1>7. CASE Lookup(t)
  <2>1. \A o \in Obj \cup {NONE} : [arg[t] EXCEPT !.o = o] \in Arg
    BY ObjType
  <2>2. PICK o \in Obj : arg' = [arg EXCEPT ![t].o = o]
                         /\ index' \in [Room -> Obj \cup {NONE}]
                         /\ members' \in [Obj -> SUBSET Conn]
    <3>1. CASE index[arg[t].r] # NONE
      <4>1. index[arg[t].r] \in Obj
        BY <1>7, <3>1 DEF Lookup, Step
      <4> QED
        BY <1>7, <3>1, <4>1 DEF Lookup, Step
    <3>2. CASE index[arg[t].r] = NONE
      <4>1. arg[t].r \in Room
        BY <1>7 DEF Lookup, Step
      <4>2. /\ arg' = [arg EXCEPT ![t].o = Fresh] /\ Fresh \in Obj
            /\ index' = [index EXCEPT ![arg[t].r] = Fresh]
            /\ members' = [members EXCEPT ![Fresh] = {}]
        BY <1>7, <3>2, FreshUnused DEF Lookup, Fresh
      <4> QED
        BY <4>1, <4>2
    <3> QED
      BY <3>1, <3>2
  <2> QED
    BY <1>0, <1>7, <2>1, <2>2 DEF Lookup, Step, Goto, PCs, Free
<1>8. CASE Add(t)
  BY <1>0, <1>8, NoArgType DEF Add, Step, Goto, PCs
<1>9. CASE Lock(t)
  BY <1>0, <1>9 DEF Lock, Taken, Step, Goto, PCs, Free
<1>10. CASE Sweep(t)
  <2>1. \A o \in Obj \cup {NONE} : [arg[t] EXCEPT !.o = o] \in Arg
    BY ObjType
  <2>2. CASE todo[t] = {}
    <3>1. /\ pc[t] = "sweep" /\ mgMu' = NONE
          /\ UNCHANGED <<index, joined, todo, got, members>>
      BY <1>10, <2>2 DEF Sweep
    <3>2. CASE arg[t].r = NONE
      <4>1. pc' = [pc EXCEPT ![t] = "reset"] /\ arg' = arg
        BY <1>10, <2>2, <3>2 DEF Sweep, Goto
      <4> QED
        BY <1>0, <3>1, <3>2, <4>1 DEF PCs
    <3>3. CASE arg[t].r # NONE
      <4>1. pc' = [pc EXCEPT ![t] = "idle"] /\ arg' = [arg EXCEPT ![t] = NoArg]
        BY <1>10, <2>2, <3>3 DEF Sweep, Goto
      <4> QED
        BY <1>0, <3>1, <4>1, NoArgType DEF PCs
    <3> QED
      BY <3>2, <3>3
  <2>3. CASE todo[t] # {}
    <3>1. PICK r \in todo[t] :
            /\ members' = [members EXCEPT ![index[r]] = @ \ {arg[t].c}]
            /\ arg' = [arg EXCEPT ![t].o = index[r]]
            /\ Goto(t, "check") /\ mgMu' = mgMu
      BY <1>10, <2>3 DEF Sweep
    <3>2. r \in Room /\ index[r] \in Obj /\ pc[t] = "sweep"
      BY <1>10 DEF Sweep
    <3>3. arg'[t] \in Arg /\ arg' \in [Thread -> Arg]
      BY <2>1, <3>1, <3>2
    <3>4. members' \in [Obj -> SUBSET Conn]
      BY <3>1, <3>2
    <3> QED
      BY <1>0, <1>10, <3>1, <3>2, <3>3, <3>4 DEF Sweep, Goto, PCs
  <2> QED
    BY <2>2, <2>3
<1>11. CASE Check(t)
  <2>1. todo' \in [Thread -> SUBSET (Room \cup Obj)] /\ \A u \in Thread : todo'[u] \subseteq todo[u]
    <3> DEFINE S == {r \in todo[t] : index[r] # arg[t].o}
    <3>1. todo' = todo \/ todo' = [todo EXCEPT ![t] = S]
      BY <1>11 DEF Check
    <3>2. S \subseteq todo[t]
      OBVIOUS
    <3> HIDE DEF S
    <3> QED
      BY <3>1, <3>2
  <2>2. PICK l \in {"sweep", "delete"} : pc' = [pc EXCEPT ![t] = l]
    BY <1>11 DEF Check, Goto
  <2> QED
    BY <1>0, <1>11, <2>1, <2>2 DEF Check, PCs
<1>12. CASE Delete(t)
  BY <1>0, <1>12 DEF Delete, Step, Goto, PCs
<1>13. CASE Reset(t)
  <2>1. joined' \in [Conn -> Lists] /\ \A d \in Conn : IsFiniteSet(joined'[d])
    BY <1>13, RoomsLess DEF Reset, JoinedReset, Step
  <2> QED
    BY <1>0, <1>13, <2>1, NoArgType DEF Reset, Step, Goto, PCs
<1>14. CASE SendRoom(t)
  <2>1. CASE todo[t] = {}
    <3>1. /\ pc[t] = "send" /\ pc' = [pc EXCEPT ![t] = "idle"]
          /\ arg' = [arg EXCEPT ![t] = NoArg]
          /\ got' = [got EXCEPT ![t] = [c \in Conn |-> 0]]
          /\ UNCHANGED <<index, members, mgMu, joined, todo>>
      BY <1>14, <2>1 DEF SendRoom, Goto
    <3>2. [c \in Conn |-> 0] \in [Conn -> Nat]
      OBVIOUS
    <3> QED
      BY <1>0, <3>1, <3>2, NoArgType DEF PCs
  <2>2. CASE todo[t] # {}
    <3>1. PICK o \in todo[t] :
            /\ got' = [got EXCEPT ![t] =
                 [c \in Conn |-> IF c \in members[o] /\ ~Skipped(t, c) THEN @[c] + 1 ELSE @[c]]]
            /\ todo' = [todo EXCEPT ![t] = @ \ {o}]
            /\ UNCHANGED <<pc, arg>>
      BY <1>14, <2>2 DEF SendRoom
    <3>2. got' \in [Thread -> [Conn -> Nat]]
      BY <3>1
    <3>3. todo' \in [Thread -> SUBSET (Room \cup Obj)] /\ \A u \in Thread : todo'[u] \subseteq todo[u]
      BY <3>1
    <3> QED
      BY <1>0, <1>14, <3>1, <3>2, <3>3 DEF SendRoom
  <2> QED
    BY <2>1, <2>2
<1> QED
  BY <1>1, <1>2, <1>3, <1>4, <1>5, <1>6, <1>7, <1>8, <1>9, <1>10, <1>11, <1>12, <1>13, <1>14
     DEF Act, Call, Continue

LEMMA HandsInit == Init => Hands
<1> SUFFICES ASSUME Init PROVE Hands
  OBVIOUS
<1>1. {} \in Lists /\ IsFiniteSet({})
  BY FS_EmptySet DEF Lists, Init
<1>2. joined \in [Conn -> Lists] /\ \A c \in Conn : IsFiniteSet(joined[c])
  BY <1>1 DEF Init
<1>3. pc \in [Thread -> PCs] /\ arg \in [Thread -> Arg]
  BY NoArgType DEF Init, PCs
<1>4. got \in [Thread -> [Conn -> Nat]]
  BY DEF Init
<1>5. Typed
  BY <1>2, <1>3, <1>4 DEF Init, Typed
<1>6. InHand
  BY <1>2 DEF Init, InHand
<1>7. mode \in Modes /\ stay \in [Thread -> SUBSET (Conn \X Room)] /\ stale \subseteq Conn \X Room
  BY DEF Init
<1> QED
  BY <1>5, <1>6, <1>7, TypedOK

LEMMA HandsStep == Hands /\ [Next]_vars => Hands'
<1> SUFFICES ASSUME Hands, [Next]_vars PROVE Hands'
  OBVIOUS
<1>1. CASE UNCHANGED vars
  BY <1>1 DEF vars, Hands, TypeOK, InHand
<1>2. ASSUME NEW t \in Thread, Act(t), Watch, mode' = mode PROVE Hands'
  <2>1. Typed' /\ InHand'
    BY <1>2, ActTyped
  <2>2. stay' \in [Thread -> SUBSET (Conn \X Room)] /\ stale' \subseteq Conn \X Room
    BY <1>2, WatchType DEF Hands
  <2>3. (mode \in Modes)'
    BY <1>2 DEF Hands, TypeOK
  <2> QED
    BY <2>1, <2>2, <2>3 DEF Hands, TypeOK, Typed, Arg, Lists
<1> QED
  BY <1>1, <1>2, NextAct

(* Every state is well typed; no interleaving of Join lets conn.joined     *)
(* grow beyond MaxRoomsPerConn, and mg.mu has exactly one keeper.          *)
THEOREM TypeCorrect == Spec => []TypeOK
  BY HandsInit, HandsStep, PTL DEF Spec, Hands

-----------------------------------------------------------------------------
(* Empty rooms.                                                            *)

LEMMA LingerStep == Hands /\ NoEmptyRoomLingers /\ [Next]_vars => NoEmptyRoomLingers'
<1> SUFFICES ASSUME Hands, NoEmptyRoomLingers, [Next]_vars PROVE NoEmptyRoomLingers'
  OBVIOUS
<1>0. Typed /\ InHand /\ Hands'
  BY HandsStep, TypedOK
<1> USE <1>0 DEF NoEmptyRoomLingers, MembersOf
<1>1. ASSUME NEW t \in Thread, UNCHANGED <<index, members>>, pc[t] \notin {"add", "check", "delete"},
             \A u \in Thread \ {t} : pc'[u] = pc[u] /\ arg'[u] = arg[u]
      PROVE  NoEmptyRoomLingers'
  BY <1>1
<1>2. ASSUME NEW t \in Thread, Call(t) PROVE NoEmptyRoomLingers'
  <2>1. ASSUME NEW r \in Room, Clear(t, r) PROVE NoEmptyRoomLingers'
    BY <2>1 DEF Clear, Typed
  <2>2. ASSUME \/ \E c \in Conn : LeaveAll(t, c) \/ \E r \in Room : Join(t, c, r) \/ Leave(t, c, r)
               \/ \E r \in Room, skip \in Conn \cup {NONE} : Send(t, r, skip)
               \/ SendAll(t)
        PROVE  NoEmptyRoomLingers'
    <3>1. pc[t] = "idle" /\ UNCHANGED <<index, members>>
      BY <2>2 DEF LeaveAll, Join, Leave, Send, SendAll, Step
    <3>2. \A u \in Thread \ {t} : pc'[u] = pc[u] /\ arg'[u] = arg[u]
      BY <2>2 DEF LeaveAll, Join, Leave, Send, SendAll, Step, Goto, Typed
    <3> QED
      BY <1>1, <3>1, <3>2
  <2> QED
    BY <1>2, <2>1, <2>2 DEF Call
<1>3. ASSUME NEW t \in Thread, Lookup(t) PROVE NoEmptyRoomLingers'
  <2>1. \A u \in Thread \ {t} : pc'[u] = pc[u] /\ arg'[u] = arg[u]
    BY <1>3 DEF Lookup, Step, Goto, Typed
  <2>2. pc[t] = "lookup" /\ arg[t].r \in Room
    BY <1>3 DEF Lookup, Step, InHand
  <2>3. CASE index[arg[t].r] # NONE
    BY <1>1, <1>3, <2>1, <2>2, <2>3 DEF Lookup
  <2>4. CASE index[arg[t].r] = NONE
    <3>1. /\ arg' = [arg EXCEPT ![t].o = Fresh] /\ Fresh \in Obj /\ Fresh \in Unused
          /\ index' = [index EXCEPT ![arg[t].r] = Fresh]
          /\ members' = [members EXCEPT ![Fresh] = {}]
      BY <1>3, <2>4, FreshUnused DEF Lookup, Fresh
    <3>2. arg'[t].o = Fresh /\ pc'[t] = "add"
      BY <1>3, <3>1 DEF Lookup, Step, Goto, Typed, Arg
    <3>3. \A r \in Room : index[r] # Fresh
      BY <3>1 DEF Unused
    <3> HIDE DEF Fresh
    <3>4. \A r \in Room \ {arg[t].r} :
            /\ index'[r] = index[r]
            /\ index[r] # NONE => members'[index[r]] = members[index[r]]
      BY <2>2, <3>1, <3>3 DEF Typed
    <3>5. index'[arg[t].r] = Fresh
      BY <2>2, <3>1 DEF Typed
    <3> QED
      BY <2>1, <2>2, <3>2, <3>4, <3>5
  <2> QED
    BY <2>3, <2>4
<1>4. ASSUME NEW t \in Thread, Add(t) PROVE NoEmptyRoomLingers'
  <2>1. \A u \in Thread \ {t} : pc'[u] = pc[u] /\ arg'[u] = arg[u]
    BY <1>4 DEF Add, Step, Goto, Typed
  <2>2. /\ arg[t].o \in Obj /\ index' = index
        /\ members' = [members EXCEPT ![arg[t].o] = @ \cup {arg[t].c}]
    BY <1>4 DEF Add, Step, InHand
  <2>3. members'[arg[t].o] # {} /\ \A o \in Obj \ {arg[t].o} : members'[o] = members[o]
    BY <2>2 DEF Typed
  <2>4. \A r \in Room : index[r] # NONE /\ members'[index[r]] = {} =>
                         index[r] # arg[t].o /\ members[index[r]] = {}
    BY <2>3 DEF Typed
  <2> QED
    BY <2>1, <2>2, <2>4
<1>5. ASSUME NEW t \in Thread, Lock(t) \/ Reset(t) \/ SendRoom(t) PROVE NoEmptyRoomLingers'
  <2>1. \A u \in Thread \ {t} : pc'[u] = pc[u] /\ arg'[u] = arg[u]
    BY <1>5 DEF Lock, Reset, SendRoom, Step, Goto, Typed
  <2>2. UNCHANGED <<index, members>> /\ pc[t] \notin {"add", "check", "delete"}
    BY <1>5 DEF Lock, Reset, SendRoom, Step
  <2> QED
    BY <1>1, <2>1, <2>2
<1>6. ASSUME NEW t \in Thread, Sweep(t) PROVE NoEmptyRoomLingers'
  <2>1. \A u \in Thread \ {t} : pc'[u] = pc[u] /\ arg'[u] = arg[u]
    BY <1>6 DEF Sweep, Goto, Typed
  <2>2. CASE todo[t] = {}
    BY <1>1, <1>6, <2>1, <2>2 DEF Sweep
  <2>3. CASE todo[t] # {}
    <3>1. PICK r \in todo[t] :
            /\ members' = [members EXCEPT ![index[r]] = @ \ {arg[t].c}]
            /\ arg' = [arg EXCEPT ![t].o = index[r]]
            /\ Goto(t, "check") /\ index' = index
      BY <1>6, <2>3 DEF Sweep
    <3>2. index[r] \in Obj /\ pc[t] = "sweep"
      BY <1>6 DEF Sweep, Typed, InHand
    <3>3. arg'[t].o = index[r] /\ pc'[t] = "check"
      BY <3>1 DEF Goto, Typed, Arg
    <3>4. \A q \in Room : index[q] \notin {NONE, index[r]} => members'[index[q]] = members[index[q]]
      BY <3>1, <3>2 DEF Typed
    <3>5. \A q \in Room : index[q] # NONE /\ index[q] # index[r] /\ members'[index[q]] = {} =>
            \E u \in Thread \ {t} : arg[u].o = index[q] /\ pc[u] \in {"add", "check", "delete"}
      BY <3>2, <3>4
    <3> QED
      BY <2>1, <3>1, <3>3, <3>5
  <2> QED
    BY <2>2, <2>3
<1>7. ASSUME NEW t \in Thread, Check(t) PROVE NoEmptyRoomLingers'
  <2>1. \A u \in Thread \ {t} : pc'[u] = pc[u]
    BY <1>7 DEF Check, Goto, Typed
  <2>2. members[arg[t].o] = {} => pc'[t] = "delete"
    BY <1>7 DEF Check, EmptyDeleted, Goto, Typed
  <2>3. UNCHANGED <<index, members, arg>>
    BY <1>7 DEF Check
  <2> QED
    BY <2>1, <2>2, <2>3
<1>8. ASSUME NEW t \in Thread, Delete(t) PROVE NoEmptyRoomLingers'
  <2>1. \A u \in Thread \ {t} : pc'[u] = pc[u]
    BY <1>8 DEF Delete, Step, Goto, Typed
  <2>2. /\ \A r \in Room : index'[r] = IF index[r] = arg[t].o THEN NONE ELSE index[r]
        /\ UNCHANGED <<members, arg>>
    BY <1>8 DEF Delete
  <2> QED
    BY <2>1, <2>2
<1>9. CASE UNCHANGED vars
  BY <1>9 DEF vars
<1> QED
  BY <1>2, <1>3, <1>4, <1>5, <1>6, <1>7, <1>8, <1>9, NextAct DEF Act, Continue

(* A room that has lost its last member is deleted by whoever removed it,  *)
(* or is about to get the member of a Join that has found it meanwhile.    *)
THEOREM NoRoomLeftEmpty == Spec => []NoEmptyRoomLingers
<1>1. Init => NoEmptyRoomLingers
  BY DEF Init, NoEmptyRoomLingers
<1> QED
  BY <1>1, HandsInit, HandsStep, LingerStep, PTL DEF Spec

-----------------------------------------------------------------------------
(* Broadcasts.                                                             *)

(* A connection that has been in a room since a broadcast began has got    *)
(* its Emit, or the room's object is still to be visited; nobody has got   *)
(* two.                                                                    *)
Emitted ==
  \A t \in Thread :
    /\ pc[t] # "send" => \A c \in Conn : got[t][c] = 0
    /\ pc[t] = "send" =>
         /\ \A c \in Conn : got[t][c] <= IF c = arg[t].c THEN 0 ELSE 1
         /\ \A p \in stay[t] :
              /\ p[1] # arg[t].c /\ p[1] \in MembersOf(p[2])
              /\ got[t][p[1]] = 1 \/ index[p[2]] \in todo[t]

(* No step gives a name another object: it loses one, or gets one.         *)
LEMMA OneObjectAtATime ==
  ASSUME Hands, NEW t \in Thread, Act(t), NEW r \in Room
  PROVE  index'[r] = index[r] \/ index[r] = NONE \/ index'[r] = NONE
<1>1. CASE Lookup(t)
  BY <1>1, TypedOK DEF Lookup, Typed
<1>2. CASE Delete(t)
  BY <1>2 DEF Delete
<1>3. ASSUME NEW q \in Room, Clear(t, q) PROVE index'[r] = index[r] \/ index'[r] = NONE
  BY <1>3, TypedOK DEF Clear, Typed
<1> QED
  BY <1>1, <1>2, <1>3 DEF Act, Call, Continue, Join, Leave, LeaveAll, Send, SendAll, Add, Lock,
                          Sweep, Check, Reset, SendRoom

(* The others' steps, as a thread that sends sees them.                    *)
LEMMA OthersSame ==
  ASSUME Hands, NEW t \in Thread, Act(t), NEW u \in Thread \ {t}
  PROVE  pc'[u] = pc[u] /\ arg'[u] = arg[u] /\ todo'[u] = todo[u] /\ got'[u] = got[u]
<1> USE TypedOK DEF Typed, Step, Goto
<1>1. ASSUME Call(t) PROVE pc'[u] = pc[u] /\ arg'[u] = arg[u] /\ todo'[u] = todo[u] /\ got'[u] = got[u]
  BY <1>1 DEF Call, Join, Leave, LeaveAll, Clear, Send, SendAll
<1>2. ASSUME Lookup(t) \/ Add(t) \/ Lock(t) \/ Sweep(t)
      PROVE  pc'[u] = pc[u] /\ arg'[u] = arg[u] /\ todo'[u] = todo[u] /\ got'[u] = got[u]
  BY <1>2 DEF Lookup, Add, Lock, Sweep
<1>3. ASSUME Check(t) \/ Delete(t) \/ Reset(t) \/ SendRoom(t)
      PROVE  pc'[u] = pc[u] /\ arg'[u] = arg[u] /\ todo'[u] = todo[u] /\ got'[u] = got[u]
  BY <1>3 DEF Check, Delete, Reset, SendRoom
<1> QED
  BY <1>1, <1>2, <1>3 DEF Act, Continue

LEMMA StayStep ==
  ASSUME Watch, NEW t \in Thread
  PROVE  /\ pc'[t] # "send" => stay'[t] = {}
         /\ pc'[t] = "send" /\ pc[t] = "send" =>
              \A p \in stay'[t] : p \in stay[t] /\ p[2] \in Room /\ p[1] \in MembersOf(p[2])'
         /\ pc'[t] = "send" /\ pc[t] # "send" =>
              \A p \in stay'[t] : /\ p \in Conn \X Room /\ p[1] \in MembersOf(p[2])'
                                  /\ arg'[t].r \in {NONE, p[2]} /\ arg'[t].c # p[1]
  BY DEF Watch

LEMMA EmittedStep == Hands /\ Emitted /\ [Next]_vars => Emitted'
<1> SUFFICES ASSUME Hands, Emitted, [Next]_vars PROVE Emitted'
  OBVIOUS
<1> DEFINE Fine(t) ==
      /\ pc[t] # "send" => \A c \in Conn : got[t][c] = 0
      /\ pc[t] = "send" =>
           /\ \A c \in Conn : got[t][c] <= IF c = arg[t].c THEN 0 ELSE 1
           /\ \A p \in stay[t] :
                /\ p[1] # arg[t].c /\ p[1] \in MembersOf(p[2])
                /\ got[t][p[1]] = 1 \/ index[p[2]] \in todo[t]
<1>0. Typed /\ InHand /\ \A t \in Thread : Fine(t)
  BY TypedOK DEF Emitted
<1>1. CASE UNCHANGED vars
  BY <1>1 DEF vars, Emitted, MembersOf
<1>2. ASSUME NEW u \in Thread, Act(u), Watch PROVE Emitted'
  <2>1. ASSUME NEW t \in Thread, pc[t] = "send", pc'[t] = "send", NEW p \in stay'[t]
        PROVE  /\ p \in stay[t] /\ p[1] \in MembersOf(p[2])' /\ p[1] \in MembersOf(p[2])
               /\ index'[p[2]] = index[p[2]] /\ index[p[2]] # NONE
    <3>1. p \in stay[t] /\ p[2] \in Room /\ p[1] \in MembersOf(p[2])' /\ p[1] \in MembersOf(p[2])
      BY <1>0, <1>2, <2>1, StayStep
    <3>2. index[p[2]] # NONE /\ index'[p[2]] # NONE
      BY <3>1 DEF MembersOf
    <3> QED
      BY <1>2, <3>1, <3>2, OneObjectAtATime
  <2>2. ASSUME NEW t \in Thread \ {u} PROVE Fine(t)'
    <3>1. pc'[t] = pc[t] /\ arg'[t] = arg[t] /\ todo'[t] = todo[t] /\ got'[t] = got[t]
      BY <1>2, OthersSame
    <3> QED
      BY <1>0, <2>1, <3>1
  <2>3. ASSUME pc[u] # "send", pc'[u] # "send" PROVE Fine(u)'
    <3>1. got' = got
      BY <1>2, <2>3 DEF Act, Call, Continue, Join, Leave, LeaveAll, Clear, Send, SendAll,
                        Lookup, Add, Lock, Sweep, Check, Delete, Reset, SendRoom
    <3> QED
      BY <1>0, <2>3, <3>1
  <2>4. ASSUME pc[u] # "send", pc'[u] = "send" PROVE Fine(u)'
    <3>1. SendAll(u) \/ \E r \in Room, skip \in Conn \cup {NONE} : Send(u, r, skip)
      BY <1>0, <1>2, <2>4 DEF Typed, Act, Call, Continue, Join, Leave, LeaveAll, Clear, Send, SendAll,
           Lookup, Add, Lock, Sweep, Check, Delete, Reset, SendRoom, Step, Goto
    <3>2. got' = got /\ index' = index
      BY <3>1 DEF SendAll, Send
    <3>3. \A c \in Conn : got'[u][c] <= IF c = arg'[u].c THEN 0 ELSE 1
      BY <1>0, <2>4, <3>2
    <3>4. ASSUME NEW p \in stay'[u]
          PROVE  /\ p[1] # arg'[u].c /\ p[1] \in MembersOf(p[2])'
                 /\ index'[p[2]] \in todo'[u]
      <4>1. /\ p[2] \in Room /\ p[1] \in MembersOf(p[2])'
            /\ arg'[u].r \in {NONE, p[2]} /\ arg'[u].c # p[1]
        BY <1>2, <2>4, <3>4, StayStep
      <4>2. index[p[2]] # NONE
        BY <3>2, <4>1 DEF MembersOf
      <4>3. CASE SendAll(u)
        BY <1>0, <3>2, <4>1, <4>2, <4>3 DEF SendAll, Typed
      <4>4. ASSUME NEW r \in Room, NEW skip \in Conn \cup {NONE}, Send(u, r, skip)
            PROVE  index'[p[2]] \in todo'[u]
        <5>1. arg'[u].r = r /\ todo'[u] = {index[r]} \ {NONE}
          BY <1>0, <4>4 DEF Send, Typed
        <5> QED
          BY <3>2, <4>1, <4>2, <5>1
      <4> QED
        BY <3>1, <4>1, <4>3, <4>4
    <3> QED
      BY <2>4, <3>3, <3>4
  <2>5. ASSUME pc[u] = "send" PROVE Fine(u)'
    <3>1. SendRoom(u)
      BY <1>2, <2>5 DEF Act, Call, Continue, Join, Leave, LeaveAll, Clear, Send, SendAll,
           Lookup, Add, Lock, Sweep, Check, Delete, Reset, Step
    <3>2. CASE todo[u] = {}
      <4>1. pc'[u] = "idle" /\ \A c \in Conn : got'[u][c] = 0
        BY <1>0, <3>1, <3>2 DEF SendRoom, Goto, Typed
      <4> QED
        BY <4>1
    <3>3. CASE todo[u] # {}
      <4>1. PICK o \in todo[u] :
              /\ got' = [got EXCEPT ![u] =
                   [c \in Conn |-> IF c \in members[o] /\ ~Skipped(u, c) THEN @[c] + 1 ELSE @[c]]]
              /\ todo' = [todo EXCEPT ![u] = @ \ {o}]
              /\ UNCHANGED <<pc, arg>>
        BY <3>1, <3>3 DEF SendRoom
      <4>2. /\ \A c \in Conn : got'[u][c] = IF c \in members[o] /\ c # arg[u].c /\ got[u][c] = 0
                                            THEN 1 ELSE got[u][c]
            /\ todo'[u] = todo[u] \ {o} /\ pc'[u] = "send" /\ arg'[u] = arg[u]
        <5>1. \A c \in Conn : got'[u][c] = IF c \in members[o] /\ ~Skipped(u, c)
                                           THEN got[u][c] + 1 ELSE got[u][c]
          BY <1>0, <4>1 DEF Typed
        <5>2. \A c \in Conn : got[u][c] \in Nat
          BY <1>0 DEF Typed
        <5>3. todo'[u] = todo[u] \ {o} /\ pc'[u] = "send" /\ arg'[u] = arg[u]
          BY <1>0, <2>5, <4>1 DEF Typed
        <5> QED
          BY <5>1, <5>2, <5>3 DEF Skipped
      <4>3. \A c \in Conn : got'[u][c] <= IF c = arg'[u].c THEN 0 ELSE 1
        BY <1>0, <2>5, <4>2
      <4>4. ASSUME NEW p \in stay'[u]
            PROVE  /\ p[1] # arg'[u].c /\ p[1] \in MembersOf(p[2])'
                   /\ got'[u][p[1]] = 1 \/ index'[p[2]] \in todo'[u]
        <5>1. /\ p \in stay[u] /\ p[1] \in MembersOf(p[2])' /\ p[1] \in MembersOf(p[2])
              /\ index'[p[2]] = index[p[2]] /\ index[p[2]] # NONE
          BY <2>1, <2>5, <4>2
        <5>2. p[1] \in Conn /\ p[1] # arg[u].c
          BY <1>0, <2>5, <5>1, TypedOK
        <5>3. CASE index[p[2]] = o
          <6>1. p[1] \in members[o]
            BY <5>1, <5>3 DEF MembersOf
          <6>2. got[u][p[1]] \in Nat /\ got[u][p[1]] <= 1
            BY <1>0, <2>5, <5>2 DEF Typed
          <6> QED
            BY <4>2, <5>1, <5>2, <6>1, <6>2
        <5>4. CASE index[p[2]] # o
          BY <1>0, <2>5, <4>2, <5>1, <5>2, <5>4
        <5> QED
          BY <5>3, <5>4
      <4> QED
        BY <4>2, <4>3, <4>4
    <3> QED
      BY <3>2, <3>3
  <2> QED
    BY <2>2, <2>3, <2>4, <2>5 DEF Emitted
<1> QED
  BY <1>1, <1>2, NextAct

LEMMA EmittedInit == Init => Emitted
  BY DEF Init, Emitted

(* A broadcast calls Emit once for every connection that stays in a room   *)
(* it addresses, and twice for nobody, whoever joins, leaves or clears     *)
(* while SendAll walks the rooms with no lock held.                        *)
THEOREM BroadcastsExact == Spec => BroadcastExact
<1>1. Hands /\ Emitted /\ [Next]_vars =>
        [\A t \in Thread : pc[t] = "send" /\ pc'[t] = "idle" =>
           /\ \A p \in stay[t] : got[t][p[1]] = 1
           /\ \A c \in Conn : got[t][c] <= IF c = arg[t].c THEN 0 ELSE 1]_vars
  <2> SUFFICES ASSUME Hands, Emitted, Next, NEW t \in Thread, pc[t] = "send", pc'[t] = "idle"
               PROVE  /\ \A p \in stay[t] : got[t][p[1]] = 1
                      /\ \A c \in Conn : got[t][c] <= IF c = arg[t].c THEN 0 ELSE 1
    OBVIOUS
  <2>1. PICK u \in Thread : Act(u)
    BY DEF Next, Act
  <2>2. u = t
    BY <2>1, OthersSame
  <2>3. SendRoom(t)
    BY <2>1, <2>2 DEF Act, Call, Continue, Join, Leave, LeaveAll, Clear, Send, SendAll,
         Lookup, Add, Lock, Sweep, Check, Delete, Reset, Step
  <2>4. todo[t] = {}
    BY <2>3 DEF SendRoom
  <2> QED
    BY <2>4 DEF Emitted
<1> QED
  BY <1>1, HandsInit, HandsStep, EmittedInit, EmittedStep, PTL DEF Spec, BroadcastExact
-----------------------------------------------------------------------------
(* When the calls that change rooms take turns: the invariant.             *)

OneAtATime == mode.solo => \A t, u \in Changing : t = u

(* Names do not share an object.                                           *)
OwnObject == \A r, q \in Room : index[r] = index[q] /\ index[r] # NONE => r = q

StaleJoined == \A p \in stale : p[2] \in joined[p[1]]

InSync(c, r) == r \in joined[c] <=> (c \in MembersOf(r)) # (<<c, r>> \in stale)

(* In the course of a call of c for the room r, NONE for leaveAll:         *)
(* everything else is in sync, a Join is about to add c where it is not    *)
(* yet, and a Leave has the rooms that c is still in before it.            *)
Joining(t) ==
  LET c == arg[t].c
      r == arg[t].r
  IN  /\ r \in joined[c] /\ c \notin MembersOf(r) /\ <<c, r>> \notin stale
      /\ pc[t] = "add" => index[r] = arg[t].o

Leaving(t) ==
  LET c == arg[t].c
      r == arg[t].r
  IN  /\ r \notin joined[c]
      /\ pc[t] # "lock" => \A q \in Room : r \in {NONE, q} /\ c \in MembersOf(q) =>
                                             q \in todo[t] /\ pc[t] # "reset"
      /\ pc[t] \in {"sweep", "check", "delete"} => \A q \in todo[t] : r \in {NONE, q}
      /\ pc[t] \in {"check", "delete"} => c \notin members[arg[t].o]
      /\ pc[t] = "delete" => members[arg[t].o] = {}

MidCall(t) ==
  /\ \A c \in Conn, r \in Room : c # arg[t].c \/ arg[t].r \notin {NONE, r} => InSync(c, r)
  /\ pc[t] \in {"lookup", "add"} => Joining(t)
  /\ pc[t] \notin {"lookup", "add"} => Leaving(t)

Settled ==
  mode.solo =>
    /\ Changing = {} => \A c \in Conn, r \in Room : InSync(c, r)
    /\ \A t \in Changing : MidCall(t)

Turns == OneAtATime /\ OwnObject /\ StaleJoined /\ Settled

-----------------------------------------------------------------------------
(* Who is changing rooms, and what is stale.                               *)

LEMMA ChangingStep ==
  ASSUME Hands, NEW t \in Thread, Act(t)
  PROVE  Changing' = IF pc'[t] \in {"idle", "send"} THEN Changing \ {t} ELSE Changing \cup {t}
<1>1. \A u \in Thread \ {t} : pc'[u] = pc[u]
  BY OthersSame
<1> QED
  BY <1>1 DEF Changing

(* Outside Clear, a pair is stale no longer once the connection leaves.    *)
LEMMA StaleStep ==
  ASSUME mode.solo, Watch, index' = index \/ Changing # {} \/ Changing' # {}
  PROVE  stale' = {p \in stale : p[2] \in joined'[p[1]]}
<1>1. {r \in Room : Changing = {} /\ Changing' = {} /\ index[r] # NONE /\ index'[r] = NONE} = {}
  OBVIOUS
<1> QED
  BY <1>1 DEF Watch

LEMMA StaleInJoined == ASSUME StaleJoined, Hands, [Next]_vars PROVE StaleJoined'
<1>1. CASE Watch
  BY <1>1 DEF Watch, StaleJoined
<1>2. CASE UNCHANGED vars
  BY <1>2 DEF vars, StaleJoined
<1> QED
  BY <1>1, <1>2 DEF Next

LEMMA OwnObjectStep == Hands /\ OwnObject /\ [Next]_vars => OwnObject'
<1> SUFFICES ASSUME Hands, OwnObject, NEW t \in Thread, Act(t) PROVE OwnObject'
  BY NextAct DEF vars, OwnObject
<1>0. Typed
  BY TypedOK
<1>1. CASE Lookup(t)
  <2>1. CASE index' = index
    BY <2>1 DEF OwnObject
  <2>2. CASE index' # index
    <3>1. index' = [index EXCEPT ![arg[t].r] = Fresh] /\ Fresh \in Unused
      BY <1>1, <2>2, FreshUnused DEF Lookup, Fresh
    <3>2. \A r \in Room : index[r] # Fresh
      BY <3>1 DEF Unused
    <3> HIDE DEF Fresh
    <3> QED
      BY <1>0, <3>1, <3>2 DEF OwnObject, Typed
  <2> QED
    BY <2>1, <2>2
<1>2. CASE Delete(t)
  BY <1>2 DEF Delete, OwnObject
<1>3. ASSUME NEW r \in Room, Clear(t, r) PROVE OwnObject'
  BY <1>0, <1>3 DEF Clear, OwnObject, Typed
<1>4. CASE index' = index
  BY <1>4 DEF OwnObject
<1> QED
  BY <1>1, <1>2, <1>3, <1>4 DEF Act, Call, Continue, Join, Leave, LeaveAll, Send, SendAll, Add, Lock,
                                Sweep, Check, Reset, SendRoom

(* A call that is to change rooms waits for its turn.                      *)
LEMMA OneStep == Hands /\ OneAtATime /\ [Next]_vars => OneAtATime'
<1> SUFFICES ASSUME Hands, OneAtATime, NEW t \in Thread, Act(t), mode' = mode, mode.solo
             PROVE  \A u, v \in Changing' : u = v
  BY NextAct DEF vars, OneAtATime, Changing
<1>1. CASE t \in Changing
  BY <1>1, ChangingStep DEF OneAtATime
<1>2. CASE t \notin Changing /\ pc'[t] \in {"idle", "send"}
  BY <1>2, ChangingStep DEF OneAtATime
<1>3. CASE t \notin Changing /\ pc'[t] \notin {"idle", "send"}
  <2>1. pc[t] \in {"idle", "send"}
    BY <1>3 DEF Changing
  <2>2. Changing = {}
    BY <1>3, <2>1, TypedOK DEF Act, Call, Continue, Join, Leave, LeaveAll, Clear, Send, SendAll, Lookup,
       Add, Lock, Sweep, Check, Delete, Reset, SendRoom, Step, Goto, MayChange, Typed
  <2> QED
    BY <2>2, ChangingStep
<1> QED
  BY <1>1, <1>2, <1>3

-----------------------------------------------------------------------------
(* What each step of a call does to the members of every room.             *)

LEMMA SameMembers ==
  ASSUME UNCHANGED <<index, members>>, NEW q \in Room
  PROVE  MembersOf(q)' = MembersOf(q)
  BY DEF MembersOf

LEMMA LookupMembers ==
  ASSUME Hands, NEW t \in Thread, Lookup(t), NEW q \in Room
  PROVE  MembersOf(q)' = MembersOf(q)
<1>0. Typed /\ InHand
  BY TypedOK
<1>1. CASE index[arg[t].r] # NONE
  BY <1>1, SameMembers DEF Lookup
<1>2. CASE index[arg[t].r] = NONE
  <2>1. /\ index' = [index EXCEPT ![arg[t].r] = Fresh]
        /\ members' = [members EXCEPT ![Fresh] = {}]
        /\ Fresh \in Obj /\ Fresh \in Unused /\ arg[t].r \in Room
    BY <1>0, <1>2, FreshUnused DEF Lookup, Step, Fresh, InHand
  <2>2. \A r \in Room : index[r] # Fresh
    BY <2>1 DEF Unused
  <2> HIDE DEF Fresh
  <2> QED
    BY <1>0, <1>2, <2>1, <2>2 DEF MembersOf, Typed
<1> QED
  BY <1>1, <1>2

LEMMA AddMembers ==
  ASSUME Hands, OwnObject, NEW t \in Thread, Add(t), index[arg[t].r] = arg[t].o, NEW q \in Room
  PROVE  MembersOf(q)' = IF q = arg[t].r THEN MembersOf(q) \cup {arg[t].c} ELSE MembersOf(q)
<1>0. Typed /\ InHand
  BY TypedOK
<1>1. /\ arg[t].o \in Obj /\ arg[t].r \in Room /\ index' = index
      /\ members' = [members EXCEPT ![arg[t].o] = @ \cup {arg[t].c}]
  BY <1>0 DEF Add, Step, InHand
<1> QED
  BY <1>0, <1>1 DEF MembersOf, Typed, OwnObject

LEMMA SweepMembers ==
  ASSUME Hands, OwnObject, NEW t \in Thread, NEW r \in todo[t], pc[t] = "sweep", index' = index,
         members' = [members EXCEPT ![index[r]] = @ \ {arg[t].c}], NEW q \in Room
  PROVE  MembersOf(q)' = IF q = r THEN MembersOf(q) \ {arg[t].c} ELSE MembersOf(q)
<1>0. Typed /\ InHand
  BY TypedOK
<1>1. r \in Room /\ index[r] \in Obj
  BY <1>0 DEF InHand, Typed
<1> QED
  BY <1>0, <1>1 DEF MembersOf, Typed, OwnObject

LEMMA DeleteMembers ==
  ASSUME Hands, NEW t \in Thread, Delete(t), members[arg[t].o] = {}, NEW q \in Room
  PROVE  MembersOf(q)' = MembersOf(q)
<1>1. index'[q] = (IF index[q] = arg[t].o THEN NONE ELSE index[q]) /\ members' = members
  BY DEF Delete
<1> QED
  BY <1>1 DEF MembersOf

-----------------------------------------------------------------------------
(* Every call ends in sync.                                                *)

LEMMA SettledStep ==
  ASSUME Hands, Turns, mode.solo, NEW t \in Thread, Act(t), Watch, mode' = mode
  PROVE  Settled'
<1>0. /\ Typed /\ InHand /\ OneAtATime /\ OwnObject /\ StaleJoined /\ Settled
      /\ \A u \in Thread \ {t} : pc'[u] = pc[u] /\ arg'[u] = arg[u] /\ todo'[u] = todo[u]
  BY TypedOK, OthersSame DEF Turns
<1> USE DEF Step, Goto
<1>1. ASSUME SendAll(t) \/ SendRoom(t) \/ \E r \in Room, skip \in Conn \cup {NONE} : Send(t, r, skip)
      PROVE  Settled'
  <2>1. UNCHANGED <<index, members, joined>> /\ pc[t] \in {"idle", "send"} /\ pc'[t] \in {"idle", "send"}
    BY <1>0, <1>1 DEF SendAll, SendRoom, Send, Typed
  <2>2. Changing' = Changing /\ t \notin Changing
    BY <2>1, ChangingStep DEF Changing
  <2>3. stale' = stale
    BY <1>0, <2>1, StaleStep DEF StaleJoined
  <2>4. \A c \in Conn, r \in Room : InSync(c, r)' <=> InSync(c, r)
    BY <2>1, <2>3 DEF InSync, MembersOf
  <2>5. \A u \in Changing : u \in Thread \ {t}
    BY <2>2 DEF Changing
  <2>6. \A u \in Changing : MidCall(u) => MidCall(u)'
    BY <1>0, <2>1, <2>3, <2>4, <2>5 DEF MidCall, Joining, Leaving, MembersOf
  <2> QED
    BY <1>0, <2>2, <2>4, <2>6 DEF Settled
<1>2. ASSUME NEW r \in Room, Clear(t, r) PROVE Settled'
  <2>1. /\ Changing = {} /\ Changing' = {} /\ pc' = pc /\ UNCHANGED <<members, joined>>
        /\ index' = [index EXCEPT ![r] = NONE]
    BY <1>2 DEF Clear, MayChange, Changing
  <2>2. /\ MembersOf(r)' = {}
        /\ \A q \in Room \ {r} : MembersOf(q)' = MembersOf(q)
        /\ \A q \in Room : index[q] # NONE /\ index'[q] = NONE <=> q = r /\ index[r] # NONE
    BY <1>0, <2>1 DEF MembersOf, Typed
  <2>3. \A c \in Conn, q \in Room :
          <<c, q>> \in stale' <=>
            q \in joined[c] /\ (<<c, q>> \in stale \/ (q = r /\ c \in MembersOf(r)))
    BY <2>1, <2>2 DEF Watch, MembersOf
  <2>4. \A c \in Conn, q \in Room : InSync(c, q)
    BY <1>0, <2>1 DEF Settled
  <2>5. \A c \in Conn, q \in Room : <<c, q>> \in stale => q \in joined[c]
    BY <1>0 DEF StaleJoined
  <2>6. \A c \in Conn, q \in Room : InSync(c, q)'
    <3> SUFFICES ASSUME NEW c \in Conn, NEW q \in Room PROVE InSync(c, q)'
      OBVIOUS
    <3>1. InSync(c, q) /\ joined'[c] = joined[c]
      BY <2>1, <2>4
    <3>2. c \in MembersOf(q)' <=> q # r /\ c \in MembersOf(q)
      BY <2>2
    <3>3. /\ <<c, q>> \in stale' <=>
               q \in joined[c] /\ (<<c, q>> \in stale \/ (q = r /\ c \in MembersOf(r)))
          /\ <<c, q>> \in stale => q \in joined[c]
      BY <2>3, <2>5
    <3> QED
      BY <3>1, <3>2, <3>3 DEF InSync
  <2> QED
    BY <2>1, <2>6 DEF Settled
<1>3. ASSUME t \notin Changing, t \in Changing', MidCall(t)', Changing = {} PROVE Settled'
  <2>1. Changing' = {t}
    BY <1>3, ChangingStep DEF Changing
  <2> QED
    BY <1>3, <2>1 DEF Settled
<1>4. ASSUME NEW c \in Conn, NEW r \in Room, Join(t, c, r) PROVE Settled'
  <2>1. /\ Changing = {} /\ UNCHANGED <<index, members>> /\ joined' = [joined EXCEPT ![c] = @ \cup {r}]
        /\ r \notin joined[c]
        /\ pc'[t] = "lookup" /\ arg'[t].c = c /\ arg'[t].r = r
    BY <1>0, <1>4 DEF Join, MayChange, Typed
  <2>2. t \in Changing' /\ t \notin Changing
    BY <2>1 DEF Changing
  <2>3. stale' = stale
    <3>1. stale' = {p \in stale : p[2] \in joined'[p[1]]} /\ stale \subseteq Conn \X Room
      BY <2>1, StaleStep, TypedOK
    <3>2. \A p \in stale : p[1] \in Conn /\ p[2] \in joined[p[1]]
      BY <1>0, <3>1 DEF StaleJoined
    <3>3. \A d \in Conn : joined[d] \subseteq joined'[d]
      BY <1>0, <2>1 DEF Typed
    <3> QED
      BY <3>1, <3>2, <3>3
  <2>4. (\A q \in Room : MembersOf(q)' = MembersOf(q)) /\ \A d \in Conn, q \in Room : InSync(d, q)
    BY <1>0, <2>1, SameMembers DEF Settled
  <2>5. c \notin MembersOf(r) /\ <<c, r>> \notin stale
    BY <1>0, <2>1, <2>4 DEF InSync, StaleJoined
  <2>6. \A d \in Conn, q \in Room : d # c \/ q # r => InSync(d, q)'
    BY <1>0, <2>1, <2>3, <2>4 DEF InSync, Typed
  <2>7. r \in joined'[c]
    BY <1>0, <2>1 DEF Typed
  <2>8. MidCall(t)'
    BY <2>1, <2>3, <2>4, <2>5, <2>6, <2>7 DEF MidCall, Joining
  <2> QED
    BY <1>3, <2>1, <2>2, <2>8
<1>5. ASSUME NEW c \in Conn, NEW r \in Room \cup {NONE},
             (r \in Room /\ Leave(t, c, r)) \/ (r = NONE /\ LeaveAll(t, c))
      PROVE  Settled'
  <2>1. /\ Changing = {} /\ UNCHANGED <<index, members>>
        /\ joined' = IF r = NONE THEN joined ELSE [joined EXCEPT ![c] = @ \ {r}]
        /\ pc'[t] = "lock" /\ arg'[t].c = c /\ arg'[t].r = r
    BY <1>0, <1>5 DEF Leave, LeaveAll, MayChange, Typed
  <2>2. t \in Changing' /\ t \notin Changing
    BY <2>1 DEF Changing
  <2>3. stale' = {p \in stale : p[2] \in joined'[p[1]]}
    BY <2>2, StaleStep
  <2>4. (\A q \in Room : MembersOf(q)' = MembersOf(q)) /\ \A d \in Conn, q \in Room : InSync(d, q)
    BY <1>0, <2>1, SameMembers DEF Settled
  <2>5. \A d \in Conn, q \in Room : d # c \/ q # r => (q \in joined'[d] <=> q \in joined[d])
    BY <1>0, <2>1 DEF Typed
  <2>6. \A d \in Conn, q \in Room : d # c \/ q # r => (<<d, q>> \in stale' <=> <<d, q>> \in stale)
    BY <1>0, <2>3, <2>5 DEF StaleJoined
  <2>7. \A d \in Conn, q \in Room : d # c \/ q # r => InSync(d, q)'
    BY <2>4, <2>5, <2>6 DEF InSync
  <2>8. r \notin joined'[c]
    BY <1>0, <2>1 DEF Typed, Lists
  <2>9. MidCall(t)'
    BY <2>1, <2>7, <2>8 DEF MidCall, Leaving
  <2> QED
    BY <1>3, <2>1, <2>2, <2>9
<1>6. ASSUME t \in Changing
      PROVE  /\ MidCall(t) /\ arg[t].c \in Conn
             /\ stale' = {p \in stale : p[2] \in joined'[p[1]]}
             /\ joined' = joined => stale' = stale
             /\ pc'[t] \notin {"idle", "send"} /\ MidCall(t)' => Settled'
             /\ pc'[t] \in {"idle", "send"} /\ (\A c \in Conn, r \in Room : InSync(c, r)') => Settled'
  <2>1. Changing = {t}
    BY <1>0, <1>6 DEF OneAtATime
  <2>2. Changing' \subseteq {t} /\ (pc'[t] \in {"idle", "send"} <=> Changing' = {})
    BY <2>1, ChangingStep
  <2>3. MidCall(t) /\ arg[t].c \in Conn
    BY <1>0, <1>6 DEF Settled, InHand, Changing
  <2>4. stale' = {p \in stale : p[2] \in joined'[p[1]]}
    BY <1>6, StaleStep
  <2>5. joined' = joined => stale' = stale
    BY <1>0, <2>4 DEF StaleJoined
  <2>6. pc'[t] \notin {"idle", "send"} /\ MidCall(t)' => Settled'
    BY <2>2 DEF Settled
  <2>7. pc'[t] \in {"idle", "send"} /\ (\A c \in Conn, r \in Room : InSync(c, r)') => Settled'
    BY <2>2 DEF Settled
  <2> QED
    BY <2>3, <2>4, <2>5, <2>6, <2>7
<1>7. CASE Lookup(t)
  <2>1. t \in Changing /\ pc[t] = "lookup" /\ pc'[t] = "add" /\ joined' = joined
    BY <1>0, <1>7 DEF Lookup, Changing, Typed
  <2>2. \A q \in Room : MembersOf(q)' = MembersOf(q)
    BY <1>7, LookupMembers
  <2>3. arg'[t].c = arg[t].c /\ arg'[t].r = arg[t].r /\ index'[arg[t].r] = arg'[t].o
        /\ arg[t].r \in Room
    <3>1. arg[t].r \in Room /\ arg[t] \in Arg
      BY <1>0, <2>1 DEF InHand, Typed
    <3>2. CASE index[arg[t].r] # NONE
      BY <1>0, <1>7, <3>1, <3>2 DEF Lookup, Typed, Arg
    <3>3. CASE index[arg[t].r] = NONE
      <4>1. arg' = [arg EXCEPT ![t].o = Fresh] /\ index' = [index EXCEPT ![arg[t].r] = Fresh]
        BY <1>7, <3>3 DEF Lookup, Fresh
      <4> HIDE DEF Fresh
      <4> QED
        BY <1>0, <3>1, <4>1 DEF Typed, Arg
    <3> QED
      BY <3>2, <3>3
  <2>4. stale' = stale
    BY <1>6, <2>1
  <2>5. \A c \in Conn, q \in Room : InSync(c, q)' <=> InSync(c, q)
    BY <2>1, <2>2, <2>4 DEF InSync
  <2>6. MidCall(t)'
    BY <1>6, <2>1, <2>2, <2>3, <2>4, <2>5 DEF MidCall, Joining
  <2> QED
    BY <1>6, <2>1, <2>6
<1>8. CASE Add(t)
  <2>1. t \in Changing /\ pc[t] = "add" /\ pc'[t] = "idle" /\ joined' = joined
    BY <1>0, <1>8 DEF Add, Changing, Typed
  <2>2. MidCall(t) /\ Joining(t) /\ stale' = stale
    BY <1>6, <2>1 DEF MidCall
  <2>3. \A q \in Room :
          MembersOf(q)' = IF q = arg[t].r THEN MembersOf(q) \cup {arg[t].c} ELSE MembersOf(q)
    BY <1>0, <1>8, <2>1, <2>2, AddMembers DEF Joining
  <2>4. \A c \in Conn, q \in Room : InSync(c, q)'
    <3> SUFFICES ASSUME NEW c \in Conn, NEW q \in Room PROVE InSync(c, q)'
      OBVIOUS
    <3>1. CASE c = arg[t].c /\ q = arg[t].r
      BY <2>1, <2>2, <2>3, <3>1 DEF InSync, Joining
    <3>2. CASE ~(c = arg[t].c /\ q = arg[t].r)
      <4>1. InSync(c, q) /\ (c \in MembersOf(q)' <=> c \in MembersOf(q))
        <5>1. arg[t].r # NONE
          BY <1>0, <2>1 DEF InHand
        <5> QED
          BY <2>2, <2>3, <3>2, <5>1 DEF MidCall
      <4> QED
        BY <2>1, <2>2, <4>1 DEF InSync
    <3> QED
      BY <3>1, <3>2
  <2> QED
    BY <1>6, <2>1, <2>4
<1>9. CASE Lock(t)
  <2>1. /\ t \in Changing /\ pc[t] = "lock" /\ pc'[t] = "sweep"
        /\ UNCHANGED <<joined, arg, index, members>>
        /\ todo'[t] = {r \in Room : index[r] # NONE /\ (arg[t].r = NONE \/ arg[t].r = r)}
    BY <1>0, <1>9 DEF Lock, Changing, Typed
  <2>2. stale' = stale /\ MidCall(t)
    BY <1>6, <2>1
  <2>3. \A q \in Room : MembersOf(q)' = MembersOf(q) /\ (MembersOf(q) # {} => index[q] # NONE)
    BY <2>1, SameMembers DEF MembersOf
  <2>4. \A c \in Conn, q \in Room : InSync(c, q)' <=> InSync(c, q)
    BY <2>1, <2>2, <2>3 DEF InSync
  <2>5. Leaving(t)'
    BY <2>1, <2>2, <2>3 DEF MidCall, Leaving
  <2>6. MidCall(t)'
    BY <2>1, <2>2, <2>4, <2>5 DEF MidCall
  <2> QED
    BY <1>6, <2>1, <2>6
<1>10. CASE Sweep(t)
  <2>1. t \in Changing /\ pc[t] = "sweep" /\ joined' = joined /\ index' = index /\ todo' = todo
    BY <1>10 DEF Sweep, Changing
  <2>2. stale' = stale /\ MidCall(t) /\ Leaving(t)
    BY <1>6, <2>1 DEF MidCall
  <2>3. CASE todo[t] # {}
    <3>1. PICK r \in todo[t] :
            /\ members' = [members EXCEPT ![index[r]] = @ \ {arg[t].c}]
            /\ arg' = [arg EXCEPT ![t].o = index[r]] /\ pc' = [pc EXCEPT ![t] = "check"]
      BY <1>10, <2>3 DEF Sweep
    <3>2. \A q \in Room : MembersOf(q)' = IF q = r THEN MembersOf(q) \ {arg[t].c} ELSE MembersOf(q)
      BY <1>0, <2>1, <3>1, SweepMembers
    <3>3. /\ arg'[t].c = arg[t].c /\ arg'[t].r = arg[t].r /\ arg'[t].o = index[r] /\ pc'[t] = "check"
      BY <1>0, <3>1 DEF Typed, Arg
    <3>4. r \in Room /\ index[r] \in Obj
      BY <1>0, <2>1 DEF InHand, Typed
    <3>5. arg[t].c \notin members'[index[r]]
      BY <1>0, <3>1, <3>4 DEF Typed
    <3>6. arg[t].r \in {NONE, r}
      BY <2>1, <2>2 DEF Leaving
    <3>7. \A c \in Conn, q \in Room : c # arg[t].c \/ arg[t].r \notin {NONE, q} =>
                                        (InSync(c, q)' <=> InSync(c, q))
      BY <2>1, <2>2, <3>2, <3>6 DEF InSync
    <3>8. Leaving(t)'
      BY <2>1, <2>2, <3>2, <3>3, <3>5 DEF Leaving
    <3>9. MidCall(t)'
      BY <2>2, <3>3, <3>7, <3>8 DEF MidCall
    <3> QED
      BY <1>6, <2>1, <3>3, <3>9
  <2>4. CASE todo[t] = {}
    <3>1. members' = members
      BY <1>10, <2>4 DEF Sweep
    <3>2. \A q \in Room : MembersOf(q)' = MembersOf(q)
      BY <2>1, <3>1, SameMembers
    <3>3. \A c \in Conn, q \in Room : InSync(c, q)' <=> InSync(c, q)
      BY <2>1, <2>2, <3>2 DEF InSync
    <3>4. CASE arg[t].r = NONE
      <4>1. pc'[t] = "reset" /\ arg' = arg
        BY <1>0, <1>10, <2>4, <3>4 DEF Sweep, Typed
      <4>2. Leaving(t)'
        BY <2>1, <2>2, <2>4, <3>2, <4>1 DEF Leaving
      <4>3. MidCall(t)'
        BY <2>2, <3>3, <4>1, <4>2 DEF MidCall
      <4> QED
        BY <1>6, <2>1, <4>1, <4>3
    <3>5. CASE arg[t].r # NONE
      <4>1. pc'[t] = "idle"
        BY <1>0, <1>10, <2>4, <3>5 DEF Sweep, Typed
      <4>2. arg[t].r \in Room =>
              arg[t].c \notin MembersOf(arg[t].r) /\ <<arg[t].c, arg[t].r>> \notin stale
        BY <1>0, <2>1, <2>2, <2>4 DEF Leaving, StaleJoined
      <4>3. arg[t].r \in Room => InSync(arg[t].c, arg[t].r)
        BY <2>2, <4>2 DEF Leaving, InSync
      <4>4. \A c \in Conn, q \in Room : InSync(c, q)
        BY <2>2, <3>5, <4>3 DEF MidCall
      <4> QED
        BY <1>6, <2>1, <3>3, <4>1, <4>4
    <3> QED
      BY <3>4, <3>5
  <2> QED
    BY <2>3, <2>4
<1>11. CASE Check(t)
  <2>1. /\ t \in Changing /\ pc[t] = "check" /\ UNCHANGED <<joined, arg, index, members>>
    BY <1>11 DEF Check, Changing
  <2>2. stale' = stale /\ MidCall(t) /\ Leaving(t)
    BY <1>6, <2>1 DEF MidCall
  <2>3. \A q \in Room : MembersOf(q)' = MembersOf(q)
    BY <2>1, SameMembers
  <2>4. \A c \in Conn, q \in Room : InSync(c, q)' <=> InSync(c, q)
    BY <2>1, <2>2, <2>3 DEF InSync
  <2>5. Leaving(t)' /\ pc'[t] \notin {"idle", "send", "lookup", "add"}
    <3>1. CASE members[arg[t].o] = {}
      <4>1. pc'[t] = "delete" /\ todo' = todo
        BY <1>0, <1>11, <3>1 DEF Check, EmptyDeleted, Typed
      <4> QED
        BY <2>1, <2>2, <2>3, <3>1, <4>1 DEF Leaving
    <3>2. CASE members[arg[t].o] # {}
      <4>1. pc'[t] = "sweep" /\ todo'[t] = {r \in todo[t] : index[r] # arg[t].o}
        BY <1>0, <1>11, <3>2 DEF Check, EmptyDeleted, Typed
      <4>2. \A q \in Room : arg[t].c \in MembersOf(q) => index[q] # arg[t].o
        BY <2>1, <2>2 DEF Leaving, MembersOf
      <4> QED
        BY <2>1, <2>2, <2>3, <4>1, <4>2 DEF Leaving
    <3> QED
      BY <3>1, <3>2
  <2>6. MidCall(t)'
    BY <2>1, <2>2, <2>4, <2>5 DEF MidCall
  <2> QED
    BY <1>6, <2>1, <2>5, <2>6
<1>12. CASE Delete(t)
  <2>1. /\ t \in Changing /\ pc[t] = "delete" /\ pc'[t] = "sweep" /\ UNCHANGED <<joined, arg, members>>
        /\ todo'[t] = {r \in todo[t] : index[r] # arg[t].o}
    BY <1>0, <1>12 DEF Delete, Changing, Typed
  <2>2. stale' = stale /\ MidCall(t) /\ Leaving(t)
    BY <1>6, <2>1 DEF MidCall
  <2>3. \A q \in Room : MembersOf(q)' = MembersOf(q)
    BY <1>12, <2>1, <2>2, DeleteMembers DEF Leaving
  <2>4. \A c \in Conn, q \in Room : InSync(c, q)' <=> InSync(c, q)
    BY <2>1, <2>2, <2>3 DEF InSync
  <2>5. \A q \in Room : arg[t].c \in MembersOf(q) => index[q] # arg[t].o
    BY <2>1, <2>2 DEF Leaving, MembersOf
  <2>6. Leaving(t)'
    BY <2>1, <2>2, <2>3, <2>5 DEF Leaving
  <2>7. MidCall(t)'
    BY <2>1, <2>2, <2>4, <2>6 DEF MidCall
  <2> QED
    BY <1>6, <2>1, <2>7
<1>13. CASE Reset(t)
  <2>1. /\ t \in Changing /\ pc[t] = "reset" /\ pc'[t] = "idle" /\ UNCHANGED <<index, members>>
        /\ joined' = [joined EXCEPT ![arg[t].c] = {}]
    BY <1>0, <1>13 DEF Reset, JoinedReset, Changing, Typed
  <2>2. /\ MidCall(t) /\ Leaving(t) /\ arg[t].c \in Conn /\ arg[t].r = NONE
        /\ stale' = {p \in stale : p[2] \in joined'[p[1]]}
    BY <1>0, <1>6, <2>1 DEF MidCall, InHand
  <2>3. \A q \in Room : MembersOf(q)' = MembersOf(q)
    BY <2>1, SameMembers
  <2>4. \A c \in Conn, q \in Room :
          /\ q \in joined'[c] <=> c # arg[t].c /\ q \in joined[c]
          /\ <<c, q>> \in stale' <=> c # arg[t].c /\ <<c, q>> \in stale
    BY <1>0, <2>1, <2>2 DEF Typed, StaleJoined
  <2>5. \A q \in Room : arg[t].c \notin MembersOf(q)
    BY <2>1, <2>2 DEF Leaving
  <2>6. \A c \in Conn \ {arg[t].c}, q \in Room : InSync(c, q)
    BY <2>2 DEF MidCall
  <2>7. \A c \in Conn, q \in Room : InSync(c, q)'
    <3> SUFFICES ASSUME NEW c \in Conn, NEW q \in Room PROVE InSync(c, q)'
      OBVIOUS
    <3>1. /\ q \in joined'[c] <=> c # arg[t].c /\ q \in joined[c]
          /\ <<c, q>> \in stale' <=> c # arg[t].c /\ <<c, q>> \in stale
      BY <2>4
    <3>2. c \in MembersOf(q)' <=> c # arg[t].c /\ c \in MembersOf(q)
      BY <2>3, <2>5
    <3>3. c # arg[t].c => InSync(c, q)
      BY <2>6
    <3> QED
      BY <3>1, <3>2, <3>3 DEF InSync
  <2> QED
    BY <1>6, <2>1, <2>7
<1>14. ASSUME Call(t) PROVE Settled'
  <2>1. ASSUME NEW c \in Conn, LeaveAll(t, c) PROVE Settled'
    BY <1>5, <2>1
  <2>2. ASSUME NEW c \in Conn, NEW r \in Room, Leave(t, c, r) PROVE Settled'
    BY <1>5, <2>2
  <2> QED
    BY <1>1, <1>2, <1>4, <1>14, <2>1, <2>2 DEF Call
<1> QED
  BY <1>1, <1>7, <1>8, <1>9, <1>10, <1>11, <1>12, <1>13, <1>14 DEF Act, Continue

LEMMA TurnsStep == Hands /\ Turns /\ [Next]_vars => Turns'
<1> SUFFICES ASSUME Hands, Turns, [Next]_vars PROVE Turns'
  OBVIOUS
<1>1. OneAtATime' /\ OwnObject' /\ StaleJoined'
  BY OneStep, OwnObjectStep, StaleInJoined DEF Turns
<1>2. Settled'
  <2>1. CASE UNCHANGED vars
    BY <2>1 DEF vars, Turns, Settled, Changing, InSync, MidCall, Joining, Leaving, MembersOf
  <2>2. ASSUME NEW t \in Thread, Act(t), Watch, mode' = mode PROVE Settled'
    <3>1. CASE mode.solo
      BY <2>2, <3>1, SettledStep
    <3>2. CASE ~mode.solo
      BY <2>2, <3>2 DEF Settled
    <3> QED
      BY <3>1, <3>2
  <2> QED
    BY <2>1, <2>2, NextAct
<1> QED
  BY <1>1, <1>2 DEF Turns

LEMMA TurnsInit == Init => Turns
<1> SUFFICES ASSUME Init PROVE Turns
  OBVIOUS
<1>1. Changing = {}
  BY DEF Init, Changing
<1>2. \A c \in Conn, r \in Room : InSync(c, r)
  BY DEF Init, InSync, MembersOf
<1> QED
  BY <1>1, <1>2 DEF Init, Turns, OneAtATime, OwnObject, StaleJoined, Settled

-----------------------------------------------------------------------------
(* When the calls for each connection take turns, and those for others     *)
(* race them: nobody is in a room that conn.joined does not list.          *)

OnePerConn == mode.each => \A t, u \in Changing : arg[t].c = arg[u].c => t = u

(* The object that a Join is about to add to has no name but its own.      *)
HeldObject ==
  \A t \in Thread : pc[t] = "add" => \A q \in Room : index[q] = arg[t].o => q = arg[t].r

Listed(c) == \A q \in Room : c \in MembersOf(q) => q \in joined[c]

(* In the course of a call: the connection is in no room that it does not  *)
(* list but the one it leaves, which the sweep has before it, as it has    *)
(* every room of a leaveAll.                                               *)
Underway(t) ==
  LET c == arg[t].c
      r == arg[t].r
  IN  /\ pc[t] \in {"lookup", "add"} => r \in joined[c]
      /\ pc[t] \in {"check", "delete"} => c \notin members[arg[t].o]
      /\ \A q \in Room : c \in MembersOf(q) =>
           /\ q \in joined[c] \/ (q = r /\ pc[t] \in {"lock", "sweep", "check", "delete"})
           /\ pc[t] \in {"sweep", "check", "delete"} /\ r \in {NONE, q} => q \in todo[t]
           /\ pc[t] # "reset"

EachListed ==
  mode.each => (\A c \in Conn \ Busy : Listed(c)) /\ \A t \in Changing : Underway(t)

EachTurn == OnePerConn /\ HeldObject /\ EachListed

(* The calls for d are not what t is doing.                                *)
NotFor(t, d) == (t \in Changing => arg[t].c # d) /\ (t \in Changing' => arg'[t].c # d)

(* Whoever does what, the rooms that d is in become no more, and those it  *)
(* lists stay, unless the call is for d.                                   *)
LEMMA OthersKeep ==
  ASSUME Hands, NEW t \in Thread, Act(t), NEW d \in Conn, NotFor(t, d)
  PROVE  /\ joined'[d] = joined[d]
         /\ \A o \in Obj : d \in members'[o] => d \in members[o]
         /\ \A q \in Room : d \in MembersOf(q)' => d \in MembersOf(q)
<1>0. Typed /\ InHand
  BY TypedOK
<1> USE DEF Step, Goto
<1>1. joined'[d] = joined[d]
  <2>1. ASSUME NEW c \in Conn, NEW r \in Room, Join(t, c, r) \/ Leave(t, c, r)
        PROVE  joined'[d] = joined[d]
    <3>1. t \in Changing' /\ arg'[t].c = c
      BY <1>0, <2>1 DEF Join, Leave, Changing, Typed
    <3> QED
      BY <1>0, <2>1, <3>1 DEF NotFor, Join, Leave, Typed
  <2>2. CASE Reset(t)
    <3>1. t \in Changing
      BY <2>2 DEF Reset, Changing
    <3> QED
      BY <1>0, <2>2, <3>1 DEF NotFor, Reset, JoinedReset, Typed
  <2> QED
    BY <2>1, <2>2 DEF Act, Call, Continue, LeaveAll, Clear, Send, SendAll, SendRoom, Lookup, Add, Lock,
                      Sweep, Check, Delete
<1>2. \A o \in Obj : d \in members'[o] => d \in members[o]
  <2>1. CASE Lookup(t)
    <3>1. CASE members' = members
      BY <3>1
    <3>2. CASE members' # members
      <4>1. members' = [members EXCEPT ![Fresh] = {}]
        BY <2>1, <3>2 DEF Lookup, Fresh
      <4> HIDE DEF Fresh
      <4> QED
        BY <1>0, <4>1 DEF Typed
    <3> QED
      BY <3>1, <3>2
  <2>2. CASE Add(t)
    <3>1. t \in Changing /\ arg[t].o \in Obj
      BY <1>0, <2>2 DEF Add, Changing, InHand
    <3> QED
      BY <1>0, <2>2, <3>1 DEF NotFor, Add, Typed
  <2>3. CASE Sweep(t)
    BY <1>0, <2>3 DEF Sweep, Typed
  <2> QED
    BY <2>1, <2>2, <2>3 DEF Act, Call, Continue, Join, Leave, LeaveAll, Clear, Send, SendAll, SendRoom,
                            Lock, Check, Delete, Reset
<1>3. ASSUME NEW q \in Room, d \in MembersOf(q)' PROVE d \in MembersOf(q)
  <2>1. CASE Lookup(t)
    BY <1>3, <2>1, LookupMembers
  <2>2. CASE ~Lookup(t)
    <3>1. index'[q] # NONE /\ d \in members'[index'[q]]
      BY <1>3 DEF MembersOf
    <3>2. index'[q] = index[q]
      <4>1. CASE Delete(t)
        BY <3>1, <4>1 DEF Delete
      <4>2. ASSUME NEW r \in Room, Clear(t, r) PROVE index'[q] = index[q]
        BY <1>0, <3>1, <4>2 DEF Clear, Typed
      <4> QED
        BY <2>2, <4>1, <4>2 DEF Act, Call, Continue, Join, Leave, LeaveAll, Send, SendAll, SendRoom, Add,
                                Lock, Sweep, Check, Reset
    <3>3. index[q] \in Obj
      BY <1>0, <3>1, <3>2 DEF Typed
    <3> QED
      BY <1>2, <3>1, <3>2, <3>3 DEF MembersOf
  <2> QED
    BY <2>1, <2>2
<1> QED
  BY <1>1, <1>2, <1>3

(* A call that is to begin is for a connection that no other is for.       *)
LEMMA BeginsAlone ==
  ASSUME Hands, NEW t \in Thread, Act(t), t \notin Changing, t \in Changing'
  PROVE  mode.each => arg'[t].c \notin Busy
<1>0. Typed
  BY TypedOK
<1> USE DEF Step, Goto
<1>1. ASSUME NEW c \in Conn, NEW r \in Room, Join(t, c, r) \/ Leave(t, c, r)
      PROVE  mode.each => arg'[t].c \notin Busy
  BY <1>0, <1>1 DEF Join, Leave, MayChange, Typed
<1>2. ASSUME NEW c \in Conn, LeaveAll(t, c) PROVE mode.each => arg'[t].c \notin Busy
  BY <1>0, <1>2 DEF LeaveAll, MayChange, Typed
<1>3. pc[t] \in {"idle", "send"} /\ pc'[t] \notin {"idle", "send"}
  BY DEF Changing
<1> QED
  BY <1>0, <1>1, <1>2, <1>3 DEF Act, Call, Continue, Clear, Send, SendAll, SendRoom, Lookup, Add, Lock,
                                Sweep, Check, Delete, Reset, Typed

(* Nor does a call change who it is for.                                   *)
LEMMA SameConn ==
  ASSUME Hands, NEW t \in Thread, Act(t), t \in Changing, t \in Changing'
  PROVE  arg'[t].c = arg[t].c
<1>0. Typed /\ pc[t] \notin {"idle", "send"} /\ pc'[t] \notin {"idle", "send"} /\ arg[t] \in Arg
  BY TypedOK DEF Changing, Typed
<1> USE DEF Step, Goto
<1>1. CASE Lookup(t)
  <2>1. CASE index[arg[t].r] # NONE
    BY <1>0, <1>1, <2>1 DEF Lookup, Typed, Arg
  <2>2. CASE index[arg[t].r] = NONE
    <3>1. arg' = [arg EXCEPT ![t].o = Fresh]
      BY <1>1, <2>2 DEF Lookup, Fresh
    <3> HIDE DEF Fresh
    <3> QED
      BY <1>0, <3>1 DEF Typed, Arg
  <2> QED
    BY <2>1, <2>2
<1>2. CASE Sweep(t)
  <2>1. CASE todo[t] = {} /\ arg[t].r # NONE
    BY <1>0, <1>2, <2>1 DEF Sweep, Typed
  <2>2. CASE todo[t] = {} /\ arg[t].r = NONE
    BY <1>2, <2>2 DEF Sweep
  <2>3. CASE todo[t] # {}
    <3>1. PICK r \in todo[t] : arg' = [arg EXCEPT ![t].o = index[r]]
      BY <1>2, <2>3 DEF Sweep
    <3> QED
      BY <1>0, <3>1 DEF Typed, Arg
  <2> QED
    BY <2>1, <2>2, <2>3
<1>3. CASE Add(t) \/ Reset(t)
  BY <1>0, <1>3 DEF Add, Reset, Typed
<1>4. CASE Lock(t) \/ Check(t) \/ Delete(t)
  BY <1>4 DEF Lock, Check, Delete
<1> QED
  BY <1>0, <1>1, <1>2, <1>3, <1>4 DEF Act, Call, Continue, Join, Leave, LeaveAll, Clear, Send, SendAll,
                                      SendRoom

LEMMA OnePerConnStep == Hands /\ OnePerConn /\ [Next]_vars => OnePerConn'
<1> SUFFICES ASSUME Hands, OnePerConn, NEW t \in Thread, Act(t), mode' = mode, mode.each,
                    NEW u \in Changing', NEW v \in Changing', arg'[u].c = arg'[v].c
             PROVE  u = v
  BY NextAct DEF vars, OnePerConn, Changing
<1>1. \A w \in Changing' \ {t} : w \in Changing /\ arg'[w] = arg[w]
  BY ChangingStep, OthersSame DEF Changing
<1>2. \A w \in Changing' \ {t} : t \in Changing' => arg'[w].c # arg'[t].c
  <2>1. CASE t \in Changing
    BY <1>1, <2>1, SameConn DEF OnePerConn
  <2>2. CASE t \notin Changing
    BY <1>1, <2>2, BeginsAlone DEF Busy
  <2> QED
    BY <2>1, <2>2
<1> QED
  BY <1>1, <1>2 DEF OnePerConn

LEMMA HeldObjectStep == Hands /\ OwnObject /\ HeldObject /\ [Next]_vars => HeldObject'
<1> SUFFICES ASSUME Hands, OwnObject, HeldObject, NEW t \in Thread, Act(t),
                    NEW u \in Thread, pc'[u] = "add", NEW q \in Room, index'[q] = arg'[u].o
             PROVE  q = arg'[u].r
  BY NextAct DEF vars, HeldObject
<1>0. Typed /\ InHand
  BY TypedOK
<1> USE DEF Step, Goto
<1>1. CASE Lookup(t)
  <2>1. pc[t] = "lookup" /\ pc'[t] = "add" /\ arg[t].r \in Room /\ arg[t] \in Arg
    BY <1>0, <1>1 DEF Lookup, Typed, InHand
  <2>2. CASE index[arg[t].r] # NONE
    <3>1. index' = index /\ arg' = [arg EXCEPT ![t].o = index[arg[t].r]]
      BY <1>1, <2>2 DEF Lookup
    <3>2. CASE u = t
      BY <1>0, <2>1, <2>2, <3>1, <3>2 DEF OwnObject, Typed, Arg
    <3>3. CASE u # t
      BY <3>1, <3>3, OthersSame DEF HeldObject
    <3> QED
      BY <3>2, <3>3
  <2>3. CASE index[arg[t].r] = NONE
    <3>1. index' = [index EXCEPT ![arg[t].r] = Fresh] /\ arg' = [arg EXCEPT ![t].o = Fresh]
      BY <1>1, <2>3 DEF Lookup, Fresh
    <3>2. (\A r \in Room : index[r] # Fresh) /\ \A w \in Thread : arg[w].o # Fresh
      BY <1>1, <2>3, FreshUnused DEF Lookup, Unused
    <3> HIDE DEF Fresh
    <3>3. CASE u = t
      BY <1>0, <2>1, <3>1, <3>2, <3>3 DEF Typed, Arg
    <3>4. CASE u # t
      <4>1. pc[u] = "add" /\ arg'[u] = arg[u] /\ q # arg[t].r
        BY <1>0, <2>1, <3>1, <3>2, <3>4, OthersSame DEF Typed
      <4>2. index[q] = arg[u].o
        BY <1>0, <3>1, <4>1 DEF Typed
      <4> QED
        BY <4>1, <4>2 DEF HeldObject
    <3> QED
      BY <3>3, <3>4
  <2> QED
    BY <2>2, <2>3
<1>2. CASE ~Lookup(t)
  <2>1. pc[u] = "add" /\ arg'[u] = arg[u]
    <3>1. CASE u # t
      BY <3>1, OthersSame
    <3>2. CASE u = t
      BY <1>0, <1>2, <3>2 DEF Act, Call, Continue, Join, Leave, LeaveAll, Clear, Send, SendAll, SendRoom,
                              Add, Lock, Sweep, Check, Delete, Reset, Typed
    <3> QED
      BY <3>1, <3>2
  <2>2. arg[u].o # NONE
    BY <1>0, <2>1 DEF InHand
  <2>3. index'[q] \in {index[q], NONE}
    <3>1. ASSUME NEW r \in Room, Clear(t, r) PROVE index'[q] \in {index[q], NONE}
      BY <1>0, <3>1 DEF Clear, Typed
    <3>2. CASE Delete(t)
      BY <3>2 DEF Delete
    <3> QED
      BY <1>2, <3>1, <3>2 DEF Act, Call, Continue, Join, Leave, LeaveAll, Send, SendAll, SendRoom, Add,
                              Lock, Sweep, Check, Reset
  <2> QED
    BY <2>1, <2>2, <2>3 DEF HeldObject
<1> QED
  BY <1>1, <1>2

LEMMA EachListedStep ==
  ASSUME Hands, EachTurn, OnePerConn', mode.each, NEW t \in Thread, Act(t), mode' = mode
  PROVE  EachListed'
<1>0. /\ Typed /\ InHand /\ (\A c \in Conn \ Busy : Listed(c)) /\ (\A u \in Changing : Underway(u))
      /\ \A u \in Thread \ {t} : pc'[u] = pc[u] /\ arg'[u] = arg[u] /\ todo'[u] = todo[u]
  BY TypedOK, OthersSame DEF EachTurn, EachListed
<1> USE DEF Step, Goto
(* The other threads, and the connections that nobody calls for.           *)
<1>1. \A u \in Changing' \ {t} : u \in Changing /\ NotFor(t, arg[u].c) /\ arg[u].c \in Conn
  <2> SUFFICES ASSUME NEW u \in Changing' \ {t}
               PROVE  u \in Changing /\ NotFor(t, arg[u].c) /\ arg[u].c \in Conn
    OBVIOUS
  <2>1. u \in Changing /\ arg'[u] = arg[u]
    BY <1>0 DEF Changing
  <2> QED
    BY <1>0, <2>1 DEF EachTurn, OnePerConn, NotFor, InHand, Changing
<1>2. ASSUME NEW u \in Changing' \ {t} PROVE Underway(u)'
  <2>1. u \in Changing /\ u # t /\ NotFor(t, arg[u].c) /\ arg[u].c \in Conn /\ Underway(u)
    BY <1>0, <1>1
  <2>2. pc'[u] = pc[u] /\ arg'[u] = arg[u] /\ todo'[u] = todo[u]
    BY <1>0, <2>1 DEF Changing
  <2>3. /\ joined'[arg[u].c] = joined[arg[u].c]
        /\ \A o \in Obj : arg[u].c \in members'[o] => arg[u].c \in members[o]
        /\ \A q \in Room : arg[u].c \in MembersOf(q)' => arg[u].c \in MembersOf(q)
    BY <2>1, OthersKeep
  <2>4. pc[u] \in {"check", "delete"} => arg[u].o \in Obj
    BY <1>0, <2>1 DEF InHand, Changing
  <2> QED
    BY <2>1, <2>2, <2>3, <2>4 DEF Underway
<1>3. ASSUME NEW c \in Conn \ Busy', NotFor(t, c) PROVE Listed(c)'
  <2>1. c \notin Busy
    <3> SUFFICES ASSUME NEW u \in Changing, arg[u].c = c PROVE FALSE
      BY DEF Busy
    <3>1. u # t /\ u \in Thread
      BY <1>3 DEF NotFor, Changing
    <3>2. u \in Changing' /\ arg'[u].c = c
      BY <1>0, <3>1 DEF Changing
    <3> QED
      BY <1>3, <3>2 DEF Busy
  <2> QED
    BY <1>0, <1>3, <2>1, OthersKeep DEF Listed
(* What is left to show is about t.                                        *)
<1>4. ASSUME t \in Changing' => Underway(t)',
             t \in Changing /\ t \notin Changing' => \A c \in Conn : c = arg[t].c => Listed(c)'
      PROVE  EachListed'
  <2>1. \A u \in Changing' : Underway(u)'
    BY <1>2, <1>4
  <2>2. ASSUME NEW c \in Conn \ Busy' PROVE Listed(c)'
    <3>1. CASE NotFor(t, c)
      BY <1>3, <3>1
    <3>2. CASE ~NotFor(t, c)
      <4>1. ~(t \in Changing' /\ arg'[t].c = c)
        BY DEF Busy
      <4>2. t \in Changing /\ arg[t].c = c /\ t \notin Changing'
        BY <3>2, <4>1, SameConn DEF NotFor
      <4> QED
        BY <1>4, <4>2
    <3> QED
      BY <3>1, <3>2
  <2> QED
    BY <2>1, <2>2 DEF EachListed
<1>5. ASSUME t \notin Changing, t \notin Changing' PROVE EachListed'
  BY <1>4, <1>5
<1>6. ASSUME t \notin Changing, t \in Changing', Underway(t)' PROVE EachListed'
  BY <1>4, <1>6
<1>7. ASSUME NEW c \in Conn, NEW r \in Room, Join(t, c, r) PROVE EachListed'
  <2>1. /\ c \notin Busy /\ UNCHANGED <<index, members>> /\ joined'[c] = joined[c] \cup {r}
        /\ pc[t] = "idle" /\ pc'[t] = "lookup" /\ arg'[t].c = c /\ arg'[t].r = r
    BY <1>0, <1>7 DEF Join, MayChange, Typed
  <2>2. Listed(c) /\ \A q \in Room : MembersOf(q)' = MembersOf(q)
    BY <1>0, <2>1, SameMembers
  <2>3. Underway(t)'
    BY <2>1, <2>2 DEF Underway, Listed
  <2> QED
    BY <1>6, <2>1, <2>3 DEF Changing
<1>8. ASSUME NEW c \in Conn, NEW r \in Room \cup {NONE},
             (r \in Room /\ Leave(t, c, r)) \/ (r = NONE /\ LeaveAll(t, c))
      PROVE  EachListed'
  <2>1. /\ c \notin Busy /\ UNCHANGED <<index, members>> /\ joined[c] \ {r} \subseteq joined'[c]
        /\ pc[t] = "idle" /\ pc'[t] = "lock" /\ arg'[t].c = c /\ arg'[t].r = r
    BY <1>0, <1>8 DEF Leave, LeaveAll, MayChange, Typed
  <2>2. Listed(c) /\ \A q \in Room : MembersOf(q)' = MembersOf(q)
    BY <1>0, <2>1, SameMembers
  <2>3. Underway(t)'
    BY <2>1, <2>2 DEF Underway, Listed
  <2> QED
    BY <1>6, <2>1, <2>3 DEF Changing
<1>9. CASE Lookup(t)
  <2>1. pc[t] = "lookup" /\ pc'[t] = "add" /\ joined' = joined /\ arg'[t].r = arg[t].r
    <3>1. pc[t] = "lookup" /\ pc'[t] = "add" /\ joined' = joined /\ arg[t] \in Arg
      BY <1>0, <1>9 DEF Lookup, Typed
    <3>2. \E o \in Obj \cup {NONE} : arg' = [arg EXCEPT ![t].o = o]
      <4>1. CASE index[arg[t].r] # NONE
        BY <1>0, <1>9, <3>1, <4>1 DEF Lookup, Typed, InHand
      <4>2. CASE index[arg[t].r] = NONE
        BY <1>9, <4>2, FreshUnused DEF Lookup, Fresh
      <4> QED
        BY <4>1, <4>2
    <3> QED
      BY <1>0, <3>1, <3>2 DEF Typed, Arg
  <2>2. t \in Changing /\ t \in Changing' /\ arg'[t].c = arg[t].c
    BY <2>1, SameConn DEF Changing
  <2>3. \A q \in Room : MembersOf(q)' = MembersOf(q)
    BY <1>9, LookupMembers
  <2>4. Underway(t)'
    BY <1>0, <2>1, <2>2, <2>3 DEF Underway
  <2> QED
    BY <1>4, <2>2, <2>4
<1>10. CASE Add(t)
  <2>1. /\ pc[t] = "add" /\ pc'[t] = "idle" /\ index' = index /\ joined' = joined
        /\ members' = [members EXCEPT ![arg[t].o] = @ \cup {arg[t].c}] /\ arg[t].o \in Obj
    BY <1>0, <1>10 DEF Add, Typed, InHand
  <2>2. t \in Changing /\ t \notin Changing' /\ Underway(t)
    BY <1>0, <2>1 DEF Changing
  <2>3. ASSUME NEW q \in Room, arg[t].c \in MembersOf(q)' PROVE q \in joined[arg[t].c]
    <3>1. CASE index[q] = arg[t].o
      BY <2>1, <2>2, <3>1 DEF EachTurn, HeldObject, Underway
    <3>2. CASE index[q] # arg[t].o
      <4>1. arg[t].c \in MembersOf(q)
        BY <1>0, <2>1, <2>3, <3>2 DEF MembersOf, Typed
      <4> QED
        BY <2>1, <2>2, <4>1 DEF Underway
    <3> QED
      BY <3>1, <3>2
  <2>4. ASSUME NEW c \in Conn, c = arg[t].c PROVE Listed(c)'
    BY <2>1, <2>3, <2>4 DEF Listed
  <2> QED
    BY <1>4, <2>2, <2>4
<1>11. CASE Lock(t)
  <2>1. /\ pc[t] = "lock" /\ pc'[t] = "sweep" /\ UNCHANGED <<joined, arg, index, members>>
        /\ todo'[t] = {r \in Room : index[r] # NONE /\ (arg[t].r = NONE \/ arg[t].r = r)}
    BY <1>0, <1>11 DEF Lock, Typed
  <2>2. t \in Changing /\ t \in Changing' /\ Underway(t)
    BY <1>0, <2>1 DEF Changing
  <2>3. \A q \in Room : MembersOf(q)' = MembersOf(q) /\ (MembersOf(q) # {} => index[q] # NONE)
    BY <2>1, SameMembers DEF MembersOf
  <2>4. Underway(t)'
    BY <2>1, <2>2, <2>3 DEF Underway
  <2> QED
    BY <1>4, <2>2, <2>4
<1>12. CASE Sweep(t)
  <2>1. pc[t] = "sweep" /\ joined' = joined /\ index' = index /\ todo' = todo
    BY <1>12 DEF Sweep
  <2>2. t \in Changing /\ Underway(t)
    BY <1>0, <2>1 DEF Changing
  <2>3. CASE todo[t] # {}
    <3>1. PICK r \in todo[t] :
            /\ members' = [members EXCEPT ![index[r]] = @ \ {arg[t].c}]
            /\ arg' = [arg EXCEPT ![t].o = index[r]] /\ pc' = [pc EXCEPT ![t] = "check"]
      BY <1>12, <2>3 DEF Sweep
    <3>2. r \in Room /\ index[r] \in Obj
      BY <1>0, <2>1 DEF InHand, Typed
    <3>3. /\ arg'[t].c = arg[t].c /\ arg'[t].r = arg[t].r /\ arg'[t].o = index[r] /\ pc'[t] = "check"
      BY <1>0, <3>1 DEF Typed, Arg
    <3>4. arg[t].c \notin members'[index[r]] /\ \A o \in Obj : members'[o] \subseteq members[o]
      BY <1>0, <3>1, <3>2 DEF Typed
    <3>5. \A q \in Room : arg[t].c \in MembersOf(q)' => arg[t].c \in MembersOf(q)
      BY <1>0, <2>1, <3>4 DEF MembersOf, Typed
    <3>6. Underway(t)'
      BY <2>1, <2>2, <3>3, <3>4, <3>5 DEF Underway
    <3> QED
      BY <1>4, <2>2, <3>3, <3>6 DEF Changing
  <2>4. CASE todo[t] = {}
    <3>1. /\ members' = members
          /\ IF arg[t].r = NONE THEN pc'[t] = "reset" /\ arg' = arg ELSE pc'[t] = "idle"
      BY <1>0, <1>12, <2>4 DEF Sweep, Typed
    <3>2. \A q \in Room : MembersOf(q)' = MembersOf(q)
      BY <2>1, <3>1, SameMembers
    <3>3. \A q \in Room : arg[t].c \in MembersOf(q) =>
            arg[t].r \notin {NONE, q} /\ q \in joined[arg[t].c]
      BY <2>1, <2>2, <2>4 DEF Underway
    <3>4. CASE arg[t].r = NONE
      <4>1. Underway(t)'
        BY <3>1, <3>2, <3>3, <3>4 DEF Underway
      <4> QED
        BY <1>4, <2>2, <3>1, <3>4, <4>1 DEF Changing
    <3>5. CASE arg[t].r # NONE
      <4>1. ASSUME NEW c \in Conn, c = arg[t].c PROVE Listed(c)'
        BY <2>1, <3>2, <3>3, <4>1 DEF Listed
      <4>2. t \notin Changing'
        BY <3>1, <3>5 DEF Changing
      <4> QED
        BY <1>4, <4>1, <4>2
    <3> QED
      BY <3>4, <3>5
  <2> QED
    BY <2>3, <2>4
<1>13. CASE Check(t) \/ Delete(t)
  <2>1. /\ pc[t] \in {"check", "delete"} /\ pc'[t] \in {"sweep", "delete"}
        /\ UNCHANGED <<joined, arg, members>>
        /\ (pc'[t] = "delete" /\ todo'[t] = todo[t]) \/ todo'[t] = {r \in todo[t] : index[r] # arg[t].o}
    BY <1>0, <1>13 DEF Check, Delete, Typed
  <2>2. t \in Changing /\ t \in Changing' /\ Underway(t)
    BY <1>0, <2>1 DEF Changing
  <2>3. \A q \in Room : index'[q] \in {index[q], NONE}
    BY <1>13 DEF Check, Delete
  <2>4. \A q \in Room : arg[t].c \in MembersOf(q)' =>
          arg[t].c \in MembersOf(q) /\ index[q] # arg[t].o
    BY <2>1, <2>2, <2>3 DEF MembersOf, Underway
  <2>5. Underway(t)'
    BY <2>1, <2>2, <2>4 DEF Underway
  <2> QED
    BY <1>4, <2>2, <2>5
<1>14. CASE Reset(t)
  <2>1. pc[t] = "reset" /\ pc'[t] = "idle" /\ UNCHANGED <<index, members>>
    BY <1>0, <1>14 DEF Reset, Typed
  <2>2. /\ t \in Changing /\ t \notin Changing' /\ Underway(t)
        /\ \A q \in Room : MembersOf(q)' = MembersOf(q)
    BY <1>0, <2>1, SameMembers DEF Changing
  <2>3. ASSUME NEW c \in Conn, c = arg[t].c PROVE Listed(c)'
    BY <2>1, <2>2, <2>3 DEF Listed, Underway
  <2> QED
    BY <1>4, <2>2, <2>3
<1>15. ASSUME SendAll(t) \/ SendRoom(t) \/ (\E r \in Room, skip \in Conn \cup {NONE} : Send(t, r, skip))
              \/ \E r \in Room : Clear(t, r)
       PROVE  EachListed'
  <2>1. pc[t] \in {"idle", "send"} /\ pc'[t] \in {"idle", "send"}
    BY <1>0, <1>15 DEF SendAll, SendRoom, Send, Clear, Typed
  <2> QED
    BY <1>5, <2>1 DEF Changing
<1>16. ASSUME Call(t) PROVE EachListed'
  <2>1. ASSUME NEW c \in Conn, LeaveAll(t, c) PROVE EachListed'
    BY <1>8, <2>1
  <2>2. ASSUME NEW c \in Conn, NEW r \in Room, Leave(t, c, r) PROVE EachListed'
    BY <1>8, <2>2
  <2> QED
    BY <1>7, <1>15, <1>16, <2>1, <2>2 DEF Call
<1> QED
  BY <1>9, <1>10, <1>11, <1>12, <1>13, <1>14, <1>15, <1>16 DEF Act, Continue

LEMMA EachTurnStep == Hands /\ OwnObject /\ EachTurn /\ [Next]_vars => EachTurn'
<1> SUFFICES ASSUME Hands, OwnObject, EachTurn, [Next]_vars PROVE EachTurn'
  OBVIOUS
<1>1. OnePerConn' /\ HeldObject'
  BY OnePerConnStep, HeldObjectStep DEF EachTurn
<1>2. EachListed'
  <2>1. CASE UNCHANGED vars
    BY <2>1 DEF vars, EachTurn, EachListed, Listed, Underway, Busy, Changing, MembersOf
  <2>2. ASSUME NEW t \in Thread, Act(t), mode' = mode PROVE EachListed'
    <3>1. CASE mode.each
      BY <1>1, <2>2, <3>1, EachListedStep
    <3>2. CASE ~mode.each
      BY <2>2, <3>2 DEF EachListed
    <3> QED
      BY <3>1, <3>2
  <2> QED
    BY <2>1, <2>2, NextAct
<1> QED
  BY <1>1, <1>2 DEF EachTurn

LEMMA EachTurnInit == Init => EachTurn
<1> SUFFICES ASSUME Init PROVE EachTurn
  OBVIOUS
<1>1. Changing = {}
  BY DEF Init, Changing
<1>2. \A q \in Room : MembersOf(q) = {}
  BY DEF Init, MembersOf
<1> QED
  BY <1>1, <1>2 DEF Init, EachTurn, OnePerConn, HeldObject, EachListed, Listed

(* When all calls take turns, conn.Rooms lists the rooms the manager has   *)
(* the connection in, and those that ClearRoom took it out of; when the    *)
(* calls for each connection do, it lists at least those.                  *)
THEOREM TurnsKeepSync == Spec => []TurnsInSync
<1>1. Turns /\ EachTurn => TurnsInSync
  <2> SUFFICES ASSUME Turns, EachTurn PROVE TurnsInSync
    OBVIOUS
  <2>1. mode.solo /\ Changing = {} =>
          \A c \in Conn, r \in Room : r \in joined[c] <=> (c \in MembersOf(r)) # (<<c, r>> \in stale)
    BY DEF Turns, Settled, InSync
  <2>2. mode.each => \A c \in Conn \ Busy, r \in Room : c \in MembersOf(r) => r \in joined[c]
    BY DEF EachTurn, EachListed, Listed
  <2> QED
    BY <2>1, <2>2 DEF TurnsInSync
<1>2. Turns => OwnObject
  BY DEF Turns
<1> QED
  BY <1>1, <1>2, HandsInit, HandsStep, TurnsInit, TurnsStep, EachTurnInit, EachTurnStep, PTL DEF Spec

-----------------------------------------------------------------------------
(* Rooms implements Membership.                                            *)

In == {p \in Room \X Conn : mode.solo /\ p[2] \in MembersOf(p[1])}
Who == IF mode.solo /\ Changing # {} THEN arg[CHOOSE t \in Changing : TRUE].c ELSE NONE

MembershipStep ==
  \/ \E c \in Conn : Who = NONE /\ Who' = c /\ In' = In
  \/ Who # NONE /\ Who' = NONE /\ In' = In
  \/ \E r \in Room : Who # NONE /\ In' = In \cup {<<r, Who>>} /\ Who' = NONE
  \/ \E r \in Room : Who # NONE /\ In' = In \ {<<r, Who>>} /\ Who' = Who
  \/ \E r \in Room : "clear" \in Ops /\ Who = NONE /\ In' = {p \in In : p[1] # r} /\ Who' = Who
  \/ In' = In /\ Who' = Who

(* The abstract step, with the mapping put in.                             *)
LEMMA MembershipMap ==
  /\ Promise!Init <=> In = {} /\ Who = NONE
  /\ MembershipStep => [Promise!Next]_(Promise!vars)
<1>1. Promise!Init <=> In = {} /\ Who = NONE
  BY DEF Promise!Init, In, Who
<1>2. ASSUME MembershipStep PROVE [Promise!Next]_(Promise!vars)
  <2>1. \A c \in Conn : Who = NONE /\ Who' = c /\ In' = In => Promise!Begin(c)
    BY DEF Promise!Begin, In, Who
  <2>2. Who # NONE /\ Who' = NONE /\ In' = In => Promise!End
    BY DEF Promise!End, In, Who
  <2>3. \A r \in Room : Who # NONE /\ In' = In \cup {<<r, Who>>} /\ Who' = NONE => Promise!Join(r)
    BY DEF Promise!Join, In, Who
  <2>4. \A r \in Room : Who # NONE /\ In' = In \ {<<r, Who>>} /\ Who' = Who => Promise!Leave(r)
    BY DEF Promise!Leave, In, Who
  <2>5. \A r \in Room : "clear" \in Ops /\ Who = NONE /\ In' = {p \in In : p[1] # r} /\ Who' = Who
                          => Promise!Clear(r)
    BY DEF Promise!Clear, In, Who
  <2>6. In' = In /\ Who' = Who => UNCHANGED Promise!vars
    BY DEF Promise!vars, In, Who
  <2> QED
    BY <1>2, <2>1, <2>2, <2>3, <2>4, <2>5, <2>6 DEF MembershipStep, Promise!Next
<1> QED
  BY <1>1, <1>2

LEMMA SameIn ==
  ASSUME mode' = mode, \A q \in Room : MembersOf(q)' = MembersOf(q)
  PROVE  In' = In
  BY DEF In

LEMMA RefineStep ==
  ASSUME Hands, Turns, mode.solo, NEW t \in Thread, Act(t), mode' = mode
  PROVE  MembershipStep
<1>0. /\ Typed /\ InHand /\ OneAtATime /\ OwnObject /\ Settled
      /\ \A u \in Thread \ {t} : pc'[u] = pc[u] /\ arg'[u] = arg[u]
  BY TypedOK, OthersSame DEF Turns
<1> USE DEF Step, Goto
<1>1. ASSUME SendAll(t) \/ SendRoom(t) \/ \E r \in Room, skip \in Conn \cup {NONE} : Send(t, r, skip)
      PROVE  MembershipStep
  <2>1. UNCHANGED <<index, members>> /\ pc[t] \in {"idle", "send"} /\ pc'[t] \in {"idle", "send"}
    BY <1>0, <1>1 DEF SendAll, SendRoom, Send, Typed
  <2>2. Changing' = Changing /\ \A u \in Changing : u \in Thread \ {t}
    BY <2>1, ChangingStep DEF Changing
  <2>3. Who' = Who
    BY <1>0, <2>2 DEF Who
  <2>4. In' = In
    BY <2>1, SameMembers, SameIn
  <2> QED
    BY <2>3, <2>4 DEF MembershipStep
<1>2. ASSUME NEW r \in Room, Clear(t, r) PROVE MembershipStep
  <2>1. /\ "clear" \in Ops /\ Changing = {} /\ Changing' = {} /\ members' = members
        /\ index' = [index EXCEPT ![r] = NONE]
    BY <1>2 DEF Clear, MayChange, Changing
  <2>2. MembersOf(r)' = {} /\ \A q \in Room \ {r} : MembersOf(q)' = MembersOf(q)
    BY <1>0, <2>1 DEF MembersOf, Typed
  <2>3. In' = {p \in In : p[1] # r}
    BY <2>2 DEF In
  <2>4. Who = NONE /\ Who' = NONE
    BY <2>1 DEF Who
  <2> QED
    BY <2>1, <2>3, <2>4 DEF MembershipStep
<1>3. ASSUME NEW c \in Conn,
             LeaveAll(t, c) \/ \E r \in Room : Join(t, c, r) \/ Leave(t, c, r)
      PROVE  MembershipStep
  <2>1. /\ Changing = {} /\ UNCHANGED <<index, members>>
        /\ pc'[t] \in {"lookup", "lock"} /\ arg'[t].c = c
    BY <1>0, <1>3 DEF Join, Leave, LeaveAll, MayChange, Typed
  <2>2. Changing' = {t}
    BY <2>1, ChangingStep
  <2>3. Who = NONE /\ Who' = c
    BY <2>1, <2>2 DEF Who
  <2>4. In' = In
    BY <2>1, SameMembers, SameIn
  <2> QED
    BY <2>3, <2>4 DEF MembershipStep
<1>4. ASSUME t \in Changing
      PROVE  /\ Who = arg[t].c /\ Who \in Conn /\ Who # NONE /\ MidCall(t)
             /\ Who' = IF pc'[t] \in {"idle", "send"} THEN NONE ELSE arg'[t].c
  <2>1. Changing = {t}
    BY <1>0, <1>4 DEF OneAtATime
  <2>2. Changing' = IF pc'[t] \in {"idle", "send"} THEN {} ELSE {t}
    BY <2>1, ChangingStep
  <2>3. arg[t].c \in Conn /\ MidCall(t)
    BY <1>0, <1>4 DEF InHand, Changing, Settled
  <2>4. Who = arg[t].c
    BY <2>1 DEF Who
  <2>5. Who' = IF pc'[t] \in {"idle", "send"} THEN NONE ELSE arg'[t].c
    BY <2>2 DEF Who
  <2> QED
    BY <2>3, <2>4, <2>5
<1>5. CASE Lookup(t) \/ Lock(t) \/ Check(t) \/ Delete(t)
  <2>1. t \in Changing /\ pc'[t] \notin {"idle", "send"}
    BY <1>0, <1>5 DEF Lookup, Lock, Check, Delete, Changing, Typed
  <2>2. arg'[t].c = arg[t].c
    BY <1>0, <1>5 DEF Lookup, Lock, Check, Delete, Typed, Arg
  <2>3. \A q \in Room : MembersOf(q)' = MembersOf(q)
    <3>1. CASE Lookup(t)
      BY <3>1, LookupMembers
    <3>2. CASE Lock(t) \/ Check(t)
      BY <3>2, SameMembers DEF Lock, Check
    <3>3. CASE Delete(t)
      <4>1. pc[t] = "delete" /\ members[arg[t].o] = {}
        BY <1>4, <2>1, <3>3 DEF Delete, MidCall, Leaving
      <4> QED
        BY <3>3, <4>1, DeleteMembers
    <3> QED
      BY <1>5, <3>1, <3>2, <3>3
  <2> QED
    BY <1>4, <2>1, <2>2, <2>3, SameIn DEF MembershipStep
<1>6. CASE Add(t)
  <2>1. t \in Changing /\ pc[t] = "add" /\ pc'[t] = "idle" /\ arg[t].r \in Room
    BY <1>0, <1>6 DEF Add, Changing, Typed, InHand
  <2>2. index[arg[t].r] = arg[t].o
    BY <1>4, <2>1 DEF MidCall, Joining
  <2>3. \A q \in Room :
          MembersOf(q)' = IF q = arg[t].r THEN MembersOf(q) \cup {arg[t].c} ELSE MembersOf(q)
    BY <1>0, <1>6, <2>2, AddMembers
  <2>4. In' = In \cup {<<arg[t].r, Who>>}
    BY <1>4, <2>1, <2>3 DEF In
  <2> QED
    BY <1>4, <2>1, <2>4 DEF MembershipStep
<1>7. CASE Sweep(t)
  <2>1. t \in Changing /\ pc[t] = "sweep" /\ index' = index
    BY <1>7 DEF Sweep, Changing
  <2>2. CASE todo[t] # {}
    <3>1. PICK r \in todo[t] :
            /\ members' = [members EXCEPT ![index[r]] = @ \ {arg[t].c}]
            /\ arg' = [arg EXCEPT ![t].o = index[r]] /\ pc' = [pc EXCEPT ![t] = "check"]
      BY <1>7, <2>2 DEF Sweep
    <3>2. \A q \in Room : MembersOf(q)' = IF q = r THEN MembersOf(q) \ {arg[t].c} ELSE MembersOf(q)
      BY <1>0, <2>1, <3>1, SweepMembers
    <3>3. arg'[t].c = arg[t].c /\ pc'[t] = "check" /\ r \in Room
      BY <1>0, <2>1, <3>1 DEF Typed, Arg, InHand
    <3>4. In' = In \ {<<r, Who>>}
      BY <1>4, <2>1, <3>2, <3>3 DEF In
    <3> QED
      BY <1>4, <2>1, <3>3, <3>4 DEF MembershipStep
  <2>3. CASE todo[t] = {}
    <3>1. /\ members' = members
          /\ \/ pc'[t] = "reset" /\ arg' = arg
             \/ pc'[t] = "idle"
      BY <1>0, <1>7, <2>3 DEF Sweep, Typed
    <3>2. In' = In
      BY <2>1, <3>1, SameMembers, SameIn
    <3> QED
      BY <1>4, <2>1, <3>1, <3>2 DEF MembershipStep
  <2> QED
    BY <2>2, <2>3
<1>8. CASE Reset(t)
  <2>1. t \in Changing /\ pc'[t] = "idle" /\ UNCHANGED <<index, members>>
    BY <1>0, <1>8 DEF Reset, Changing, Typed
  <2>2. In' = In
    BY <2>1, SameMembers, SameIn
  <2> QED
    BY <1>4, <2>1, <2>2 DEF MembershipStep
<1>9. Call(t) => MembershipStep
  BY <1>1, <1>2, <1>3 DEF Call
<1> QED
  BY <1>1, <1>5, <1>6, <1>7, <1>8, <1>9 DEF Act, Continue

(* Join and Leave of callers that take turns, with their several critical  *)
(* sections, act as single changes of a relation: Rooms implements         *)
(* Membership.                                                             *)
THEOREM ImplementsMembership == Spec => RefinesMembership
<1>1. Init => Promise!Init
  <2> SUFFICES ASSUME Init PROVE Promise!Init
    OBVIOUS
  <2>1. Changing = {} /\ \A r \in Room : MembersOf(r) = {}
    BY DEF Init, Changing, MembersOf
  <2>2. In = {} /\ Who = NONE
    BY <2>1 DEF In, Who
  <2> QED
    BY <2>2, MembershipMap
<1>2. Hands /\ Turns /\ [Next]_vars => [Promise!Next]_(Promise!vars)
  <2> SUFFICES ASSUME Hands, Turns, [Next]_vars PROVE MembershipStep
    BY MembershipMap
  <2>1. CASE UNCHANGED vars
    <3>1. In' = In /\ Who' = Who
      BY <2>1 DEF vars, In, Who, MembersOf, Changing
    <3> QED
      BY <3>1 DEF MembershipStep
  <2>2. ASSUME NEW t \in Thread, Act(t), mode' = mode PROVE MembershipStep
    <3>1. CASE mode.solo
      BY <2>2, <3>1, RefineStep
    <3>2. CASE ~mode.solo
      <4>1. In = {} /\ In' = {} /\ Who = NONE /\ Who' = NONE
        BY <2>2, <3>2 DEF In, Who
      <4> QED
        BY <4>1 DEF MembershipStep
    <3> QED
      BY <3>1, <3>2
  <2> QED
    BY <2>1, <2>2, NextAct
<1> QED
  BY <1>1, <1>2, HandsInit, HandsStep, TurnsInit, TurnsStep, PTL
     DEF Spec, RefinesMembership, Promise!Spec
=============================================================================

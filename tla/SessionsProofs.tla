--------------------------- MODULE SessionsProofs ---------------------------
(***************************************************************************)
(* Theorems about Sessions, for every number of sessions, namespaces and   *)
(* connections and every choice of UserOps.                                *)
(*                                                                         *)
(* Each step lemma has one step per action.  The lemmas before it put the  *)
(* actions with alternatives or witnesses into the form the steps use.     *)
(***************************************************************************)
EXTENDS SessionsInv, TLAPS

USE SessionsAssumption

-----------------------------------------------------------------------------
(* The actions with alternatives.                                          *)

(* A CONNECT stops the loop or changes nothing, or it opens a connection.  *)
Declines(s) ==
  /\ pc[s] = "read"
  /\ pc' = pc \/ pc' = [pc EXCEPT ![s] = "stuck"]
  /\ greeted' = [greeted EXCEPT ![s] = TRUE]
  /\ wedged' \in BOOLEAN
  /\ UNCHANGED <<net, registered, table, listed, ids, room, app, serving, victims,
                 sweep, tgt, disc>>

Opens(s, n, c) ==
  /\ pc[s] = "read" /\ pc' = [pc EXCEPT ![s] = "publish"]
  /\ s \in registered /\ table[s][n] = NONE /\ sess[c] = NONE
  /\ greeted' = [greeted EXCEPT ![s] = TRUE]
  /\ sess' = [sess EXCEPT ![c] = s]
  /\ nsp' = [nsp EXCEPT ![c] = n]
  /\ table' = [table EXCEPT ![s][n] = c]
  /\ tgt' = [tgt EXCEPT ![s] = c]
  /\ UNCHANGED <<net, registered, listed, room, app, srv, sweep, disc>>

LEMMA ConnectCases ==
  ASSUME TypeOK, NEW s \in Session, NEW n \in NS, Connect(s, n)
  PROVE  Declines(s) \/ \E c \in Conn : Opens(s, n, c)
  BY DEF TypeOK, Connect, Torn, Declines, Opens, At, Goto, ids, srv

(* The reply is sent, or its failure closes the connection, or finds it    *)
(* closed.                                                                 *)
Replies(s) ==
  /\ pc[s] = "reply" /\ pc' = [pc EXCEPT ![s] = "onconnect"]
  /\ known' = [known EXCEPT ![tgt[s]] = TRUE]
  /\ UNCHANGED <<net, dir, room, once, rejected, srv, sweep, tgt, disc>>

ReplyCloses(s) ==
  /\ pc[s] = "reply" /\ pc' = [pc EXCEPT ![s] = "closeLeave"]
  /\ ~once[tgt[s]] /\ once' = [once EXCEPT ![tgt[s]] = TRUE]
  /\ UNCHANGED <<net, dir, room, known, rejected, srv, sweep, tgt, disc>>

ReplyFindsClosed(s) ==
  /\ pc[s] = "reply" /\ pc' = [pc EXCEPT ![s] = "read"]
  /\ once' = [once EXCEPT ![tgt[s]] = TRUE]
  /\ UNCHANGED <<net, dir, room, known, rejected, srv, sweep, tgt, disc>>

LEMMA ReplyCases ==
  ASSUME NEW s \in Session, Reply(s)
  PROVE  Replies(s) \/ ReplyCloses(s) \/ ReplyFindsClosed(s)
  BY DEF Reply, Replies, ReplyCloses, ReplyFindsClosed, At, Goto

(* OnConnect accepts or refuses.                                           *)
Accepts(s) ==
  /\ pc[s] = "onconnect" /\ pc' = [pc EXCEPT ![s] = "read"]
  /\ UNCHANGED <<net, dir, room, app, srv, sweep, tgt, disc>>

Refuses(s) ==
  /\ pc[s] = "onconnect" /\ pc' = [pc EXCEPT ![s] = "unclaim"]
  /\ rejected' = [rejected EXCEPT ![tgt[s]] = TRUE]
  /\ UNCHANGED <<net, dir, room, once, known, srv, sweep, tgt, disc>>

LEMMA OnConnectCases ==
  ASSUME NEW s \in Session, OnConnect(s)
  PROVE  Accepts(s) \/ Refuses(s)
  BY DEF OnConnect, Accepts, Refuses, At, Goto, app

(* A teardown takes up a connection or has none left.                      *)
TakesUp(a, c) ==
  /\ pc[a] = "sweep" /\ pc' = [pc EXCEPT ![a] = "leave"]
  /\ c \in todo[a]
  /\ todo' = [todo EXCEPT ![a] = @ \ {c}]
  /\ tgt' = [tgt EXCEPT ![a] = c]
  /\ UNCHANGED <<net, dir, room, app, srv, job, disc>>

SweepEnds(a) ==
  /\ pc[a] = "sweep" /\ pc' = [pc EXCEPT ![a] = "mark"]
  /\ todo[a] = {}
  /\ UNCHANGED <<net, dir, room, app, srv, sweep, tgt, disc>>

LEMMA SweepCases ==
  ASSUME TypeOK, NEW a \in Actor, Sweep(a)
  PROVE  SweepEnds(a) \/ \E c \in Conn : TakesUp(a, c)
  BY DEF TypeOK, Sweep, SweepEnds, TakesUp, At, Goto, sweep

-----------------------------------------------------------------------------
(* Type correctness.                                                       *)

LEMMA TypeInit == Init => TypeOK
<1> SUFFICES ASSUME Init PROVE TypeOK
  OBVIOUS
<1>1. /\ pc \in [Actor -> {"queued", "idle"}]
      /\ tgt \in [Actor -> {NONE}] /\ job \in [Actor -> {NONE}]
      /\ todo \in [Actor -> {{}}]
  BY DEF Init
<1>2. table \in [Session -> [NS -> {NONE}]]
  BY DEF Init
<1>3. /\ sess \in [Conn -> {NONE}] /\ nsp \in [Conn -> {NONE}] /\ disc \in [Conn -> {0}]
      /\ once \in [Conn -> {FALSE}] /\ once = known /\ once = rejected
      /\ once = joined /\ once = member /\ once = adding
  BY DEF Init
<1>4. /\ up \in [Session -> BOOLEAN] /\ sclosed \in [Session -> BOOLEAN]
      /\ sclosed = greeted
      /\ registered = {} /\ conns = {} /\ victims = {} /\ count = 0
      /\ serving = TRUE /\ wedged = FALSE
  BY DEF Init
<1>5. pc \in [Actor -> PCs]
  BY <1>1 DEF PCs
<1>6. table \in [Session -> [NS -> Conn \cup {NONE}]]
  BY <1>2
<1>7. /\ tgt \in [Actor -> Conn \cup {NONE}] /\ job \in [Actor -> Session \cup {NONE}]
      /\ todo \in [Actor -> SUBSET Conn]
  BY <1>1
<1>8. sess \in [Conn -> Session \cup {NONE}] /\ nsp \in [Conn -> NS \cup {NONE}]
  BY <1>3
<1>9. disc \in [Conn -> Nat]
  BY <1>3
<1>10. /\ once \in [Conn -> BOOLEAN] /\ known \in [Conn -> BOOLEAN]
       /\ rejected \in [Conn -> BOOLEAN] /\ joined \in [Conn -> BOOLEAN]
       /\ member \in [Conn -> BOOLEAN] /\ adding \in [Conn -> BOOLEAN]
  <2>1. once \in [Conn -> BOOLEAN]
    BY <1>3
  <2> QED
    BY <1>3, <2>1
<1>11. /\ up \in [Session -> BOOLEAN] /\ sclosed \in [Session -> BOOLEAN]
       /\ greeted \in [Session -> BOOLEAN]
  BY <1>4
<1>12. /\ registered \in SUBSET Session /\ conns \in SUBSET Conn
       /\ victims \in SUBSET Session /\ count \in Int
  BY <1>4
<1>13. serving \in BOOLEAN /\ wedged \in BOOLEAN
  BY <1>4
<1>14. \A a \in Actor : pc[a] \notin Finale \cup Closing \cup Teardown
                         \cup {"publish", "count", "reply", "onconnect"}
  BY <1>1 DEF Finale, Closing, Teardown
<1> QED
  BY <1>5, <1>6, <1>7, <1>8, <1>9, <1>10, <1>11, <1>12, <1>13, <1>14 DEF TypeOK

LEMMA DeclinesType ==
  ASSUME TypeOK, NEW s \in Session, Declines(s)
  PROVE  TypeOK'
<1>1. "stuck" \in PCs /\ s \in Actor /\ pc \in [Actor -> PCs] /\ greeted \in [Session -> BOOLEAN]
  BY DEF PCs, Actor, TypeOK
<1>2. pc' \in [Actor -> PCs] /\ greeted' \in [Session -> BOOLEAN] /\ wedged' \in BOOLEAN
  BY <1>1 DEF Declines
<1>3. UNCHANGED <<net, registered, table, listed, ids, room, app, serving, victims, sweep, tgt, disc>>
  BY DEF Declines
<1>4. \A a \in Actor : pc'[a] \in {pc[a], "stuck"}
  BY <1>1 DEF Declines
<1>5. \A a \in Actor :
        /\ pc'[a] \in Finale \cup Closing \cup {"publish", "count", "reply", "onconnect"} =>
             tgt'[a] # NONE
        /\ pc'[a] \in Teardown => job'[a] # NONE
  BY <1>3, <1>4 DEF TypeOK, Finale, Closing, Teardown, sweep
<1> QED
  BY <1>2, <1>3, <1>5 DEF TypeOK, net, listed, ids, room, app, sweep

LEMMA TypeStep == TypeOK /\ [Next]_vars => TypeOK'
<1> SUFFICES ASSUME TypeOK, [Next]_vars PROVE TypeOK'
  OBVIOUS
<1> USE DEF TypeOK, Actor, PCs, Finale, Closing, Teardown, At, Goto, Step,
            net, ids, listed, dir, room, app, srv, sweep, rest
<1>1. ASSUME NEW s \in Session, TransportFails(s) PROVE TypeOK'
  BY <1>1 DEF TransportFails
<1>2. ASSUME NEW s \in Session, Accept(s) PROVE TypeOK'
  BY <1>2 DEF Accept
<1>3. ASSUME NEW s \in Session, Register(s) PROVE TypeOK'
  BY <1>3 DEF Register
<1>4. ASSUME NEW s \in Session, LoopReturns(s) PROVE TypeOK'
  BY <1>4 DEF LoopReturns
<1>5. ASSUME NEW s \in Session, ConnectUnknown(s) PROVE TypeOK'
  BY <1>5 DEF ConnectUnknown
<1>6. ASSUME NEW s \in Session, NEW n \in NS, Connect(s, n) PROVE TypeOK'
  <2>1. CASE Declines(s)
    BY <2>1, DeclinesType
  <2>2. ASSUME NEW c \in Conn, Opens(s, n, c) PROVE TypeOK'
    BY <2>2 DEF Opens
  <2> QED
    BY <2>1, <2>2, <1>6, ConnectCases
<1>7. ASSUME NEW s \in Session, NEW n \in NS, Disconnect(s, n) PROVE TypeOK'
  BY <1>7 DEF Disconnect, EntryTaken, HasEntry
<1>8. ASSUME NEW s \in Session, Publish(s) PROVE TypeOK'
  BY <1>8 DEF Publish
<1>9. ASSUME NEW s \in Session, CountUp(s) PROVE TypeOK'
  BY <1>9 DEF CountUp
<1>10. ASSUME NEW s \in Session, Reply(s) PROVE TypeOK'
  <2>1. CASE Replies(s)
    BY <2>1 DEF Replies
  <2>2. CASE ReplyCloses(s)
    BY <2>2 DEF ReplyCloses
  <2>3. CASE ReplyFindsClosed(s)
    BY <2>3 DEF ReplyFindsClosed
  <2> QED
    BY <2>1, <2>2, <2>3, <1>10, ReplyCases
<1>11. ASSUME NEW s \in Session, OnConnect(s) PROVE TypeOK'
  <2>1. CASE Accepts(s)
    BY <2>1 DEF Accepts
  <2>2. CASE Refuses(s)
    BY <2>2 DEF Refuses
  <2> QED
    BY <2>1, <2>2, <1>11, OnConnectCases
<1>12. ASSUME NEW c \in Conn, JoinStart(c) PROVE TypeOK'
  BY <1>12 DEF JoinStart
<1>13. ASSUME NEW c \in Conn, JoinAdd(c) PROVE TypeOK'
  BY <1>13 DEF JoinAdd
<1>14. ASSUME NEW c \in Conn, CloseCall(c) PROVE TypeOK'
  BY <1>14 DEF CloseCall
<1>15. ASSUME NEW a \in Actor, Unclaim(a) PROVE TypeOK'
  BY <1>15 DEF Unclaim, EntryFreed
<1>16. ASSUME NEW a \in Actor, LeaveRooms(a) PROVE TypeOK'
  <2>1. CASE Step(a, "leave", "unjoin")
    BY <2>1, <1>16 DEF LeaveRooms, RoomsLeft
  <2>2. CASE Step(a, "closeLeave", "closeUnjoin")
    BY <2>2, <1>16 DEF LeaveRooms, RoomsLeft
  <2> QED
    BY <2>1, <2>2, <1>16 DEF LeaveRooms
<1>17. ASSUME NEW a \in Actor, Unjoin(a) PROVE TypeOK'
  <2>1. CASE Step(a, "unjoin", "drop")
    BY <2>1, <1>17 DEF Unjoin
  <2>2. CASE Step(a, "closeUnjoin", CloseGoesOn)
    BY <2>2, <1>17 DEF Unjoin, CloseGoesOn
  <2> QED
    BY <2>1, <2>2, <1>17 DEF Unjoin
<1>18. ASSUME NEW a \in Actor, Drop(a) PROVE TypeOK'
  BY <1>18 DEF Drop
<1>19. ASSUME NEW a \in Actor, CountDown(a) PROVE TypeOK'
  BY <1>19 DEF CountDown
<1>20. ASSUME NEW a \in Actor, Notify(a) PROVE TypeOK'
  BY <1>20 DEF Notify, After
<1>21. ASSUME NEW a \in Actor, Claim(a) PROVE TypeOK'
  BY <1>21 DEF Claim, Unregistered, RowTaken
<1>22. ASSUME NEW a \in Actor, Sweep(a) PROVE TypeOK'
  <2>1. CASE SweepEnds(a)
    BY <2>1 DEF SweepEnds
  <2>2. ASSUME NEW c \in Conn, TakesUp(a, c) PROVE TypeOK'
    BY <2>2 DEF TakesUp
  <2> QED
    BY <2>1, <2>2, <1>22, SweepCases
<1>23. ASSUME NEW a \in Actor, Mark(a) PROVE TypeOK'
  BY <1>23 DEF Mark
<1>24. ASSUME NEW a \in Actor, Shut(a) PROVE TypeOK'
  BY <1>24 DEF Shut
<1>25. CASE CloseServer
  BY <1>25 DEF CloseServer
<1>26. CASE NextVictim
  BY <1>26 DEF NextVictim
<1>27. CASE StopTransports
  BY <1>27 DEF StopTransports
<1>28. CASE ServeReturns
  BY <1>28 DEF ServeReturns
<1>29. CASE UNCHANGED vars
  BY <1>29 DEF vars
<1> QED
  BY ZenonT(30), <1>1, <1>2, <1>3, <1>4, <1>5, <1>6, <1>7, <1>8, <1>9, <1>10, <1>11,
     <1>12, <1>13, <1>14, <1>15, <1>16, <1>17, <1>18, <1>19, <1>20, <1>21,
     <1>22, <1>23, <1>24, <1>25, <1>26, <1>27, <1>28, <1>29 DEF Next, Loop,
     Shared, ServerClose

(* Every reachable state of the life cycle is well typed: each actor has a *)
(* target wherever server.go uses its connection, and a session wherever   *)
(* it tears one down.                                                      *)
THEOREM TypeCorrect == Spec => []TypeOK
<1>1. Init => TypeOK
  BY TypeInit
<1>2. TypeOK /\ [Next]_vars => TypeOK'
  BY TypeStep
<1> QED
  BY <1>1, <1>2, PTL DEF Spec

-----------------------------------------------------------------------------
(* The bookkeeping fits together.                                          *)

LEMMA FitsInit == Init => Fits
  BY DEF Init, Actor, Fits, EntriesFit, WorkFits, FreshIsBlank, NotYetRefused, SweepFits,
         Finale

(* What only other variables change.                                       *)
LEMMA FitsFrame ==
  ASSUME Fits,
         UNCHANGED <<table, sess, nsp, known, rejected, disc, pc, tgt, job, todo>>
  PROVE  Fits'
  BY DEF Fits, EntriesFit, WorkFits, FreshIsBlank, NotYetRefused, SweepFits

(* removeConn takes an entry or none, and changes nothing else.            *)
LEMMA UnclaimMoves ==
  ASSUME TypeOK, NEW a \in Actor, Unclaim(a)
  PROVE  /\ \A s \in Session, n \in NS : table'[s][n] \in {table[s][n], NONE}
         /\ pc \in [Actor -> PCs] /\ pc[a] = "unclaim" /\ pc' = [pc EXCEPT ![a] = "leave"]
         /\ UNCHANGED <<sess, nsp, once, known, rejected, tgt, job, todo, disc>>
<1>1. \A s \in Session, n \in NS : table'[s][n] \in {table[s][n], NONE}
  BY DEF TypeOK, Unclaim, EntryFreed
<1> QED
  BY <1>1 DEF TypeOK, Unclaim, Step, At, Goto, ids, rest, app, sweep

LEMMA UnclaimFits ==
  ASSUME TypeOK, Fits, NEW a \in Actor, Unclaim(a)
  PROVE  Fits'
<1> USE UnclaimMoves
<1>1. EntriesFit'
  BY DEF Fits, EntriesFit
<1>2. WorkFits' /\ FreshIsBlank'
  BY DEF Fits, WorkFits, FreshIsBlank
<1>3. NotYetRefused'
  BY DEF Fits, NotYetRefused, Actor
<1>4. SweepFits'
  BY DEF Fits, SweepFits, Finale
<1> QED
  BY <1>1, <1>2, <1>3, <1>4 DEF Fits

LEMMA FitsStep == TypeOK /\ TypeOK' /\ Fits /\ [Next]_vars => Fits'
<1> SUFFICES ASSUME TypeOK, TypeOK', Fits, [Next]_vars PROVE Fits'
  OBVIOUS
<1> USE DEF Fits, EntriesFit, WorkFits, FreshIsBlank, NotYetRefused, SweepFits,
            TypeOK, Actor, PCs, Finale, Closing, Teardown, At, Goto, Step,
            net, ids, listed, dir, room, app, srv, sweep, rest
<1>1. ASSUME NEW s \in Session, TransportFails(s) PROVE Fits'
  BY <1>1, FitsFrame DEF TransportFails
<1>2. ASSUME NEW s \in Session, Accept(s) PROVE Fits'
  BY <1>2 DEF Accept
<1>3. ASSUME NEW s \in Session, Register(s) PROVE Fits'
  BY <1>3 DEF Register
<1>4. ASSUME NEW s \in Session, LoopReturns(s) PROVE Fits'
  BY <1>4 DEF LoopReturns
<1>5. ASSUME NEW s \in Session, ConnectUnknown(s) PROVE Fits'
  <2>1. UNCHANGED <<table, sess, nsp, known, rejected, disc, pc, tgt, job, todo>>
    BY <1>5 DEF ConnectUnknown
  <2> QED
    BY <2>1, FitsFrame
<1>6. ASSUME NEW s \in Session, NEW n \in NS, Connect(s, n) PROVE Fits'
  <2>1. CASE Declines(s)
    <3>1. UNCHANGED <<table, sess, nsp, known, rejected, disc, tgt, job, todo>>
      BY <2>1 DEF Declines
    <3>2. CASE pc' = pc
      BY <3>1, <3>2, FitsFrame
    <3>3. CASE pc[s] = "read" /\ pc' = [pc EXCEPT ![s] = "stuck"]
      BY <3>1, <3>3
    <3> QED
      BY <2>1, <3>2, <3>3 DEF Declines
  <2>2. ASSUME NEW c \in Conn, Opens(s, n, c) PROVE Fits'
    <3>1. EntriesFit'
      BY <2>2 DEF Opens
    <3>2. WorkFits'
      BY <2>2 DEF Opens
    <3>3. FreshIsBlank' /\ NotYetRefused'
      BY <2>2 DEF Opens
    <3>4. SweepFits'
      BY <2>2 DEF Opens
    <3> QED
      BY <3>1, <3>2, <3>3, <3>4
  <2> QED
    BY <2>1, <2>2, <1>6, ConnectCases
<1>7. ASSUME NEW s \in Session, NEW n \in NS, Disconnect(s, n) PROVE Fits'
  BY <1>7 DEF Disconnect, EntryTaken, HasEntry
<1>8. ASSUME NEW s \in Session, Publish(s) PROVE Fits'
  BY <1>8 DEF Publish
<1>9. ASSUME NEW s \in Session, CountUp(s) PROVE Fits'
  BY <1>9 DEF CountUp
<1>10. ASSUME NEW s \in Session, Reply(s) PROVE Fits'
  <2>1. CASE Replies(s)
    BY <2>1 DEF Replies
  <2>2. CASE ReplyCloses(s)
    BY <2>2 DEF ReplyCloses
  <2>3. CASE ReplyFindsClosed(s)
    BY <2>3 DEF ReplyFindsClosed
  <2> QED
    BY <2>1, <2>2, <2>3, <1>10, ReplyCases
<1>11. ASSUME NEW s \in Session, OnConnect(s) PROVE Fits'
  <2>1. CASE Accepts(s)
    BY <2>1 DEF Accepts
  <2>2. CASE Refuses(s)
    BY <2>2 DEF Refuses
  <2> QED
    BY <2>1, <2>2, <1>11, OnConnectCases
<1>12. ASSUME NEW c \in Conn, JoinStart(c) PROVE Fits'
  BY <1>12, FitsFrame DEF JoinStart
<1>13. ASSUME NEW c \in Conn, JoinAdd(c) PROVE Fits'
  BY <1>13, FitsFrame DEF JoinAdd
<1>14. ASSUME NEW c \in Conn, CloseCall(c) PROVE Fits'
  BY <1>14 DEF CloseCall
<1>15. ASSUME NEW a \in Actor, Unclaim(a) PROVE Fits'
  BY <1>15, UnclaimFits
<1>16. ASSUME NEW a \in Actor, LeaveRooms(a) PROVE Fits'
  <2>1. CASE Step(a, "leave", "unjoin")
    BY <2>1, <1>16 DEF LeaveRooms, RoomsLeft
  <2>2. CASE Step(a, "closeLeave", "closeUnjoin")
    BY <2>2, <1>16 DEF LeaveRooms, RoomsLeft
  <2> QED
    BY <2>1, <2>2, <1>16 DEF LeaveRooms
<1>17. ASSUME NEW a \in Actor, Unjoin(a) PROVE Fits'
  <2>1. CASE Step(a, "unjoin", "drop")
    BY <2>1, <1>17 DEF Unjoin
  <2>2. CASE Step(a, "closeUnjoin", CloseGoesOn)
    BY <2>2, <1>17 DEF Unjoin, CloseGoesOn
  <2> QED
    BY <2>1, <2>2, <1>17 DEF Unjoin
<1>18. ASSUME NEW a \in Actor, Drop(a) PROVE Fits'
  BY <1>18 DEF Drop
<1>19. ASSUME NEW a \in Actor, CountDown(a) PROVE Fits'
  BY <1>19 DEF CountDown
<1>20. ASSUME NEW a \in Actor, Notify(a) PROVE Fits'
  BY <1>20 DEF Notify, After
<1>21. ASSUME NEW a \in Actor, Claim(a) PROVE Fits'
  BY <1>21 DEF Claim, Unregistered, RowTaken
<1>22. ASSUME NEW a \in Actor, Sweep(a) PROVE Fits'
  <2>1. CASE SweepEnds(a)
    BY <2>1 DEF SweepEnds
  <2>2. ASSUME NEW c \in Conn, TakesUp(a, c) PROVE Fits'
    <3>1. EntriesFit' /\ FreshIsBlank' /\ NotYetRefused'
      BY <2>2 DEF TakesUp
    <3>2. WorkFits'
      BY <2>2 DEF TakesUp
    <3>3. SweepFits'
      BY <2>2 DEF TakesUp
    <3> QED
      BY <3>1, <3>2, <3>3
  <2> QED
    BY <2>1, <2>2, <1>22, SweepCases
<1>23. ASSUME NEW a \in Actor, Mark(a) PROVE Fits'
  BY <1>23 DEF Mark
<1>24. ASSUME NEW a \in Actor, Shut(a) PROVE Fits'
  BY <1>24 DEF Shut
<1>25. CASE CloseServer
  BY <1>25 DEF CloseServer
<1>26. CASE NextVictim
  <2>1. /\ pc[Shutdown] = "next"
        /\ pc' = [pc EXCEPT ![Shutdown] = "claim"] \/ pc' = [pc EXCEPT ![Shutdown] = "stop"]
        /\ \A a \in Actor \ {Shutdown} : job'[a] = job[a]
        /\ UNCHANGED <<table, sess, nsp, todo, tgt, disc, known, rejected>>
    BY <1>26 DEF NextVictim
  <2>2. EntriesFit' /\ FreshIsBlank' /\ NotYetRefused'
    BY <2>1
  <2>3. WorkFits'
    <3>1. (\A s \in Session : job'[s] = job[s]) /\ (\A c \in Conn : job'[c] = job[c])
      BY <2>1
    <3> QED
      BY <2>1, <3>1
  <2>4. SweepFits'
    BY <2>1
  <2> QED
    BY <2>2, <2>3, <2>4
<1>27. CASE StopTransports
  BY <1>27 DEF StopTransports
<1>28. CASE ServeReturns
  BY <1>28, FitsFrame DEF ServeReturns
<1>29. CASE UNCHANGED vars
  BY <1>29 DEF vars
<1> QED
  BY ZenonT(30), <1>1, <1>2, <1>3, <1>4, <1>5, <1>6, <1>7, <1>8, <1>9, <1>10, <1>11,
     <1>12, <1>13, <1>14, <1>15, <1>16, <1>17, <1>18, <1>19, <1>20, <1>21,
     <1>22, <1>23, <1>24, <1>25, <1>26, <1>27, <1>28, <1>29 DEF Next, Loop,
     Shared, ServerClose

-----------------------------------------------------------------------------
(* OnDisconnect.                                                           *)

LEMMA PrepaidInit == Init => CallsPrepaid
  BY DEF Init, Actor, CallsPrepaid, LoopFinishing, Finishing, InTable, One, Finale, Closing

(* A teardown takes over the claims of the entries it takes out.           *)
LEMMA PrepaidClaim ==
  ASSUME TypeOK, Fits, CallsPrepaid, NEW a \in Actor, Claim(a)
  PROVE  CallsPrepaid'
<1>1. /\ pc[a] = "claim" /\ pc' = [pc EXCEPT ![a] = "sweep"]
      /\ todo' = [todo EXCEPT ![a] = {table[job[a]][n] : n \in NS} \ {NONE}]
      /\ table' = [table EXCEPT ![job[a]] = [n \in NS |-> NONE]]
      /\ UNCHANGED <<sess, nsp, once, rejected, tgt, disc>>
  BY DEF Claim, RowTaken, Step, At, Goto, ids, app
<1>2. job[a] \in Session /\ a \notin Conn /\ (a \in Session => job[a] = a)
  BY <1>1 DEF Fits, WorkFits, TypeOK, Teardown, Actor
<1>3. ASSUME NEW c \in Conn
      PROVE  ~Finishing(a, c)
  BY <1>1 DEF Finishing, Fits, SweepFits, Finale, Closing
<1>4. ASSUME NEW c \in Conn
      PROVE  InTable(c)' => InTable(c) /\ sess[c] # job[a]
  <2> SUFFICES ASSUME InTable(c)' PROVE InTable(c) /\ sess[c] # job[a]
    OBVIOUS
  <2>1. sess[c] \in Session /\ nsp[c] \in NS /\ table'[sess[c]][nsp[c]] = c
    BY <1>1 DEF InTable, TypeOK, Fits, EntriesFit
  <2>2. sess[c] # job[a]
    BY <1>1, <1>2, <2>1 DEF TypeOK
  <2> QED
    BY <1>1, <1>2, <2>1, <2>2 DEF InTable, TypeOK
<1>5. ASSUME NEW c \in Conn, Finishing(a, c)'
      PROVE  InTable(c) /\ sess[c] = job[a]
  <2>1. c \in todo'[a]
    BY <1>1, <1>5 DEF Finishing, Finale, Closing, TypeOK
  <2>2. PICK n \in NS : c = table[job[a]][n]
    BY <1>1, <2>1 DEF TypeOK
  <2> QED
    BY <1>2, <2>2 DEF Fits, EntriesFit, InTable
<1>6. ASSUME NEW c \in Conn, NEW b \in Actor, b # a
      PROVE  Finishing(b, c)' <=> Finishing(b, c)
  BY <1>1, <1>6 DEF Finishing, TypeOK
<1> SUFFICES ASSUME NEW c \in Conn
             PROVE  disc[c] + One(LoopFinishing(c)') + One(Finishing(Shutdown, c)')
                            + One(Finishing(c, c)') + One(InTable(c)')
                      <= 1 + One(once[c]) + One(rejected[c])
  BY <1>1 DEF CallsPrepaid, One, LoopFinishing, Finishing, InTable
<1>7. /\ disc[c] + One(LoopFinishing(c)) + One(Finishing(Shutdown, c))
                 + One(Finishing(c, c)) + One(InTable(c))
           <= 1 + One(once[c]) + One(rejected[c])
      /\ disc[c] \in Nat
  BY DEF CallsPrepaid, TypeOK
<1>8. Finishing(c, c)' <=> Finishing(c, c)
  BY <1>2, <1>6 DEF Actor
<1>9. CASE a = Shutdown
  <2>1. LoopFinishing(c)' <=> LoopFinishing(c)
    BY <1>1, <1>6, <1>9 DEF LoopFinishing, TypeOK, Actor
  <2>2. ~Finishing(Shutdown, c) /\ (Finishing(Shutdown, c)' => InTable(c))
    BY <1>3, <1>5, <1>9
  <2>3. Finishing(Shutdown, c)' => ~InTable(c)'
    BY <1>4, <1>5, <1>9
  <2>4. InTable(c)' => InTable(c)
    BY <1>4
  <2> QED
    BY <1>7, <1>8, <2>1, <2>2, <2>3, <2>4 DEF One
<1>10. CASE a \in Session
  <2>1. Finishing(Shutdown, c)' <=> Finishing(Shutdown, c)
    BY <1>6, <1>10 DEF Actor
  <2>2. CASE sess[c] = a
    <3>1. ~LoopFinishing(c)
      BY <1>3, <2>2 DEF LoopFinishing
    <3>2. ~InTable(c)'
      BY <1>2, <1>4, <1>10, <2>2
    <3>3. LoopFinishing(c)' => InTable(c)
      BY <1>1, <1>5, <2>2 DEF LoopFinishing
    <3> QED
      BY <1>7, <1>8, <2>1, <3>1, <3>2, <3>3 DEF One
  <2>3. CASE sess[c] # a
    <3>1. LoopFinishing(c)' <=> LoopFinishing(c)
      BY <1>1, <1>6, <2>3 DEF LoopFinishing, TypeOK, Actor
    <3>2. InTable(c)' => InTable(c)
      BY <1>4
    <3> QED
      BY <1>7, <1>8, <2>1, <3>1, <3>2 DEF One
  <2> QED
    BY <2>2, <2>3
<1> QED
  BY <1>2, <1>9, <1>10 DEF Actor

(* The claim that removeConn takes stays with whoever called it.           *)
LEMMA UnclaimPrepaid ==
  ASSUME TypeOK, Fits, CallsPrepaid, NEW a \in Actor, Unclaim(a)
  PROVE  CallsPrepaid'
<1>1. \A b \in Actor, c \in Conn : Finishing(b, c)' <=> Finishing(b, c)
  BY UnclaimMoves DEF Finishing, Finale, Closing
<1>2. \A c \in Conn : LoopFinishing(c)' <=> LoopFinishing(c)
  BY <1>1, UnclaimMoves DEF LoopFinishing, Actor, TypeOK
<1>3. ASSUME NEW c \in Conn PROVE InTable(c)' => InTable(c)
  <2>1. sess[c] \in Session \cup {NONE} /\ (sess[c] # NONE => nsp[c] \in NS) /\ c # NONE
    BY DEF TypeOK, Fits, EntriesFit
  <2> QED
    BY <2>1, UnclaimMoves DEF InTable
<1>4. UNCHANGED <<disc, once, rejected>> /\ disc \in [Conn -> Nat]
  BY UnclaimMoves DEF TypeOK
<1>5. Shutdown \in Actor /\ Conn \subseteq Actor
  BY DEF Actor
<1> QED
  BY <1>1, <1>2, <1>3, <1>4, <1>5 DEF CallsPrepaid, One

LEMMA PrepaidStep ==
  TypeOK /\ TypeOK' /\ Fits /\ Fits' /\ CallsPrepaid /\ [Next]_vars => CallsPrepaid'
<1> SUFFICES ASSUME TypeOK, TypeOK', Fits, Fits', CallsPrepaid, [Next]_vars
             PROVE  CallsPrepaid'
  OBVIOUS
<1> USE DEF CallsPrepaid, LoopFinishing, Finishing, InTable, One,
            Fits, EntriesFit, WorkFits, FreshIsBlank, NotYetRefused, SweepFits,
            TypeOK, Actor, PCs, Finale, Closing, Teardown, At, Goto, Step,
            net, ids, listed, dir, room, app, srv, sweep, rest
<1>1. ASSUME NEW s \in Session, TransportFails(s) PROVE CallsPrepaid'
  BY <1>1 DEF TransportFails
<1>2. ASSUME NEW s \in Session, Accept(s) PROVE CallsPrepaid'
  BY <1>2 DEF Accept
<1>3. ASSUME NEW s \in Session, Register(s) PROVE CallsPrepaid'
  BY <1>3 DEF Register
<1>4. ASSUME NEW s \in Session, LoopReturns(s) PROVE CallsPrepaid'
  BY <1>4 DEF LoopReturns
<1>5. ASSUME NEW s \in Session, ConnectUnknown(s) PROVE CallsPrepaid'
  BY <1>5 DEF ConnectUnknown
<1>6. ASSUME NEW s \in Session, NEW n \in NS, Connect(s, n) PROVE CallsPrepaid'
  <2>1. CASE Declines(s)
    BY <2>1 DEF Declines
  <2>2. ASSUME NEW c \in Conn, Opens(s, n, c) PROVE CallsPrepaid'
    BY <2>2 DEF Opens
  <2> QED
    BY <2>1, <2>2, <1>6, ConnectCases
<1>7. ASSUME NEW s \in Session, NEW n \in NS, Disconnect(s, n) PROVE CallsPrepaid'
  BY <1>7 DEF Disconnect, EntryTaken, HasEntry
<1>8. ASSUME NEW s \in Session, Publish(s) PROVE CallsPrepaid'
  BY <1>8 DEF Publish
<1>9. ASSUME NEW s \in Session, CountUp(s) PROVE CallsPrepaid'
  BY <1>9 DEF CountUp
<1>10. ASSUME NEW s \in Session, Reply(s) PROVE CallsPrepaid'
  <2>1. CASE Replies(s)
    BY <2>1 DEF Replies
  <2>2. CASE ReplyCloses(s)
    BY <2>2 DEF ReplyCloses
  <2>3. CASE ReplyFindsClosed(s)
    BY <2>3 DEF ReplyFindsClosed
  <2> QED
    BY <2>1, <2>2, <2>3, <1>10, ReplyCases
<1>11. ASSUME NEW s \in Session, OnConnect(s) PROVE CallsPrepaid'
  <2>1. CASE Accepts(s)
    BY <2>1 DEF Accepts
  <2>2. CASE Refuses(s)
    BY <2>2 DEF Refuses
  <2> QED
    BY <2>1, <2>2, <1>11, OnConnectCases
<1>12. ASSUME NEW c \in Conn, JoinStart(c) PROVE CallsPrepaid'
  BY <1>12 DEF JoinStart
<1>13. ASSUME NEW c \in Conn, JoinAdd(c) PROVE CallsPrepaid'
  BY <1>13 DEF JoinAdd
<1>14. ASSUME NEW c \in Conn, CloseCall(c) PROVE CallsPrepaid'
  BY <1>14 DEF CloseCall
<1>15. ASSUME NEW a \in Actor, Unclaim(a) PROVE CallsPrepaid'
  BY <1>15, UnclaimPrepaid
<1>16. ASSUME NEW a \in Actor, LeaveRooms(a) PROVE CallsPrepaid'
  <2>1. CASE Step(a, "leave", "unjoin")
    BY <2>1, <1>16 DEF LeaveRooms, RoomsLeft
  <2>2. CASE Step(a, "closeLeave", "closeUnjoin")
    BY <2>2, <1>16 DEF LeaveRooms, RoomsLeft
  <2> QED
    BY <2>1, <2>2, <1>16 DEF LeaveRooms
<1>17. ASSUME NEW a \in Actor, Unjoin(a) PROVE CallsPrepaid'
  <2>1. CASE Step(a, "unjoin", "drop")
    BY <2>1, <1>17 DEF Unjoin
  <2>2. CASE Step(a, "closeUnjoin", CloseGoesOn)
    BY <2>2, <1>17 DEF Unjoin, CloseGoesOn
  <2> QED
    BY <2>1, <2>2, <1>17 DEF Unjoin
<1>18. ASSUME NEW a \in Actor, Drop(a) PROVE CallsPrepaid'
  BY <1>18 DEF Drop
<1>19. ASSUME NEW a \in Actor, CountDown(a) PROVE CallsPrepaid'
  BY <1>19 DEF CountDown
<1>20. ASSUME NEW a \in Actor, Notify(a) PROVE CallsPrepaid'
  BY <1>20 DEF Notify, After
<1>21. ASSUME NEW a \in Actor, Claim(a) PROVE CallsPrepaid'
  BY <1>21, PrepaidClaim
<1>22. ASSUME NEW a \in Actor, Sweep(a) PROVE CallsPrepaid'
  <2>1. CASE SweepEnds(a)
    BY <2>1 DEF SweepEnds
  <2>2. ASSUME NEW c \in Conn, TakesUp(a, c) PROVE CallsPrepaid'
    BY <2>2 DEF TakesUp
  <2> QED
    BY <2>1, <2>2, <1>22, SweepCases
<1>23. ASSUME NEW a \in Actor, Mark(a) PROVE CallsPrepaid'
  BY <1>23 DEF Mark
<1>24. ASSUME NEW a \in Actor, Shut(a) PROVE CallsPrepaid'
  BY <1>24 DEF Shut
<1>25. CASE CloseServer
  BY <1>25 DEF CloseServer
<1>26. CASE NextVictim
  <2>1. /\ pc[Shutdown] = "next"
        /\ pc' = [pc EXCEPT ![Shutdown] = "claim"] \/ pc' = [pc EXCEPT ![Shutdown] = "stop"]
        /\ UNCHANGED <<table, sess, nsp, todo, tgt, disc, once, rejected>>
    BY <1>26 DEF NextVictim
  <2>2. \A b \in Actor, c \in Conn : (Finishing(b, c)' <=> Finishing(b, c))
    BY <2>1
  <2> QED
    BY <2>1, <2>2
<1>27. CASE StopTransports
  BY <1>27 DEF StopTransports
<1>28. CASE ServeReturns
  BY <1>28 DEF ServeReturns
<1>29. CASE UNCHANGED vars
  BY <1>29 DEF vars
<1> QED
  BY ZenonT(30), <1>1, <1>2, <1>3, <1>4, <1>5, <1>6, <1>7, <1>8, <1>9, <1>10, <1>11,
     <1>12, <1>13, <1>14, <1>15, <1>16, <1>17, <1>18, <1>19, <1>20, <1>21,
     <1>22, <1>23, <1>24, <1>25, <1>26, <1>27, <1>28, <1>29 DEF Next, Loop,
     Shared, ServerClose

(* IInv is an inductive invariant.                                         *)
LEMMA IInvCorrect == Spec => []IInv
<1>1. Init => IInv
  BY TypeInit, FitsInit, PrepaidInit DEF IInv
<1>2. IInv /\ [Next]_vars => IInv'
  BY TypeStep, FitsStep, PrepaidStep DEF IInv
<1> QED
  BY <1>1, <1>2, PTL DEF Spec

(* OnDisconnect runs once per way out that was taken: as often as there    *)
(* are closes, refusals and claims of the table entry, whatever races.     *)
THEOREM DisconnectBounded == Spec => []DisconnectBound
<1>1. IInv => DisconnectBound
  BY DEF IInv, TypeOK, CallsPrepaid, DisconnectBound, One
<1> QED
  BY <1>1, IInvCorrect, PTL
=============================================================================

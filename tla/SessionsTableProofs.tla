------------------------ MODULE SessionsTableProofs ------------------------
(***************************************************************************)
(* Theorems about the tables of Sessions: who is connected, Server.conns,  *)
(* connCount, rooms and the calls of OnConnect and OnDisconnect agree, and *)
(* keep the promise of Lifecycle.                                          *)
(***************************************************************************)
EXTENDS SessionsProofs, FiniteSetTheorems

USE SessionsAssumption

-----------------------------------------------------------------------------
(* The three ways out of the table.                                        *)

(* s takes the entry of c, and no other.                                   *)
Takes(s, c) ==
  /\ InTable(c) /\ sess[c] = s /\ ~InTable(c)'
  /\ \A d \in Conn \ {c} : InTable(d)' <=> InTable(d)
  /\ \A r \in Session, m \in NS : table'[r][m] \in {table[r][m], NONE}
  /\ pc[s] = "read" /\ pc' = [pc EXCEPT ![s] = "leave"]
  /\ tgt' = [tgt EXCEPT ![s] = c]
  /\ UNCHANGED <<registered, conns, sess, nsp, todo, job, disc>>

LEMMA DisconnectTakes ==
  ASSUME TypeOK, Fits, NEW s \in Session, NEW n \in NS, Disconnect(s, n)
  PROVE  \E c \in Conn : Takes(s, c)
<1>0. PICK c \in Conn : c = table[s][n]
  BY DEF Disconnect, HasEntry, TypeOK
<1>1. /\ c = table[s][n] /\ pc[s] = "read" /\ pc' = [pc EXCEPT ![s] = "leave"]
      /\ table' = [table EXCEPT ![s][n] = NONE]
      /\ tgt' = [tgt EXCEPT ![s] = c]
      /\ UNCHANGED <<registered, conns, sess, nsp, todo, job, disc>>
  BY <1>0 DEF Disconnect, EntryTaken, HasEntry, At, Goto, listed, ids, rest, sweep
<1>2. InTable(c) /\ sess[c] = s /\ nsp[c] = n
  BY <1>1 DEF Fits, EntriesFit, InTable
<1>3. ~InTable(c)'
  BY <1>1, <1>2 DEF InTable, TypeOK
<1>4. ASSUME NEW d \in Conn \ {c} PROVE InTable(d)' <=> InTable(d)
  BY <1>1 DEF InTable, Fits, EntriesFit, TypeOK
<1>5. \A r \in Session, m \in NS : table'[r][m] \in {table[r][m], NONE}
  BY <1>1 DEF TypeOK
<1> QED
  BY <1>1, <1>2, <1>3, <1>4, <1>5 DEF Takes

(* Whatever removeConn finds, only its own connection may lose its entry,  *)
(* and does.                                                               *)
Frees(a) ==
  /\ tgt[a] \in Conn /\ ~InTable(tgt[a])'
  /\ \A d \in Conn \ {tgt[a]} : InTable(d)' <=> InTable(d)
  /\ \A r \in Session, m \in NS : table'[r][m] \in {table[r][m], NONE}
  /\ pc[a] = "unclaim" /\ pc' = [pc EXCEPT ![a] = "leave"]
  /\ UNCHANGED <<registered, conns, sess, nsp, tgt, todo, job, disc>>

LEMMA UnclaimFrees ==
  ASSUME TypeOK, Fits, RowsFit, NEW a \in Actor, Unclaim(a)
  PROVE  Frees(a)
<1> DEFINE c == tgt[a]
<1>1. /\ c \in Conn /\ pc[a] = "unclaim" /\ pc' = [pc EXCEPT ![a] = "leave"]
      /\ table' = EntryFreed(c)
      /\ UNCHANGED <<registered, conns, sess, nsp, tgt, todo, job, disc>>
  BY DEF Unclaim, TypeOK, Closing, At, Goto, Step, listed, ids, rest, sweep
<1>2. sess[c] \in Session /\ nsp[c] \in NS
  BY <1>1 DEF Fits, WorkFits, EntriesFit, TypeOK
<1>3. CASE InTable(c)
  <2>1. sess[c] \in registered
    BY <1>1, <1>2, <1>3 DEF RowsFit, InTable
  <2>2. table' = [table EXCEPT ![sess[c]][nsp[c]] = NONE]
    BY <1>1, <1>3, <2>1 DEF EntryFreed, InTable
  <2>3. ~InTable(c)'
    BY <1>1, <1>2, <2>2 DEF InTable, TypeOK
  <2>4. ASSUME NEW d \in Conn \ {c} PROVE InTable(d)' <=> InTable(d)
    BY <1>1, <1>2, <1>3, <2>2 DEF InTable, Fits, EntriesFit, TypeOK
  <2>5. \A r \in Session, m \in NS : table'[r][m] \in {table[r][m], NONE}
    BY <1>2, <2>2 DEF TypeOK
  <2> HIDE DEF c
  <2> QED
    BY <1>1, <2>3, <2>4, <2>5 DEF c, Frees
<1>4. CASE ~InTable(c)
  <2>1. table' = table
    BY <1>1, <1>2, <1>4 DEF EntryFreed, InTable
  <2> QED
    BY <1>1, <1>4, <2>1 DEF InTable, Frees
<1> QED
  BY <1>3, <1>4

(* A teardown takes the entries of its session, and no others.             *)
TakesAll(a) ==
  /\ job[a] \in Session /\ (a \in Session => job[a] = a) /\ a \notin Conn
  /\ registered' = registered \ {job[a]}
  /\ \A c \in Conn : InTable(c)' <=> InTable(c) /\ sess[c] # job[a]
  /\ \A c \in Conn : c \in todo'[a] <=> InTable(c) /\ sess[c] = job[a]
  /\ \A b \in Actor \ {a} : todo'[b] = todo[b] /\ pc'[b] = pc[b]
  /\ \A r \in Session \ {job[a]} : table'[r] = table[r]
  /\ \A n \in NS : table'[job[a]][n] = NONE
  /\ pc[a] = "claim" /\ pc'[a] = "sweep"
  /\ UNCHANGED <<conns, sess, nsp, tgt, job, disc>>

LEMMA ClaimTakes ==
  ASSUME TypeOK, Fits, NEW a \in Actor, Claim(a)
  PROVE  TakesAll(a)
<1>1. /\ pc[a] = "claim" /\ pc' = [pc EXCEPT ![a] = "sweep"]
      /\ todo' = [todo EXCEPT ![a] = {table[job[a]][n] : n \in NS} \ {NONE}]
      /\ registered' = registered \ {job[a]}
      /\ table' = [table EXCEPT ![job[a]] = [n \in NS |-> NONE]]
      /\ UNCHANGED <<conns, sess, nsp, tgt, job, disc>>
  BY DEF Claim, RowTaken, Unregistered, Step, At, Goto, listed, ids
<1>2. job[a] \in Session /\ a \notin Conn /\ (a \in Session => job[a] = a)
  BY <1>1 DEF Fits, WorkFits, TypeOK, Teardown, Actor
<1>3. ASSUME NEW c \in Conn
      PROVE  InTable(c)' <=> InTable(c) /\ sess[c] # job[a]
  <2>1. CASE sess[c] = NONE
    BY <1>1, <2>1 DEF InTable
  <2>2. CASE sess[c] \in Session
    <3>1. nsp[c] \in NS
      BY <2>2 DEF Fits, EntriesFit, TypeOK
    <3> QED
      BY <1>1, <1>2, <2>2, <3>1 DEF InTable, TypeOK
  <2> QED
    BY <2>1, <2>2 DEF TypeOK
<1>4. ASSUME NEW c \in Conn
      PROVE  c \in todo'[a] <=> InTable(c) /\ sess[c] = job[a]
  <2>1. c \in todo'[a] <=> \E n \in NS : c = table[job[a]][n]
    BY <1>1 DEF TypeOK
  <2>2. sess[c] = job[a] => nsp[c] \in NS
    BY <1>2 DEF Fits, EntriesFit, TypeOK
  <2> QED
    BY <1>2, <2>1, <2>2 DEF Fits, EntriesFit, InTable
<1> QED
  BY <1>1, <1>2, <1>3, <1>4 DEF TypeOK, TakesAll

-----------------------------------------------------------------------------
(* Entries of the table and claims on connections exclude each other.      *)

LEMMA TInvInit == Init => TInv
  BY DEF Init, Actor, TInv, RowsFit, TakenOut, Finale

(* A new connection stands in a row that is registered, and nobody has it  *)
(* in hand.                                                                *)
LEMMA OpensTInv ==
  ASSUME TypeOK, Fits, TInv, NEW s \in Session, NEW n \in NS, NEW c \in Conn, Opens(s, n, c)
  PROVE  TInv'
<1>1. RowsFit'
  BY DEF Opens, TInv, RowsFit, TypeOK
<1>2. ASSUME NEW d \in Conn \ {c} PROVE InTable(d)' => InTable(d)
  BY DEF Opens, InTable, TypeOK
<1>3. ASSUME NEW a \in Actor
      PROVE  /\ todo'[a] = todo[a] /\ todo[a] \subseteq Conn \ {c}
             /\ pc'[a] \in Finale => pc[a] \in Finale /\ tgt'[a] = tgt[a] /\ tgt[a] \in Conn \ {c}
  <2>1. todo'[a] = todo[a] /\ todo[a] \subseteq Conn \ {c}
    BY DEF Opens, Fits, WorkFits, TypeOK, sweep
  <2>2. ASSUME pc'[a] \in Finale PROVE a # s /\ pc[a] \in Finale
    BY <2>2 DEF Opens, Finale, TypeOK
  <2>3. ASSUME a # s, pc[a] \in Finale PROVE tgt'[a] = tgt[a] /\ tgt[a] \in Conn \ {c}
    BY <2>3 DEF Opens, Fits, WorkFits, TypeOK
  <2> QED
    BY <2>1, <2>2, <2>3
<1>4. TakenOut'
  BY <1>2, <1>3 DEF TInv, TakenOut
<1> QED
  BY <1>1, <1>4 DEF TInv

LEMMA FreesTInv ==
  ASSUME TypeOK, TInv, NEW a \in Actor, Frees(a)
  PROVE  TInv'
<1>1. RowsFit'
  BY DEF Frees, TInv, RowsFit
<1>2. \A d \in Conn : InTable(d)' => InTable(d)
  BY DEF Frees
<1>3. ASSUME NEW b \in Actor
      PROVE  /\ pc'[b] \in Finale => b = a \/ pc[b] \in Finale
             /\ pc[b] \in Finale => tgt[b] \in Conn
             /\ tgt'[b] = tgt[b] /\ todo'[b] = todo[b] /\ todo[b] \subseteq Conn
  BY DEF Frees, TypeOK
<1>4. tgt[a] \in Conn /\ tgt'[a] = tgt[a] /\ ~InTable(tgt[a])'
  BY DEF Frees
<1>5. TakenOut'
  BY <1>2, <1>3, <1>4 DEF TInv, TakenOut, InTable
<1> QED
  BY <1>1, <1>5 DEF TInv

(* After OnDisconnect, nothing is at hand.                                 *)
LEMMA NotifyTInv ==
  ASSUME TypeOK, TInv, NEW a \in Actor, Notify(a)
  PROVE  TInv'
<1>1. UNCHANGED <<registered, table, sess, nsp, todo, tgt>> /\ pc' = [pc EXCEPT ![a] = After(a)]
  BY DEF Notify, Step, Goto, dir, ids, sweep
<1>2. After(a) \notin Finale
  BY DEF After, Finale
<1>3. \A b \in Actor : pc'[b] \in Finale => pc[b] \in Finale
  BY <1>1, <1>2 DEF TypeOK
<1> QED
  BY <1>1, <1>3 DEF TInv, RowsFit, TakenOut, InTable

LEMMA TInvStep == TypeOK /\ TypeOK' /\ Fits /\ TInv /\ [Next]_vars => TInv'
<1> SUFFICES ASSUME TypeOK, TypeOK', Fits, TInv, [Next]_vars PROVE TInv'
  OBVIOUS
<1> USE DEF TInv, RowsFit, TakenOut, InTable, Fits, EntriesFit, WorkFits, SweepFits,
            FreshIsBlank, TypeOK, Actor, PCs, Finale, Closing, Teardown, At, Goto, Step,
            net, ids, listed, dir, room, app, srv, sweep, rest
<1>1. ASSUME NEW s \in Session, TransportFails(s) PROVE TInv'
  BY <1>1 DEF TransportFails
<1>2. ASSUME NEW s \in Session, Accept(s) PROVE TInv'
  BY <1>2 DEF Accept
<1>3. ASSUME NEW s \in Session, Register(s) PROVE TInv'
  BY <1>3 DEF Register
<1>4. ASSUME NEW s \in Session, LoopReturns(s) PROVE TInv'
  BY <1>4 DEF LoopReturns
<1>5. ASSUME NEW s \in Session, ConnectUnknown(s) PROVE TInv'
  BY <1>5 DEF ConnectUnknown
<1>6. ASSUME NEW s \in Session, NEW n \in NS, Connect(s, n) PROVE TInv'
  <2>1. CASE Declines(s)
    BY <2>1 DEF Declines
  <2>2. ASSUME NEW c \in Conn, Opens(s, n, c) PROVE TInv'
    BY <2>2, OpensTInv
  <2> QED
    BY <2>1, <2>2, <1>6, ConnectCases
<1>7. ASSUME NEW s \in Session, NEW n \in NS, Disconnect(s, n) PROVE TInv'
  <2>1. PICK c \in Conn : Takes(s, c)
    BY <1>7, DisconnectTakes
  <2> QED
    BY <2>1 DEF Takes
<1>8. ASSUME NEW s \in Session, Publish(s) PROVE TInv'
  BY <1>8 DEF Publish
<1>9. ASSUME NEW s \in Session, CountUp(s) PROVE TInv'
  BY <1>9 DEF CountUp
<1>10. ASSUME NEW s \in Session, Reply(s) PROVE TInv'
  <2>1. CASE Replies(s)
    BY <2>1 DEF Replies
  <2>2. CASE ReplyCloses(s)
    BY <2>2 DEF ReplyCloses
  <2>3. CASE ReplyFindsClosed(s)
    BY <2>3 DEF ReplyFindsClosed
  <2> QED
    BY <2>1, <2>2, <2>3, <1>10, ReplyCases
<1>11. ASSUME NEW s \in Session, OnConnect(s) PROVE TInv'
  <2>1. CASE Accepts(s)
    BY <2>1 DEF Accepts
  <2>2. CASE Refuses(s)
    BY <2>2 DEF Refuses
  <2> QED
    BY <2>1, <2>2, <1>11, OnConnectCases
<1>12. ASSUME NEW c \in Conn, JoinStart(c) PROVE TInv'
  BY <1>12 DEF JoinStart
<1>13. ASSUME NEW c \in Conn, JoinAdd(c) PROVE TInv'
  BY <1>13 DEF JoinAdd
<1>14. ASSUME NEW c \in Conn, CloseCall(c) PROVE TInv'
  BY <1>14 DEF CloseCall
<1>15. ASSUME NEW a \in Actor, Unclaim(a) PROVE TInv'
  <2>1. Frees(a)
    BY <1>15, UnclaimFrees
  <2> QED
    BY <2>1, FreesTInv
<1>16. ASSUME NEW a \in Actor, LeaveRooms(a) PROVE TInv'
  <2>1. CASE Step(a, "leave", "unjoin")
    BY <2>1, <1>16 DEF LeaveRooms, RoomsLeft
  <2>2. CASE Step(a, "closeLeave", "closeUnjoin")
    BY <2>2, <1>16 DEF LeaveRooms, RoomsLeft
  <2> QED
    BY <2>1, <2>2, <1>16 DEF LeaveRooms
<1>17. ASSUME NEW a \in Actor, Unjoin(a) PROVE TInv'
  <2>1. CASE Step(a, "unjoin", "drop")
    BY <2>1, <1>17 DEF Unjoin
  <2>2. CASE Step(a, "closeUnjoin", CloseGoesOn)
    BY <2>2, <1>17 DEF Unjoin, CloseGoesOn
  <2> QED
    BY <2>1, <2>2, <1>17 DEF Unjoin
<1>18. ASSUME NEW a \in Actor, Drop(a) PROVE TInv'
  BY <1>18 DEF Drop
<1>19. ASSUME NEW a \in Actor, CountDown(a) PROVE TInv'
  BY <1>19 DEF CountDown
<1>20. ASSUME NEW a \in Actor, Notify(a) PROVE TInv'
  BY <1>20, NotifyTInv
<1>21. ASSUME NEW a \in Actor, Claim(a) PROVE TInv'
  <2>1. TakesAll(a)
    BY <1>21, ClaimTakes
  <2> QED
    BY <2>1 DEF TakesAll
<1>22. ASSUME NEW a \in Actor, Sweep(a) PROVE TInv'
  <2>1. CASE SweepEnds(a)
    BY <2>1 DEF SweepEnds
  <2>2. ASSUME NEW c \in Conn, TakesUp(a, c) PROVE TInv'
    BY <2>2 DEF TakesUp
  <2> QED
    BY <2>1, <2>2, <1>22, SweepCases
<1>23. ASSUME NEW a \in Actor, Mark(a) PROVE TInv'
  BY <1>23 DEF Mark
<1>24. ASSUME NEW a \in Actor, Shut(a) PROVE TInv'
  BY <1>24 DEF Shut
<1>25. CASE CloseServer
  BY <1>25 DEF CloseServer
<1>26. CASE NextVictim
  BY <1>26 DEF NextVictim
<1>27. CASE StopTransports
  BY <1>27 DEF StopTransports
<1>28. CASE ServeReturns
  BY <1>28 DEF ServeReturns
<1>29. CASE UNCHANGED vars
  BY <1>29 DEF vars
<1> QED
  BY ZenonT(30), <1>1, <1>2, <1>3, <1>4, <1>5, <1>6, <1>7, <1>8, <1>9, <1>10, <1>11,
     <1>12, <1>13, <1>14, <1>15, <1>16, <1>17, <1>18, <1>19, <1>20, <1>21,
     <1>22, <1>23, <1>24, <1>25, <1>26, <1>27, <1>28, <1>29 DEF Next, Loop,
     Shared, ServerClose

-----------------------------------------------------------------------------
(* Server.conns.                                                           *)

LEMMA ListedStep ==
  TypeOK /\ TypeOK' /\ Fits /\ TInv /\ ConnectedIsListed /\ [Next]_vars
    => ConnectedIsListed'
<1> SUFFICES ASSUME TypeOK, TypeOK', Fits, TInv, ConnectedIsListed, [Next]_vars
             PROVE  ConnectedIsListed'
  OBVIOUS
<1> USE DEF ConnectedIsListed, TInv, TakenOut, InTable, Fits, EntriesFit, WorkFits,
            FreshIsBlank, TypeOK, Actor, PCs, Finale, Closing, Teardown, At, Goto, Step,
            net, ids, listed, dir, room, app, srv, sweep, rest
<1>1. ASSUME NEW s \in Session, TransportFails(s) PROVE ConnectedIsListed'
  BY <1>1 DEF TransportFails
<1>2. ASSUME NEW s \in Session, Accept(s) PROVE ConnectedIsListed'
  BY <1>2 DEF Accept
<1>3. ASSUME NEW s \in Session, Register(s) PROVE ConnectedIsListed'
  BY <1>3 DEF Register
<1>4. ASSUME NEW s \in Session, LoopReturns(s) PROVE ConnectedIsListed'
  BY <1>4 DEF LoopReturns
<1>5. ASSUME NEW s \in Session, ConnectUnknown(s) PROVE ConnectedIsListed'
  BY <1>5 DEF ConnectUnknown
<1>6. ASSUME NEW s \in Session, NEW n \in NS, Connect(s, n) PROVE ConnectedIsListed'
  <2>1. CASE Declines(s)
    BY <2>1 DEF Declines
  <2>2. ASSUME NEW c \in Conn, Opens(s, n, c) PROVE ConnectedIsListed'
    BY <2>2 DEF Opens
  <2> QED
    BY <2>1, <2>2, <1>6, ConnectCases
<1>7. ASSUME NEW s \in Session, NEW n \in NS, Disconnect(s, n) PROVE ConnectedIsListed'
  <2>1. PICK c \in Conn : Takes(s, c)
    BY <1>7, DisconnectTakes
  <2> QED
    BY <2>1 DEF Takes
<1>8. ASSUME NEW s \in Session, Publish(s) PROVE ConnectedIsListed'
  BY <1>8 DEF Publish
<1>9. ASSUME NEW s \in Session, CountUp(s) PROVE ConnectedIsListed'
  BY <1>9 DEF CountUp
<1>10. ASSUME NEW s \in Session, Reply(s) PROVE ConnectedIsListed'
  <2>1. CASE Replies(s)
    BY <2>1 DEF Replies
  <2>2. CASE ReplyCloses(s)
    BY <2>2 DEF ReplyCloses
  <2>3. CASE ReplyFindsClosed(s)
    BY <2>3 DEF ReplyFindsClosed
  <2> QED
    BY <2>1, <2>2, <2>3, <1>10, ReplyCases
<1>11. ASSUME NEW s \in Session, OnConnect(s) PROVE ConnectedIsListed'
  <2>1. CASE Accepts(s)
    BY <2>1 DEF Accepts
  <2>2. CASE Refuses(s)
    BY <2>2 DEF Refuses
  <2> QED
    BY <2>1, <2>2, <1>11, OnConnectCases
<1>12. ASSUME NEW c \in Conn, JoinStart(c) PROVE ConnectedIsListed'
  BY <1>12 DEF JoinStart
<1>13. ASSUME NEW c \in Conn, JoinAdd(c) PROVE ConnectedIsListed'
  BY <1>13 DEF JoinAdd
<1>14. ASSUME NEW c \in Conn, CloseCall(c) PROVE ConnectedIsListed'
  BY <1>14 DEF CloseCall
<1>15. ASSUME NEW a \in Actor, Unclaim(a) PROVE ConnectedIsListed'
  <2>1. Frees(a)
    BY <1>15, UnclaimFrees
  <2> QED
    BY <2>1 DEF Frees
<1>16. ASSUME NEW a \in Actor, LeaveRooms(a) PROVE ConnectedIsListed'
  <2>1. CASE Step(a, "leave", "unjoin")
    BY <2>1, <1>16 DEF LeaveRooms, RoomsLeft
  <2>2. CASE Step(a, "closeLeave", "closeUnjoin")
    BY <2>2, <1>16 DEF LeaveRooms, RoomsLeft
  <2> QED
    BY <2>1, <2>2, <1>16 DEF LeaveRooms
<1>17. ASSUME NEW a \in Actor, Unjoin(a) PROVE ConnectedIsListed'
  <2>1. CASE Step(a, "unjoin", "drop")
    BY <2>1, <1>17 DEF Unjoin
  <2>2. CASE Step(a, "closeUnjoin", CloseGoesOn)
    BY <2>2, <1>17 DEF Unjoin, CloseGoesOn
  <2> QED
    BY <2>1, <2>2, <1>17 DEF Unjoin
<1>18. ASSUME NEW a \in Actor, Drop(a) PROVE ConnectedIsListed'
  BY <1>18 DEF Drop
<1>19. ASSUME NEW a \in Actor, CountDown(a) PROVE ConnectedIsListed'
  BY <1>19 DEF CountDown
<1>20. ASSUME NEW a \in Actor, Notify(a) PROVE ConnectedIsListed'
  BY <1>20 DEF Notify, After
<1>21. ASSUME NEW a \in Actor, Claim(a) PROVE ConnectedIsListed'
  <2>1. TakesAll(a)
    BY <1>21, ClaimTakes
  <2> QED
    BY <2>1 DEF TakesAll
<1>22. ASSUME NEW a \in Actor, Sweep(a) PROVE ConnectedIsListed'
  <2>1. CASE SweepEnds(a)
    BY <2>1 DEF SweepEnds
  <2>2. ASSUME NEW c \in Conn, TakesUp(a, c) PROVE ConnectedIsListed'
    BY <2>2 DEF TakesUp
  <2> QED
    BY <2>1, <2>2, <1>22, SweepCases
<1>23. ASSUME NEW a \in Actor, Mark(a) PROVE ConnectedIsListed'
  BY <1>23 DEF Mark
<1>24. ASSUME NEW a \in Actor, Shut(a) PROVE ConnectedIsListed'
  BY <1>24 DEF Shut
<1>25. CASE CloseServer
  BY <1>25 DEF CloseServer
<1>26. CASE NextVictim
  BY <1>26 DEF NextVictim
<1>27. CASE StopTransports
  BY <1>27 DEF StopTransports
<1>28. CASE ServeReturns
  BY <1>28 DEF ServeReturns
<1>29. CASE UNCHANGED vars
  BY <1>29 DEF vars
<1> QED
  BY ZenonT(30), <1>1, <1>2, <1>3, <1>4, <1>5, <1>6, <1>7, <1>8, <1>9, <1>10, <1>11,
     <1>12, <1>13, <1>14, <1>15, <1>16, <1>17, <1>18, <1>19, <1>20, <1>21,
     <1>22, <1>23, <1>24, <1>25, <1>26, <1>27, <1>28, <1>29 DEF Next, Loop,
     Shared, ServerClose

-----------------------------------------------------------------------------
(* Nobody is forgotten.                                                    *)

LEMMA RememberedClaim ==
  ASSUME TypeOK, Fits, Remembered, NEW a \in Actor, TakesAll(a)
  PROVE  Remembered'
<1>1. ASSUME NEW c \in Conn, NEW b \in Actor, Finishing(b, c)
      PROVE  Finishing(b, c)'
  <2>1. b # a
    BY <1>1 DEF TakesAll, Fits, SweepFits, Finishing, Finale, Closing
  <2> QED
    BY <1>1, <2>1 DEF TakesAll, Finishing
<1>2. ASSUME NEW c \in Conn, InTable(c), sess[c] = job[a]
      PROVE  LoopFinishing(c)' \/ Finishing(Shutdown, c)'
  <2>1. Finishing(a, c)'
    BY <1>2 DEF TakesAll, Finishing
  <2> QED
    BY <1>2, <2>1 DEF TakesAll, LoopFinishing, Actor
<1>3. ASSUME NEW c \in Conn, InTable(c), sess[c] \in registered, sess[c] # job[a]
      PROVE  InTable(c)' /\ sess'[c] \in registered'
  BY <1>3 DEF TakesAll
<1>4. ASSUME NEW c \in Conn, LoopFinishing(c) PROVE LoopFinishing(c)'
  BY <1>1, <1>4 DEF TakesAll, LoopFinishing, TypeOK, Actor
<1>5. UNCHANGED <<sess, disc>>
  BY DEF TakesAll
<1> QED
  BY <1>1, <1>2, <1>3, <1>4, <1>5 DEF Remembered, Actor

LEMMA RememberedTakesUp ==
  ASSUME TypeOK, Remembered, NEW a \in Actor, NEW c \in Conn, TakesUp(a, c)
  PROVE  Remembered'
<1>1. ASSUME NEW d \in Conn, NEW b \in Actor, Finishing(b, d)
      PROVE  Finishing(b, d)'
  <2>1. CASE b = a
    <3>1. d \in todo[a]
      BY <1>1, <2>1 DEF TakesUp, Finishing, Finale, Closing
    <3> QED
      BY <2>1, <3>1 DEF TakesUp, Finishing, Finale, TypeOK
  <2>2. CASE b # a
    BY <1>1, <2>2 DEF TakesUp, Finishing, TypeOK
  <2> QED
    BY <2>1, <2>2
<1>2. UNCHANGED <<sess, nsp, table, registered, disc>>
  BY DEF TakesUp, dir, ids
<1>3. ASSUME NEW d \in Conn, LoopFinishing(d) PROVE LoopFinishing(d)'
  BY <1>1, <1>2, <1>3 DEF LoopFinishing, TypeOK, Actor
<1> QED
  BY <1>1, <1>2, <1>3 DEF Remembered, InTable, Actor

LEMMA RememberedOpens ==
  ASSUME TypeOK, Fits, Remembered,
         NEW s \in Session, NEW n \in NS, NEW c \in Conn, Opens(s, n, c)
  PROVE  Remembered'
<1>1. InTable(c)' /\ sess'[c] = s /\ s \in registered'
  BY DEF Opens, InTable, TypeOK
<1>2. ASSUME NEW d \in Conn \ {c} PROVE sess'[d] = sess[d] /\ (InTable(d) => InTable(d)')
  BY DEF Opens, InTable, Fits, EntriesFit, TypeOK
<1>3. ASSUME NEW b \in Actor, NEW d \in Conn, Finishing(b, d) PROVE Finishing(b, d)'
  BY <1>3 DEF Opens, Finishing, Finale, Closing, TypeOK, sweep
<1>4. ASSUME NEW d \in Conn \ {c}, LoopFinishing(d) PROVE LoopFinishing(d)'
  BY <1>2, <1>3, <1>4 DEF LoopFinishing, TypeOK, Actor
<1>5. UNCHANGED <<registered, disc>>
  BY DEF Opens
<1> QED
  BY <1>1, <1>2, <1>3, <1>4, <1>5 DEF Remembered, Actor

LEMMA RememberedStep ==
  TypeOK /\ TypeOK' /\ Fits /\ TInv /\ Remembered /\ [Next]_vars => Remembered'
<1> SUFFICES ASSUME TypeOK, TypeOK', Fits, TInv, Remembered, [Next]_vars
             PROVE  Remembered'
  OBVIOUS
<1> USE DEF Remembered, LoopFinishing, Finishing, TInv, TakenOut, InTable,
            Fits, EntriesFit, WorkFits, SweepFits,
            FreshIsBlank, TypeOK, Actor, PCs, Finale, Closing, Teardown, At, Goto, Step,
            net, ids, listed, dir, room, app, srv, sweep, rest
<1>1. ASSUME NEW s \in Session, TransportFails(s) PROVE Remembered'
  BY <1>1 DEF TransportFails
<1>2. ASSUME NEW s \in Session, Accept(s) PROVE Remembered'
  BY <1>2 DEF Accept
<1>3. ASSUME NEW s \in Session, Register(s) PROVE Remembered'
  BY <1>3 DEF Register
<1>4. ASSUME NEW s \in Session, LoopReturns(s) PROVE Remembered'
  BY <1>4 DEF LoopReturns
<1>5. ASSUME NEW s \in Session, ConnectUnknown(s) PROVE Remembered'
  BY <1>5 DEF ConnectUnknown
<1>6. ASSUME NEW s \in Session, NEW n \in NS, Connect(s, n) PROVE Remembered'
  <2>1. CASE Declines(s)
    BY <2>1 DEF Declines
  <2>2. ASSUME NEW c \in Conn, Opens(s, n, c) PROVE Remembered'
    BY <2>2, RememberedOpens
  <2> QED
    BY <2>1, <2>2, <1>6, ConnectCases
<1>7. ASSUME NEW s \in Session, NEW n \in NS, Disconnect(s, n) PROVE Remembered'
  <2>1. PICK c \in Conn : Takes(s, c)
    BY <1>7, DisconnectTakes
  <2> QED
    BY <2>1 DEF Takes
<1>8. ASSUME NEW s \in Session, Publish(s) PROVE Remembered'
  BY <1>8 DEF Publish
<1>9. ASSUME NEW s \in Session, CountUp(s) PROVE Remembered'
  BY <1>9 DEF CountUp
<1>10. ASSUME NEW s \in Session, Reply(s) PROVE Remembered'
  <2>1. CASE Replies(s)
    BY <2>1 DEF Replies
  <2>2. CASE ReplyCloses(s)
    BY <2>2 DEF ReplyCloses
  <2>3. CASE ReplyFindsClosed(s)
    BY <2>3 DEF ReplyFindsClosed
  <2> QED
    BY <2>1, <2>2, <2>3, <1>10, ReplyCases
<1>11. ASSUME NEW s \in Session, OnConnect(s) PROVE Remembered'
  <2>1. CASE Accepts(s)
    BY <2>1 DEF Accepts
  <2>2. CASE Refuses(s)
    BY <2>2 DEF Refuses
  <2> QED
    BY <2>1, <2>2, <1>11, OnConnectCases
<1>12. ASSUME NEW c \in Conn, JoinStart(c) PROVE Remembered'
  BY <1>12 DEF JoinStart
<1>13. ASSUME NEW c \in Conn, JoinAdd(c) PROVE Remembered'
  BY <1>13 DEF JoinAdd
<1>14. ASSUME NEW c \in Conn, CloseCall(c) PROVE Remembered'
  BY <1>14 DEF CloseCall
<1>15. ASSUME NEW a \in Actor, Unclaim(a) PROVE Remembered'
  <2>1. Frees(a)
    BY <1>15, UnclaimFrees
  <2> QED
    BY <2>1 DEF Frees
<1>16. ASSUME NEW a \in Actor, LeaveRooms(a) PROVE Remembered'
  <2>1. CASE Step(a, "leave", "unjoin")
    BY <2>1, <1>16 DEF LeaveRooms, RoomsLeft
  <2>2. CASE Step(a, "closeLeave", "closeUnjoin")
    BY <2>2, <1>16 DEF LeaveRooms, RoomsLeft
  <2> QED
    BY <2>1, <2>2, <1>16 DEF LeaveRooms
<1>17. ASSUME NEW a \in Actor, Unjoin(a) PROVE Remembered'
  <2>1. CASE Step(a, "unjoin", "drop")
    BY <2>1, <1>17 DEF Unjoin
  <2>2. CASE Step(a, "closeUnjoin", CloseGoesOn)
    BY <2>2, <1>17 DEF Unjoin, CloseGoesOn
  <2> QED
    BY <2>1, <2>2, <1>17 DEF Unjoin
<1>18. ASSUME NEW a \in Actor, Drop(a) PROVE Remembered'
  BY <1>18 DEF Drop
<1>19. ASSUME NEW a \in Actor, CountDown(a) PROVE Remembered'
  BY <1>19 DEF CountDown
<1>20. ASSUME NEW a \in Actor, Notify(a) PROVE Remembered'
  BY <1>20 DEF Notify, After
<1>21. ASSUME NEW a \in Actor, Claim(a) PROVE Remembered'
  <2>1. TakesAll(a)
    BY <1>21, ClaimTakes
  <2> QED
    BY <2>1, RememberedClaim
<1>22. ASSUME NEW a \in Actor, Sweep(a) PROVE Remembered'
  <2>1. CASE SweepEnds(a)
    BY <2>1 DEF SweepEnds
  <2>2. ASSUME NEW c \in Conn, TakesUp(a, c) PROVE Remembered'
    BY <2>2, RememberedTakesUp
  <2> QED
    BY <2>1, <2>2, <1>22, SweepCases
<1>23. ASSUME NEW a \in Actor, Mark(a) PROVE Remembered'
  BY <1>23 DEF Mark
<1>24. ASSUME NEW a \in Actor, Shut(a) PROVE Remembered'
  BY <1>24 DEF Shut
<1>25. CASE CloseServer
  BY <1>25 DEF CloseServer
<1>26. CASE NextVictim
  BY <1>26 DEF NextVictim
<1>27. CASE StopTransports
  BY <1>27 DEF StopTransports
<1>28. CASE ServeReturns
  BY <1>28 DEF ServeReturns
<1>29. CASE UNCHANGED vars
  BY <1>29 DEF vars
<1> QED
  BY ZenonT(30), <1>1, <1>2, <1>3, <1>4, <1>5, <1>6, <1>7, <1>8, <1>9, <1>10, <1>11,
     <1>12, <1>13, <1>14, <1>15, <1>16, <1>17, <1>18, <1>19, <1>20, <1>21,
     <1>22, <1>23, <1>24, <1>25, <1>26, <1>27, <1>28, <1>29 DEF Next, Loop,
     Shared, ServerClose

-----------------------------------------------------------------------------
LEMMA TableInvCorrect == Spec => [](TInv /\ ConnectedIsListed /\ Remembered)
<1>1. Init => ConnectedIsListed /\ Remembered
  BY DEF Init, ConnectedIsListed, Remembered, InTable
<1>2. IInv /\ IInv' /\ TInv /\ ConnectedIsListed /\ Remembered /\ [Next]_vars
        => TInv' /\ ConnectedIsListed' /\ Remembered'
  BY TInvStep, ListedStep, RememberedStep DEF IInv
<1> QED
  BY <1>1, <1>2, TInvInit, IInvCorrect, PTL DEF Spec

(* No goroutine takes a connection out of Server.conns before it has taken *)
(* it out of the table: what is connected is listed, once its loop is past *)
(* connectNamespace's second critical section.                             *)
THEOREM ConnectedListed == Spec => []ConnectedIsListed
  BY TableInvCorrect, PTL

(* From CONNECT on a connection is in the table of a registered session,   *)
(* or a goroutine is on its way to OnDisconnect for it, or that has run.   *)
THEOREM NobodyForgotten == Spec => []NeverForgotten
<1>1. TypeOK /\ Remembered => NeverForgotten
  BY DEF TypeOK, Remembered, LoopFinishing, NeverForgotten, Created, Actor
<1> QED
  BY <1>1, TypeCorrect, TableInvCorrect, PTL
-----------------------------------------------------------------------------
(* OnConnect comes before OnDisconnect.                                    *)

LEMMA UnheardStep ==
  TypeOK /\ TypeOK' /\ Fits /\ Unheard /\ [Next]_vars => Unheard'
<1> SUFFICES ASSUME TypeOK, TypeOK', Fits, Unheard, [Next]_vars PROVE Unheard'
  OBVIOUS
<1> USE DEF Unheard, Fits, WorkFits, SweepFits, FreshIsBlank, TypeOK,
            Actor, PCs, Finale, Closing, Teardown, At, Goto, Step,
            net, ids, listed, dir, room, app, srv, sweep, rest
<1>1. ASSUME NEW s \in Session, TransportFails(s) PROVE Unheard'
  BY <1>1 DEF TransportFails
<1>2. ASSUME NEW s \in Session, Accept(s) PROVE Unheard'
  BY <1>2 DEF Accept
<1>3. ASSUME NEW s \in Session, Register(s) PROVE Unheard'
  BY <1>3 DEF Register
<1>4. ASSUME NEW s \in Session, LoopReturns(s) PROVE Unheard'
  BY <1>4 DEF LoopReturns
<1>5. ASSUME NEW s \in Session, ConnectUnknown(s) PROVE Unheard'
  BY <1>5 DEF ConnectUnknown
<1>6. ASSUME NEW s \in Session, NEW n \in NS, Connect(s, n) PROVE Unheard'
  <2>1. CASE Declines(s)
    BY <2>1 DEF Declines
  <2>2. ASSUME NEW c \in Conn, Opens(s, n, c) PROVE Unheard'
    BY <2>2 DEF Opens
  <2> QED
    BY <2>1, <2>2, <1>6, ConnectCases
<1>7. ASSUME NEW s \in Session, NEW n \in NS, Disconnect(s, n) PROVE Unheard'
  BY <1>7 DEF Disconnect
<1>8. ASSUME NEW s \in Session, Publish(s) PROVE Unheard'
  BY <1>8 DEF Publish
<1>9. ASSUME NEW s \in Session, CountUp(s) PROVE Unheard'
  BY <1>9 DEF CountUp
<1>10. ASSUME NEW s \in Session, Reply(s) PROVE Unheard'
  <2>1. CASE Replies(s)
    BY <2>1 DEF Replies
  <2>2. CASE ReplyCloses(s)
    BY <2>2 DEF ReplyCloses
  <2>3. CASE ReplyFindsClosed(s)
    BY <2>3 DEF ReplyFindsClosed
  <2> QED
    BY <2>1, <2>2, <2>3, <1>10, ReplyCases
<1>11. ASSUME NEW s \in Session, OnConnect(s) PROVE Unheard'
  <2>1. CASE Accepts(s)
    BY <2>1 DEF Accepts
  <2>2. CASE Refuses(s)
    BY <2>2 DEF Refuses
  <2> QED
    BY <2>1, <2>2, <1>11, OnConnectCases
<1>12. ASSUME NEW c \in Conn, JoinStart(c) PROVE Unheard'
  BY <1>12 DEF JoinStart
<1>13. ASSUME NEW c \in Conn, JoinAdd(c) PROVE Unheard'
  BY <1>13 DEF JoinAdd
<1>14. ASSUME NEW c \in Conn, CloseCall(c) PROVE Unheard'
  BY <1>14 DEF CloseCall
<1>15. ASSUME NEW a \in Actor, Unclaim(a) PROVE Unheard'
  BY <1>15 DEF Unclaim
<1>16. ASSUME NEW a \in Actor, LeaveRooms(a) PROVE Unheard'
  <2>1. CASE Step(a, "leave", "unjoin")
    BY <2>1, <1>16 DEF LeaveRooms, RoomsLeft
  <2>2. CASE Step(a, "closeLeave", "closeUnjoin")
    BY <2>2, <1>16 DEF LeaveRooms, RoomsLeft
  <2> QED
    BY <2>1, <2>2, <1>16 DEF LeaveRooms
<1>17. ASSUME NEW a \in Actor, Unjoin(a) PROVE Unheard'
  <2>1. CASE Step(a, "unjoin", "drop")
    BY <2>1, <1>17 DEF Unjoin
  <2>2. CASE Step(a, "closeUnjoin", CloseGoesOn)
    BY <2>2, <1>17 DEF Unjoin, CloseGoesOn
  <2> QED
    BY <2>1, <2>2, <1>17 DEF Unjoin
<1>18. ASSUME NEW a \in Actor, Drop(a) PROVE Unheard'
  BY <1>18 DEF Drop
<1>19. ASSUME NEW a \in Actor, CountDown(a) PROVE Unheard'
  BY <1>19 DEF CountDown
<1>20. ASSUME NEW a \in Actor, Notify(a) PROVE Unheard'
  BY <1>20 DEF Notify, After
<1>21. ASSUME NEW a \in Actor, Claim(a) PROVE Unheard'
  BY <1>21 DEF Claim
<1>22. ASSUME NEW a \in Actor, Sweep(a) PROVE Unheard'
  <2>1. CASE SweepEnds(a)
    BY <2>1 DEF SweepEnds
  <2>2. ASSUME NEW c \in Conn, TakesUp(a, c) PROVE Unheard'
    BY <2>2 DEF TakesUp
  <2> QED
    BY <2>1, <2>2, <1>22, SweepCases
<1>23. ASSUME NEW a \in Actor, Mark(a) PROVE Unheard'
  BY <1>23 DEF Mark
<1>24. ASSUME NEW a \in Actor, Shut(a) PROVE Unheard'
  BY <1>24 DEF Shut
<1>25. CASE CloseServer
  BY <1>25 DEF CloseServer
<1>26. CASE NextVictim
  BY <1>26 DEF NextVictim
<1>27. CASE StopTransports
  BY <1>27 DEF StopTransports
<1>28. CASE ServeReturns
  BY <1>28 DEF ServeReturns
<1>29. CASE UNCHANGED vars
  BY <1>29 DEF vars
<1> QED
  BY ZenonT(30), <1>1, <1>2, <1>3, <1>4, <1>5, <1>6, <1>7, <1>8, <1>9, <1>10, <1>11,
     <1>12, <1>13, <1>14, <1>15, <1>16, <1>17, <1>18, <1>19, <1>20, <1>21,
     <1>22, <1>23, <1>24, <1>25, <1>26, <1>27, <1>28, <1>29 DEF Next, Loop,
     Shared, ServerClose


(* OnConnect begins for connections only that nobody has disconnected:     *)
(* none but the loop itself, or Server.Close, can take them.               *)
THEOREM ConnectFirst == Spec => NoConnectAfterDisconnect
<1>1. Init => Unheard
  BY DEF Init, Unheard, Actor
<1>2. IInv /\ IInv' /\ Unheard /\ [Next]_vars => Unheard'
  BY UnheardStep DEF IInv
<1>3. ASSUME TypeOK, Unheard, [Next]_vars, NEW s \in Session,
             pc[s] # "onconnect", pc'[s] = "onconnect", At(Shutdown, "idle")
      PROVE  disc'[tgt'[s]] = 0
  <2>1. Reply(s)
    <3> USE DEF At, Goto, Step, Actor
    <3>0. pc \in [Actor -> PCs]
      BY <1>3 DEF TypeOK
    <3>1. ASSUME NEW r \in Session, TransportFails(r) \/ Loop(r) PROVE Reply(s)
      BY <1>3, <3>0, <3>1 DEF TransportFails, Loop, Accept, Register, LoopReturns,
        ConnectUnknown, Connect, Disconnect, Publish, CountUp, Reply, OnConnect, After
    <3>2. ASSUME NEW c \in Conn, JoinStart(c) \/ JoinAdd(c) \/ CloseCall(c) PROVE Reply(s)
      BY <1>3, <3>0, <3>2 DEF JoinStart, JoinAdd, CloseCall
    <3>3. ASSUME NEW a \in Actor, Shared(a) PROVE Reply(s)
      BY <1>3, <3>0, <3>3 DEF Shared, Unclaim, LeaveRooms, Unjoin, CloseGoesOn, Drop,
        CountDown, Notify, After, Claim, Sweep, Mark, Shut
    <3>4. ASSUME ServerClose \/ ServeReturns PROVE Reply(s)
      BY <1>3, <3>0, <3>4 DEF ServerClose, CloseServer, NextVictim, StopTransports, ServeReturns
    <3>5. ~UNCHANGED vars
      BY <1>3 DEF vars
    <3> QED
      BY <1>3, <3>1, <3>2, <3>3, <3>4, <3>5 DEF Next
  <2>2. UNCHANGED <<tgt, disc>> /\ pc[s] = "reply"
    BY <2>1 DEF Reply, At
  <2> QED
    BY <1>3, <2>2 DEF Unheard
<1>4. TypeOK /\ Unheard /\ [Next]_vars =>
        [\A s \in Session :
           ~At(s, "onconnect") /\ pc'[s] = "onconnect" /\ At(Shutdown, "idle") =>
             disc'[tgt'[s]] = 0]_vars
  BY <1>3 DEF At
<1> QED
  BY <1>1, <1>2, <1>4, IInvCorrect, TypeCorrect, PTL DEF Spec, NoConnectAfterDisconnect

-----------------------------------------------------------------------------
(* Loops alone: neither Close nor Server.Close has been called.            *)

LEMMA QuietBefore ==
  ASSUME TypeOK, TypeOK', [Next]_vars, Quiet'
  PROVE  Quiet
<1>1. \A c \in Conn : once[c] => once'[c]
  BY DEF Next, Loop, Shared, ServerClose, vars, net, rest, app, TypeOK,
    TransportFails, Accept, Register, LoopReturns, ConnectUnknown, Connect, Disconnect,
    Publish, CountUp, Reply, OnConnect, JoinStart, JoinAdd, CloseCall, Unclaim, LeaveRooms,
    Unjoin, Drop, CountDown, Notify, Claim, Sweep, Mark, Shut,
    CloseServer, NextVictim, StopTransports, ServeReturns
<1>2. At(Shutdown, "idle")
  <2> USE DEF At, Goto, Step, Actor
  <2>0. pc \in [Actor -> PCs] /\ pc'[Shutdown] = "idle"
    BY DEF TypeOK, Quiet
  <2>1. ASSUME NEW r \in Session, TransportFails(r) \/ Loop(r) PROVE pc[Shutdown] = "idle"
    BY <2>0, <2>1 DEF TransportFails, Loop, Accept, Register, LoopReturns,
      ConnectUnknown, Connect, Disconnect, Publish, CountUp, Reply, OnConnect, After
  <2>2. ASSUME NEW c \in Conn, JoinStart(c) \/ JoinAdd(c) \/ CloseCall(c)
        PROVE  pc[Shutdown] = "idle"
    BY <2>0, <2>2 DEF JoinStart, JoinAdd, CloseCall
  <2>3. ASSUME NEW a \in Actor, Shared(a) PROVE pc[Shutdown] = "idle"
    BY <2>0, <2>3 DEF Shared, Unclaim, LeaveRooms, Unjoin, CloseGoesOn, Drop,
      CountDown, Notify, After, Claim, Sweep, Mark, Shut
  <2>4. ASSUME ServerClose \/ ServeReturns PROVE pc[Shutdown] = "idle"
    BY <2>0, <2>4 DEF ServerClose, CloseServer, NextVictim, StopTransports, ServeReturns
  <2>5. UNCHANGED vars => pc[Shutdown] = "idle"
    BY <2>0 DEF vars
  <2> QED
    BY <2>1, <2>2, <2>3, <2>4, <2>5 DEF Next
<1> QED
  BY <1>1, <1>2 DEF Quiet

(* Everyone stays where LoopsAlone looks, or goes on outside of it.        *)
Passes(a) ==
  /\ \A b \in Actor \ {a} : pc'[b] = pc[b]
  /\ pc[a] \notin Finale
  /\ pc'[a] \notin Finale \cup {"closeLeave", "closeUnjoin"}
  /\ pc'[a] \in Opening => pc[a] \in Opening /\ a \in Session
  /\ pc[a] = "onconnect" /\ "joinInConnect" \in UserOps => ~adding[tgt[a]]
  /\ UNCHANGED <<table, conns, sess, nsp, tgt, todo, joined, member, adding, disc>>

LEMMA PassesKeeps ==
  ASSUME LoopsAlone, NEW a \in Actor, Passes(a)
  PROVE  LoopsAlone'
<1> USE DEF LoopsAlone, Passes, Actor
<1>1. \A c \in Conn : InTable(c)' <=> InTable(c)
  BY DEF InTable
<1>2. NoCloser'
  BY DEF NoCloser, Closing, Opening
<1>3. OpeningStays'
  BY DEF OpeningStays, InTable
<1>4. ASSUME NEW c \in Conn, NEW L \in SUBSET Finale PROVE Awaits(c, L)' <=> Awaits(c, L)
  BY DEF Awaits
<1>5. CalledOnce'
  <2>1. {"leave", "unjoin", "drop"} \in SUBSET Finale /\ Finale \in SUBSET Finale
    BY DEF Finale
  <2> QED
    BY <1>1, <1>4, <2>1 DEF CalledOnce
<1>6. ASSUME "join" \notin UserOps PROVE JoinsInConnect' /\ LeaveAhead'
  <2>1. {"leave", "unjoin"} \in SUBSET Finale /\ {"leave"} \in SUBSET Finale
    BY DEF Finale
  <2> QED
    BY <1>1, <1>4, <1>6, <2>1 DEF JoinsInConnect, LeaveAhead
<1> QED
  BY <1>2, <1>3, <1>5, <1>6

(* What changes is named by the steps; the rest follows from these.        *)
Places == {Finale, {"leave", "unjoin", "drop"}, {"leave", "unjoin"}, {"leave"}}

LEMMA QuietStep ==
  TypeOK /\ TypeOK' /\ Fits /\ TInv /\ QuietFits /\ [Next]_vars => QuietFits'
<1> SUFFICES ASSUME TypeOK, TypeOK', Fits, TInv, QuietFits, [Next]_vars, Quiet'
             PROVE  LoopsAlone'
  BY DEF QuietFits
<1>0. /\ Quiet /\ NoCloser /\ OpeningStays /\ CalledOnce
      /\ "join" \notin UserOps => JoinsInConnect /\ LeaveAhead
  BY QuietBefore DEF QuietFits, LoopsAlone
<1>a. /\ \A c \in Conn : pc[c] \notin Finale \cup Closing \cup Teardown
      /\ pc[Shutdown] = "idle" /\ pc'[Shutdown] = "idle"
      /\ \A s \in Session : tgt[s] # NONE => sess[tgt[s]] = s
      /\ \A s \in Session : job[s] \in {NONE, s}
      /\ \A s \in Session, c \in Conn : c \in todo[s] => sess[c] = s
  BY <1>0 DEF Quiet, At, NoCloser, Fits, WorkFits, TypeOK, Actor
<1>e. \A s \in Session : pc[s] \in Opening => tgt[s] \in Conn /\ sess[tgt[s]] = s
  BY <1>a DEF Opening, Closing, TypeOK, Actor
<1>b. ASSUME NEW a \in Actor, pc[a] \in Finale \cup Closing \cup Teardown
      PROVE  a \in Session
  BY <1>a, <1>b DEF Actor, Finale, Closing, Teardown
<1>c. ASSUME NEW a \in Actor, Passes(a) PROVE LoopsAlone'
  BY <1>0, <1>c, PassesKeeps DEF LoopsAlone
<1>d. ASSUME UNCHANGED <<pc, table, conns, sess, nsp, tgt, todo, joined, member, adding, disc>>
      PROVE  LoopsAlone'
  BY <1>0, <1>d DEF LoopsAlone, NoCloser, OpeningStays, CalledOnce, JoinsInConnect, LeaveAhead,
    Awaits, InTable
<1> USE DEF At, Goto, Step, net, ids, listed, dir, room, app, srv, sweep, rest
<1>1. ASSUME NEW s \in Session, TransportFails(s) \/ ConnectUnknown(s) PROVE LoopsAlone'
  BY <1>1, <1>d DEF TransportFails, ConnectUnknown
<1>2. ASSUME NEW s \in Session,
             \/ Accept(s) \/ Register(s) \/ LoopReturns(s) \/ CountUp(s)
             \/ Declines(s) \/ Replies(s) \/ OnConnect(s)
      PROVE  LoopsAlone'
  <2>1. Passes(s)
    BY <1>2 DEF Accept, Register, LoopReturns, CountUp, Declines, Replies,
      OnConnect, Passes, Opening, Finale, TypeOK, Actor
  <2> QED
    BY <1>c, <2>1 DEF Actor
<1>3. ASSUME NEW a \in Actor, SweepEnds(a) \/ Mark(a) \/ Shut(a)
      PROVE  LoopsAlone'
  <2>1. a \in Session
    BY <1>3, <1>b DEF SweepEnds, Mark, Shut, Teardown
  <2>2. Passes(a)
    BY <1>3, <2>1 DEF SweepEnds, Mark, Shut, Passes, Opening, Finale, TypeOK, Actor
  <2> QED
    BY <1>c, <2>2
<1>4. ASSUME NEW s \in Session, NEW n \in NS, NEW c \in Conn, Opens(s, n, c)
      PROVE  LoopsAlone'
  <2>1. InTable(c)' /\ \A d \in Conn \ {c} : InTable(d)' <=> InTable(d)
    BY <1>4 DEF Opens, InTable, TypeOK, Fits, EntriesFit
  <2>2. \A d \in Conn, L \in Places : Awaits(d, L) <=> Awaits(d, L)'
    <3>1. \A L \in Places : "read" \notin L /\ "publish" \notin L
      BY DEF Places, Finale
    <3> QED
      BY <1>4, <3>1 DEF Opens, Awaits, TypeOK, Actor
  <2>3. disc[c] = 0 /\ disc' = disc /\ conns' = conns
    BY <1>4 DEF Opens, Fits, FreshIsBlank
  <2>4. CalledOnce'
    BY <1>0, <2>1, <2>2, <2>3 DEF CalledOnce, Places
  <2>5. OpeningStays'
    BY <1>0, <1>4, <1>e, <2>1 DEF OpeningStays, Opening, Opens, TypeOK, Actor
  <2>6. NoCloser'
    BY <1>0, <1>4 DEF NoCloser, Opens, TypeOK, Actor, Finale, Closing
  <2>7. ASSUME "join" \notin UserOps PROVE JoinsInConnect' /\ LeaveAhead'
    BY <1>0, <1>4, <2>1, <2>2, <2>7 DEF JoinsInConnect, LeaveAhead, Places, Opens, TypeOK, Actor
  <2> QED
    BY <2>4, <2>5, <2>6, <2>7 DEF LoopsAlone
<1>5. ASSUME NEW s \in Session, NEW n \in NS, Disconnect(s, n)
      PROVE  LoopsAlone'
  <2>1. PICK c \in Conn : Takes(s, c)
    BY <1>5, DisconnectTakes
  <2>2. UNCHANGED <<joined, member, adding>>
    BY <1>5 DEF Disconnect
  <2>3. \A L \in Places : Awaits(c, L)'
    BY <2>1 DEF Takes, Awaits, Places, Finale, TypeOK, Actor
  <2>4. \A d \in Conn \ {c}, L \in Places : Awaits(d, L) <=> Awaits(d, L)'
    <3>1. \A L \in Places : "read" \notin L
      BY DEF Places, Finale
    <3> QED
      BY <2>1, <3>1 DEF Takes, Awaits, TypeOK, Actor
  <2>5. CalledOnce'
    BY <1>0, <2>1, <2>3, <2>4 DEF CalledOnce, Takes, Places
  <2>6. OpeningStays'
    BY <1>0, <1>e, <2>1 DEF OpeningStays, Opening, Takes, TypeOK, Actor
  <2>7. NoCloser'
    BY <1>0, <2>1 DEF NoCloser, Takes, TypeOK, Actor, Finale, Closing
  <2>8. ASSUME "join" \notin UserOps PROVE JoinsInConnect' /\ LeaveAhead'
    <3>1. JoinsInConnect'
      BY <1>0, <2>1, <2>2, <2>8 DEF JoinsInConnect, Takes, TypeOK, Actor
    <3>2. LeaveAhead'
      BY <1>0, <2>1, <2>2, <2>3, <2>4, <2>8 DEF LeaveAhead, Places, Takes
    <3> QED
      BY <3>1, <3>2
  <2> QED
    BY <2>5, <2>6, <2>7, <2>8 DEF LoopsAlone
<1>6. ASSUME NEW s \in Session, ReplyCloses(s) \/ ReplyFindsClosed(s) PROVE FALSE
  <2>1. tgt[s] \in Conn
    BY <1>6 DEF ReplyCloses, ReplyFindsClosed, TypeOK, Actor
  <2> QED
    BY <1>6, <2>1 DEF ReplyCloses, ReplyFindsClosed, Quiet, TypeOK
<1>7. ASSUME NEW s \in Session, Publish(s) PROVE LoopsAlone'
  <2>1. /\ pc[s] = "publish" /\ pc' = [pc EXCEPT ![s] = "count"] /\ conns' = conns \cup {tgt[s]}
        /\ UNCHANGED <<table, sess, nsp, tgt, todo, joined, member, adding, disc>>
    BY <1>7 DEF Publish
  <2>2. InTable(tgt[s]) /\ \A c \in Conn : InTable(c)' <=> InTable(c)
    BY <1>0, <2>1 DEF OpeningStays, Opening, InTable
  <2>3. \A d \in Conn, L \in Places : Awaits(d, L) <=> Awaits(d, L)'
    <3>1. \A L \in Places : "count" \notin L /\ "publish" \notin L
      BY DEF Places, Finale
    <3> QED
      BY <2>1, <3>1 DEF Awaits, TypeOK, Actor
  <2>4. CalledOnce'
    BY <1>0, <2>1, <2>2, <2>3 DEF CalledOnce, Places
  <2>5. OpeningStays' /\ NoCloser'
    BY <1>0, <2>1, <2>2 DEF OpeningStays, NoCloser, InTable, Opening, TypeOK, Actor, Finale, Closing
  <2>6. ASSUME "join" \notin UserOps PROVE JoinsInConnect' /\ LeaveAhead'
    BY <1>0, <2>1, <2>2, <2>3, <2>6 DEF JoinsInConnect, LeaveAhead, Places, TypeOK, Actor
  <2> QED
    BY <2>4, <2>5, <2>6 DEF LoopsAlone
<1>8. ASSUME NEW c \in Conn, JoinStart(c) PROVE LoopsAlone'
  <2>1. /\ joined' = [joined EXCEPT ![c] = TRUE] /\ adding' = [adding EXCEPT ![c] = TRUE]
        /\ UNCHANGED <<pc, table, conns, sess, nsp, tgt, todo, member, disc>>
    BY <1>8 DEF JoinStart
  <2>2. ASSUME "join" \notin UserOps
        PROVE  /\ "joinInConnect" \in UserOps /\ InTable(c)
               /\ \E s \in Session : pc[s] = "onconnect" /\ tgt[s] = c
    BY <1>0, <1>8, <2>2 DEF JoinStart, MayJoin, OpeningStays, Opening
  <2> QED
    BY <1>0, <2>1, <2>2 DEF LoopsAlone, NoCloser, JoinsInConnect, OpeningStays, CalledOnce,
      LeaveAhead, Awaits, InTable, TypeOK
<1>9. ASSUME NEW c \in Conn, JoinAdd(c) PROVE LoopsAlone'
  <2>1. /\ adding[c] /\ member' = [member EXCEPT ![c] = TRUE]
        /\ adding' = [adding EXCEPT ![c] = FALSE]
        /\ UNCHANGED <<pc, table, conns, sess, nsp, tgt, todo, joined, disc>>
    BY <1>9 DEF JoinAdd
  <2>2. "join" \notin UserOps => InTable(c)
    BY <1>0, <2>1 DEF JoinsInConnect, OpeningStays, Opening
  <2> QED
    BY <1>0, <2>1, <2>2 DEF LoopsAlone, NoCloser, JoinsInConnect, OpeningStays, CalledOnce,
      LeaveAhead, Awaits, InTable, TypeOK
<1>10. ASSUME NEW c \in Conn, CloseCall(c) PROVE FALSE
  BY <1>10 DEF CloseCall, Quiet, TypeOK
<1>11. ASSUME NEW a \in Actor, Unclaim(a) PROVE LoopsAlone'
  <2>1. Frees(a) /\ a \in Session
    BY <1>11, <1>b, UnclaimFrees DEF TInv, Unclaim, Closing
  <2>2. UNCHANGED <<joined, member, adding>> /\ InTable(tgt[a])
    BY <1>0, <1>11, <2>1 DEF Unclaim, OpeningStays, Opening
  <2>3. PICK c \in Conn : c = tgt[a]
    BY <2>1 DEF Frees
  <2>4. \A L \in Places : Awaits(c, L)'
    BY <2>1, <2>3 DEF Frees, Awaits, Places, Finale, TypeOK, Actor
  <2>5. \A d \in Conn \ {c}, L \in Places : Awaits(d, L) <=> Awaits(d, L)'
    BY <2>1, <2>3 DEF Frees, Awaits, TypeOK, Actor
  <2>6. CalledOnce'
    BY <1>0, <2>1, <2>2, <2>3, <2>4, <2>5 DEF CalledOnce, Frees, Places
  <2>7. OpeningStays'
    BY <1>0, <1>e, <2>1 DEF OpeningStays, Opening, Frees, TypeOK, Actor
  <2>8. NoCloser'
    BY <1>0, <2>1 DEF NoCloser, Frees, TypeOK, Actor, Finale, Closing
  <2>9. ASSUME "join" \notin UserOps PROVE JoinsInConnect' /\ LeaveAhead'
    <3>1. JoinsInConnect'
      BY <1>0, <2>1, <2>2, <2>9 DEF JoinsInConnect, Frees, TypeOK, Actor
    <3>2. LeaveAhead'
      BY <1>0, <2>1, <2>2, <2>3, <2>4, <2>5, <2>9 DEF LeaveAhead, Places, Frees
    <3> QED
      BY <3>1, <3>2
  <2> QED
    BY <2>6, <2>7, <2>8, <2>9 DEF LoopsAlone
<1>12. ASSUME NEW a \in Actor, LeaveRooms(a) \/ Unjoin(a) \/ Drop(a) \/ CountDown(a)
       PROVE  LoopsAlone'
  <2>1. /\ a \in Session /\ tgt[a] \in Conn /\ \A b \in Actor \ {a} : pc'[b] = pc[b]
        /\ UNCHANGED <<table, sess, nsp, tgt, todo, adding, disc>>
    BY <1>12, <1>b DEF LeaveRooms, Unjoin, Drop, CountDown, CloseGoesOn, Finale, Closing, TypeOK
  <2> DEFINE Leaves == /\ pc[a] = "leave" /\ pc'[a] = "unjoin"
                       /\ member' = [member EXCEPT ![tgt[a]] = FALSE]
                       /\ joined' = joined /\ conns' = conns
             Unjoins == /\ pc[a] = "unjoin" /\ pc'[a] = "drop"
                        /\ joined' = [joined EXCEPT ![tgt[a]] = FALSE]
                        /\ member' = member /\ conns' = conns
             Drops == /\ pc[a] = "drop" /\ pc'[a] = "dec" /\ conns' = conns \ {tgt[a]}
                      /\ joined' = joined /\ member' = member
             Counts == /\ pc[a] = "dec" /\ pc'[a] = "notify"
                       /\ joined' = joined /\ member' = member /\ conns' = conns
  <2>2. Leaves \/ Unjoins \/ Drops \/ Counts
    BY <1>0, <1>12, <2>1 DEF NoCloser, LeaveRooms, RoomsLeft, Unjoin, Drop, CountDown, TypeOK
  <2>3. pc[a] \in Finale /\ pc'[a] \in Finale
    BY <2>2 DEF Finale
  <2>4. ASSUME NEW c \in Conn PROVE InTable(c)' <=> InTable(c)
    BY <2>1 DEF InTable
  <2>5. \A c \in Conn : Awaits(c, Finale)' <=> Awaits(c, Finale)
    BY <2>1, <2>3 DEF Awaits, Actor
  <2>6. ASSUME NEW c \in Conn, NEW L, Awaits(c, L), c # tgt[a] \/ pc[a] \notin L \/ pc'[a] \in L
        PROVE  Awaits(c, L)'
    BY <2>1, <2>6 DEF Awaits, Actor
  <2>7. CalledOnce'
    <3> SUFFICES ASSUME NEW c \in Conn, c \in conns'
                 PROVE  InTable(c)' \/ Awaits(c, {"leave", "unjoin", "drop"})'
      BY <1>0, <2>1, <2>4, <2>5 DEF CalledOnce
    <3>1. c \in conns /\ (c = tgt[a] => ~Drops)
      BY <2>2
    <3>2. Awaits(c, {"leave", "unjoin", "drop"}) => Awaits(c, {"leave", "unjoin", "drop"})'
      BY <2>2, <2>6, <3>1
    <3> QED
      BY <1>0, <2>4, <3>1, <3>2 DEF CalledOnce
  <2>8. OpeningStays' /\ NoCloser'
    BY <1>0, <2>1, <2>3 DEF OpeningStays, NoCloser, InTable, Opening, Finale, Closing, Actor
  <2>9. ASSUME "join" \notin UserOps PROVE JoinsInConnect' /\ LeaveAhead'
    <3>1. JoinsInConnect'
      BY <1>0, <2>1, <2>3, <2>9 DEF JoinsInConnect, Finale, Actor
    <3>2. ASSUME NEW c \in Conn, member'[c] PROVE InTable(c)' \/ Awaits(c, {"leave"})'
      <4>1. member[c] /\ (c = tgt[a] => ~Leaves)
        BY <2>1, <2>2, <3>2 DEF TypeOK
      <4>2. Awaits(c, {"leave"}) => Awaits(c, {"leave"})'
        BY <2>2, <2>6, <4>1
      <4> QED
        BY <1>0, <2>4, <2>9, <4>1, <4>2 DEF LeaveAhead
    <3>3. ASSUME NEW c \in Conn, joined'[c] PROVE InTable(c)' \/ Awaits(c, {"leave", "unjoin"})'
      <4>1. joined[c] /\ (c = tgt[a] => ~Unjoins)
        BY <2>1, <2>2, <3>3 DEF TypeOK
      <4>2. Awaits(c, {"leave", "unjoin"}) => Awaits(c, {"leave", "unjoin"})'
        BY <2>2, <2>6, <4>1
      <4> QED
        BY <1>0, <2>4, <2>9, <4>1, <4>2 DEF LeaveAhead
    <3> QED
      BY <3>1, <3>2, <3>3 DEF LeaveAhead
  <2> QED
    BY <2>7, <2>8, <2>9 DEF LoopsAlone
<1>13. ASSUME NEW a \in Actor, Notify(a) PROVE LoopsAlone'
  <2>1. /\ a \in Session /\ pc[a] = "notify" /\ pc'[a] \in {"sweep", "read"}
        /\ \A b \in Actor \ {a} : pc'[b] = pc[b]
        /\ disc' = [disc EXCEPT ![tgt[a]] = @ + 1]
        /\ UNCHANGED <<table, conns, sess, nsp, tgt, todo, joined, member, adding>>
    BY <1>13, <1>b DEF Notify, After, Finale, TypeOK
  <2>2. PICK c \in Conn : c = tgt[a]
    BY <2>1 DEF TypeOK, Finale
  <2>3. ~InTable(c) /\ c \notin todo[a]
    BY <2>1, <2>2 DEF TInv, TakenOut, Fits, SweepFits, Finale
  <2>4. \A d \in Conn : InTable(d)' <=> InTable(d)
    BY <2>1 DEF InTable
  <2>5. Awaits(c, Finale) /\ ~Awaits(c, Finale)'
    BY <1>a, <2>1, <2>2, <2>3 DEF Awaits, Finale, Actor
  <2>6. \A d \in Conn : Awaits(d, Finale)' => Awaits(d, Finale)
    BY <2>1 DEF Awaits, Finale, Actor
  <2>7. \A d \in Conn, L \in Places \ {Finale} : Awaits(d, L) => Awaits(d, L)'
    <3>1. \A L \in Places \ {Finale} : "notify" \notin L
      BY DEF Places
    <3> QED
      BY <2>1, <3>1 DEF Awaits, Actor
  <2>8. {"leave", "unjoin", "drop"} \in Places \ {Finale} /\ {"leave"} \in Places \ {Finale}
        /\ {"leave", "unjoin"} \in Places \ {Finale}
    BY DEF Places, Finale
  <2>9. CalledOnce'
    <3>1. disc'[c] = 1 /\ \A d \in Conn \ {c} : disc'[d] = disc[d]
      BY <1>0, <2>1, <2>2, <2>5 DEF CalledOnce, TypeOK
    <3>2. \A d \in Conn : disc'[d] <= 1 /\ (InTable(d)' \/ Awaits(d, Finale)' => disc'[d] = 0)
      BY <1>0, <2>3, <2>4, <2>5, <2>6, <3>1 DEF CalledOnce
    <3> QED
      BY <1>0, <2>1, <2>4, <2>7, <2>8, <3>2 DEF CalledOnce
  <2>10. OpeningStays' /\ NoCloser'
    BY <1>0, <2>1 DEF OpeningStays, NoCloser, InTable, Opening, Actor, Finale, Closing
  <2>11. ASSUME "join" \notin UserOps PROVE JoinsInConnect' /\ LeaveAhead'
    BY <1>0, <2>1, <2>4, <2>7, <2>8, <2>11 DEF JoinsInConnect, LeaveAhead, Actor
  <2> QED
    BY <2>9, <2>10, <2>11 DEF LoopsAlone
<1>14. ASSUME NEW a \in Actor, Claim(a) PROVE LoopsAlone'
  <2>1. TakesAll(a) /\ a \in Session
    BY <1>14, <1>b, ClaimTakes DEF Claim, Teardown
  <2>2. UNCHANGED <<joined, member, adding>> /\ job[a] = a /\ todo[a] = {}
    BY <1>14, <2>1 DEF Claim, TakesAll, Fits, SweepFits, Finale
  <2>3. ASSUME NEW c \in Conn, NEW L \in Places
        PROVE  InTable(c) \/ Awaits(c, L) <=> InTable(c)' \/ Awaits(c, L)'
    <3>1. "claim" \notin L /\ "sweep" \notin L
      BY DEF Places, Finale
    <3>2. InTable(c) => InTable(c)' \/ Awaits(c, L)'
      BY <2>1, <2>2 DEF TakesAll, Awaits
    <3>3. ASSUME NEW s \in Session, c \in todo[s] \/ (tgt[s] = c /\ pc[s] \in L)
          PROVE  Awaits(c, L)'
      <4>1. s # a
        BY <2>1, <2>2, <3>1, <3>3 DEF TakesAll
      <4>2. todo'[s] = todo[s] /\ tgt'[s] = tgt[s] /\ pc'[s] = pc[s]
        BY <2>1, <4>1 DEF TakesAll, Actor
      <4> QED
        BY <3>3, <4>2 DEF Awaits
    <3>4. InTable(c)' \/ Awaits(c, L)' => InTable(c) \/ Awaits(c, L)
      BY <2>1, <2>2, <3>1 DEF TakesAll, Awaits, TypeOK, Actor
    <3> QED
      BY <3>2, <3>3, <3>4 DEF Awaits
  <2>4. CalledOnce'
    BY <1>0, <2>1, <2>3 DEF CalledOnce, TakesAll, Places
  <2>5. OpeningStays'
    <3> SUFFICES ASSUME NEW s \in Session, pc'[s] \in Opening PROVE InTable(tgt[s])'
      BY DEF OpeningStays
    <3>1. s # a /\ pc[s] \in Opening /\ tgt' = tgt
      BY <2>1 DEF TakesAll, Opening, Actor
    <3>2. PICK c \in Conn : c = tgt[s]
      BY <1>e, <3>1
    <3>3. InTable(c)'
      BY <1>0, <1>e, <2>1, <2>2, <3>1, <3>2 DEF OpeningStays, TakesAll
    <3> QED
      BY <3>1, <3>2, <3>3 DEF InTable
  <2>6. NoCloser'
    BY <1>0, <2>1 DEF NoCloser, TakesAll, Actor
  <2>7. ASSUME "join" \notin UserOps PROVE JoinsInConnect' /\ LeaveAhead'
    BY <1>0, <2>1, <2>2, <2>3, <2>7 DEF JoinsInConnect, LeaveAhead, Places, TakesAll, Actor
  <2> QED
    BY <2>4, <2>5, <2>6, <2>7 DEF LoopsAlone
<1>15. ASSUME NEW a \in Actor, NEW c \in Conn, TakesUp(a, c) PROVE LoopsAlone'
  <2>1. /\ a \in Session /\ pc[a] = "sweep" /\ pc' = [pc EXCEPT ![a] = "leave"]
        /\ c \in todo[a] /\ todo' = [todo EXCEPT ![a] = @ \ {c}] /\ tgt' = [tgt EXCEPT ![a] = c]
        /\ UNCHANGED <<table, conns, sess, nsp, joined, member, adding, disc>>
    BY <1>15, <1>b DEF TakesUp, Teardown
  <2>2. \A d \in Conn : InTable(d)' <=> InTable(d)
    BY <2>1 DEF InTable
  <2>3. ASSUME NEW d \in Conn, NEW L \in Places PROVE Awaits(d, L)' <=> Awaits(d, L)
    <3>1. "sweep" \notin L /\ "leave" \in L
      BY DEF Places, Finale
    <3>2. \A s \in Session \ {a} : todo'[s] = todo[s] /\ tgt'[s] = tgt[s] /\ pc'[s] = pc[s]
      BY <2>1 DEF TypeOK, Actor
    <3>3. todo'[a] = todo[a] \ {c} /\ tgt'[a] = c /\ pc'[a] = "leave"
      BY <2>1 DEF TypeOK, Actor
    <3>4. d \in todo'[a] \/ (tgt'[a] = d /\ pc'[a] \in L)
            <=> d \in todo[a] \/ (tgt[a] = d /\ pc[a] \in L)
      BY <2>1, <3>1, <3>3
    <3> QED
      BY <2>1, <3>2, <3>4 DEF Awaits
  <2>4. CalledOnce'
    BY <1>0, <2>1, <2>2, <2>3 DEF CalledOnce, Places
  <2>5. OpeningStays' /\ NoCloser'
    BY <1>0, <2>1, <2>2 DEF OpeningStays, NoCloser, Opening, InTable, TypeOK, Actor
  <2>6. ASSUME "join" \notin UserOps PROVE JoinsInConnect' /\ LeaveAhead'
    BY <1>0, <2>1, <2>2, <2>3, <2>6 DEF JoinsInConnect, LeaveAhead, Places, TypeOK, Actor
  <2> QED
    BY <2>4, <2>5, <2>6 DEF LoopsAlone
<1>16. ASSUME ServerClose PROVE FALSE
  BY <1>16, <1>a DEF ServerClose, CloseServer, NextVictim, StopTransports, TypeOK, Actor
<1>17. CASE ServeReturns \/ UNCHANGED vars
  BY <1>17, <1>d DEF ServeReturns, vars
<1>18. ASSUME NEW s \in Session, NEW n \in NS, Connect(s, n) PROVE LoopsAlone'
  BY <1>2, <1>4, <1>18, ConnectCases
<1>19. ASSUME NEW s \in Session, Reply(s) PROVE LoopsAlone'
  BY <1>2, <1>6, <1>19, ReplyCases
<1>20. ASSUME NEW a \in Actor, Sweep(a) PROVE LoopsAlone'
  BY <1>3, <1>15, <1>20, SweepCases
<1> QED
  BY <1>1, <1>2, <1>3, <1>5, <1>7, <1>8, <1>9, <1>10, <1>11, <1>12, <1>13, <1>14, <1>16,
     <1>17, <1>18, <1>19, <1>20 DEF Next, Loop, Shared

LEMMA QuietCorrect == Spec => []QuietFits
<1>1. Init => QuietFits
  BY DEF Init, QuietFits, LoopsAlone, NoCloser, OpeningStays, Opening, CalledOnce, InTable,
    JoinsInConnect, LeaveAhead, Awaits, Actor, Finale, Closing
<1>2. IInv /\ IInv' /\ TInv /\ QuietFits /\ [Next]_vars => QuietFits'
  BY QuietStep DEF IInv
<1> QED
  BY <1>1, <1>2, IInvCorrect, TableInvCorrect, PTL DEF Spec

(* When every goroutine rests, no loop has anything to finish.             *)
LEMMA RestAwaitsNothing ==
  ASSUME IInv, Rest, NEW c \in Conn, NEW L \in Places
  PROVE  ~Awaits(c, L)
<1>1. \A s \in Session : todo[s] = {} /\ pc[s] \in {"queued", "read", "idle", "done"}
  BY DEF Rest, IInv, Fits, SweepFits, Finale, Actor
<1>2. L \cap {"queued", "read", "idle", "done"} = {}
  BY DEF Places, Finale
<1> QED
  BY <1>1, <1>2 DEF Awaits

(* Then rooms hold connected connections only, as long as the application  *)
(* joins inside OnConnect and calls neither Close nor Server.Close:        *)
(* whoever takes a connection out of the table has its leaveAll ahead, and *)
(* nobody can join the connection behind it.                               *)
THEOREM NoGhosts == Spec => []NoGhostMembers
<1>1. IInv /\ QuietFits => NoGhostMembers
  <2> SUFFICES ASSUME IInv, QuietFits, Rest, Quiet, "join" \notin UserOps,
                      NEW c \in Conn, member[c] \/ joined[c]
               PROVE  InTable(c)
    BY DEF NoGhostMembers, Quiet
  <2>1. ~Awaits(c, {"leave"}) /\ ~Awaits(c, {"leave", "unjoin"})
    BY RestAwaitsNothing DEF Places
  <2> QED
    BY <2>1 DEF QuietFits, LoopsAlone, LeaveAhead
<1> QED
  BY <1>1, IInvCorrect, QuietCorrect, PTL

-----------------------------------------------------------------------------
(* The books.                                                              *)

(* Nobody begins or ends the opening of a connection, nor its last call.   *)
CountsKept ==
  /\ UNCHANGED <<count, disc, sess>>
  /\ \A s \in Session : /\ pc'[s] \in {"publish", "count"} <=> pc[s] \in {"publish", "count"}
                        /\ pc[s] \in {"publish", "count"} => tgt'[s] = tgt[s]
  /\ \A a \in Actor : pc'[a] = "notify" <=> pc[a] = "notify"

LEMMA CountsKeptKeeps ==
  ASSUME Ledger, CountsKept
  PROVE  Ledger'
<1>1. Counted' = Counted
  BY DEF CountsKept, Counted, Created
<1>2. Notifying' = Notifying /\ Calls' = Calls
  BY DEF CountsKept, Notifying, Calls, At
<1> QED
  BY <1>1, <1>2 DEF Ledger, CountsKept

LEMMA CountedFinite == IsFiniteSet(Counted)
<1>1. Counted \in SUBSET Conn /\ IsFiniteSet(Conn)
  BY DEF Counted, Created
<1> QED
  BY <1>1, FS_Subset

LEMMA LedgerStep == TypeOK /\ TypeOK' /\ Fits /\ Ledger /\ [Next]_vars => Ledger'
<1> SUFFICES ASSUME TypeOK, TypeOK', Fits, Ledger, [Next]_vars PROVE Ledger'
  OBVIOUS
<1> USE DEF At, Goto, Step, net, ids, listed, dir, room, app, srv, sweep, rest
<1>a. ASSUME CountsKept PROVE Ledger'
  BY <1>a, CountsKeptKeeps
<1>1. ASSUME NEW s \in Session, NEW n \in NS, Connect(s, n) PROVE Ledger'
  <2>1. CASE Declines(s)
    <3> CountsKept
      BY <2>1 DEF Declines, CountsKept, TypeOK, Actor
    <3> QED
      BY <1>a
  <2>2. ASSUME NEW c \in Conn, Opens(s, n, c) PROVE Ledger'
    <3>1. /\ pc[s] = "read" /\ pc'[s] = "publish" /\ tgt'[s] = c /\ sess[c] = NONE
          /\ \A r \in Session \ {s} : pc'[r] = pc[r] /\ tgt'[r] = tgt[r]
          /\ sess' = [sess EXCEPT ![c] = s]
          /\ UNCHANGED <<count, disc>>
      BY <2>2 DEF Opens, TypeOK, Actor
    <3>2. Counted' = Counted
      <4>1. c \notin Counted /\ c \notin Counted'
        BY <3>1 DEF Counted, Created
      <4>2. ASSUME NEW d \in Conn \ {c} PROVE d \in Counted' <=> d \in Counted
        <5>1. sess'[d] = sess[d]
          BY <3>1 DEF TypeOK
        <5>2. \A r \in Session : (tgt'[r] = d => pc'[r] \notin {"publish", "count"})
                                <=> (tgt[r] = d => pc[r] \notin {"publish", "count"})
          BY <3>1
        <5> QED
          BY <5>1, <5>2 DEF Counted, Created
      <4>3. Counted \subseteq Conn /\ Counted' \subseteq Conn
        BY DEF Counted, Created
      <4> QED
        BY <4>1, <4>2, <4>3
    <3>3. Notifying' = Notifying /\ Calls' = Calls
      BY <2>2, <3>1 DEF Opens, Notifying, Calls, TypeOK, Actor
    <3> QED
      BY <3>1, <3>2, <3>3 DEF Ledger
  <2> QED
    BY <1>1, <2>1, <2>2, ConnectCases
<1>2. ASSUME NEW s \in Session, CountUp(s) PROVE Ledger'
  <2>1. /\ pc[s] = "count" /\ pc' = [pc EXCEPT ![s] = "reply"] /\ count' = count + 1
        /\ UNCHANGED <<disc, sess, tgt>>
    BY <1>2 DEF CountUp
  <2>2. PICK c \in Conn : c = tgt[s]
    BY <2>1 DEF TypeOK, Actor
  <2>3. sess[c] # NONE /\ \A r \in Session : tgt[r] = c => r = s
    BY <2>2 DEF Fits, WorkFits, Actor
  <2>4. c \notin Counted /\ Counted' = Counted \cup {c}
    BY <2>1, <2>2, <2>3 DEF Counted, Created, TypeOK, Actor
  <2>5. Cardinality(Counted') = Cardinality(Counted) + 1
    BY <2>4, CountedFinite, FS_AddElement
  <2>6. Notifying' = Notifying /\ Calls' = Calls
    BY <2>1 DEF Notifying, Calls, TypeOK, Actor
  <2>7. Cardinality(Counted) \in Nat /\ Cardinality(Calls) \in Nat /\ Cardinality(Notifying) \in Nat
    BY CountedFinite, FS_CardinalityType DEF Ledger
  <2> QED
    BY <2>1, <2>5, <2>6, <2>7 DEF Ledger, TypeOK
<1>3. ASSUME NEW a \in Actor, CountDown(a) PROVE Ledger'
  <2>1. /\ pc[a] = "dec" /\ pc' = [pc EXCEPT ![a] = "notify"] /\ count' = count - 1
        /\ UNCHANGED <<disc, sess, tgt>>
    BY <1>3 DEF CountDown
  <2>2. Counted' = Counted /\ Calls' = Calls
    BY <2>1 DEF Counted, Created, Calls, TypeOK, Actor
  <2>3. a \notin Notifying /\ Notifying' = Notifying \cup {a}
    BY <2>1 DEF Notifying, TypeOK
  <2>4. IsFiniteSet(Notifying') /\ Cardinality(Notifying') = Cardinality(Notifying) + 1
    BY <2>3, FS_AddElement DEF Ledger
  <2>5. Cardinality(Counted) \in Nat /\ Cardinality(Calls) \in Nat /\ Cardinality(Notifying) \in Nat
    BY CountedFinite, FS_CardinalityType DEF Ledger
  <2> QED
    BY <2>1, <2>2, <2>4, <2>5 DEF Ledger, TypeOK
<1>4. ASSUME NEW a \in Actor, Notify(a) PROVE Ledger'
  <2>1. /\ pc[a] = "notify" /\ pc' = [pc EXCEPT ![a] = After(a)] /\ count' = count
        /\ disc' = [disc EXCEPT ![tgt[a]] = @ + 1]
        /\ UNCHANGED <<sess, tgt>>
    BY <1>4 DEF Notify
  <2>2. After(a) \in {"sweep", "read", "done"}
    BY DEF After
  <2>3. PICK c \in Conn : c = tgt[a]
    BY <2>1 DEF TypeOK, Finale
  <2>4. Counted' = Counted
    BY <2>1, <2>2 DEF Counted, Created, TypeOK, Actor
  <2>5. a \in Notifying /\ Notifying' = Notifying \ {a}
    BY <2>1, <2>2 DEF Notifying, TypeOK
  <2>6. IsFiniteSet(Notifying') /\ Cardinality(Notifying') = Cardinality(Notifying) - 1
    BY <2>5, FS_RemoveElement DEF Ledger
  <2>7. disc[c] \in Nat /\ disc'[c] = disc[c] + 1 /\ \A d \in Conn \ {c} : disc'[d] = disc[d]
    BY <2>1, <2>3 DEF TypeOK
  <2>8. <<c, disc[c] + 1>> \notin Calls /\ Calls' = Calls \cup {<<c, disc[c] + 1>>}
    <3>1. 1 .. disc'[c] = 1 .. disc[c] \cup {disc[c] + 1}
      BY <2>7
    <3>2. disc[c] + 1 \notin 1 .. disc[c]
      BY <2>7
    <3>3. \A x : x \in Calls <=> \E d \in Conn : x \in {d} \X (1 .. disc[d])
      BY DEF Calls
    <3>4. \A x : x \in Calls' <=> \E d \in Conn : x \in {d} \X (1 .. disc'[d])
      BY DEF Calls
    <3>5. \A x : x \in {c} \X (1 .. disc'[c]) <=> x \in {c} \X (1 .. disc[c]) \/ x = <<c, disc[c] + 1>>
      BY <3>1
    <3>6. \A d \in Conn : <<c, disc[c] + 1>> \in {d} \X (1 .. disc[d]) => FALSE
      BY <3>2
    <3> QED
      BY <2>7, <3>3, <3>4, <3>5, <3>6
  <2>9. IsFiniteSet(Calls') /\ Cardinality(Calls') = Cardinality(Calls) + 1
    BY <2>8, FS_AddElement DEF Ledger
  <2>10. Cardinality(Calls) \in Nat /\ Cardinality(Notifying) \in Nat
    BY FS_CardinalityType DEF Ledger
  <2> QED
    BY <2>1, <2>4, <2>6, <2>9, <2>10 DEF Ledger, TypeOK
<1>5. ASSUME NEW s \in Session,
             \/ TransportFails(s) \/ Accept(s) \/ Register(s) \/ LoopReturns(s)
             \/ ConnectUnknown(s) \/ Publish(s) \/ Reply(s) \/ OnConnect(s)
             \/ \E n \in NS : Disconnect(s, n)
      PROVE  Ledger'
  <2> CountsKept
    BY <1>5 DEF TransportFails, Accept, Register, LoopReturns, ConnectUnknown, Publish, Reply,
      OnConnect, Disconnect, CountsKept, TypeOK, Actor
  <2> QED
    BY <1>a
<1>6. ASSUME NEW c \in Conn, JoinStart(c) \/ JoinAdd(c) \/ CloseCall(c) PROVE Ledger'
  <2> CountsKept
    BY <1>6 DEF JoinStart, JoinAdd, CloseCall, CountsKept, TypeOK, Actor
  <2> QED
    BY <1>a
<1>7. ASSUME NEW a \in Actor,
             \/ Unclaim(a) \/ LeaveRooms(a) \/ Unjoin(a) \/ Drop(a)
             \/ Claim(a) \/ Sweep(a) \/ Mark(a) \/ Shut(a)
      PROVE  Ledger'
  <2> CountsKept
    BY <1>7 DEF Unclaim, LeaveRooms, Unjoin, CloseGoesOn, Drop, Claim, Sweep, Mark, Shut,
      CountsKept, TypeOK, Actor
  <2> QED
    BY <1>a
<1>8. CASE ServerClose \/ ServeReturns \/ UNCHANGED vars
  <2> CountsKept
    BY <1>8 DEF ServerClose, CloseServer, NextVictim, StopTransports, ServeReturns, vars,
      CountsKept, TypeOK, Actor
  <2> QED
    BY <1>a
<1> QED
  BY <1>1, <1>2, <1>3, <1>4, <1>5, <1>6, <1>7, <1>8 DEF Next, Loop, Shared

(* The counter plus the calls of OnDisconnect never exceed what was        *)
(* counted.  When every goroutine rests and neither Close nor Server.Close *)
(* has been called, Server.conns and connCount are what the table says,    *)
(* and OnDisconnect has run once for every other connection.               *)
THEOREM BooksBalanced == Spec => []BooksBalance
<1>1. Init => Ledger
  <2> SUFFICES ASSUME Init PROVE Ledger
    OBVIOUS
  <2>1. Calls = {} /\ Notifying = {} /\ Counted = {}
    BY DEF Init, Calls, Notifying, Counted, Created, At, Actor
  <2> QED
    BY <2>1, FS_EmptySet DEF Init, Ledger
<1>2. IInv /\ IInv' /\ Ledger /\ [Next]_vars => Ledger'
  BY LedgerStep DEF IInv
<1>3. TypeOK /\ Ledger => count + Cardinality(Calls) <= Cardinality(Counted)
  <2> SUFFICES ASSUME TypeOK, Ledger PROVE count + Cardinality(Calls) <= Cardinality(Counted)
    OBVIOUS
  <2>1. Cardinality(Calls) \in Nat /\ Cardinality(Notifying) \in Nat
    BY FS_CardinalityType DEF Ledger
  <2> QED
    BY <2>1 DEF Ledger, TypeOK
<1>4. IInv /\ ConnectedIsListed /\ Remembered /\ QuietFits /\ Ledger /\ Rest /\ Quiet =>
        /\ conns = {c \in Conn : InTable(c)}
        /\ count = Cardinality(conns)
        /\ \A c \in Created : disc[c] = IF c \in conns THEN 0 ELSE 1
  <2> SUFFICES ASSUME IInv, ConnectedIsListed, Remembered, QuietFits, Ledger, Rest, Quiet
               PROVE  /\ conns = {c \in Conn : InTable(c)}
                      /\ count = Cardinality(conns)
                      /\ \A c \in Created : disc[c] = IF c \in conns THEN 0 ELSE 1
    OBVIOUS
  <2>1. \A s \in Session : pc[s] \notin {"publish", "count"}
    BY DEF Rest, Actor
  <2>2. conns = {c \in Conn : InTable(c)}
    <3>1. \A c \in conns : InTable(c)
      BY RestAwaitsNothing DEF QuietFits, LoopsAlone, CalledOnce, Places, IInv, TypeOK
    <3>2. \A c \in Conn : InTable(c) => c \in conns
      BY <2>1 DEF ConnectedIsListed, InTable, At, IInv, TypeOK
    <3> QED
      BY <3>1, <3>2 DEF IInv, TypeOK
  <2>3. \A c \in conns : c \in Created /\ disc[c] = 0
    BY <2>2 DEF QuietFits, LoopsAlone, CalledOnce, InTable, Created
  <2>4. \A c \in Created \ conns : disc[c] = 1
    <3> TAKE c \in Created \ conns
    <3>1. c \in Conn /\ sess[c] # NONE /\ ~InTable(c)
      BY <2>2 DEF Created
    <3>2. \A a \in Actor : ~Finishing(a, c)
      BY DEF Finishing, Rest, IInv, Fits, SweepFits, Finale, Closing
    <3>3. disc[c] > 0
      BY <3>1, <3>2 DEF Remembered, LoopFinishing, Actor, IInv, TypeOK
    <3> QED
      BY <3>1, <3>3 DEF QuietFits, LoopsAlone, CalledOnce, IInv, TypeOK
  <2>5. \A c \in Conn \ Created : disc[c] = 0
    BY DEF Created, IInv, Fits, FreshIsBlank
  <2>6. Counted = Created /\ Notifying = {}
    BY <2>1 DEF Counted, Created, Notifying, Rest, At
  <2> DEFINE Gone == Created \ conns
  <2>7. IsFiniteSet(Created) /\ conns \in SUBSET Created
    BY <2>2, <2>3, <2>6, CountedFinite
  <2>8. Cardinality(Calls) = Cardinality(Gone)
    <3>1. Calls = {<<c, 1>> : c \in Gone}
      <4>1. \A c \in Gone : 1 .. disc[c] = {1}
        BY <2>4
      <4>2. \A c \in Conn \ Gone : 1 .. disc[c] = {}
        BY <2>3, <2>5
      <4>3. \A x : x \in Calls <=> \E c \in Conn : x \in {c} \X (1 .. disc[c])
        BY DEF Calls
      <4>4. Gone \subseteq Conn
        BY DEF Created
      <4>5. \A c \in Gone : \A x : x \in {c} \X (1 .. disc[c]) <=> x = <<c, 1>>
        BY <4>1
      <4>6. \A c \in Conn \ Gone : \A x : x \notin {c} \X (1 .. disc[c])
        BY <4>2
      <4> HIDE DEF Gone
      <4> QED
        BY <4>3, <4>4, <4>5, <4>6
    <3> DEFINE f == [c \in Gone |-> <<c, 1>>]
    <3>2. f \in Bijection(Gone, Calls)
      <4> HIDE DEF Gone
      <4>1. f \in [Gone -> Calls] /\ \A c \in Gone : f[c] = <<c, 1>>
        BY <3>1
      <4>2. \A c, d \in Gone : f[c] = f[d] => c = d
        BY <4>1
      <4>3. \A x \in Calls : \E c \in Gone : f[c] = x
        BY <3>1, <4>1
      <4> HIDE DEF f
      <4> QED
        BY <4>1, <4>2, <4>3 DEF Bijection, Injection, Surjection, IsInjective
    <3>3. ExistsBijection(Gone, Calls)
      BY <3>2 DEF ExistsBijection
    <3>4. IsFiniteSet(Gone)
      BY <2>7, FS_Subset
    <3> QED
      BY <3>3, <3>4, FS_Bijection
  <2>9. Cardinality(Created) = Cardinality(conns) + Cardinality(Gone)
    <3>1. Created \cap conns = conns /\ IsFiniteSet(conns) /\ IsFiniteSet(Created)
      BY <2>7, FS_Subset
    <3>2. Cardinality(Created \ conns) = Cardinality(Created) - Cardinality(conns)
      <4>1. Cardinality(Created \ conns)
              = Cardinality(Created) - Cardinality(Created \cap conns)
        BY <3>1, FS_Difference
      <4> QED
        BY <3>1, <4>1
    <3>3. Cardinality(Created) \in Nat /\ Cardinality(conns) \in Nat
      BY <3>1, FS_CardinalityType
    <3>4. \A x, y \in Nat : x = y + (x - y)
      OBVIOUS
    <3> QED
      BY <3>2, <3>3, <3>4
  <2>10. count = Cardinality(conns)
    <3>1. count + Cardinality(Gone) + 0 = Cardinality(Created)
      BY <2>6, <2>8, FS_EmptySet DEF Ledger
    <3>2. IsFiniteSet(Gone) /\ IsFiniteSet(conns)
      BY <2>7, FS_Subset
    <3>3. Cardinality(Gone) \in Nat /\ Cardinality(conns) \in Nat /\ count \in Int
      BY <3>2, FS_CardinalityType DEF IInv, TypeOK
    <3> HIDE DEF Gone
    <3> QED
      BY <2>9, <3>1, <3>3
  <2> QED
    BY <2>2, <2>3, <2>4, <2>10
<1>5. IInv /\ ConnectedIsListed /\ Remembered /\ QuietFits /\ Ledger => BooksBalance
  BY <1>3, <1>4 DEF BooksBalance, Quiet, IInv
<1>6. Spec => []Ledger
  BY <1>1, <1>2, IInvCorrect, PTL DEF Spec
<1> QED
  BY <1>5, <1>6, IInvCorrect, TableInvCorrect, QuietCorrect, PTL

-----------------------------------------------------------------------------
(* Sessions implements Lifecycle.                                          *)

(* The mapping of Promise.                                                 *)
State == [c \in Conn |-> IF sess[c] = NONE THEN "new"
                         ELSE IF InTable(c) THEN "connected" ELSE "gone"]
Place == [c \in Conn |-> <<sess[c], nsp[c]>>]
Closed == {c \in Conn : once[c]}
Refused == {c \in Conn : rejected[c]}

GoesAway(C) ==
  /\ State' = [c \in Conn |-> IF c \in C THEN "gone" ELSE State[c]]
  /\ UNCHANGED <<Place, Closed, Refused, disc>>

(* A step that leaves the table and both flags alone is a stutter.         *)
LEMMA SameState ==
  ASSUME UNCHANGED <<sess, nsp, table>>
  PROVE  UNCHANGED <<State, Place>>
  BY DEF State, Place, InTable

LEMMA SameLife ==
  ASSUME UNCHANGED <<sess, nsp, table, once, rejected, disc>>
  PROVE  [Promise!Next]_(Promise!vars)
<1>1. UNCHANGED <<State, Place, Closed, Refused, disc>>
  BY SameState DEF Closed, Refused
<1> QED
  BY <1>1 DEF State, Place, Closed, Refused, Promise!vars

LEMMA OpenLife ==
  ASSUME TypeOK, Fits, NEW s \in Session, NEW n \in NS, NEW c \in Conn, Opens(s, n, c)
  PROVE  [Promise!Next]_(Promise!vars)
<1>1. /\ table[s][n] = NONE /\ sess[c] = NONE
      /\ sess' = [sess EXCEPT ![c] = s] /\ nsp' = [nsp EXCEPT ![c] = n]
      /\ table' = [table EXCEPT ![s][n] = c]
      /\ UNCHANGED <<once, rejected, disc>>
  BY DEF Opens, app
<1>2. State[c] = "new"
  BY <1>1 DEF State
<1>3. ASSUME NEW d \in Conn, State[d] = "connected" PROVE Place[d] # <<s, n>>
  BY <1>1, <1>3 DEF State, Place, InTable
<1>4. sess'[c] # NONE /\ InTable(c)'
  BY <1>1 DEF TypeOK, InTable
<1>5. ASSUME NEW d \in Conn \ {c}
      PROVE  sess'[d] = sess[d] /\ nsp'[d] = nsp[d] /\ (InTable(d)' <=> InTable(d))
  <2>1. sess'[d] = sess[d] /\ nsp'[d] = nsp[d]
    BY <1>1 DEF TypeOK
  <2>2. sess[d] # NONE => sess[d] \in Session /\ nsp[d] \in NS
    BY DEF TypeOK, Fits, EntriesFit
  <2> QED
    BY <1>1, <2>1, <2>2 DEF InTable, TypeOK
<1>6. State' = [State EXCEPT ![c] = "connected"]
  BY <1>4, <1>5 DEF State
<1>7. Place' = [Place EXCEPT ![c] = <<s, n>>]
  BY <1>1, <1>5 DEF Place, TypeOK
<1>8. UNCHANGED <<Closed, Refused, disc>>
  BY <1>1 DEF Closed, Refused
<1>9. Promise!Open(c, s, n)
  BY <1>2, <1>3, <1>6, <1>7, <1>8 DEF State, Place, Closed, Refused, Promise!Open,
    Promise!Connected
<1> QED
  BY <1>9 DEF Promise!Next

(* Whoever takes an entry of the table ends that connection.               *)
LEMMA EndLife ==
  ASSUME TypeOK, NEW C \in SUBSET Conn,
         \A c \in Conn : InTable(c)' <=> InTable(c) /\ c \notin C,
         \A c \in C : sess[c] # NONE,
         UNCHANGED <<sess, nsp, once, rejected, disc>>
  PROVE  GoesAway(C)
<1>1. UNCHANGED <<Place, Closed, Refused, disc>>
  BY DEF Place, Closed, Refused
<1>2. State' = [c \in Conn |-> IF c \in C THEN "gone" ELSE State[c]]
  BY DEF State
<1> QED
  BY <1>1, <1>2 DEF GoesAway

(* The step of one that goes.                                              *)
LEMMA EndMap ==
  ASSUME NEW c \in Conn, State[c] = "connected", GoesAway({c})
  PROVE  [Promise!Next]_(Promise!vars)
<1>1. Promise!End(c)
  BY DEF GoesAway, State, Place, Closed, Refused, Promise!End, Promise!Go, Promise!Connected
<1> QED
  BY <1>1 DEF Promise!Next

LEMMA CloseLife ==
  ASSUME TypeOK, NEW c \in Conn, sess[c] # NONE,
         ~once[c], once' = [once EXCEPT ![c] = TRUE],
         UNCHANGED <<sess, nsp, table, rejected, disc>>
  PROVE  [Promise!Next]_(Promise!vars)
<1>1. State[c] # "new"
  BY DEF State
<1>2. c \notin Closed /\ Closed' = Closed \cup {c}
  BY DEF Closed, TypeOK
<1>3. UNCHANGED <<State, Place, Refused, disc>>
  BY SameState DEF Refused
<1> QED
  BY <1>1, <1>2, <1>3 DEF State, Place, Closed, Refused, Promise!Close, Promise!Next

LEMMA NotifyLife ==
  ASSUME IInv, TInv, NEW a \in Actor, Notify(a)
  PROVE  [Promise!Next]_(Promise!vars)
<1> USE DEF IInv
<1>1. /\ pc[a] = "notify" /\ disc' = [disc EXCEPT ![tgt[a]] = @ + 1]
      /\ UNCHANGED <<sess, nsp, table, once, rejected>>
  BY DEF Notify, Step, At, dir, ids
<1>2. PICK c \in Conn : c = tgt[a]
  BY <1>1 DEF TypeOK, Finale
<1>3. sess[c] # NONE /\ ~InTable(c) /\ Finishing(a, c)
  BY <1>1, <1>2 DEF Fits, WorkFits, TInv, TakenOut, Finale, Finishing
<1>4. \/ a = Shutdown /\ Finishing(Shutdown, c)
      \/ a = c /\ Finishing(c, c)
      \/ LoopFinishing(c)
  BY <1>2, <1>3 DEF LoopFinishing, Fits, WorkFits, TypeOK, Actor
<1>5. disc[c] <= One(once[c]) + One(rejected[c])
  <2>1. /\ One(LoopFinishing(c)) \in Nat /\ One(Finishing(Shutdown, c)) \in Nat
        /\ One(Finishing(c, c)) \in Nat /\ One(InTable(c)) \in Nat
        /\ One(once[c]) \in Nat /\ One(rejected[c]) \in Nat
    BY DEF One
  <2>2. One(LoopFinishing(c)) = 1 \/ One(Finishing(Shutdown, c)) = 1 \/ One(Finishing(c, c)) = 1
    BY <1>4 DEF One
  <2>3. disc[c] \in Nat
    BY DEF TypeOK
  <2>4. disc[c] + One(LoopFinishing(c)) + One(Finishing(Shutdown, c))
            + One(Finishing(c, c)) + One(InTable(c))
        <= 1 + One(once[c]) + One(rejected[c])
    BY DEF CallsPrepaid
  <2> QED
    BY <2>1, <2>2, <2>3, <2>4
<1>6. State[c] = "gone"
  BY <1>3 DEF State
<1>7. disc[c] <= One(c \in Closed) + One(c \in Refused)
  <2>1. (c \in Closed <=> once[c]) /\ (c \in Refused <=> rejected[c])
    BY DEF Closed, Refused
  <2>2. One(c \in Closed) = One(once[c]) /\ One(c \in Refused) = One(rejected[c])
    BY <2>1 DEF One
  <2> QED
    BY <1>5, <2>2
<1>8. UNCHANGED <<State, Place, Closed, Refused>>
  BY <1>1, SameState DEF Closed, Refused
<1>9. Promise!OnDisconnect(c)
  BY <1>1, <1>2, <1>6, <1>7, <1>8 DEF State, Place, Closed, Refused, One,
    Promise!OnDisconnect, Promise!Asked
<1> QED
  BY <1>9 DEF Promise!Next

LEMMA LifeStep == IInv /\ TInv /\ [Next]_vars => [Promise!Next]_(Promise!vars)
<1> SUFFICES ASSUME IInv, TInv, [Next]_vars PROVE [Promise!Next]_(Promise!vars)
  OBVIOUS
<1> USE DEF IInv, At, Goto, Step, net, ids, listed, dir, room, app, srv, sweep, rest
<1>1. ASSUME NEW s \in Session, NEW n \in NS, Connect(s, n)
      PROVE  [Promise!Next]_(Promise!vars)
  <2>1. CASE Declines(s)
    BY <2>1, SameLife DEF Declines
  <2>2. ASSUME NEW c \in Conn, Opens(s, n, c) PROVE [Promise!Next]_(Promise!vars)
    BY <2>2, OpenLife
  <2> QED
    BY <1>1, <2>1, <2>2, ConnectCases
<1>2. ASSUME NEW s \in Session, NEW n \in NS, Disconnect(s, n)
      PROVE  [Promise!Next]_(Promise!vars)
  <2>1. PICK c \in Conn : Takes(s, c)
    BY <1>2, DisconnectTakes
  <2>2. UNCHANGED <<once, rejected>>
    BY <1>2 DEF Disconnect
  <2>3. State[c] = "connected"
    BY <2>1 DEF Takes, State, InTable
  <2>4. GoesAway({c})
    BY <2>1, <2>2, EndLife DEF Takes, InTable
  <2> QED
    BY <2>3, <2>4, EndMap
<1>3. ASSUME NEW a \in Actor, Unclaim(a) PROVE [Promise!Next]_(Promise!vars)
  <2>1. Frees(a) /\ UNCHANGED <<once, rejected>>
    BY <1>3, UnclaimFrees DEF Unclaim, TInv
  <2>2. PICK c \in Conn : c = tgt[a]
    BY <2>1 DEF Frees
  <2>3. sess[c] # NONE
    BY <2>2 DEF Fits, WorkFits
  <2>4. CASE InTable(c)
    <3>1. State[c] = "connected" /\ GoesAway({c})
      BY <2>1, <2>2, <2>3, <2>4, EndLife DEF Frees, State
    <3> QED
      BY <3>1, EndMap
  <2>5. CASE ~InTable(c)
    <3>1. \A d \in Conn : (InTable(d)' <=> InTable(d)) /\ sess'[d] = sess[d]
      BY <2>1, <2>2, <2>5 DEF Frees
    <3>2. UNCHANGED <<State, Place, Closed, Refused, disc>>
      BY <2>1, <3>1 DEF Frees, State, Place, Closed, Refused
    <3> QED
      BY <3>2 DEF State, Place, Closed, Refused, Promise!vars
  <2> QED
    BY <2>4, <2>5
<1>4. ASSUME NEW a \in Actor, Claim(a) PROVE [Promise!Next]_(Promise!vars)
  <2>1. TakesAll(a) /\ UNCHANGED <<once, rejected>>
    BY <1>4, ClaimTakes DEF Claim
  <2> DEFINE C == {c \in Conn : State[c] = "connected" /\ Place[c][1] = job[a]}
  <2>2. \A c \in Conn : c \in C <=> InTable(c) /\ sess[c] = job[a]
    BY DEF State, Place, InTable
  <2>3. \A c \in C : sess[c] # NONE
    BY <2>2 DEF InTable
  <2>4. GoesAway(C)
    <3> HIDE DEF C
    <3>1. C \in SUBSET Conn
      BY DEF C
    <3> QED
      BY <2>1, <2>2, <2>3, <3>1, EndLife DEF TakesAll
  <2>5. job[a] \in Session
    BY <2>1 DEF TakesAll
  <2> QED
    BY <2>4, <2>5 DEF GoesAway, State, Place, Closed, Refused, Promise!EndAll, Promise!Go,
      Promise!Connected, Promise!Next
<1>5. ASSUME NEW c \in Conn, CloseCall(c) PROVE [Promise!Next]_(Promise!vars)
  <2>1. sess[c] # NONE
    BY <1>5 DEF CloseCall, Fits, FreshIsBlank
  <2> QED
    BY <1>5, <2>1, CloseLife DEF CloseCall
<1>6. ASSUME NEW s \in Session, Reply(s) PROVE [Promise!Next]_(Promise!vars)
  <2>1. PICK c \in Conn : c = tgt[s] /\ sess[c] # NONE
    BY <1>6 DEF Reply, TypeOK, Fits, WorkFits, Actor
  <2>2. CASE Replies(s)
    BY <2>2, SameLife DEF Replies
  <2>3. CASE ReplyCloses(s)
    BY <2>1, <2>3, CloseLife DEF ReplyCloses
  <2>4. CASE ReplyFindsClosed(s)
    <3>1. CASE once[c]
      <4>1. once' = once
        BY <2>1, <2>4, <3>1 DEF ReplyFindsClosed, TypeOK
      <4> QED
        BY <2>4, <4>1, SameLife DEF ReplyFindsClosed
    <3>2. CASE ~once[c]
      BY <2>1, <2>4, <3>2, CloseLife DEF ReplyFindsClosed
    <3> QED
      BY <3>1, <3>2
  <2> QED
    BY <1>6, <2>2, <2>3, <2>4, ReplyCases
<1>7. ASSUME NEW s \in Session, OnConnect(s) PROVE [Promise!Next]_(Promise!vars)
  <2>1. CASE Accepts(s)
    BY <2>1, SameLife DEF Accepts
  <2>2. CASE Refuses(s)
    <3>1. PICK c \in Conn : c = tgt[s] /\ sess[c] # NONE /\ ~rejected[c]
      BY <2>2 DEF Refuses, TypeOK, Fits, WorkFits, NotYetRefused, Actor
    <3>2. State[c] # "new"
      BY <3>1 DEF State
    <3>3. c \notin Refused /\ Refused' = Refused \cup {c}
      BY <2>2, <3>1 DEF Refuses, Refused, TypeOK
    <3>4. UNCHANGED <<State, Place, Closed, disc>>
      BY <2>2, SameState DEF Refuses, Closed
    <3> QED
      BY <3>1, <3>2, <3>3, <3>4 DEF State, Place, Closed, Refused, Promise!Refuse, Promise!Next
  <2> QED
    BY <1>7, <2>1, <2>2, OnConnectCases
<1>8. ASSUME NEW a \in Actor, Notify(a) PROVE [Promise!Next]_(Promise!vars)
  BY <1>8, NotifyLife
<1>9. ASSUME NEW s \in Session,
             \/ TransportFails(s) \/ Accept(s) \/ Register(s) \/ LoopReturns(s)
             \/ ConnectUnknown(s) \/ Publish(s) \/ CountUp(s)
      PROVE  [Promise!Next]_(Promise!vars)
  BY <1>9, SameLife DEF TransportFails, Accept, Register, LoopReturns, ConnectUnknown,
    Publish, CountUp
<1>10. ASSUME NEW c \in Conn, JoinStart(c) \/ JoinAdd(c)
       PROVE  [Promise!Next]_(Promise!vars)
  BY <1>10, SameLife DEF JoinStart, JoinAdd
<1>11. ASSUME NEW a \in Actor,
              \/ LeaveRooms(a) \/ Unjoin(a) \/ Drop(a) \/ CountDown(a)
              \/ Sweep(a) \/ Mark(a) \/ Shut(a)
       PROVE  [Promise!Next]_(Promise!vars)
  BY <1>11, SameLife DEF LeaveRooms, Unjoin, Drop, CountDown, Sweep, Mark, Shut
<1>12. CASE ServerClose \/ ServeReturns \/ UNCHANGED vars
  BY <1>12, SameLife DEF ServerClose, CloseServer, NextVictim, StopTransports, ServeReturns,
    vars
<1> QED
  BY <1>1, <1>2, <1>3, <1>4, <1>5, <1>6, <1>7, <1>8, <1>9, <1>10, <1>11, <1>12
    DEF Next, Loop, Shared

(* The tables, the goroutines that change them between each other's        *)
(* critical sections and the calls of the handlers keep the promise of     *)
(* Lifecycle: no namespace of a session is taken twice at a time, who is   *)
(* out of the table never returns, and OnDisconnect never comes before     *)
(* that nor more often than ways out were asked for.                       *)
THEOREM ImplementsLifecycle == Spec => RefinesLifecycle
<1>1. Init => Promise!Init
  <2> SUFFICES ASSUME Init PROVE Promise!Init
    OBVIOUS
  <2>1. \A c \in Conn : sess[c] = NONE /\ nsp[c] = NONE /\ ~once[c] /\ ~rejected[c]
    BY DEF Init
  <2> QED
    BY <2>1 DEF Init, Promise!Init
<1> QED
  BY <1>1, LifeStep, IInvCorrect, TableInvCorrect, PTL DEF Spec, RefinesLifecycle, Promise!Spec
=============================================================================

---------------------------- MODULE UpgradeProofs ---------------------------
(***************************************************************************)
(* Theorems about Upgrade: no upgrade ends its session, one transport      *)
(* stays open, and a closed session leaves nothing, for any number of      *)
(* WebSocket requests that race with each other, the loop and the close.   *)
(***************************************************************************)
EXTENDS Upgrade, TLAPS

USE UpgradeAssumption

States == {"new", "known", "refused", "probing", "swapped", "switched", "upgraded"}
Upgraded(w) == req[w] \in {"swapped", "switched", "upgraded"}

Typed ==
  /\ active \in BOOLEAN /\ polled \in BOOLEAN /\ sclosed \in BOOLEAN /\ silent \in BOOLEAN
  /\ current \in Tr /\ at \in Tr
  /\ down \subseteq Tr /\ left \subseteq Tr /\ cut \subseteq Tr
  /\ pong \subseteq Tr
  /\ req \in [WS -> States]
  /\ old \in [WS -> Tr \cup {NONE}]
  /\ loop \in {"look", "read", "failed", "over", "kicked"}
  /\ closer \in {"off", "take", "shut", "mark", "remove", "unpoll", "done"}
  /\ held \in Tr \cup {NONE}
  /\ closer = "shut" <=> held # NONE
  /\ beat \in [Tr -> {"off", "wait", "asked"}]

(* Upgrades follow one another: from the change of current to the close of *)
(* the transport that was there nobody else changes it, current is the     *)
(* latest that was upgraded to, and what upgrades have cut is what they    *)
(* have replaced.                                                          *)
InTurn ==
  /\ current \in Opened
  /\ current = POLL => \A w \in WS : ~Upgraded(w)
  /\ \A w \in WS : req[w] = "swapped" <=> old[w] # NONE
  /\ \A w \in WS : old[w] # NONE => current = w /\ old[w] # w /\ old[w] \in Opened
  /\ cut \subseteq Opened \ {current}

-----------------------------------------------------------------------------
(* What a step does to the requests, the current transport and those that  *)
(* are closed.                                                             *)

(* Every step of the loop, the close, the heartbeats and the peer.         *)
Elsewhere ==
  /\ UNCHANGED <<req, old, current, cut>>
  /\ down \subseteq down'
  /\ polled' => polled

(* A request before its upgrade, or one that is refused.                   *)
Asking(w) ==
  /\ \E l \in {"known", "refused", "probing"} : req' = [req EXCEPT ![w] = l]
  /\ req[w] \in {"new", "known", "probing"}
  /\ UNCHANGED <<old, current, cut, polled>>
  /\ down \subseteq down'

LEMMA AskingStep ==
  ASSUME NEW w \in WS, FindActive(w) \/ FindPolled(w) \/ ProbeFails(w)
  PROVE  Asking(w) /\ UNCHANGED <<closer, active, loop>>
  BY DEF FindActive, FindPolled, ProbeFails, ReqStep, Closes, Asking,
         table, sess, rd, ends, hb, peer

LEMMA ElsewhereStep ==
  ASSUME \/ Read \/ Message \/ TearDown \/ Close \/ FallSilent \/ PollCut
         \/ \E t \in Tr : Heartbeat(t) \/ ReadPong(t) \/ Leave(t)
         \/ UNCHANGED vars
  PROVE  Elsewhere
<1> USE DEF Elsewhere, table, sess, probe, rd, ends, hb, peer
<1>1. CASE Read \/ Message \/ FallSilent
  BY <1>1 DEF Read, Look, ReadFails, Recheck, Message, FallSilent
<1>2. CASE TearDown \/ Close \/ PollCut
  BY <1>2 DEF TearDown, Close, Take, Shut, MarkClosed, Remove, Unpoll, EntryGone, PollCut, Closes
<1>3. ASSUME NEW t \in Tr, Heartbeat(t) \/ ReadPong(t) \/ Leave(t) PROVE Elsewhere
  BY <1>3 DEF Heartbeat, Tick, TickFails, Answered, Timeout, TimerClosed, ReadPong, Leave,
              Closes, BeatStep
<1>4. CASE UNCHANGED vars
  BY <1>4 DEF vars
<1> QED
  BY <1>1, <1>2, <1>3, <1>4

-----------------------------------------------------------------------------
(* Types.                                                                  *)

LEMMA ClosesType ==
  ASSUME Typed, NEW ts \in SUBSET Tr, Closes(ts)
  PROVE  down' \in SUBSET Tr /\ beat' \in [Tr -> {"off", "wait", "asked"}] /\ pong' \in SUBSET Tr
  BY DEF Typed, Closes

LEMMA TypedStep == Typed /\ InTurn /\ [Next]_vars => Typed'
<1> SUFFICES ASSUME Typed, InTurn, [Next]_vars PROVE Typed'
  OBVIOUS
<1> USE DEF table, sess, probe, rd, ends, hb, peer
<1>0. POLL \in Tr /\ WS \subseteq Tr /\ NONE \notin Tr
  BY DEF Tr
<1>1. CASE Read \/ Message \/ FallSilent \/ TearDown
  <2>1. CASE Look
    BY <2>1 DEF Look, LoopStep, Typed
  <2>2. CASE ReadFails \/ Recheck
    BY <2>2 DEF ReadFails, Recheck, LoopStep, Typed
  <2>3. CASE Message
    BY <2>3 DEF Message, LoopStep, Typed
  <2>4. CASE FallSilent
    BY <2>4 DEF FallSilent, Typed
  <2>5. CASE TearDown
    BY <2>5 DEF TearDown, CloserStep, Typed
  <2> QED
    BY <1>1, <2>1, <2>2, <2>3, <2>4, <2>5 DEF Read
<1>2. CASE Take \/ MarkClosed \/ Remove
  BY <1>0, <1>2 DEF Take, MarkClosed, Remove, CloserStep, Typed
<1>3. CASE Shut
  <2>1. held \in Tr
    BY <1>3 DEF Shut, CloserStep, Typed
  <2> QED
    BY <1>0, <1>3, <2>1, ClosesType DEF Shut, CloserStep, Typed
<1>4. CASE Unpoll \/ PollCut
  <2>1. CASE Unpoll
    BY <1>0, <2>1, ClosesType DEF Unpoll, EntryGone, CloserStep, Typed
  <2>2. CASE PollCut
    BY <1>0, <2>2, ClosesType DEF PollCut, Typed
  <2> QED
    BY <1>4, <2>1, <2>2
<1>5. ASSUME NEW w \in WS, FindActive(w) \/ FindPolled(w) \/ Swap(w) \/ Forget(w) PROVE Typed'
  <2>1. CASE FindActive(w)
    BY <2>1 DEF FindActive, ReqStep, States, Typed
  <2>2. CASE FindPolled(w)
    BY <1>0, <2>2 DEF FindPolled, ReqStep, States, Typed
  <2>3. CASE Swap(w)
    BY <1>0, <2>3 DEF Swap, Replaced, ReqStep, States, Typed
  <2>4. CASE Forget(w)
    BY <2>4 DEF Forget, NotPolled, ReqStep, States, Typed
  <2> QED
    BY <1>5, <2>1, <2>2, <2>3, <2>4
<1>6. ASSUME NEW w \in WS, ProbeFails(w) PROVE Typed'
  BY <1>0, <1>6, ClosesType DEF ProbeFails, ReqStep, States, Typed
<1>7. ASSUME NEW w \in WS, ShutOld(w) PROVE Typed'
  <2>1. old[w] \in Tr
    BY <1>7 DEF ShutOld, ReqStep, InTurn, Typed
  <2> QED
    BY <1>0, <1>7, <2>1, ClosesType DEF ShutOld, OldClosed, ReqStep, States, Typed
<1>8. ASSUME NEW t \in Tr, Heartbeat(t) PROVE Typed'
  BY <1>8, ClosesType DEF Heartbeat, Tick, TickFails, Answered, Timeout, TimerClosed,
                            BeatStep, Typed
<1>9. ASSUME NEW t \in Tr, ReadPong(t) \/ Leave(t) PROVE Typed'
  BY <1>9 DEF ReadPong, Leave, Typed
<1>10. CASE UNCHANGED vars
  BY <1>10 DEF vars, Typed
<1> QED
  BY <1>1, <1>2, <1>3, <1>4, <1>5, <1>6, <1>7, <1>8, <1>9, <1>10 DEF Next, Close, Request, Switch

-----------------------------------------------------------------------------
(* Upgrades.                                                               *)

LEMMA InTurnStep == Typed /\ InTurn /\ [Next]_vars => InTurn'
<1> SUFFICES ASSUME Typed, InTurn, [Next]_vars PROVE InTurn'
  OBVIOUS
<1>0. NONE \notin Tr /\ POLL \notin WS
  BY DEF Tr
<1>1. ASSUME Elsewhere PROVE InTurn'
  BY <1>1 DEF Elsewhere, InTurn, Opened, Upgraded
<1>2. ASSUME NEW w \in WS, Asking(w) PROVE InTurn'
  <2>1. Opened' = Opened /\ (\A q \in WS : Upgraded(q)' <=> Upgraded(q))
    BY <1>2 DEF Asking, Opened, Upgraded, Typed
  <2>2. \A q \in WS : req'[q] = "swapped" <=> req[q] = "swapped"
    BY <1>2 DEF Asking, Typed
  <2> QED
    BY <1>2, <2>1, <2>2 DEF Asking, InTurn
<1>3. ASSUME NEW w \in WS, Swap(w) PROVE InTurn'
  <2>1. /\ req' = [req EXCEPT ![w] = "swapped"] /\ req[w] = "probing"
        /\ old' = [old EXCEPT ![w] = current] /\ current' = w /\ cut' = cut
        /\ \A q \in WS : req[q] # "swapped"
    BY <1>3 DEF Swap, ReqStep, Replaced, MuFree
  <2>2. Opened' = Opened \cup {w} /\ w \notin Opened
    BY <1>0, <2>1 DEF Opened, Typed
  <2>3. \A q \in WS : old[q] = NONE
    BY <2>1 DEF InTurn
  <2> QED
    BY <1>0, <2>1, <2>2, <2>3 DEF InTurn, Upgraded, Typed
<1>4. ASSUME NEW w \in WS, ShutOld(w) PROVE InTurn'
  <2>1. /\ req' = [req EXCEPT ![w] = "switched"] /\ req[w] = "swapped"
        /\ old' = [old EXCEPT ![w] = NONE] /\ current' = current
        /\ cut' \subseteq cut \cup {old[w]}
    BY <1>4 DEF ShutOld, ReqStep, sess
  <2>2. Opened' = Opened /\ (\A q \in WS : Upgraded(q)' <=> Upgraded(q))
    BY <2>1 DEF Opened, Upgraded, Typed
  <2>3. current = w /\ old[w] # w /\ old[w] \in Opened
    BY <2>1 DEF InTurn
  <2> QED
    BY <2>1, <2>2, <2>3 DEF InTurn, Typed
<1>5. ASSUME NEW w \in WS, Forget(w) PROVE InTurn'
  <2>1. /\ req' = [req EXCEPT ![w] = "upgraded"] /\ req[w] = "switched"
        /\ UNCHANGED <<old, current, cut>>
    BY <1>5 DEF Forget, ReqStep, sess
  <2>2. Opened' = Opened /\ (\A q \in WS : Upgraded(q)' <=> Upgraded(q))
    BY <2>1 DEF Opened, Upgraded, Typed
  <2> QED
    BY <2>1, <2>2 DEF InTurn, Typed
<1> QED
  BY <1>1, <1>2, <1>3, <1>4, <1>5, AskingStep, ElsewhereStep DEF Next, Request, Switch

LEMMA UpgradesInit == Init => Typed /\ InTurn
<1> SUFFICES ASSUME Init PROVE Typed /\ InTurn
  OBVIOUS
<1>1. POLL \in Tr /\ req \in [WS -> States] /\ old \in [WS -> Tr \cup {NONE}]
  BY DEF Init, Tr, States
<1>2. beat \in [Tr -> {"off", "wait", "asked"}]
  BY DEF Init
<1>3. Typed
  BY <1>1, <1>2 DEF Init, Typed
<1>4. InTurn
  BY DEF Init, InTurn, Opened, Upgraded
<1> QED
  BY <1>3, <1>4

Upgrades == Typed /\ InTurn

LEMMA UpgradesStep == Upgrades /\ [Next]_vars => Upgrades'
  BY TypedStep, InTurnStep DEF Upgrades

LEMMA UpgradesType == Upgrades => TypeOK
  BY DEF Upgrades, Typed, TypeOK, InTurn, States

(* Every state is well typed, and no request replaces its own transport.   *)
THEOREM TypeCorrect == Spec => []TypeOK
  BY UpgradesInit, UpgradesStep, UpgradesType, PTL DEF Spec, Upgrades

(* The second look that sessionConn.ReadMessage takes at current is enough *)
(* to tell an upgrade from the end: whichever transports upgrades have     *)
(* closed under the loop, it does not end for one of them.                 *)
THEOREM LoopSurvivesUpgrades == Spec => UpgradeKeepsSession
<1>1. Upgrades /\ [Next]_vars => [loop # "over" /\ loop' = "over" => at \notin cut]_vars
  <2> SUFFICES ASSUME Upgrades, Next, loop # "over", loop' = "over" PROVE at \notin cut
    OBVIOUS
  <2>1. Recheck
    BY AskingStep DEF Next, Read, Look, ReadFails, Message, TearDown, Close, Take, Shut, MarkClosed,
       Remove, Unpoll, FallSilent, PollCut, Request, Swap, Switch, ShutOld, Forget, Heartbeat, Tick,
       TickFails, Answered, Timeout, ReadPong, Leave, LoopStep, rd
  <2>2. current = at
    BY <2>1 DEF Recheck, Changed, LoopStep
  <2> QED
    BY <2>2 DEF Upgrades, InTurn
<1> QED
  BY <1>1, UpgradesInit, UpgradesStep, PTL DEF Spec, Upgrades, UpgradeKeepsSession

-----------------------------------------------------------------------------
(* What is left open.                                                      *)

(* Whoever takes the session out of pollSess sees to its PollConn, and     *)
(* Remove comes before Unpoll.                                             *)
Ending ==
  /\ ~polled => POLL \in down \/ Replacing(POLL)
  /\ closer \in {"unpoll", "done"} => ~active
  /\ closer = "done" => ~polled

Left == OneTransport /\ Ending

LEMMA LeftStep == Upgrades /\ Left /\ [Next]_vars => Left'
<1> SUFFICES ASSUME Upgrades, Left, [Next]_vars PROVE Left'
  OBVIOUS
<1> USE DEF Left
<1>0. /\ req \in [WS -> States] /\ old \in [WS -> Tr \cup {NONE}]
      /\ active \in BOOLEAN /\ polled \in BOOLEAN
  BY DEF Upgrades, Typed
<1>1. ASSUME Elsewhere PROVE OneTransport'
  BY <1>1 DEF Elsewhere, OneTransport, Opened, Replacing
<1>2. ASSUME Elsewhere, active' => active, closer' = closer, polled' = polled PROVE Ending'
  BY <1>0, <1>2 DEF Elsewhere, Ending, Replacing
<1>3. CASE Close
  <2>1. Elsewhere
    BY <1>3, ElsewhereStep
  <2>2. (Replacing(POLL)' <=> Replacing(POLL)) /\ (POLL \in down => POLL \in down')
    BY <2>1 DEF Elsewhere, Replacing
  <2>3. ASSUME Take \/ Shut \/ MarkClosed PROVE Ending'
    BY <1>0, <2>2, <2>3 DEF Ending, Take, Shut, MarkClosed, CloserStep, table
  <2>4. ASSUME Remove PROVE Ending'
    BY <1>0, <2>2, <2>4 DEF Ending, Remove, CloserStep
  <2>5. ASSUME Unpoll PROVE Ending'
    <3>1. active' = active /\ polled' = FALSE /\ closer = "unpoll" /\ closer' = "done"
      BY <2>5 DEF Unpoll, EntryGone, CloserStep
    <3>2. POLL \in down' \/ Replacing(POLL)'
      BY <2>2, <2>5 DEF Unpoll, Closes, Ending
    <3> QED
      BY <3>1, <3>2 DEF Ending
  <2> QED
    BY <1>1, <1>3, <2>1, <2>3, <2>4, <2>5 DEF Close
<1>4. CASE Read \/ Message \/ TearDown \/ FallSilent \/ PollCut
  <2>1. Elsewhere
    BY <1>4, ElsewhereStep
  <2>2. active' = active /\ polled' = polled
    BY <1>4 DEF Read, Look, ReadFails, Recheck, Message, TearDown, FallSilent, PollCut, table
  <2>3. closer' = closer \/ closer' = "take"
    BY <1>4 DEF Read, Look, ReadFails, Recheck, Message, TearDown, FallSilent, PollCut, ends,
                CloserStep
  <2> QED
    BY <1>1, <2>1, <2>2, <2>3 DEF Elsewhere, Ending, Replacing
<1>5. ASSUME NEW t \in Tr, Heartbeat(t) \/ ReadPong(t) \/ Leave(t) PROVE Left'
  <2>1. Elsewhere
    BY <1>5, ElsewhereStep
  <2>2. active' = active /\ polled' = polled /\ closer' = closer
    BY <1>5 DEF Heartbeat, Tick, TickFails, Answered, Timeout, ReadPong, Leave, table, ends
  <2> QED
    BY <1>1, <1>2, <2>1, <2>2
<1>6. CASE UNCHANGED vars
  BY <1>1, <1>2, <1>6, ElsewhereStep DEF vars, table, ends
<1>7. ASSUME NEW w \in WS, FindActive(w) \/ FindPolled(w) \/ ProbeFails(w) PROVE Left'
  <2>1. Asking(w) /\ UNCHANGED <<closer, active>>
    BY <1>7, AskingStep
  <2>2. Opened' = Opened /\ (\A q \in WS : req'[q] = "swapped" <=> req[q] = "swapped")
        /\ (\A q \in WS : req'[q] = "switched" <=> req[q] = "switched")
    BY <1>0, <2>1 DEF Asking, Opened
  <2>3. \A t : Replacing(t)' <=> Replacing(t)
    BY <2>1, <2>2 DEF Asking, Replacing
  <2> QED
    BY <2>1, <2>2, <2>3 DEF Asking, OneTransport, Ending
<1>8. ASSUME NEW w \in WS, Swap(w) PROVE Left'
  <2>1. /\ req' = [req EXCEPT ![w] = "swapped"] /\ req[w] = "probing"
        /\ old' = [old EXCEPT ![w] = current] /\ current' = w
        /\ \A q \in WS : req[q] # "swapped"
        /\ UNCHANGED <<active, polled, down, closer>>
    BY <1>8 DEF Swap, ReqStep, Replaced, MuFree, table, ends
  <2>2. /\ Opened' = Opened \cup {w} /\ \A t : ~Replacing(t)
        /\ \A t : t = current => Replacing(t)'
    BY <1>0, <2>1 DEF Opened, Replacing
  <2>3. OneTransport'
    <3>1. req'[w] = "swapped"
      BY <1>0, <2>1
    <3> QED
      BY <2>1, <2>2, <3>1 DEF OneTransport
  <2>4. Ending'
    BY <2>1, <2>2 DEF Ending
  <2> QED
    BY <2>3, <2>4
<1>9. ASSUME NEW w \in WS, ShutOld(w) PROVE Left'
  <2>1. /\ req' = [req EXCEPT ![w] = "switched"] /\ req[w] = "swapped"
        /\ old' = [old EXCEPT ![w] = NONE] /\ current' = current
        /\ down' = down \cup {old[w]}
        /\ UNCHANGED <<active, polled, closer>>
    BY <1>9 DEF ShutOld, ReqStep, OldClosed, Closes, table, sess, ends
  <2>2. Opened' = Opened /\ \A t : Replacing(t) => Replacing(t)' \/ t \in down'
    BY <1>0, <2>1 DEF Opened, Replacing
  <2>3. req'[w] = "switched"
    BY <1>0, <2>1
  <2>4. OneTransport'
    BY <2>1, <2>2, <2>3 DEF OneTransport
  <2>5. Ending'
    BY <2>1, <2>2 DEF Ending
  <2> QED
    BY <2>4, <2>5
<1>10. ASSUME NEW w \in WS, Forget(w) PROVE Left'
  <2>1. /\ req' = [req EXCEPT ![w] = "upgraded"] /\ req[w] = "switched"
        /\ polled' = FALSE
        /\ UNCHANGED <<active, current, down, old, closer>>
    BY <1>10 DEF Forget, ReqStep, NotPolled, sess, ends
  <2>2. Opened' = Opened /\ \A t : Replacing(t)' <=> Replacing(t)
    BY <1>0, <2>1 DEF Opened, Replacing
  <2>3. current # POLL /\ POLL \in Opened
    BY <2>1 DEF Upgrades, InTurn, Upgraded, Opened
  <2>4. POLL \in down \/ Replacing(POLL)
    BY <2>3 DEF OneTransport
  <2> QED
    BY <2>1, <2>2, <2>4 DEF OneTransport, Ending
<1> QED
  BY <1>3, <1>4, <1>5, <1>6, <1>7, <1>8, <1>9, <1>10 DEF Next, Request, Switch

LEMMA LeftInit == Init => Left
  BY DEF Init, Left, OneTransport, Ending, Opened, Replacing

(* However many requests upgrade the session at once, of its transports    *)
(* only the current one stays open, and no table offers the polling one    *)
(* after the last upgrade.                                                 *)
THEOREM OneStaysOpen == Spec => []OneTransport
  BY UpgradesInit, UpgradesStep, LeftInit, LeftStep, PTL DEF Spec, Upgrades, Left

(* A session that has been closed is in no table and its PollConn is       *)
(* closed, at whatever stage an upgrade was.                               *)
THEOREM ClosedLeavesNothing == Spec => []NothingLeft
<1>1. Left => NothingLeft
  BY DEF Left, Ending, NothingLeft
<1> QED
  BY <1>1, UpgradesInit, UpgradesStep, LeftInit, LeftStep, PTL DEF Spec, Upgrades
=============================================================================

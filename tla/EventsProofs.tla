---------------------------- MODULE EventsProofs ----------------------------
(***************************************************************************)
(* Theorems about Events: places are counted exactly, callbacks run once,  *)
(* and packets come whole, for any number of events, calls and places.     *)
(***************************************************************************)
EXTENDS Events, FiniteSetTheorems, TLAPS

USE EventsAssumption

-----------------------------------------------------------------------------
(* The places of eventSem.                                                 *)

(* The event the loop wants a place for has no handler yet.                *)
AsksForRead == loop = "acquire" => handler[cur] = "read"

Places == TypeOK /\ AsksForRead /\ PlacesExact

LEMMA AliveFinite == IsFiniteSet(Alive) /\ Cardinality(Alive) \in Nat
<1>1. Alive \in SUBSET Event
  BY DEF Alive
<1> QED
  BY <1>1, FS_Subset, FS_CardinalityType

LEMMA OneMoreAlive ==
  ASSUME NEW e \in Event, e \notin Alive, Alive' = Alive \cup {e}
  PROVE  Cardinality(Alive') = Cardinality(Alive) + 1
  BY AliveFinite, FS_AddElement

LEMMA OneAliveLess ==
  ASSUME NEW e \in Alive, Alive' = Alive \ {e}
  PROVE  Cardinality(Alive') = Cardinality(Alive) - 1 /\ Cardinality(Alive) > 0
<1>1. Cardinality(Alive) # 0
  BY AliveFinite, FS_EmptySet
<1>2. Cardinality(Alive \ {e}) = Cardinality(Alive) - 1
  BY AliveFinite, FS_RemoveElement
<1> QED
  BY <1>1, <1>2, AliveFinite

LEMMA PlacesInit == Init => Places
<1> SUFFICES ASSUME Init PROVE Places
  OBVIOUS
<1>1. Alive = {} /\ places = 0 /\ 0 <= Max /\ 0 \in 0 .. Max
  BY DEF Init, Alive
<1>2. PlacesExact
  BY <1>1, FS_EmptySet DEF PlacesExact
<1>3. handler \in [Event -> {"new", "read", "run", "ack", "release", "done", "dropped"}]
      /\ call \in [Call -> {"idle", "send", "attach", "undo", "sent", "failed"}]
  BY DEF Init
<1>4. answered \in [Call -> BOOLEAN] /\ fired \in [Call -> Nat]
  BY DEF Init
<1>5. TypeOK
  BY <1>1, <1>3, <1>4 DEF Init, TypeOK
<1> QED
  BY <1>2, <1>5 DEF Places, AsksForRead, Init

(* A step of a handler that is not about its place.                        *)
LEMMA SamePlaces ==
  ASSUME PlacesExact, places' = places, Alive' = Alive
  PROVE  PlacesExact'
  BY DEF PlacesExact

LEMMA PlacesStep == Places /\ [Next]_vars => Places'
<1> SUFFICES ASSUME Places, [Next]_vars PROVE Places'
  OBVIOUS
<1> USE DEF Places, link, wire, acked
<1>1. ASSUME handler' = handler, places' = places PROVE PlacesExact'
  BY <1>1, SamePlaces DEF Alive
<1>2. CASE Life \/ LoopEnds
  <2>1. TypeOK' /\ AsksForRead' /\ handler' = handler /\ places' = places
    BY <1>2 DEF Life, Disconnect, TransportFails, Mark, Shut, LoopEnds, TypeOK, AsksForRead
  <2> QED
    BY <1>1, <2>1
<1>3. CASE Callback
  <2>1. fired' \in [Call -> Nat]
    BY <1>3 DEF Callback, TypeOK
  <2>2. TypeOK' /\ AsksForRead' /\ handler' = handler /\ places' = places
    BY <1>3, <2>1 DEF Callback, TypeOK, AsksForRead
  <2> QED
    BY <1>1, <2>2
<1>4. CASE Acquire
  <2>0. cur \in Event /\ handler[cur] = "read"
    BY <1>4 DEF Acquire, TypeOK, AsksForRead
  <2>1. CASE HasPlace /\ places' = places + 1 /\ HandlerStep(cur, "read", "run")
    <3>1. cur \notin Alive /\ Alive' = Alive \cup {cur}
      BY <2>0, <2>1 DEF HandlerStep, Alive, TypeOK
    <3>2. Cardinality(Alive') = Cardinality(Alive) + 1
      BY <2>0, <3>1, OneMoreAlive
    <3>3. PlacesExact'
      BY <2>1, <3>2 DEF PlacesExact, HasPlace, TypeOK
    <3>4. TypeOK' /\ AsksForRead'
      BY <1>4, <2>1 DEF Acquire, HandlerStep, HasPlace, TypeOK, AsksForRead
    <3> QED
      BY <3>3, <3>4
  <2>2. CASE gone /\ places' = NoPlace /\ HandlerStep(cur, "read", "dropped")
    <3>1. Alive' = Alive /\ places' = places
      BY <2>0, <2>2 DEF HandlerStep, Alive, NoPlace, TypeOK
    <3>2. TypeOK' /\ AsksForRead'
      BY <1>4, <2>2 DEF Acquire, HandlerStep, NoPlace, TypeOK, AsksForRead
    <3> QED
      BY <3>1, <3>2, SamePlaces
  <2> QED
    BY <1>4, <2>1, <2>2 DEF Acquire
<1>5. ASSUME NEW e \in Event, ReadEvent(e) PROVE Places'
  <2>1. Alive' = Alive /\ places' = places
    BY <1>5 DEF ReadEvent, HandlerStep, Alive, TypeOK
  <2>2. TypeOK' /\ AsksForRead'
    BY <1>5 DEF ReadEvent, HandlerStep, TypeOK, AsksForRead
  <2> QED
    BY <2>1, <2>2, SamePlaces
<1>6. ASSUME NEW e \in Event, Return(e) \/ SendAck(e) PROVE Places'
  <2>1. Alive' = Alive /\ places' = places
    BY <1>6 DEF Return, SendAck, HandlerStep, Alive, TypeOK
  <2>2. TypeOK' /\ AsksForRead'
    BY <1>6 DEF Return, SendAck, HandlerStep, Arrives, TypeOK, AsksForRead
  <2> QED
    BY <2>1, <2>2, SamePlaces
<1>7. ASSUME NEW e \in Event, Release(e) PROVE Places'
  <2>1. e \in Alive /\ Alive' = Alive \ {e}
    BY <1>7 DEF Release, HandlerStep, Alive, TypeOK
  <2>2. Cardinality(Alive') = Cardinality(Alive) - 1 /\ Cardinality(Alive) > 0
    BY <2>1, OneAliveLess
  <2>3. places > 0 /\ places' = places - 1 /\ PlacesExact'
    BY <1>7, <2>2, AliveFinite DEF Release, PlaceFreed, PlacesExact, TypeOK
  <2>4. TypeOK' /\ AsksForRead'
    BY <1>7, <2>3 DEF Release, HandlerStep, TypeOK, AsksForRead
  <2> QED
    BY <2>3, <2>4
<1>8. ASSUME NEW k \in Call, Register(k) \/ Undo(k) PROVE Places'
  <2>1. TableOf(k) \in Kind
    BY DEF TableOf, Kind
  <2>2. TypeOK' /\ AsksForRead' /\ handler' = handler /\ places' = places
    BY <1>8, <2>1 DEF Register, Undo, EntryUndone, CallStep, TypeOK, AsksForRead
  <2> QED
    BY <1>1, <2>2
<1>9. ASSUME NEW k \in Call, SendText(k) \/ SendPart(k) PROVE Places'
  <2>1. TypeOK' /\ AsksForRead' /\ handler' = handler /\ places' = places
    BY <1>9 DEF SendText, SendPart, Arrives, MuHeld, CallStep, TypeOK, AsksForRead
  <2> QED
    BY <1>1, <2>1
<1>10. ASSUME NEW k \in Call, NEW kind \in Kind, ReadAnswer(k, kind) PROVE Places'
  <2>1. TypeOK' /\ AsksForRead' /\ handler' = handler /\ places' = places
    BY <1>10 DEF ReadAnswer, TakenOut, TypeOK, AsksForRead
  <2> QED
    BY <1>1, <2>1
<1>11. CASE UNCHANGED vars
  BY <1>11 DEF vars, TypeOK, AsksForRead, PlacesExact, Alive
<1> QED
  BY <1>2, <1>3, <1>4, <1>5, <1>6, <1>7, <1>8, <1>9, <1>10, <1>11 DEF Next, Handle, Emit

(* Every state is well typed, and the loop works on an event or on a       *)
(* callback exactly while it is about to take a place or to run one.       *)
THEOREM TypeCorrect == Spec => []TypeOK
  BY PlacesInit, PlacesStep, PTL DEF Spec, Places

(* eventSem counts the handler goroutines, and never more than Max run:    *)
(* the place dispatchEvent takes is the place the goroutine gives back.    *)
THEOREM PlacesCounted == Spec => []PlacesExact
  BY PlacesInit, PlacesStep, PTL DEF Spec, Places

-----------------------------------------------------------------------------
(* Packets.                                                                *)

(* The peer waits for an attachment only while somebody keeps the lock.    *)
OwedHeld == "oversize" \notin Ops /\ up /\ owed # NONE => mu # NONE

LEMMA WholeStep == TypeOK /\ OwedHeld /\ PacketsWhole /\ [Next]_vars => OwedHeld' /\ PacketsWhole'
<1> SUFFICES ASSUME TypeOK, OwedHeld, PacketsWhole, [Next]_vars PROVE OwedHeld' /\ PacketsWhole'
  OBVIOUS
<1> USE DEF OwedHeld, PacketsWhole, link, wire, acked
<1>1. CASE Life \/ LoopEnds \/ Acquire \/ Callback
  BY <1>1 DEF Life, Disconnect, TransportFails, Mark, Shut, LoopEnds, Acquire, Callback
<1>2. ASSUME NEW e \in Event, ReadEvent(e) \/ Return(e) \/ Release(e)
      PROVE  OwedHeld' /\ PacketsWhole'
  BY <1>2 DEF ReadEvent, Return, Release
<1>3. ASSUME NEW e \in Event, SendAck(e) PROVE OwedHeld' /\ PacketsWhole'
  BY <1>3 DEF SendAck, Writable, Arrives, TypeOK
<1>4. ASSUME NEW k \in Call, SendText(k) PROVE OwedHeld' /\ PacketsWhole'
  BY <1>4 DEF SendText, Writable, Arrives, MuHeld, TypeOK
<1>5. ASSUME NEW k \in Call, SendPart(k) PROVE OwedHeld' /\ PacketsWhole'
  BY <1>5 DEF SendPart
<1>6. ASSUME NEW k \in Call, Register(k) \/ Undo(k) PROVE OwedHeld' /\ PacketsWhole'
  BY <1>6 DEF Register, Undo
<1>7. ASSUME NEW k \in Call, NEW kind \in Kind, ReadAnswer(k, kind)
      PROVE  OwedHeld' /\ PacketsWhole'
  BY <1>7 DEF ReadAnswer
<1>8. CASE UNCHANGED vars
  BY <1>8 DEF vars
<1> QED
  BY <1>1, <1>2, <1>3, <1>4, <1>5, <1>6, <1>7, <1>8 DEF Next, Handle, Emit

(* Whoever emits, answers or acknowledges at the same time: the text of a  *)
(* binary packet and its attachment come to the peer one after the other,  *)
(* because engineSession.send keeps mu for both.                           *)
THEOREM PacketsComeWhole == Spec => []PacketsWhole
<1>1. Init => OwedHeld /\ PacketsWhole
  BY DEF Init, OwedHeld, PacketsWhole
<1> QED
  BY <1>1, PlacesInit, PlacesStep, WholeStep, PTL DEF Spec, Places

-----------------------------------------------------------------------------
(* Callbacks.                                                              *)

Entry(k) == <<TableOf(k), k>> \in acks
Running(k) == loop = "callback" /\ cur = k

(* A callback waits in the table of its kind.                              *)
RightTable == \A kind \in Kind, k \in Call : <<kind, k>> \in acks => kind = TableOf(k)

(* It is in one place at a time: not registered, in its table, with the    *)
(* loop, or run; and until its call has failed it is not lost.             *)
OnePlace ==
  \A k \in Call :
    /\ call[k] = "idle" => ~Entry(k) /\ ~Running(k) /\ fired[k] = 0
    /\ Entry(k) => ~Running(k) /\ fired[k] = 0
    /\ Running(k) => fired[k] = 0
    /\ call[k] \in {"send", "attach", "sent"} => Entry(k) \/ Running(k) \/ fired[k] = 1
    /\ call[k] = "failed" => ~Entry(k)

Callbacks == RightTable /\ OnePlace /\ AnswersFireOnce

LEMMA CallbacksInit == Init => Callbacks
  BY DEF Init, Callbacks, RightTable, OnePlace, AnswersFireOnce, Entry, Running

LEMMA CallbacksStep == TypeOK /\ Callbacks /\ [Next]_vars => Callbacks'
<1> SUFFICES ASSUME TypeOK, Callbacks, [Next]_vars PROVE Callbacks'
  OBVIOUS
<1> USE DEF Callbacks, Entry, Running, link, wire, acked
<1>0. \A k \in Call : TableOf(k) \in Kind
  BY DEF TableOf, Kind
<1>1. ASSUME acks' = acks, fired' = fired, answered' = answered, call' = call,
             \A k \in Call : Running(k)' <=> Running(k)
      PROVE  Callbacks'
  BY <1>1 DEF RightTable, OnePlace, AnswersFireOnce
<1>2. CASE Life
  BY <1>1, <1>2 DEF Life, Disconnect, TransportFails, Mark, Shut
<1>3. CASE LoopEnds \/ Acquire
  BY <1>1, <1>3 DEF LoopEnds, Acquire, TypeOK
<1>4. ASSUME NEW e \in Event, ReadEvent(e) PROVE Callbacks'
  BY <1>1, <1>4 DEF ReadEvent, TypeOK
<1>5. ASSUME NEW e \in Event, Handle(e) PROVE Callbacks'
  BY <1>1, <1>5 DEF Handle, Return, SendAck, Release
<1>6. ASSUME NEW k \in Call, SendText(k) \/ SendPart(k) PROVE Callbacks'
  <2>1. PICK l \in {"attach", "sent", "undo"} : call' = [call EXCEPT ![k] = l]
    BY <1>6 DEF SendText, SendPart, CallStep
  <2>2. call[k] \in {"send", "attach"} /\ acks' = acks /\ fired' = fired /\ answered' = answered
        /\ loop' = loop /\ cur' = cur
    BY <1>6 DEF SendText, SendPart, CallStep
  <2> QED
    BY <2>1, <2>2 DEF RightTable, OnePlace, AnswersFireOnce, TypeOK
<1>7. ASSUME NEW k \in Call, Register(k) PROVE Callbacks'
  BY <1>0, <1>7 DEF Register, CallStep, RightTable, OnePlace, AnswersFireOnce, TypeOK
<1>8. ASSUME NEW k \in Call, Undo(k) PROVE Callbacks'
  BY <1>0, <1>8 DEF Undo, EntryUndone, CallStep, RightTable, OnePlace, AnswersFireOnce, TypeOK
<1>9. ASSUME NEW k \in Call, NEW kind \in Kind, ReadAnswer(k, kind) PROVE Callbacks'
  <2>0. (kind = "binary" <=> k \in Binary) => kind = TableOf(k)
    BY DEF TableOf, Kind
  <2>1. /\ acks' = acks \ {<<kind, k>>} /\ loop = "read"
        /\ call' = call /\ fired' = fired
    BY <1>9 DEF ReadAnswer, TakenOut
  <2>2. CASE <<kind, k>> \in acks
    <3>1. kind = TableOf(k) /\ loop' = "callback" /\ cur' = k
      BY <1>9, <2>2 DEF ReadAnswer, RightTable
    <3>2. RightTable' /\ OnePlace'
      BY <2>1, <2>2, <3>1 DEF RightTable, OnePlace, TypeOK
    <3>3. AnswersFireOnce'
      BY <1>9, <2>1, <3>1 DEF ReadAnswer, AnswersFireOnce, TypeOK
    <3> QED
      BY <3>2, <3>3
  <2>3. CASE <<kind, k>> \notin acks
    <3>1. acks' = acks /\ loop' = loop /\ cur' = cur
      BY <1>9, <2>1, <2>3 DEF ReadAnswer
    <3>2. RightTable' /\ OnePlace'
      BY <2>1, <3>1 DEF RightTable, OnePlace
    <3>3. answered'[k] => answered[k] \/ fired[k] = 1
      BY <1>9, <2>0, <2>1, <2>3 DEF ReadAnswer, OnePlace, TypeOK
    <3>4. \A q \in Call \ {k} : answered'[q] = answered[q]
      BY <1>9 DEF ReadAnswer, TypeOK
    <3>5. AnswersFireOnce'
      BY <2>1, <3>1, <3>3, <3>4 DEF AnswersFireOnce
    <3> QED
      BY <3>2, <3>5
  <2> QED
    BY <2>2, <2>3
<1>10. CASE Callback
  <2>1. cur \in Call /\ fired' = [fired EXCEPT ![cur] = @ + 1] /\ loop' = "read"
    BY <1>10 DEF Callback, TypeOK
  <2>2. acks' = acks /\ call' = call /\ answered' = answered
    BY <1>10 DEF Callback
  <2>3. fired[cur] = 0 /\ ~Entry(cur) /\ call[cur] # "idle"
    BY <1>10, <2>1 DEF Callback, OnePlace
  <2>4. fired'[cur] = 1 /\ \A k \in Call \ {cur} : fired'[k] = fired[k]
    BY <2>1, <2>3 DEF TypeOK
  <2>5. RightTable' /\ OnePlace'
    BY <1>10, <2>1, <2>2, <2>3, <2>4 DEF RightTable, OnePlace, Callback
  <2>6. AnswersFireOnce'
    BY <1>10, <2>1, <2>2, <2>4 DEF AnswersFireOnce, Callback
  <2> QED
    BY <2>5, <2>6
<1>11. CASE UNCHANGED vars
  BY <1>1, <1>11 DEF vars
<1> QED
  BY <1>2, <1>3, <1>4, <1>5, <1>6, <1>7, <1>8, <1>9, <1>10, <1>11 DEF Next, Emit

(* dispatchAck takes a callback out of its table before fireAck runs it,   *)
(* and EmitWithAck puts it there before it sends: the answer to a complete *)
(* request runs its callback, and no number of answers runs it twice.      *)
THEOREM CallbackOnce == Spec => []AnswersFireOnce
  BY PlacesInit, PlacesStep, CallbacksInit, CallbacksStep, PTL DEF Spec, Places, Callbacks

(* A call that has returned its error has withdrawn its callback: a late   *)
(* answer to the part that was sent does not take it up.                   *)
THEOREM FailureIsFinal == Spec => FailedStaysQuiet
<1>1. TypeOK /\ Callbacks /\ [Next]_vars =>
        [\A k \in Call : call[k] = "failed" => ~(cur # k /\ cur' = k)]_vars
  <2> SUFFICES ASSUME TypeOK, Callbacks, Next, NEW k \in Call, call[k] = "failed",
                      cur # k, cur' = k
               PROVE  FALSE
    OBVIOUS
  <2>1. \A e \in Event : ~ReadEvent(e)
    BY DEF ReadEvent
  <2>2. \A e \in Event : ~Handle(e)
    BY DEF Handle, Return, SendAck, Release
  <2>3. ~Life /\ ~LoopEnds
    BY DEF Life, Disconnect, TransportFails, Mark, Shut, LoopEnds
  <2>4. ~Acquire /\ ~Callback
    BY DEF Acquire, Callback
  <2>5. \A q \in Call : ~Register(q) /\ ~Emit(q)
    BY DEF Register, Emit, SendText, SendPart, Undo
  <2>6. ASSUME NEW q \in Call, NEW kind \in Kind, ReadAnswer(q, kind) PROVE FALSE
    BY <2>6 DEF ReadAnswer, Callbacks, RightTable, OnePlace, Entry
  <2> QED
    BY <2>1, <2>2, <2>3, <2>4, <2>5, <2>6 DEF Next
<1> QED
  BY <1>1, PlacesInit, PlacesStep, CallbacksInit, CallbacksStep, PTL
     DEF Spec, Places, FailedStaysQuiet
=============================================================================

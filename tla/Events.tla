------------------------------- MODULE Events -------------------------------
(***************************************************************************)
(* Events and acknowledgements of one connection (server/server.go).       *)
(*                                                                         *)
(* The session's loop reads a packet and, for an event, waits for a place  *)
(* in eventSem and starts a goroutine for the handler; for an ACK it takes *)
(* the callback out of its table and runs it itself.  Goroutines of the    *)
(* application call EmitWithAck and EmitWithBinaryAck meanwhile.  All of   *)
(* them write to the session under engineSession.mu, a binary packet in    *)
(* several parts.  What a packet says is left out.  ackSeq gives every     *)
(* call an id of its own, so a call is its id.                             *)
(***************************************************************************)
EXTENDS Naturals, FiniteSets

CONSTANTS
  Event,    \* event packets the peer sends (a bound)
  WithID,   \* those that ask for an ACK
  Waiting,  \* those whose handler waits until every Call is answered
  Call,     \* EmitWithAck and EmitWithBinaryAck calls (a bound)
  Binary,   \* the calls of EmitWithBinaryAck
  Parts,    \* the calls with a binary argument: an attachment follows
  Max,      \* MaxEventConcurrency
  NONE,
  Ops       \* "hasty": the peer may answer before the attachment is there;
            \* "oversize": WriteBinary may refuse an attachment

ASSUME EventsAssumption ==
  /\ WithID \subseteq Event /\ Waiting \subseteq Event
  /\ Binary \subseteq Call /\ Parts \subseteq Call
  /\ Event \cap Call = {} /\ NONE \notin Event \cup Call
  /\ IsFiniteSet(Event)
  /\ Max \in Nat \ {0}   \* setDefaults: 32 for none
  /\ Ops \subseteq {"hasty", "oversize"}

VARIABLES
  open,     \* the session table has the connection
  sclosed,  \* engineSession.closed
  up,       \* the transport works
  gone,     \* sessionConn.done is closed
  loop,     \* where the loop is
  cur,      \* the event or the call it is working on
  places,   \* the places taken in eventSem
  handler,  \* where each event is
  call,     \* where each call is
  acks,     \* conn.acks and conn.binaryAcks: <<"text" or "binary", call>>
  mu,       \* the call that keeps engineSession.mu between two writes
  owed,     \* at the peer: the call whose attachment is still to come
  seen,     \* at the peer: the calls whose text part has come
  garbled,  \* history: a packet has come to the peer inside another one
  answered, \* history: the loop read an answer to a complete request
  fired     \* history: how often a callback has run

link  == <<open, sclosed, up, gone>>
wire  == <<mu, owed, seen, garbled>>
acked == <<answered, fired>>
vars  == <<link, loop, cur, places, handler, call, acks, wire, acked>>

Kind == {"text", "binary"}

Init ==
  /\ open = TRUE /\ up = TRUE /\ sclosed = FALSE /\ gone = FALSE
  /\ loop = "read" /\ cur = NONE /\ places = 0
  /\ handler = [e \in Event |-> "new"]
  /\ call = [k \in Call |-> "idle"]
  /\ acks = {}
  /\ mu = NONE /\ owed = NONE /\ seen = {} /\ garbled = FALSE
  /\ answered = [k \in Call |-> FALSE]
  /\ fired = [k \in Call |-> 0]

HandlerStep(e, l, m) == handler[e] = l /\ handler' = [handler EXCEPT ![e] = m]
CallStep(k, l, m) == call[k] = l /\ call' = [call EXCEPT ![k] = m]

-----------------------------------------------------------------------------
(* The life of the connection, as far as events see it (see Sessions).     *)

(* Any way of losing the table entry: DISCONNECT, Close, a teardown.       *)
Disconnect ==
  /\ open
  /\ open' = FALSE
  /\ UNCHANGED <<sclosed, up, gone, loop, cur, places, handler, call, acks, wire, acked>>

TransportFails ==
  /\ up
  /\ up' = FALSE
  /\ UNCHANGED <<open, sclosed, gone, loop, cur, places, handler, call, acks, wire, acked>>

(* teardownSession: closed.Swap, then the transport's Close.               *)
Mark ==
  /\ ~open /\ ~sclosed
  /\ sclosed' = TRUE
  /\ UNCHANGED <<open, up, gone, loop, cur, places, handler, call, acks, wire, acked>>

Shut ==
  /\ sclosed /\ ~gone
  /\ up' = FALSE /\ gone' = TRUE
  /\ UNCHANGED <<open, sclosed, loop, cur, places, handler, call, acks, wire, acked>>

-----------------------------------------------------------------------------
(* Events.                                                                 *)

(* dispatchEvent: an event for a connection that has gone is dropped.      *)
ReadEvent(e) ==
  /\ loop = "read"
  /\ \/ open /\ HandlerStep(e, "new", "read") /\ loop' = "acquire" /\ cur' = e
     \/ ~open /\ HandlerStep(e, "new", "dropped") /\ UNCHANGED <<loop, cur>>
  /\ UNCHANGED <<link, places, call, acks, wire, acked>>

LoopEnds ==
  /\ loop = "read" /\ ~up
  /\ loop' = "gone"
  /\ UNCHANGED <<link, cur, places, handler, call, acks, wire, acked>>

(* Mutant: a place is taken for a dropped event.                           *)
HasPlace == places < Max
PlaceAnyway == places + 1
NoPlace == places

(* The select of dispatchEvent, then `go`: a place, or Done.               *)
Acquire ==
  /\ loop = "acquire"
  /\ \/ HasPlace /\ places' = places + 1 /\ HandlerStep(cur, "read", "run")
     \/ gone /\ places' = NoPlace /\ HandlerStep(cur, "read", "dropped")
  /\ loop' = "read" /\ cur' = NONE
  /\ UNCHANGED <<link, call, acks, wire, acked>>

Settled(k) == call[k] = "failed" \/ fired[k] > 0

(* The handler returns.                                                    *)
Return(e) ==
  /\ HandlerStep(e, "run", IF e \in WithID THEN "ack" ELSE "release")
  /\ e \in Waiting => \A k \in Call : Settled(k)
  /\ UNCHANGED <<link, loop, cur, places, call, acks, wire, acked>>

(* <-c.eventSem.  Mutant: it is forgotten.                                 *)
PlaceKept == places
PlaceFreed == places - 1

Release(e) ==
  /\ HandlerStep(e, "release", "done")
  /\ places' = PlaceFreed
  /\ UNCHANGED <<link, loop, cur, call, acks, wire, acked>>

-----------------------------------------------------------------------------
(* engineSession.send.                                                     *)

Writable == mu = NONE

(* A text packet reaches the peer.                                         *)
Arrives(next) ==
  /\ garbled' = (garbled \/ (up /\ owed # NONE))
  /\ owed' = next

(* emitAck; its error is dropped.                                          *)
SendAck(e) ==
  /\ Writable
  /\ HandlerStep(e, "ack", "release")
  /\ \/ ~sclosed /\ Arrives(NONE)
     \/ (sclosed \/ ~up) /\ UNCHANGED <<garbled, owed>>
  /\ UNCHANGED <<link, loop, cur, places, call, acks, mu, seen, acked>>

(* The table a callback waits in.  Mutant: one table for both.             *)
OneTable(k) == "text"
TableOf(k) == IF k \in Binary THEN "binary" ELSE "text"

(* EmitWithAck, EmitWithBinaryAck: the callback is there before the packet *)
(* is sent.                                                                *)
Register(k) ==
  /\ CallStep(k, "idle", "send")
  /\ acks' = acks \cup {<<TableOf(k), k>>}
  /\ UNCHANGED <<link, loop, cur, places, handler, wire, acked>>

(* Mutant: mu is given up after the text part.                             *)
MuFreed(k) == NONE
MuHeld(k) == k

SendText(k) ==
  /\ Writable
  /\ \/ /\ ~sclosed
        /\ seen' = IF up THEN seen \cup {k} ELSE seen
        /\ IF k \in Parts
           THEN CallStep(k, "send", "attach") /\ mu' = MuHeld(k) /\ Arrives(k)
           ELSE CallStep(k, "send", "sent") /\ UNCHANGED mu /\ Arrives(NONE)
     \/ /\ sclosed \/ ~up
        /\ CallStep(k, "send", "undo")
        /\ UNCHANGED wire
  /\ UNCHANGED <<link, loop, cur, places, handler, acks, acked>>

SendPart(k) ==
  /\ \/ /\ CallStep(k, "attach", "sent")
        /\ owed' = NONE
     \/ /\ ~up \/ "oversize" \in Ops
        /\ CallStep(k, "attach", "undo")
        /\ UNCHANGED owed
  /\ mu' = NONE
  /\ UNCHANGED <<link, loop, cur, places, handler, acks, seen, garbled, acked>>

(* Mutant: the callback stays.                                             *)
EntryLeft(k) == acks
EntryUndone(k) == acks \ {<<TableOf(k), k>>}

(* The send has failed, and the call returns its error.                    *)
Undo(k) ==
  /\ CallStep(k, "undo", "failed")
  /\ acks' = EntryUndone(k)
  /\ UNCHANGED <<link, loop, cur, places, handler, wire, acked>>

-----------------------------------------------------------------------------
(* Answers.                                                                *)

(* The peer answers what it has been asked, as often as it likes, with the *)
(* kind of ACK it likes; a hasty one does not wait for the attachment.     *)
Answerable(k) == k \in seen /\ (call[k] = "sent" \/ "hasty" \in Ops)

(* Mutant: an answered callback stays for the next answer.                 *)
StillThere(kind, k) == acks
TakenOut(kind, k) == acks \ {<<kind, k>>}

(* dispatchAck and fireAck up to the callback.                             *)
ReadAnswer(k, kind) ==
  /\ loop = "read" /\ open /\ Answerable(k)
  /\ acks' = TakenOut(kind, k)
  /\ \/ <<kind, k>> \in acks /\ loop' = "callback" /\ cur' = k
     \/ <<kind, k>> \notin acks /\ UNCHANGED <<loop, cur>>
  /\ answered' = IF call[k] = "sent" /\ (kind = "binary" <=> k \in Binary)
                 THEN [answered EXCEPT ![k] = TRUE] ELSE answered
  /\ UNCHANGED <<link, places, handler, call, wire, fired>>

(* The callback runs in the loop.                                          *)
Callback ==
  /\ loop = "callback"
  /\ fired' = [fired EXCEPT ![cur] = @ + 1]
  /\ loop' = "read" /\ cur' = NONE
  /\ UNCHANGED <<link, places, handler, call, acks, wire, answered>>

-----------------------------------------------------------------------------
Life == Disconnect \/ TransportFails \/ Mark \/ Shut
Handle(e) == Return(e) \/ SendAck(e) \/ Release(e)
Emit(k) == SendText(k) \/ SendPart(k) \/ Undo(k)

Next ==
  \/ Life \/ LoopEnds \/ Acquire \/ Callback
  \/ \E e \in Event : ReadEvent(e) \/ Handle(e)
  \/ \E k \in Call : Register(k) \/ Emit(k) \/ \E kind \in Kind : ReadAnswer(k, kind)

Spec == Init /\ [][Next]_vars

(* Goroutines that can run are scheduled, and every handler returns but    *)
(* those that wait for answers: the peer need not answer, nor send.        *)
Fairness ==
  /\ WF_vars(Acquire) /\ WF_vars(Callback)
  /\ \A e \in Event : WF_vars(Handle(e))
  /\ \A k \in Call : WF_vars(Emit(k))

FairSpec == Spec /\ Fairness

-----------------------------------------------------------------------------
(* Properties.                                                             *)

(* Every variable has its type.                                            *)
TypeOK ==
  /\ open \in BOOLEAN /\ sclosed \in BOOLEAN /\ up \in BOOLEAN /\ gone \in BOOLEAN
  /\ loop \in {"read", "acquire", "callback", "gone"}
  /\ cur \in Event \cup Call \cup {NONE}
  /\ places \in 0 .. Max
  /\ handler \in [Event -> {"new", "read", "run", "ack", "release", "done", "dropped"}]
  /\ call \in [Call -> {"idle", "send", "attach", "undo", "sent", "failed"}]
  /\ acks \in SUBSET (Kind \X Call)
  /\ mu \in Call \cup {NONE}
  /\ owed \in Call \cup {NONE}
  /\ seen \in SUBSET Call
  /\ garbled \in BOOLEAN
  /\ answered \in [Call -> BOOLEAN]
  /\ fired \in [Call -> Nat]
  /\ loop = "acquire" <=> cur \in Event
  /\ loop = "callback" <=> cur \in Call

Alive == {e \in Event : handler[e] \in {"run", "ack", "release"}}

(* eventSem counts the handler goroutines exactly, whichever way an event  *)
(* ends, so that never more than MaxEventConcurrency run and no place is   *)
(* lost (TestEventConcurrencyLimit).                                       *)
PlacesExact == places = Cardinality(Alive) /\ places <= Max

(* An answer to a complete request finds its callback, and however often   *)
(* and with whatever kind of ACK the peer answers, it runs once.           *)
AnswersFireOnce ==
  \A k \in Call :
    /\ fired[k] <= 1
    /\ answered[k] => fired[k] = 1 \/ (loop = "callback" /\ cur = k)

(* Once EmitWithAck has returned an error its callback is not taken up     *)
(* any more, though the peer may know the id from the text part.           *)
FailedStaysQuiet ==
  [][\A k \in Call : call[k] = "failed" => ~(cur # k /\ cur' = k)]_vars

(* Nothing comes between the parts of a binary packet, whoever writes at   *)
(* the same time, as long as no attachment is refused.                     *)
PacketsWhole == "oversize" \notin Ops => ~garbled

(* The loop gets a place for every event in the end, though handlers may   *)
(* wait for answers that never come, if they are fewer than the places.    *)
LoopGoesOn == Cardinality(Waiting) < Max => (loop = "acquire" ~> loop = "read")
=============================================================================

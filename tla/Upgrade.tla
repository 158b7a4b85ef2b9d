------------------------------- MODULE Upgrade ------------------------------
(***************************************************************************)
(* The transports of one polling session (transport/transport.go): the     *)
(* upgrade to WebSocket, the heartbeats, and the session's end.            *)
(*                                                                         *)
(* The server's loop reads from whatever sessionConn.current is; a request *)
(* for a WebSocket probes, then replaces current and closes the transport  *)
(* that was there; every transport has a heartbeat of its own, which       *)
(* closes it.  The session begins accepted, so that its loop runs.  What   *)
(* the packets carry is left out.                                          *)
(***************************************************************************)
EXTENDS Naturals

CONSTANTS
  POLL,    \* the PollConn the session begins with
  WS,      \* WebSocket requests that carry its sid (a bound)
  Racy,    \* those whose heartbeat may start before the flag is cleared
  NONE,
  MayStop  \* the application calls server.Server.Close

ASSUME UpgradeAssumption ==
  /\ POLL \notin WS /\ NONE \notin WS \cup {POLL}
  /\ Racy \subseteq WS
  /\ MayStop \in BOOLEAN

Tr == {POLL} \cup WS

VARIABLES
  active,   \* Server.active has the session
  polled,   \* Server.pollSess has it
  current,  \* sessionConn.current
  sclosed,  \* sessionConn.closed
  down,     \* the transports that have been closed here
  left,     \* those the peer has ended
  req,      \* where each request is
  old,      \* the transport a request is replacing
  loop,     \* where the loop is in sessionConn.ReadMessage
  at,       \* the transport it reads from
  closer,   \* where sessionConn.Close is, called by teardownSession
  held,     \* the transport it is going to close
  beat,     \* where the heartbeat of each transport is
  pong,     \* pongCh, which has room for one
  silent,   \* the peer is dead: it sends nothing and closes nothing
  cut       \* history: the transports that an upgrade has closed

table == <<active, polled>>
sess  == <<current, sclosed>>
probe == <<req, old>>
rd    == <<loop, at>>
ends  == <<closer, held>>
hb    == <<beat, pong>>
peer  == <<left, silent>>
vars  == <<table, sess, down, probe, rd, ends, hb, peer, cut>>

Init ==
  /\ active = TRUE /\ polled = TRUE /\ current = POLL /\ sclosed = FALSE
  /\ down = {} /\ left = {} /\ silent = FALSE /\ cut = {}
  /\ req = [w \in WS |-> "new"] /\ old = [w \in WS |-> NONE]
  /\ loop = "look" /\ at = POLL
  /\ closer = "off" /\ held = NONE
  /\ beat = [t \in Tr |-> IF t = POLL THEN "wait" ELSE "off"]
  /\ pong = {}

ReqStep(w, l, m) == req[w] = l /\ req' = [req EXCEPT ![w] = m]
LoopStep(l, m) == loop = l /\ loop' = m
CloserStep(l, m) == closer = l /\ closer' = m
BeatStep(t, l, m) == beat[t] = l /\ beat' = [beat EXCEPT ![t] = m]

(* Closing a transport ends its heartbeat, which selects on c.closed.      *)
Closes(ts) ==
  /\ down' = ts
  /\ beat' = [t \in Tr |-> IF t \in ts THEN "off" ELSE beat[t]]
  /\ pong' = pong \ ts

(* s.mu, which an upgrade holds until the old transport is closed.         *)
MuFree == \A w \in WS : req[w] # "swapped"

-----------------------------------------------------------------------------
(* serveWebSocket for a request with a sid.                                *)

FindActive(w) ==
  /\ MuFree
  /\ ReqStep(w, "new", IF active THEN "known" ELSE "refused")
  /\ UNCHANGED <<table, sess, down, old, rd, ends, hb, peer, cut>>

(* Up to newProbeWSConn, which starts the heartbeat and then clears the    *)
(* flag it begins by reading, with no lock: it may run or not.             *)
FindPolled(w) ==
  /\ \/ /\ polled
        /\ ReqStep(w, "known", "probing")
        /\ \E b \in {"off"} \cup {"wait" : v \in Racy \cap {w}} : beat' = [beat EXCEPT ![w] = b]
     \/ ReqStep(w, "known", "refused") /\ UNCHANGED beat  \* or no hijack
  /\ UNCHANGED <<table, sess, down, old, rd, ends, pong, peer, cut>>

(* A read or a write fails, or the peer sends anything but a probe.        *)
ProbeFails(w) ==
  /\ ReqStep(w, "probing", "refused")
  /\ Closes(down \cup {w})
  /\ UNCHANGED <<table, sess, old, rd, ends, peer, cut>>

(* Mutant: current is read after it was set.                               *)
ReadLate(w) == w
Replaced(w) == current

(* sessionConn.upgrade, under s.mu: current changes, then the old one is   *)
(* closed outside the session's lock.                                      *)
Swap(w) ==
  /\ ~silent
  /\ ReqStep(w, "probing", "swapped")
  /\ old' = [old EXCEPT ![w] = Replaced(w)]
  /\ current' = w
  /\ MuFree
  /\ UNCHANGED <<table, sclosed, down, rd, ends, hb, peer, cut>>

(* Mutant: the old transport stays open.                                   *)
OldKept(w) == down
OldClosed(w) == down \cup {old[w]}

ShutOld(w) ==
  /\ ReqStep(w, "swapped", "switched")
  /\ Closes(OldClosed(w))
  /\ old' = [old EXCEPT ![w] = NONE]
  /\ cut' = IF old[w] \in down THEN cut ELSE cut \cup {old[w]}
  /\ UNCHANGED <<table, sess, rd, ends, peer>>

(* Mutant: the session stays in pollSess.                                  *)
StillPolled == polled
NotPolled == FALSE

Forget(w) ==
  /\ ReqStep(w, "switched", "upgraded")
  /\ polled' = NotPolled
  /\ UNCHANGED <<active, sess, down, old, rd, ends, hb, peer, cut>>

-----------------------------------------------------------------------------
(* sessionConn.ReadMessage in the loop.                                    *)

Look ==
  /\ LoopStep("look", "read")
  /\ at' = current
  /\ UNCHANGED <<table, sess, down, probe, ends, hb, peer, cut>>

(* A message: the session loop asks for the next one, or gives up on it.   *)
Message ==
  /\ ~silent
  /\ LoopStep("read", "look") \/ LoopStep("read", "kicked")
  /\ UNCHANGED <<table, sess, down, probe, at, ends, hb, peer, cut>>

ReadFails ==
  /\ at \in down \cup left
  /\ LoopStep("read", "failed")
  /\ UNCHANGED <<table, sess, down, probe, at, ends, hb, peer, cut>>

(* Mutant: the error is returned without another look at current.          *)
NeverChanged == FALSE
Changed == current # at

Recheck ==
  /\ LoopStep("failed", IF Changed THEN "look" ELSE "over")
  /\ UNCHANGED <<table, sess, down, probe, at, ends, hb, peer, cut>>

Over == loop \in {"over", "kicked"}

-----------------------------------------------------------------------------
(* sessionConn.Close.                                                      *)

(* teardownSession of the loop or of server.Server.Close, whichever is     *)
(* first.  (transport.Server.Close, which comes later, is in Admission.)   *)
TearDown ==
  /\ Over \/ MayStop
  /\ CloserStep("off", "take")
  /\ UNCHANGED <<table, sess, down, probe, rd, held, hb, peer, cut>>

Take ==
  /\ CloserStep("take", "shut")
  /\ held' = current
  /\ UNCHANGED <<table, sess, down, probe, rd, hb, peer, cut>>

Shut ==
  /\ CloserStep("shut", "mark")
  /\ Closes(down \cup {held})
  /\ held' = NONE
  /\ UNCHANGED <<table, sess, probe, rd, peer, cut>>

MarkClosed ==
  /\ CloserStep("mark", "remove")
  /\ sclosed' = TRUE
  /\ UNCHANGED <<table, current, down, probe, rd, held, hb, peer, cut>>

(* onClose: Remove, first under s.mu, then under pollMu.                   *)
Remove ==
  /\ CloserStep("remove", "unpoll")
  /\ MuFree
  /\ active' = FALSE
  /\ UNCHANGED <<polled, sess, down, probe, rd, held, hb, peer, cut>>

(* Mutant: the PollConn is closed and its entry stays.                     *)
EntryKept == polled
EntryGone == FALSE

Unpoll ==
  /\ CloserStep("unpoll", "done")
  /\ Closes(IF polled THEN down \cup {POLL} ELSE down)
  /\ polled' = EntryGone
  /\ UNCHANGED <<active, sess, probe, rd, held, peer, cut>>

-----------------------------------------------------------------------------
(* Heartbeats.                                                             *)

Tick(t) ==
  /\ BeatStep(t, "wait", "asked")
  /\ UNCHANGED <<table, sess, down, probe, rd, ends, pong, peer, cut>>

(* The PING cannot be written: the heartbeat ends.  PollConn.WriteText     *)
(* closes the connection when the peer fetches nothing, WSConn's does not. *)
TickFails(t) ==
  /\ t \in left \/ silent
  /\ beat[t] = "wait"
  /\ IF t = POLL
     THEN Closes(down \cup {t})
     ELSE BeatStep(t, "wait", "off") /\ UNCHANGED <<down, pong>>
  /\ UNCHANGED <<table, sess, probe, rd, ends, peer, cut>>

Answered(t) ==
  /\ t \in pong
  /\ BeatStep(t, "asked", "wait")
  /\ pong' = pong \ {t}
  /\ UNCHANGED <<table, sess, down, probe, rd, ends, peer, cut>>

(* Mutant: the heartbeat goes on and closes nothing.                       *)
TimerIgnored(t) == down
TimerClosed(t) == down \cup {t}

(* The timer fires before a PONG is read, however late that is.            *)
Timeout(t) ==
  /\ beat[t] = "asked"
  /\ Closes(TimerClosed(t))
  /\ UNCHANGED <<table, sess, probe, rd, ends, peer, cut>>

(* ReadMessage of the transport meets a PONG, asked for or not.  A full    *)
(* pongCh takes no more, and one without a heartbeat does not matter.      *)
ReadPong(t) ==
  /\ ~silent /\ t \notin left /\ beat[t] # "off"
  /\ (loop = "read" /\ at = t) \/ (t \in WS /\ req[t] = "probing")
  /\ pong' = pong \cup {t}
  /\ UNCHANGED <<table, sess, down, probe, rd, ends, beat, peer, cut>>

-----------------------------------------------------------------------------
(* The peer.                                                               *)

Opened == {POLL} \cup {w \in WS : req[w] \in {"swapped", "switched", "upgraded"}}

(* It ends a transport, by a close packet or by leaving.                   *)
Leave(t) ==
  /\ ~silent /\ t \in Opened \ down
  /\ left' = left \cup {t}
  /\ UNCHANGED <<table, sess, down, probe, rd, ends, hb, silent, cut>>

FallSilent ==
  /\ silent' = TRUE
  /\ UNCHANGED <<table, sess, down, probe, rd, ends, hb, left, cut>>

(* The PollConn is closed because the peer fetches too slowly or makes two *)
(* requests at once.                                                       *)
PollCut ==
  /\ polled
  /\ Closes(down \cup {POLL})
  /\ UNCHANGED <<table, sess, probe, rd, ends, peer, cut>>

-----------------------------------------------------------------------------
Request(w) == FindActive(w) \/ FindPolled(w) \/ ProbeFails(w) \/ Swap(w)
Switch(w) == ShutOld(w) \/ Forget(w)
Read == Look \/ ReadFails \/ Recheck
Close == Take \/ Shut \/ MarkClosed \/ Remove \/ Unpoll
Heartbeat(t) == Tick(t) \/ TickFails(t) \/ Answered(t) \/ Timeout(t)

Next ==
  \/ Read \/ Message \/ TearDown \/ Close \/ FallSilent \/ PollCut
  \/ \E w \in WS : Request(w) \/ Switch(w)
  \/ \E t \in Tr : Heartbeat(t) \/ ReadPong(t) \/ Leave(t)

Spec == Init /\ [][Next]_vars

(* Goroutines that can run are scheduled and timers fire; the peer and the *)
(* application need do nothing.                                            *)
Fairness ==
  /\ WF_vars(Read)
  /\ \A w \in WS : WF_vars(Switch(w))
  /\ \A t \in Tr : WF_vars(Heartbeat(t))

FairSpec == Spec /\ Fairness

-----------------------------------------------------------------------------
(* Properties.                                                             *)

(* Every variable has its type.                                            *)
TypeOK ==
  /\ active \in BOOLEAN /\ polled \in BOOLEAN /\ sclosed \in BOOLEAN /\ silent \in BOOLEAN
  /\ current \in Tr /\ at \in Tr
  /\ down \subseteq Tr /\ left \subseteq Tr /\ cut \subseteq Tr
  /\ pong \subseteq Tr
  /\ req \in [WS -> {"new", "known", "refused", "probing", "swapped",
                     "switched", "upgraded"}]
  /\ old \in [WS -> Tr \cup {NONE}]
  /\ loop \in {"look", "read", "failed", "over", "kicked"}
  /\ closer \in {"off", "take", "shut", "mark", "remove", "unpoll", "done"}
  /\ held \in Tr \cup {NONE}
  /\ beat \in [Tr -> {"off", "wait", "asked"}]
  /\ \A w \in WS : old[w] # NONE => old[w] # w

(* A session is never ended because an upgrade has closed the transport    *)
(* its loop was reading from, however the two interleave.                  *)
UpgradeKeepsSession ==
  [][loop # "over" /\ loop' = "over" => at \notin cut]_vars

Replacing(t) == \E w \in WS : req[w] = "swapped" /\ old[w] = t

(* However many upgrades a session sees, at once or in turn, of all its    *)
(* transports only the current one stays open, and no request finds the    *)
(* polling one in pollSess once the last upgrade has ended.                *)
OneTransport ==
  /\ \A t \in Opened \ down : t = current \/ Replacing(t)
  /\ polled /\ current # POLL => \E w \in WS : req[w] \in {"swapped", "switched"}

(* Once a session is closed, by its loop or by Server.Close, with an       *)
(* upgrade at any stage, no table has it and its PollConn is closed or     *)
(* about to be.                                                            *)
NothingLeft == closer = "done" => ~active /\ ~polled /\ (POLL \in down \/ Replacing(POLL))

(* The loop comes to read from the transport of the last upgrade, or ends. *)
TakesOver == loop = "read" /\ at # current ~> at = current \/ Over

(* A peer that is dead is found out by the heartbeat of its PollConn.      *)
SilentPollingReaped == silent /\ current = POLL ~> Over \/ current # POLL

(* "disconnect if no pong within this" (HOW_TO_USE.md:224): a dead peer is *)
(* found out.                                                              *)
SilentReaped == silent ~> Over
=============================================================================

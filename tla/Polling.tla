------------------------------ MODULE Polling -------------------------------
(***************************************************************************)
(* One long-polling session (transport/transport.go): the two queues of a  *)
(* PollConn, between the client's GETs and POSTs and the server's loop and *)
(* writers, up to the session's end or its upgrade.                        *)
(*                                                                         *)
(* A message is its number in the order of sendCh; a posted packet is      *)
(* <<POST, place in its body, length of the body>>, POSTs numbered as the  *)
(* client sends them.  What a packet is shows when the loop reads it.      *)
(***************************************************************************)
EXTENDS Naturals, Sequences, FiniteSets

CONSTANTS
  Get, Post,  \* the client's HTTP connections for GET and for POST
  Writer,     \* goroutines that write: the session's, its heartbeat, a probe
  Loop,       \* the session's loop, which answers a PING itself
  Cap,        \* the capacity of sendCh and recvCh
  Load,       \* how much a behaviour sees of what (bounds): records of the
              \* messages written, the POSTs sent and the packets of a POST
  NONE

ASSUME PollingAssumption ==
  /\ Cap \in Nat \ {0} /\ Load \subseteq [msgs : Nat, posts : Nat, body : Nat]
  /\ IsFiniteSet(Writer) /\ Loop \notin Writer
  /\ NONE \notin {"gate", "slow", "beat", "over", "upgrade"}

VARIABLES
  load,
  civil,     \* the client awaits each answer before it sends the like again
  closed,    \* what has closed the PollConn, NONE if nothing has
  upgraded,  \* sessionConn.current is a WebSocket
  polled,    \* Server.pollSess has the session
  get,       \* each GET: where it is, the message taken, whether its client has gone
  getInFlight,
  answered,  \* history: the last message a GET has answered with
  lost,      \* history: those answered to a client that had gone
  post,      \* each POST: where it is, the packets it has yet to hand over
  postInFlight,
  posted,    \* history: POSTs sent
  sendCh,
  writer,    \* where each writer is in PollConn.WriteText
  written,   \* history: messages that entered sendCh
  recvCh,
  loop,      \* where the loop is
  heard      \* history: the last packet it has read

conn  == <<load, civil, closed, upgraded, polled>>
gets  == <<get, getInFlight, answered, lost>>
posts == <<post, postInFlight, posted>>
out   == <<sendCh, writer, written>>
in    == <<recvCh, loop, heard>>
vars  == <<conn, gets, posts, out, in>>

IdleGet == [at |-> "idle", msg |-> 0, gone |-> FALSE]
IdlePost == [at |-> "idle", body |-> <<>>]
Writers == Writer \cup {Loop}

Init ==
  /\ load \in Load
  /\ civil \in BOOLEAN /\ closed = NONE /\ upgraded = FALSE /\ polled = TRUE
  /\ get = [g \in Get |-> IdleGet] /\ getInFlight = FALSE /\ answered = 0 /\ lost = {}
  /\ post = [p \in Post |-> IdlePost] /\ postInFlight = FALSE /\ posted = 0
  /\ sendCh = <<>> /\ writer = [w \in Writers |-> "idle"] /\ written = 0
  /\ recvCh = <<>> /\ loop = "read" /\ heard = <<0, 1, 1>>

GetStep(g, l, m) == get[g].at = l /\ get' = [get EXCEPT ![g].at = m]
PostStep(p, l, m) == post[p].at = l /\ post' = [post EXCEPT ![p].at = m]
WriterStep(w, l, m) == writer[w] = l /\ writer' = [writer EXCEPT ![w] = m]
LoopStep(l, m) == loop = l /\ loop' = m
Busy == {w \in Writers : writer[w] # "idle"}

(* PollConn.Close, which the first caller does.                            *)
CloseBy(why) ==
  /\ closed' = IF closed = NONE THEN why ELSE closed
  /\ UNCHANGED <<load, civil, upgraded, polled>>

-----------------------------------------------------------------------------
(* servePoll: a GET.                                                       *)

SendGet(g) ==
  /\ polled /\ load.msgs > 0
  /\ civil => \A h \in Get : get[h].at = "idle"
  /\ GetStep(g, "idle", "found")
  /\ UNCHANGED <<conn, getInFlight, answered, lost, posts, out, in>>

(* Mutant: the flag is stored, not compared.                               *)
GetAlways == TRUE
GetFree == ~getInFlight

EnterGet(g) ==
  /\ \/ GetFree /\ GetStep(g, "found", "wait") /\ getInFlight' = TRUE /\ UNCHANGED conn
     \/ ~GetFree /\ GetStep(g, "found", "idle") /\ CloseBy("gate") /\ UNCHANGED getInFlight
  /\ UNCHANGED <<answered, lost, posts, out, in>>

(* Mutant: a GET is woken by a writer and does not look at the queue.      *)
Woken == sendCh # <<>> /\ Busy # {}
Ready == sendCh # <<>>

TakeMessage(g) ==
  /\ get[g].at = "wait" /\ Ready
  /\ get' = [get EXCEPT ![g].at = "answer", ![g].msg = Head(sendCh)]
  /\ sendCh' = Tail(sendCh)
  /\ UNCHANGED <<conn, getInFlight, answered, lost, posts, writer, written, in>>

(* The handler returns: the flag is cleared, then the response leaves.     *)
(* That nobody is there to take it goes unnoticed.                         *)
Answer(g) ==
  /\ get[g].at = "answer"
  /\ IF get[g].gone
     THEN lost' = lost \cup {get[g].msg} /\ UNCHANGED answered
     ELSE answered' = get[g].msg /\ UNCHANGED lost
  /\ getInFlight' = FALSE
  /\ get' = [get EXCEPT ![g] = IdleGet]
  /\ UNCHANGED <<conn, posts, out, in>>

(* The select ends by c.closed or the request's context.                   *)
EndGet(g) ==
  /\ get[g].at = "wait" /\ (closed # NONE \/ get[g].gone)
  /\ getInFlight' = FALSE
  /\ get' = [get EXCEPT ![g] = IdleGet]
  /\ UNCHANGED <<conn, answered, lost, posts, out, in>>

GiveUp(g) ==
  /\ ~civil /\ get[g].at \in {"wait", "answer"}
  /\ get' = [get EXCEPT ![g].gone = TRUE]
  /\ UNCHANGED <<conn, getInFlight, answered, lost, posts, out, in>>

-----------------------------------------------------------------------------
(* servePoll: a POST.                                                      *)

SendPost(p) ==
  /\ polled /\ posted < load.posts
  /\ civil => \A q \in Post : post[q].at = "idle"
  /\ post[p].at = "idle"
  /\ posted' = posted + 1
  /\ \E n \in 1 .. load.body :
       post' = [post EXCEPT ![p] =
         [at |-> "found", body |-> [i \in 1 .. n |-> <<posted', i, n>>]]]
  /\ UNCHANGED <<conn, gets, postInFlight, out, in>>

(* Mutant: the flag is stored, not compared.                               *)
PostAlways == TRUE
PostFree == ~postInFlight

EnterPost(p) ==
  /\ \/ PostFree /\ PostStep(p, "found", "body") /\ postInFlight' = TRUE /\ UNCHANGED conn
     \/ /\ ~PostFree /\ post[p].at = "found"
        /\ post' = [post EXCEPT ![p] = IdlePost]
        /\ CloseBy("gate") /\ UNCHANGED postInFlight
  /\ UNCHANGED <<gets, posted, out, in>>

ReadBody(p) ==
  /\ PostStep(p, "body", "feed")
  /\ UNCHANGED <<conn, gets, postInFlight, posted, out, in>>

(* Mutant: a body that is refused leaves the flag set.                     *)
StillInFlight == postInFlight
NotInFlight == FALSE

(* A body that is too large or breaks off is dropped, and so is the rest   *)
(* of one when the session is closed.                                      *)
DropBody(p) ==
  /\ post[p].at = "body" \/ (post[p].at = "feed" /\ post[p].body # <<>> /\ closed # NONE)
  /\ post' = [post EXCEPT ![p] = IdlePost]
  /\ postInFlight' = NotInFlight
  /\ UNCHANGED <<conn, gets, posted, out, in>>

HandOver(p) ==
  /\ post[p].at = "feed" /\ post[p].body # <<>> /\ Len(recvCh) < Cap
  /\ recvCh' = Append(recvCh, Head(post[p].body))
  /\ post' = [post EXCEPT ![p].body = Tail(@)]
  /\ UNCHANGED <<conn, gets, postInFlight, posted, out, loop, heard>>

EndPost(p) ==
  /\ post[p].body = <<>> /\ PostStep(p, "feed", "idle")
  /\ postInFlight' = FALSE
  /\ UNCHANGED <<conn, gets, posted, out, in>>

-----------------------------------------------------------------------------
(* PollConn.WriteText.                                                     *)

(* The session writes here while this is its current transport; heartbeat  *)
(* and probe (a NOOP) hold the PollConn itself.                            *)
StartWrite(w) ==
  /\ written + Cardinality(Busy) < load.msgs
  /\ WriterStep(w, "idle", "write")
  /\ UNCHANGED <<conn, gets, posts, sendCh, written, in>>

(* With room and c.closed both ready, the select takes either.             *)
Write(w) ==
  /\ w \in Busy /\ writer' = [writer EXCEPT ![w] = "idle"]
  /\ \/ /\ Len(sendCh) < Cap
        /\ written' = written + 1
        /\ sendCh' = Append(sendCh, written')
     \/ closed # NONE /\ UNCHANGED <<sendCh, written>>
  /\ UNCHANGED <<conn, gets, posts, in>>

Block(w) ==
  /\ Len(sendCh) = Cap /\ closed = NONE
  /\ WriterStep(w, "write", "blocked")
  /\ UNCHANGED <<conn, gets, posts, sendCh, written, in>>

(* Mutant: there is no timer.                                              *)
NeverFires == FALSE
Fires == TRUE

WriteTimeout(w) ==
  /\ Fires
  /\ WriterStep(w, "blocked", "idle")
  /\ CloseBy("slow")
  /\ UNCHANGED <<gets, posts, sendCh, written, in>>

-----------------------------------------------------------------------------
(* The session's loop.                                                     *)

(* ReadMessage has failed: sessionConn goes on with a newer transport.     *)
Failed == IF upgraded THEN "websocket" ELSE "over"

(* The packet is a message, a PONG or a NOOP; a PING, which the loop       *)
(* answers; one that ends the session here or in handleSession.            *)
Read ==
  /\ loop = "read" /\ writer[Loop] = "idle" /\ recvCh # <<>>
  /\ heard' = Head(recvCh) /\ recvCh' = Tail(recvCh)
  /\ \/ UNCHANGED <<loop, writer>>
     \/ /\ written + Cardinality(Busy) < load.msgs
        /\ writer' = [writer EXCEPT ![Loop] = "write"] /\ UNCHANGED loop
     \/ loop' \in {"over", Failed} /\ UNCHANGED writer
  /\ UNCHANGED <<conn, gets, posts, sendCh, written>>

ReadClosed ==
  /\ closed # NONE /\ writer[Loop] = "idle"
  /\ LoopStep("read", Failed)
  /\ UNCHANGED <<conn, gets, posts, out, recvCh, heard>>

(* teardownSession: sessionConn.Close, then Server.Remove.                 *)
TearDown ==
  /\ \/ LoopStep("over", "closed") /\ CloseBy("over")
     \/ LoopStep("closed", "gone") /\ polled' = FALSE /\ UNCHANGED <<load, civil, closed, upgraded>>
  /\ UNCHANGED <<gets, posts, out, recvCh, heard>>

(* sessionConn.upgrade; then the request takes the session out of          *)
(* pollSess.  What the queues hold stays there.                            *)
Upgrade ==
  /\ polled /\ ~upgraded /\ upgraded' = TRUE
  /\ closed' = IF closed = NONE THEN "upgrade" ELSE closed
  /\ UNCHANGED <<load, civil, polled, gets, posts, out, in>>

Forget ==
  /\ upgraded /\ polled /\ polled' = FALSE
  /\ UNCHANGED <<load, civil, closed, upgraded, gets, posts, out, in>>

(* The heartbeat gets no PONG in time.                                     *)
Expire ==
  /\ closed = NONE /\ CloseBy("beat")
  /\ UNCHANGED <<gets, posts, out, in>>

-----------------------------------------------------------------------------
GetHandler(g) == EnterGet(g) \/ TakeMessage(g) \/ Answer(g) \/ EndGet(g)
PostHandler(p) == EnterPost(p) \/ ReadBody(p) \/ DropBody(p) \/ HandOver(p) \/ EndPost(p)
WriteText(w) == Write(w) \/ Block(w) \/ WriteTimeout(w)
Serve == Read \/ ReadClosed \/ TearDown

Next ==
  \/ \E g \in Get : SendGet(g) \/ GiveUp(g) \/ GetHandler(g)
  \/ \E p \in Post : SendPost(p) \/ PostHandler(p)
  \/ \E w \in Writers : WriteText(w)
  \/ \E w \in Writer : StartWrite(w)
  \/ Serve \/ Upgrade \/ Forget \/ Expire

Spec == Init /\ [][Next]_vars

(* Goroutines that can run are scheduled and timers fire.  A civil client  *)
(* keeps polling; no other is bound to, and none to end a request body.    *)
Fairness ==
  /\ \A g \in Get : WF_vars(GetHandler(g))
  /\ \A p \in Post : WF_vars(post[p].at # "body" /\ PostHandler(p))
  /\ \A w \in Writers : WF_vars(WriteText(w))
  /\ WF_vars(Serve) /\ WF_vars(Forget)
  /\ WF_vars(civil /\ \E g \in Get : SendGet(g))

FairSpec == Spec /\ Fairness

-----------------------------------------------------------------------------
(* Properties.                                                             *)

InSelect(g) == get[g].at \in {"wait", "answer"}
Feeding(p) == post[p].at \in {"body", "feed"}

(* A request in flight has the flag to itself, and the flag is set for no  *)
(* other reason: no exit of servePoll leaves it set or clears that of      *)
(* another request.                                                        *)
FlagsExact ==
  /\ getInFlight <=> \E g \in Get : InSelect(g)
  /\ postInFlight <=> \E p \in Post : Feeding(p)
  /\ \A g, h \in Get : InSelect(g) /\ InSelect(h) => g = h
  /\ \A p, q \in Post : Feeding(p) /\ Feeding(q) => p = q

Packet == Nat \X Nat \X Nat
GetState == [at : {"idle", "found", "wait", "answer"}, msg : Nat, gone : BOOLEAN]
PostState == [at : {"idle", "found", "body", "feed"}, body : Seq(Packet)]

TypesFit ==
  /\ load \in Load /\ civil \in BOOLEAN /\ upgraded \in BOOLEAN /\ polled \in BOOLEAN
  /\ closed \in {NONE, "gate", "slow", "beat", "over", "upgrade"}
  /\ get \in [Get -> GetState]
  /\ post \in [Post -> PostState]
  /\ writer \in [Writers -> {"idle", "write", "blocked"}]
  /\ loop \in {"read", "websocket", "over", "closed", "gone"}
  /\ getInFlight \in BOOLEAN /\ postInFlight \in BOOLEAN
  /\ answered \in Nat /\ lost \subseteq Nat /\ posted \in Nat /\ written \in Nat
  /\ sendCh \in Seq(Nat) /\ Len(sendCh) <= Cap
  /\ recvCh \in Seq(Packet) /\ Len(recvCh) <= Cap
  /\ heard \in Packet

(* Every variable has its type, no queue exceeds its capacity, and the     *)
(* flags in flight are exact: they let one request of each kind through.   *)
TypeOK == TypesFit /\ FlagsExact

(* The packets of a POST reach the loop together and in order, whatever    *)
(* other POSTs the client sends at the same time; those of a client that   *)
(* awaits its answers come POST by POST.                                   *)
PostsWhole ==
  LET seen == <<heard>> \o recvCh IN
  \A i \in 1 .. Len(recvCh) :
    LET a == seen[i]  b == seen[i + 1] IN
    IF a[1] = b[1] THEN b[2] = a[2] + 1
    ELSE b[2] = 1 /\ (a[2] = a[3] \/ closed # NONE) /\ (civil => a[1] < b[1])

(* Messages are answered in the order they were written, and none is       *)
(* skipped but those a client was not there to take.                       *)
AnsweredInOrder ==
  [][answered' # answered =>
       answered < answered' /\ (answered + 1) .. (answered' - 1) \subseteq lost]_vars

(* A client that takes turns is never closed for concurrent requests.      *)
TurnsAreSafe == civil => closed # "gate"

(* A writer, a POST with its body and the GETs of a closed session come to *)
(* an end, and the session is forgotten, though the client fetches nothing *)
(* (TestSlowPoll_WriteTimeoutDoesNotBlockBroadcast).                       *)
NobodyWaits ==
  /\ \A w \in Writers : writer[w] # "idle" ~> writer[w] = "idle"
  /\ \A p \in Post : post[p].at = "feed" ~> post[p].at = "idle"
  /\ closed # NONE ~> ~polled /\ \A g \in Get : get[g].at = "idle"

(* A client that keeps polling and takes turns gets every message, unless  *)
(* its session is closed or upgraded.                                      *)
Fetched ==
  \A m \in UNION {1 .. l.msgs : l \in Load} :
    civil /\ written >= m ~> answered >= m \/ closed # NONE
=============================================================================

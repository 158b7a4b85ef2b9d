----------------------------- MODULE Admission ------------------------------
(***************************************************************************)
(* How transport.Server (transport/transport.go) lets sessions in and      *)
(* forgets them: connection slots, the tables of active and of polling     *)
(* sessions, the channel to Accept, and Close.                             *)
(*                                                                         *)
(* A request that opens a session stands for that session.  Three          *)
(* goroutines may close it: the HTTP handler that made it, the server loop *)
(* that Accept gave it to, and Server.Close.  A step is one critical       *)
(* section of s.mu or s.pollMu, one channel operation or one atomic.       *)
(***************************************************************************)
EXTENDS Naturals, FiniteSets

CONSTANTS
  Req,       \* requests that open a session (a bound)
  IP,        \* remote addresses
  MaxConn,   \* Options.MaxConnections, 0 for no limit
  MaxPerIP,  \* Options.MaxConnectionsPerIP, 0 for no limit
  QueueCap,  \* the capacity of connCh
  MayClose   \* the application calls Server.Close

ASSUME AdmissionAssumption ==
  /\ IsFiniteSet(Req)
  /\ MaxConn \in Nat /\ MaxPerIP \in Nat /\ QueueCap \in Nat \ {0}
  /\ MayClose \in BOOLEAN

Http == "http"   \* serveWebSocket or servePoll
Loop == "loop"   \* handleSession, which owns an accepted session
Stop == "stop"   \* Server.Close
Role == {Http, Loop, Stop}

VARIABLES
  ip,        \* the address a request comes from
  kind,      \* "ws" or "poll"
  active,    \* Server.active
  ipCount,   \* Server.ipCount, 0 for an absent key
  pollSess,  \* Server.pollSess
  queue,     \* connCh: the sessions waiting for Accept
  down,      \* Server.closed is closed
  sclosed,   \* sessionConn.closed
  pc,        \* pc[g][r]: where goroutine g is with session r
  closing,   \* the stage of Server.Close
  snapshot,  \* the sessions Server.Close has yet to close
  raced      \* history: requests that got a slot while another was on its way

vars == <<ip, kind, active, ipCount, pollSess, queue, down, sclosed, pc, closing, snapshot,
          raced>>
fixed == <<ip, kind, raced>>
stop == <<closing, snapshot>>

(* The last two stages repeat Remove: deliver's sess.Close() is followed   *)
(* by a Remove of its own.                                                 *)
PCs == {"off", "slot", "polled", "deliver", "own", "close", "remove", "unpoll",
        "removeAgain", "unpollAgain", "done"}

Init ==
  /\ ip \in [Req -> IP] /\ kind \in [Req -> {"ws", "poll"}]
  /\ active = {} /\ pollSess = {} /\ queue = {} /\ snapshot = {} /\ raced = {}
  /\ ipCount = [i \in IP |-> 0]
  /\ down = FALSE
  /\ sclosed = [r \in Req |-> FALSE]
  /\ pc = [g \in Role |-> [r \in Req |-> "off"]]
  /\ closing = "off"

At(g, r, l) == pc[g][r] = l
Goto(g, r, l) == pc' = [pc EXCEPT ![g][r] = l]
Step(g, r, l, m) == At(g, r, l) /\ Goto(g, r, m)

-----------------------------------------------------------------------------
(* Opening a session.                                                      *)

IPHasRoom(i) == MaxPerIP = 0 \/ ipCount[i] < MaxPerIP

(* Mutant: the sessions are compared off by one.                           *)
HasRoomForMore == MaxConn = 0 \/ Cardinality(active) <= MaxConn
HasRoom == MaxConn = 0 \/ Cardinality(active) < MaxConn

(* A slot was taken, and the session is not active yet.                    *)
OnItsWay(r) == pc[Http][r] \in {"slot", "polled"}

(* acquireConnSlot.  The slot of an address is taken here; that a session  *)
(* counts against MaxConnections shows only when it becomes active.        *)
Acquire(r) ==
  /\ HasRoom /\ IPHasRoom(ip[r])
  /\ Step(Http, r, "off", "slot")
  /\ ipCount' = [ipCount EXCEPT ![ip[r]] = @ + 1]
  /\ raced' = IF \E q \in Req : OnItsWay(q) THEN raced \cup {r} ELSE raced
  /\ UNCHANGED <<ip, kind, active, pollSess, queue, down, sclosed, stop>>

Refuse(r) ==
  /\ ~HasRoom \/ ~IPHasRoom(ip[r])
  /\ Step(Http, r, "off", "done")
  /\ UNCHANGED <<fixed, active, ipCount, pollSess, queue, down, sclosed, stop>>

(* One less, and no entry for none.  Mutant: no care is taken of an        *)
(* address without an entry.                                               *)
NotFloored(i) == [ipCount EXCEPT ![i] = @ - 1]
GivenBack(i) == [ipCount EXCEPT ![i] = IF @ > 1 THEN @ - 1 ELSE 0]

(* releaseConnSlot: hijack, handshake or open packet failed.               *)
Abort(r) ==
  /\ kind[r] = "ws"
  /\ Step(Http, r, "slot", "done")
  /\ ipCount' = GivenBack(ip[r])
  /\ UNCHANGED <<fixed, active, pollSess, queue, down, sclosed, stop>>

(* Mutant: the next poll is not told of the session.                       *)
NotPolled(r) == pollSess
Polled(r) == pollSess \cup {r}

InsertPoll(r) ==
  /\ kind[r] = "poll"
  /\ Step(Http, r, "slot", "polled")
  /\ pollSess' = Polled(r)
  /\ UNCHANGED <<fixed, active, ipCount, queue, down, sclosed, stop>>

InsertActive(r) ==
  /\ Step(Http, r, IF kind[r] = "ws" THEN "slot" ELSE "polled", "deliver")
  /\ active' = active \cup {r}
  /\ UNCHANGED <<fixed, ipCount, pollSess, queue, down, sclosed, stop>>

(* Mutant: one place in the channel is not used.                           *)
QueueHasSpare == Cardinality(queue) + 1 < QueueCap
QueueHasRoom == Cardinality(queue) < QueueCap

(* The select of serveWebSocket and servePoll: either case that is ready.  *)
Deliver(r) ==
  \/ /\ QueueHasRoom
     /\ Step(Http, r, "deliver", "done")
     /\ queue' = queue \cup {r}
     /\ UNCHANGED <<fixed, active, ipCount, pollSess, down, sclosed, stop>>
  \/ /\ down
     /\ Step(Http, r, "deliver", "close")
     /\ UNCHANGED <<fixed, active, ipCount, pollSess, queue, down, sclosed, stop>>

(* Accept hands the session to a loop.  Order in the channel is left out.  *)
(* Once the server is closed Accept fails, or still takes one by chance.   *)
Accept(r) ==
  /\ r \in queue
  /\ Step(Loop, r, "off", "own")
  /\ queue' = queue \ {r}
  /\ UNCHANGED <<fixed, active, ipCount, pollSess, down, sclosed, stop>>

-----------------------------------------------------------------------------
(* Closing a session.                                                      *)

(* The loop is done with the session: peer gone, or torn down.             *)
LeaveLoop(r) ==
  /\ Step(Loop, r, "own", "close")
  /\ UNCHANGED <<fixed, active, ipCount, pollSess, queue, down, sclosed, stop>>

AfterClose(g) == IF g = Http THEN "removeAgain" ELSE "done"

(* sessionConn.Close: whoever sets closed calls onClose, which is Remove.  *)
CloseSession(g, r) ==
  /\ At(g, r, "close")
  /\ Goto(g, r, IF sclosed[r] THEN AfterClose(g) ELSE "remove")
  /\ sclosed' = [sclosed EXCEPT ![r] = TRUE]
  /\ UNCHANGED <<fixed, active, ipCount, pollSess, queue, down, stop>>

(* Mutant: a slot is given back for a session that is not active any more. *)
AlwaysCounted(r) == TRUE
StillCounted(r) == r \in active

(* Mutant: the session stays.                                              *)
NotRemoved(r) == active
Removed(r) == active \ {r}

(* Remove under s.mu.                                                      *)
Remove(g, r) ==
  /\ \/ Step(g, r, "remove", "unpoll")
     \/ Step(g, r, "removeAgain", "unpollAgain")
  /\ active' = Removed(r)
  /\ ipCount' = IF StillCounted(r) THEN GivenBack(ip[r]) ELSE ipCount
  /\ UNCHANGED <<fixed, pollSess, queue, down, sclosed, stop>>

(* Remove under s.pollMu.                                                  *)
Unpoll(g, r) ==
  /\ \/ Step(g, r, "unpoll", AfterClose(g))
     \/ Step(g, r, "unpollAgain", "done")
  /\ pollSess' = pollSess \ {r}
  /\ UNCHANGED <<fixed, active, ipCount, queue, down, sclosed, stop>>

-----------------------------------------------------------------------------
(* Server.Close, once.                                                     *)

CloseDown ==
  /\ MayClose /\ closing = "off"
  /\ down' = TRUE
  /\ closing' = "reset"
  /\ UNCHANGED <<fixed, active, ipCount, pollSess, queue, sclosed, pc, snapshot>>

ResetTables ==
  /\ closing = "reset"
  /\ snapshot' = active
  /\ active' = {}
  /\ ipCount' = [i \in IP |-> 0]
  /\ closing' = "each"
  /\ UNCHANGED <<fixed, pollSess, queue, down, sclosed, pc>>

CloseNext ==
  /\ closing = "each" /\ \A r \in Req : pc[Stop][r] \in {"off", "done"}
  /\ \/ \E r \in snapshot :
          /\ snapshot' = snapshot \ {r}
          /\ Goto(Stop, r, "close")
          /\ UNCHANGED <<pollSess, closing>>
     \/ /\ snapshot = {}
        /\ pollSess' = {}
        /\ closing' = "done"
        /\ UNCHANGED <<pc, snapshot>>
  /\ UNCHANGED <<fixed, active, ipCount, queue, down, sclosed>>

-----------------------------------------------------------------------------
Handler(r) == Abort(r) \/ InsertPoll(r) \/ InsertActive(r) \/ Deliver(r)
Closer(g, r) == CloseSession(g, r) \/ Remove(g, r) \/ Unpoll(g, r)
CloseServer == CloseDown \/ ResetTables \/ CloseNext

Next ==
  \/ \E r \in Req :
       \/ Acquire(r) \/ Refuse(r) \/ Handler(r) \/ Accept(r) \/ LeaveLoop(r)
       \/ \E g \in Role : Closer(g, r)
  \/ CloseServer

Spec == Init /\ [][Next]_vars

(* Goroutines that can run are scheduled, and until the server is closed   *)
(* the goroutine of Serve keeps accepting; connCh is first in, first out,  *)
(* so no queued session is passed over for ever.  Arrivals, departures and *)
(* the call of Server.Close are not fair.                                  *)
Fairness ==
  /\ \A r \in Req :
       /\ WF_vars(Handler(r)) /\ SF_vars(Deliver(r))
       /\ WF_vars(~down /\ Accept(r))
       /\ \A g \in Role : WF_vars(Closer(g, r))
  /\ WF_vars(ResetTables \/ CloseNext)

FairSpec == Spec /\ Fairness

-----------------------------------------------------------------------------
(* Properties.                                                             *)

(* The session is active, or its handler has a slot and goes on to make it *)
(* active.                                                                 *)
HoldsSlot(r) == r \in active \/ OnItsWay(r)
Holders(i) == {r \in Req : ip[r] = i /\ HoldsSlot(r)}

(* Server.Close has thrown the counters away.                              *)
Reset == closing \in {"each", "done"}

(* Every variable has its type.                                            *)
TypeOK ==
  /\ ip \in [Req -> IP]
  /\ kind \in [Req -> {"ws", "poll"}]
  /\ active \in SUBSET Req
  /\ ipCount \in [IP -> Nat]
  /\ pollSess \in SUBSET Req
  /\ queue \in SUBSET Req
  /\ down \in BOOLEAN
  /\ sclosed \in [Req -> BOOLEAN]
  /\ pc \in [Role -> [Req -> PCs]]
  /\ closing \in {"off", "reset", "each", "done"}
  /\ snapshot \in SUBSET Req
  /\ raced \in SUBSET Req

(* ipCount is exact: one for each session that is active or about to be,   *)
(* however often and by whomever sessions are closed and removed.  A slot  *)
(* given back twice lets an address past its limit, one never given back   *)
(* locks it out.  After Server.Close it may lag behind but never run       *)
(* ahead: no address is refused for sessions that are gone.                *)
SlotsExact ==
  \A i \in IP : LET n == Cardinality(Holders(i)) IN
    IF Reset THEN ipCount[i] <= n ELSE ipCount[i] = n

(* MaxConnectionsPerIP holds for sessions and requests on their way, with  *)
(* any number of requests at once.  MaxConnections holds but for sessions  *)
(* whose request raced another: it is compared with the active ones only.  *)
LimitsKept ==
  /\ MaxPerIP # 0 /\ ~Reset => \A i \in IP : Cardinality(Holders(i)) <= MaxPerIP
  /\ MaxConn # 0 => Cardinality(active \ raced) <= MaxConn

(* A session in flight to Accept is still open, active and, if polling, to *)
(* be found by the next poll: nobody removes it before its loop has it.    *)
(* A loop that has finished closing its session leaves no trace of it in   *)
(* active, even where Server.Close won the race to close it.               *)
RegistryExact ==
  \A r \in Req :
    /\ r \in queue /\ ~down =>
         ~sclosed[r] /\ r \in active /\ (kind[r] = "poll" => r \in pollSess)
    /\ At(Loop, r, "done") =>
         sclosed[r] /\ r \notin active /\ (~down => r \notin pollSess)

(* A request that got a slot gives it back in the end or opens a session   *)
(* that a loop takes, as long as the server is not closed.                 *)
AdmittedIsServed ==
  \A r \in Req :
    At(Http, r, "slot") ~> (~HoldsSlot(r) \/ ~At(Loop, r, "off") \/ down)

(* A session its loop gives up on frees its slot and its table entries.    *)
ClosedFreesSlot ==
  \A r \in Req : At(Loop, r, "close") ~> (~HoldsSlot(r) /\ r \notin pollSess)
=============================================================================

------------------------------ MODULE Sessions ------------------------------
(***************************************************************************)
(* The life cycle of sessions and connections in server/server.go.         *)
(*                                                                         *)
(* A session (engineSession) is one transport; a connection (conn) is one  *)
(* namespace opened over a session.  Three kinds of goroutine change the   *)
(* tables that say who is connected:                                       *)
(*   - the loop of a session (handleSession), which connects, disconnects  *)
(*     and in the end tears the session down;                              *)
(*   - an application goroutine that calls Close on a connection;          *)
(*   - the one call of Server.Close that wins its CompareAndSwap.          *)
(* They are the actors below: a session stands for its loop, a connection  *)
(* for its closer, Shutdown for Server.Close.  A step is what happens      *)
(* between two points where another goroutine can get in, so one critical  *)
(* section (sessionMu, connsMu, roomMu, the rooms lock) or one atomic.     *)
(***************************************************************************)
EXTENDS Integers, FiniteSets

CONSTANTS
  Session,   \* transports handed over by transport.Server
  NS,        \* namespaces the application registered handlers for
  Conn,      \* the connections a behaviour may create (a bound)
  Shutdown,  \* the actor of Server.Close
  NONE,
  UserOps    \* what the application does, beside handling events

ASSUME SessionsAssumption ==
  /\ Session \cap Conn = {}
  /\ Shutdown \notin Session \cup Conn
  /\ NONE \notin Session \cup Conn \cup NS \cup {Shutdown}
  /\ UserOps \subseteq {"close", "join", "joinInConnect", "reject", "shutdown"}
  /\ IsFiniteSet(Conn)

Actor == Session \cup Conn \cup {Shutdown}

VARIABLES
  up,          \* up[s]: the transport of s works (until closed or lost)
  sclosed,     \* engineSession.closed
  greeted,     \* connectedAny of the loop: a CONNECT has been read
  registered,  \* the keys of Server.sessions
  table,       \* Server.sessions[s]: namespace -> connection
  conns,       \* Server.conns
  count,       \* Server.connCount
  sess, nsp,   \* conn.session and conn.ns, NONE before newConn
  once,        \* conn.closeOnce has been used
  joined,      \* conn.joined holds the room
  member,      \* the namespace's rooms.Manager holds the connection
  adding,      \* a Join of the connection is between its two halves
  known,       \* the application has been handed the connection
  serving,     \* the goroutine of Serve is still accepting
  victims,     \* the sessions Server.Close has yet to tear down
  wedged,      \* sessionMu is held for ever (see Connect)
  pc,          \* where each actor is
  tgt,         \* the connection the actor is working on
  job,         \* the session the actor is tearing down
  todo,        \* the connections of that session it has yet to finish
  disc,        \* history: how often OnDisconnect has run for a connection
  rejected     \* history: OnConnect refused the connection

net    == <<up, sclosed>>
ids    == <<sess, nsp>>
listed == <<conns, count>>
dir    == <<greeted, registered, table, listed, ids>>
room   == <<joined, member, adding>>
app    == <<once, known, rejected>>
srv    == <<serving, victims, wedged>>
sweep  == <<job, todo>>
rest   == <<room, app, srv, sweep>>
vars   == <<net, dir, rest, pc, tgt, disc>>

-----------------------------------------------------------------------------
(* Program counters.  Finale is the finale that disconnectNamespace,       *)
(* removeConn and teardownSession share.                                   *)

Finale   == {"leave", "unjoin", "drop", "dec", "notify"}
Closing  == {"closeLeave", "closeUnjoin", "unclaim"}
Teardown == {"claim", "sweep", "mark", "shut"}
PCs == Finale \cup Closing \cup Teardown \cup
       {"queued", "register", "read", "publish", "count", "reply", "onconnect",
        "stuck", "idle", "next", "stop", "done"}

Init ==
  /\ up = [s \in Session |-> TRUE]
  /\ sclosed = [s \in Session |-> FALSE] /\ greeted = sclosed
  /\ registered = {} /\ conns = {} /\ victims = {} /\ count = 0
  /\ table = [s \in Session |-> [n \in NS |-> NONE]]
  /\ sess = [c \in Conn |-> NONE] /\ nsp = sess
  /\ once = [c \in Conn |-> FALSE] /\ known = once /\ rejected = once
  /\ joined = once /\ member = once /\ adding = once
  /\ serving = TRUE /\ wedged = FALSE
  /\ pc = [a \in Actor |-> IF a \in Session THEN "queued" ELSE "idle"]
  /\ tgt = [a \in Actor |-> NONE] /\ job = tgt
  /\ todo = [a \in Actor |-> {}]
  /\ disc = [c \in Conn |-> 0]

At(a, l) == pc[a] = l
Goto(a, l) == pc' = [pc EXCEPT ![a] = l]
Step(a, l, m) == At(a, l) /\ Goto(a, m)

(* Mutant: connectNamespace does not return after its c.Close().           *)
AfterWithoutReturn(a) ==
  IF job[a] # NONE THEN "sweep"
  ELSE IF a \notin Session THEN "done"
  ELSE IF once[tgt[a]] THEN "onconnect" ELSE "read"

(* Where an actor goes when a connection is finished: a teardown takes the *)
(* next one, a loop reads on, a closer is done.                            *)
After(a) == IF job[a] # NONE THEN "sweep" ELSE IF a \in Session THEN "read" ELSE "done"

-----------------------------------------------------------------------------
(* The transport and the application.                                      *)

(* The peer goes away, or a heartbeat or a write error closes the          *)
(* transport: ReadMessage will fail.                                       *)
TransportFails(s) ==
  /\ up[s]
  /\ up' = [up EXCEPT ![s] = FALSE]
  /\ UNCHANGED <<sclosed, dir, rest, pc, tgt, disc>>

(* When the application calls Join for c: whenever it knows c ("join"), or *)
(* only inside OnConnect ("joinInConnect").                                *)
MayJoin(c) ==
  /\ known[c]
  /\ \/ "join" \in UserOps
     \/ "joinInConnect" \in UserOps /\ \E s \in Session : At(s, "onconnect") /\ tgt[s] = c

(* conn.Join, first half: roomMu. A connection that already has the room   *)
(* is left alone.                                                          *)
JoinStart(c) ==
  /\ MayJoin(c) /\ ~adding[c] /\ ~joined[c]
  /\ joined' = [joined EXCEPT ![c] = TRUE]
  /\ adding' = [adding EXCEPT ![c] = TRUE]
  /\ UNCHANGED <<net, dir, member, app, srv, sweep, pc, tgt, disc>>

(* conn.Join, second half: rooms.Manager.Join.                             *)
JoinAdd(c) ==
  /\ adding[c]
  /\ adding' = [adding EXCEPT ![c] = FALSE]
  /\ member' = [member EXCEPT ![c] = TRUE]
  /\ UNCHANGED <<net, dir, joined, app, srv, sweep, pc, tgt, disc>>

-----------------------------------------------------------------------------
(* The loop of a session.                                                  *)

(* Serve: Accept returns the session, `go handleSession`.                  *)
Accept(s) ==
  /\ serving
  /\ Step(s, "queued", "register")
  /\ UNCHANGED <<net, dir, rest, tgt, disc>>

(* Serve: Accept notices that the transport server is closed.  Its select  *)
(* picks at random while sessions are queued too.                          *)
ServeReturns ==
  /\ serving /\ At(Shutdown, "done")
  /\ serving' = FALSE
  /\ UNCHANGED <<net, dir, room, app, victims, wedged, sweep, pc, tgt, disc>>

Register(s) ==
  /\ ~wedged
  /\ Step(s, "register", "read")
  /\ registered' = registered \cup {s}
  /\ UNCHANGED <<net, greeted, table, listed, ids, rest, tgt, disc>>

(* ReadMessage fails, or the loop returns over a packet it will not take:  *)
(* undecodable, binary without a header, too many attachments, anything    *)
(* but CONNECT as the first.  The deferred teardownSession runs.           *)
LoopReturns(s) ==
  /\ Step(s, "read", "claim")
  /\ job' = [job EXCEPT ![s] = s]
  /\ UNCHANGED <<net, dir, room, app, srv, todo, tgt, disc>>

(* A CONNECT for a namespace without handlers is answered CONNECT_ERROR.   *)
ConnectUnknown(s) ==
  /\ At(s, "read") /\ ~greeted[s]
  /\ greeted' = [greeted EXCEPT ![s] = TRUE]
  /\ UNCHANGED <<net, registered, table, listed, ids, rest, pc, tgt, disc>>

(* Another goroutine has torn the session down while its loop goes on.     *)
(* Mutant: the map is made anew instead.                                   *)
NeverTorn(s) == FALSE
Torn(s) == s \notin registered

(* connectNamespace under sessionMu.  The packet may have been read before *)
(* the transport closed: input is buffered.  If Server.Close has removed   *)
(* the session meanwhile, sessions[sess][ns] = c writes to a nil map; the  *)
(* panic runs the deferred teardownSession, which waits for the sessionMu  *)
(* this goroutine still holds.                                             *)
Connect(s, n) ==
  /\ At(s, "read") /\ ~wedged
  /\ greeted' = [greeted EXCEPT ![s] = TRUE]
  /\ \/ /\ Torn(s)
        /\ Goto(s, "stuck")
        /\ wedged' = TRUE
        /\ UNCHANGED <<table, sess, nsp, tgt>>
     \/ /\ ~Torn(s) /\ table[s][n] # NONE
        /\ UNCHANGED <<table, sess, nsp, wedged, pc, tgt>>
     \/ /\ ~Torn(s) /\ table[s][n] = NONE
        /\ \E c \in Conn :
             /\ sess[c] = NONE
             /\ sess' = [sess EXCEPT ![c] = s]
             /\ nsp' = [nsp EXCEPT ![c] = n]
             /\ table' = [table EXCEPT ![s][n] = c]
             /\ tgt' = [tgt EXCEPT ![s] = c]
        /\ Goto(s, "publish")
        /\ UNCHANGED wedged
  /\ UNCHANGED <<net, registered, listed, room, app, serving, victims, sweep, disc>>

Publish(s) ==
  /\ Step(s, "publish", "count")
  /\ conns' = conns \cup {tgt[s]}
  /\ UNCHANGED <<net, greeted, registered, table, count, ids, rest, tgt, disc>>

CountUp(s) ==
  /\ Step(s, "count", "reply")
  /\ count' = count + 1
  /\ UNCHANGED <<net, greeted, registered, table, conns, ids, rest, tgt, disc>>

(* The CONNECT reply.  send fails on a closed session and may fail on a    *)
(* broken transport; then connectNamespace closes the connection itself,   *)
(* or waits in closeOnce for an application that got hold of it (from      *)
(* OnDisconnect) and closes it already.                                    *)
Reply(s) ==
  LET c == tgt[s] IN
  /\ At(s, "reply")
  /\ \/ /\ ~sclosed[s]
        /\ Goto(s, "onconnect")
        /\ known' = [known EXCEPT ![c] = TRUE]
        /\ UNCHANGED once
     \/ /\ sclosed[s] \/ ~up[s]
        /\ \/ ~once[c] /\ Goto(s, "closeLeave")
           \/ At(c, "done") /\ Goto(s, "read")
        /\ once' = [once EXCEPT ![c] = TRUE]
        /\ UNCHANGED known
  /\ UNCHANGED <<net, dir, room, rejected, srv, sweep, tgt, disc>>

(* OnConnect returns: accepted, or refused, which calls removeConn.        *)
OnConnect(s) ==
  /\ At(s, "onconnect")
  /\ "joinInConnect" \in UserOps => ~adding[tgt[s]]
  /\ \/ Goto(s, "read") /\ UNCHANGED rejected
     \/ /\ "reject" \in UserOps
        /\ rejected' = [rejected EXCEPT ![tgt[s]] = TRUE]
        /\ Goto(s, "unclaim")
  /\ UNCHANGED <<net, dir, room, once, known, srv, sweep, tgt, disc>>

(* delete(s.sessions[sess], ns).  Mutant: the entry stays.                 *)
EntryKept(s, n) == table
EntryTaken(s, n) == [table EXCEPT ![s][n] = NONE]

(* Mutant: no check that the namespace is connected.                       *)
AnyEntry(c) == TRUE
HasEntry(c) == c # NONE

(* A DISCONNECT packet: disconnectNamespace takes the table entry.         *)
Disconnect(s, n) ==
  LET c == table[s][n] IN
  /\ At(s, "read") /\ greeted[s] /\ ~wedged
  /\ HasEntry(c)
  /\ table' = EntryTaken(s, n)
  /\ tgt' = [tgt EXCEPT ![s] = c]
  /\ Goto(s, "leave")
  /\ UNCHANGED <<net, greeted, registered, listed, ids, rest, disc>>

-----------------------------------------------------------------------------
(* conn.Close up to its call of removeConn.  closeOnce lets one call in.   *)

CloseCall(c) ==
  /\ "close" \in UserOps
  /\ known[c] /\ ~once[c]
  /\ once' = [once EXCEPT ![c] = TRUE]
  /\ tgt' = [tgt EXCEPT ![c] = c]
  /\ Step(c, "idle", "closeLeave")
  /\ UNCHANGED <<net, dir, room, known, rejected, srv, sweep, disc>>

(* The table without c's entry, if the session still has one and it is     *)
(* still c's.  Mutants: whoever's it is; and not at all.                   *)
PlaceFreed(c) == [table EXCEPT ![sess[c]][nsp[c]] = NONE]
NothingFreed(c) == table
EntryFreed(c) ==
  IF sess[c] \in registered /\ table[sess[c]][nsp[c]] = c
  THEN [table EXCEPT ![sess[c]][nsp[c]] = NONE]
  ELSE table

(* removeConn under sessionMu: whether it found its entry or not, it goes  *)
(* on.                                                                     *)
Unclaim(a) ==
  /\ ~wedged
  /\ Step(a, "unclaim", "leave")
  /\ table' = EntryFreed(tgt[a])
  /\ UNCHANGED <<net, greeted, registered, listed, ids, rest, tgt, disc>>

-----------------------------------------------------------------------------
(* What every way of losing a connection ends with.                        *)

(* Mutant: only conn.joined is reset.                                      *)
RoomsKept(c) == member
RoomsLeft(c) == [member EXCEPT ![c] = FALSE]

(* conn.leaveAll, first half: rooms.Manager.LeaveAll.                      *)
LeaveRooms(a) ==
  /\ \/ Step(a, "leave", "unjoin")
     \/ Step(a, "closeLeave", "closeUnjoin")
  /\ member' = RoomsLeft(tgt[a])
  /\ UNCHANGED <<net, dir, joined, adding, app, srv, sweep, tgt, disc>>

(* What Close does after DISCONNECT is sent.  Mutant: it leaves the rest   *)
(* to the transport.                                                       *)
CloseOnlySends == "done"
CloseGoesOn == "unclaim"

(* conn.leaveAll, second half: roomMu.  Close then sends DISCONNECT.       *)
Unjoin(a) ==
  /\ \/ Step(a, "unjoin", "drop")
     \/ Step(a, "closeUnjoin", CloseGoesOn)
  /\ joined' = [joined EXCEPT ![tgt[a]] = FALSE]
  /\ UNCHANGED <<net, dir, member, adding, app, srv, sweep, tgt, disc>>

Drop(a) ==
  /\ Step(a, "drop", "dec")
  /\ conns' = conns \ {tgt[a]}
  /\ UNCHANGED <<net, greeted, registered, table, count, ids, rest, tgt, disc>>

CountDown(a) ==
  /\ Step(a, "dec", "notify")
  /\ count' = count - 1
  /\ UNCHANGED <<net, greeted, registered, table, conns, ids, rest, tgt, disc>>

(* OnDisconnect runs, and with it the application learns of c.             *)
Notify(a) ==
  LET c == tgt[a] IN
  /\ Step(a, "notify", After(a))
  /\ disc' = [disc EXCEPT ![c] = @ + 1]
  /\ known' = [known EXCEPT ![c] = TRUE]
  /\ UNCHANGED <<net, dir, room, once, rejected, srv, sweep, tgt>>

-----------------------------------------------------------------------------
(* teardownSession, by the loop or by Server.Close.                        *)

(* delete(s.sessions, sess).  Mutant: the session stays until the end.     *)
RowKept(s) == table
RowTaken(s) == [table EXCEPT ![s] = [n \in NS |-> NONE]]
StillRegistered(s) == registered
Unregistered(s) == registered \ {s}

(* Under sessionMu: take the session out, with all its connections.        *)
Claim(a) ==
  LET s == job[a] IN
  /\ ~wedged
  /\ Step(a, "claim", "sweep")
  /\ todo' = [todo EXCEPT ![a] = {table[s][n] : n \in NS} \ {NONE}]
  /\ registered' = Unregistered(s)
  /\ table' = RowTaken(s)
  /\ UNCHANGED <<net, greeted, listed, ids, room, app, srv, job, tgt, disc>>

Sweep(a) ==
  /\ At(a, "sweep")
  /\ \/ \E c \in todo[a] :
          /\ todo' = [todo EXCEPT ![a] = @ \ {c}]
          /\ tgt' = [tgt EXCEPT ![a] = c]
          /\ Goto(a, "leave")
     \/ /\ todo[a] = {}
        /\ Goto(a, "mark")
        /\ UNCHANGED <<todo, tgt>>
  /\ UNCHANGED <<net, dir, room, app, srv, job, disc>>

(* sess.closed.Swap(true): the first to set it closes the transport.       *)
Mark(a) ==
  LET s == job[a] IN
  /\ At(a, "mark")
  /\ Goto(a, IF ~sclosed[s] THEN "shut" ELSE IF a \in Session THEN "done" ELSE "next")
  /\ sclosed' = [sclosed EXCEPT ![s] = TRUE]
  /\ job' = IF sclosed[s] THEN [job EXCEPT ![a] = NONE] ELSE job
  /\ UNCHANGED <<up, dir, room, app, srv, todo, tgt, disc>>

Shut(a) ==
  /\ Step(a, "shut", IF a \in Session THEN "done" ELSE "next")
  /\ up' = [up EXCEPT ![job[a]] = FALSE]
  /\ job' = [job EXCEPT ![a] = NONE]
  /\ UNCHANGED <<sclosed, dir, room, app, srv, todo, tgt, disc>>

-----------------------------------------------------------------------------
(* Server.Close.                                                           *)

(* closed.CompareAndSwap, then the sessions of the moment under sessionMu. *)
CloseServer ==
  /\ "shutdown" \in UserOps /\ ~wedged
  /\ Step(Shutdown, "idle", "next")
  /\ victims' = registered
  /\ UNCHANGED <<net, dir, room, app, serving, wedged, sweep, tgt, disc>>

NextVictim ==
  /\ At(Shutdown, "next")
  /\ \/ \E s \in victims :
          /\ victims' = victims \ {s}
          /\ job' = [job EXCEPT ![Shutdown] = s]
          /\ Goto(Shutdown, "claim")
     \/ /\ victims = {}
        /\ Goto(Shutdown, "stop")
        /\ UNCHANGED <<victims, job>>
  /\ UNCHANGED <<net, dir, room, app, serving, wedged, todo, tgt, disc>>

(* tr.Close closes every active transport.  A session becomes active       *)
(* before it is queued for Accept; the request of one still queued may     *)
(* close it later (TransportFails) or lose it to Accept.                   *)
StopTransports ==
  /\ Step(Shutdown, "stop", "done")
  /\ up' = [s \in Session |-> At(s, "queued") /\ up[s]]
  /\ UNCHANGED <<sclosed, dir, rest, tgt, disc>>

-----------------------------------------------------------------------------
Loop(s) ==
  \/ Accept(s) \/ Register(s) \/ LoopReturns(s) \/ ConnectUnknown(s)
  \/ \E n \in NS : Connect(s, n) \/ Disconnect(s, n)
  \/ Publish(s) \/ CountUp(s) \/ Reply(s) \/ OnConnect(s)

Shared(a) ==
  \/ Unclaim(a) \/ LeaveRooms(a) \/ Unjoin(a) \/ Drop(a) \/ CountDown(a)
  \/ Notify(a) \/ Claim(a) \/ Sweep(a) \/ Mark(a) \/ Shut(a)

ServerClose == CloseServer \/ NextVictim \/ StopTransports

Next ==
  \/ \E s \in Session : TransportFails(s) \/ Loop(s)
  \/ \E c \in Conn : JoinStart(c) \/ JoinAdd(c) \/ CloseCall(c)
  \/ \E a \in Actor : Shared(a)
  \/ ServerClose \/ ServeReturns

Spec == Init /\ [][Next]_vars

(* Every goroutine that can run is scheduled, and the application's        *)
(* handlers return.  What peer and application start is not fair: packets, *)
(* lost transports, calls of Join and Close.  A loop whose transport is    *)
(* down has finitely much buffered input, so ReadMessage fails in the end  *)
(* (strong fairness: the loop leaves "read" while it handles a packet).    *)
Fairness ==
  /\ \A s \in Session :
       /\ WF_vars(Accept(s) \/ Register(s) \/ Publish(s) \/ CountUp(s)
                  \/ Reply(s) \/ OnConnect(s))
       /\ SF_vars(~up[s] /\ LoopReturns(s))
  /\ \A c \in Conn : WF_vars(JoinAdd(c))
  /\ \A a \in Actor : WF_vars(Shared(a))
  /\ WF_vars(NextVictim \/ StopTransports)

FairSpec == Spec /\ Fairness
-----------------------------------------------------------------------------
(* What the tables mean.                                                   *)

(* c is connected: the table has an entry for it.                          *)
InTable(c) == sess[c] # NONE /\ table[sess[c]][nsp[c]] = c

(* a is on its way to an OnDisconnect call for c.                          *)
Finishing(a, c) ==
  \/ c \in todo[a]
  \/ tgt[a] = c /\ pc[a] \in Finale \cup Closing

(* No goroutine is between two steps: loops wait for a packet or are over. *)
Rest ==
  /\ \A a \in Actor : pc[a] \in {"queued", "read", "idle", "done"}
  /\ \A c \in Conn : ~adding[c]

Created == {c \in Conn : sess[c] # NONE}
Counted == {c \in Created : \A s \in Session :
                tgt[s] = c => pc[s] \notin {"publish", "count"}}
Calls == UNION {{c} \X (1 .. disc[c]) : c \in Conn}  \* of OnDisconnect

-----------------------------------------------------------------------------
(* Properties.                                                             *)

(* Every variable has its type; an actor's target and job fit where it is. *)
TypeOK ==
  /\ up \in [Session -> BOOLEAN]
  /\ sclosed \in [Session -> BOOLEAN]
  /\ greeted \in [Session -> BOOLEAN]
  /\ registered \in SUBSET Session
  /\ table \in [Session -> [NS -> Conn \cup {NONE}]]
  /\ conns \in SUBSET Conn
  /\ count \in Int
  /\ sess \in [Conn -> Session \cup {NONE}]
  /\ nsp \in [Conn -> NS \cup {NONE}]
  /\ once \in [Conn -> BOOLEAN]
  /\ joined \in [Conn -> BOOLEAN]
  /\ member \in [Conn -> BOOLEAN]
  /\ adding \in [Conn -> BOOLEAN]
  /\ known \in [Conn -> BOOLEAN]
  /\ serving \in BOOLEAN
  /\ victims \in SUBSET Session
  /\ wedged \in BOOLEAN
  /\ pc \in [Actor -> PCs]
  /\ tgt \in [Actor -> Conn \cup {NONE}]
  /\ job \in [Actor -> Session \cup {NONE}]
  /\ todo \in [Actor -> SUBSET Conn]
  /\ disc \in [Conn -> Nat]
  /\ rejected \in [Conn -> BOOLEAN]
  /\ \A a \in Actor :
       /\ pc[a] \in Finale \cup Closing \cup {"publish", "count", "reply", "onconnect"} =>
            tgt[a] # NONE
       /\ pc[a] \in Teardown => job[a] # NONE

(* OnDisconnect runs once per way out that was taken: the table entry is   *)
(* claimed by one goroutine only (DISCONNECT packet, teardown by the loop  *)
(* or by Server.Close), and a Close and a refusal add one call each, for   *)
(* removeConn goes on without a claim.  With neither, it is at most once.  *)
DisconnectBound ==
  \A c \in Conn :
    disc[c] <= 1 + (IF once[c] THEN 1 ELSE 0) + (IF rejected[c] THEN 1 ELSE 0)

(* Nobody is forgotten: a connection is in the table of a registered       *)
(* session until a goroutine is on its way to OnDisconnect for it.         *)
(* A Close of an old connection races the next CONNECT of its namespace;   *)
(* it must not take the new connection's entry.                            *)
NeverForgotten ==
  \A c \in Created :
    \/ InTable(c) /\ sess[c] \in registered
    \/ disc[c] > 0
    \/ \E a \in Actor : Finishing(a, c)

(* A connected connection is listed in Server.conns once its loop has got  *)
(* past connectNamespace, whoever else is at work: no goroutine unlists    *)
(* one that it has not taken out of the table first.                       *)
ConnectedIsListed ==
  \A c \in Conn :
    InTable(c) => c \in conns \/ (At(sess[c], "publish") /\ tgt[sess[c]] = c)

(* Test S-06: connCount goes down before OnDisconnect runs, so whatever    *)
(* races, the counter plus the calls made never exceed what was counted.   *)
(* Without Close and Server.Close the books balance whenever every         *)
(* goroutine rests: Server.conns and connCount are exactly the connected   *)
(* connections, and OnDisconnect has run once for each of the others.      *)
BooksBalance ==
  /\ count + Cardinality(Calls) <= Cardinality(Counted)
  /\ Rest /\ (\A c \in Conn : ~once[c]) /\ At(Shutdown, "idle") =>
       /\ conns = {c \in Conn : InTable(c)}
       /\ count = Cardinality(conns)
       /\ \A c \in Created : disc[c] = IF c \in conns THEN 0 ELSE 1

(* A connection that is gone is in no room, for an application that joins  *)
(* rooms only inside OnConnect and as long as Close and Server.Close leave *)
(* connections to their peers.                                             *)
NoGhostMembers ==
  Rest /\ "join" \notin UserOps /\ (\A c \in Conn : ~once[c]) /\ At(Shutdown, "idle") =>
    \A c \in Conn : member[c] \/ joined[c] => InTable(c)

(* OnConnect never begins for a connection OnDisconnect has run for.       *)
(* Server.Close breaks this (see the README), Close and refusals do not.   *)
NoConnectAfterDisconnect ==
  [][\A s \in Session :
       ~At(s, "onconnect") /\ pc'[s] = "onconnect" /\ At(Shutdown, "idle") =>
         disc'[tgt'[s]] = 0]_vars

(* For every connection these tables and goroutines do what Lifecycle      *)
(* promises: in the table it is connected, once out of it gone for good,   *)
(* and no call of OnDisconnect comes before that, whoever makes it.        *)
Promise == INSTANCE Lifecycle WITH
             state <- [c \in Conn |-> IF sess[c] = NONE THEN "new"
                                      ELSE IF InTable(c) THEN "connected" ELSE "gone"],
             place <- [c \in Conn |-> <<sess[c], nsp[c]>>],
             closed <- {c \in Conn : once[c]},
             refused <- {c \in Conn : rejected[c]},
             calls <- disc
RefinesLifecycle == Promise!Spec

(* A session whose transport is lost is taken out of the tables, and       *)
(* OnDisconnect runs for each connection it had.                           *)
LostIsReaped ==
  /\ \A s \in Session : s \in registered /\ ~up[s] ~> s \notin registered
  /\ \A c \in Conn, s \in Session :
       sess[c] = s /\ ~up[s] ~> disc[c] > 0

(* A call of conn.Close ends, and OnDisconnect has run for the connection. *)
CloseReturns ==
  \A c \in Conn : once[c] ~> disc[c] > 0 /\ pc[c] \in {"idle", "done"}

(* Test S-03: OnDisconnect runs once even if Close is called concurrently  *)
(* from application code and the transport layer.  It does not hold.       *)
DisconnectAtMostOnce == \A c \in Conn : disc[c] <= 1

(* Server.Close returns, whatever the peers send meanwhile (README:        *)
(* "Concurrent server operation").  It does not hold: see Connect.         *)
ServerCloseReturns == At(Shutdown, "next") ~> At(Shutdown, "done")
=============================================================================

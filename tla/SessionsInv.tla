---------------------------- MODULE SessionsInv ----------------------------
(***************************************************************************)
(* The inductive invariants behind the theorems about Sessions.  The one   *)
(* for DisconnectBound comes first: each call of OnDisconnect is prepaid.  *)
(* A connection comes with one call to spend, its Close and its refusal    *)
(* add one each, and what holds a claim on it (the table entry, the loop,  *)
(* its closer, Server.Close) has not spent that call yet.                  *)
(***************************************************************************)
EXTENDS Sessions

One(P) == IF P THEN 1 ELSE 0

(* A table entry belongs to the session and the namespace it stands under. *)
EntriesFit ==
  /\ \A s \in Session, n \in NS :
       table[s][n] # NONE => sess[table[s][n]] = s /\ nsp[table[s][n]] = n
  /\ \A c \in Conn : sess[c] # NONE => nsp[c] # NONE

(* A loop works on connections of its session only, a closer on its own    *)
(* only, and nobody on one that is not there.                              *)
WorkFits ==
  /\ \A s \in Session :
       /\ job[s] \in {NONE, s}
       /\ tgt[s] # NONE => sess[tgt[s]] = s
       /\ \A c \in todo[s] : sess[c] = s
  /\ \A c \in Conn : tgt[c] \in {NONE, c} /\ todo[c] = {} /\ job[c] = NONE
  /\ \A a \in Actor :
       /\ tgt[a] # NONE => sess[tgt[a]] # NONE
       /\ \A c \in todo[a] : sess[c] # NONE

(* Nothing has happened to a connection that is not there yet.             *)
FreshIsBlank ==
  \A c \in Conn : sess[c] = NONE => disc[c] = 0 /\ ~known[c] /\ ~rejected[c]

(* A connection is refused once: its OnConnect is still ahead, or running. *)
NotYetRefused ==
  \A s \in Session :
    pc[s] \in {"publish", "count", "reply", "onconnect"} => ~rejected[tgt[s]]

(* Only a teardown has connections to do, and the one at hand is no longer *)
(* among them.                                                             *)
SweepFits ==
  \A a \in Actor :
    /\ todo[a] # {} => pc[a] \in Finale \cup {"sweep"} /\ job[a] # NONE
    /\ pc[a] \in Finale => tgt[a] \notin todo[a]

(* The bookkeeping of a connection fits together.                          *)
Fits == EntriesFit /\ WorkFits /\ FreshIsBlank /\ NotYetRefused /\ SweepFits

(* The loop of c's session is on its way to an OnDisconnect call for c.    *)
LoopFinishing(c) == sess[c] # NONE /\ Finishing(sess[c], c)

(* The calls made and the calls on their way are within the bound.         *)
CallsPrepaid ==
  \A c \in Conn :
    disc[c] + One(LoopFinishing(c)) + One(Finishing(Shutdown, c))
            + One(Finishing(c, c)) + One(InTable(c))
      <= 1 + One(once[c]) + One(rejected[c])

IInv == TypeOK /\ Fits /\ CallsPrepaid

(* A session that is not registered has no entries.                        *)
RowsFit ==
  \A s \in Session : s \notin registered => \A n \in NS : table[s][n] = NONE

(* Who finishes a connection has taken it out of the table first.          *)
TakenOut ==
  \A a \in Actor :
    /\ pc[a] \in Finale => ~InTable(tgt[a])
    /\ \A c \in todo[a] : ~InTable(c)

(* NeverForgotten with its witnesses: only the loop, Server.Close and its  *)
(* own closer can be on the way to finishing a connection.                 *)
Remembered ==
  \A c \in Conn :
    sess[c] # NONE =>
      \/ InTable(c) /\ sess[c] \in registered
      \/ disc[c] > 0
      \/ LoopFinishing(c) \/ Finishing(Shutdown, c) \/ Finishing(c, c)

TInv == RowsFit /\ TakenOut

(* While Server.Close has not begun, nothing has happened to a connection  *)
(* whose CONNECT is not answered: the application does not know it yet.    *)
Unheard ==
  At(Shutdown, "idle") =>
    \A s \in Session :
      pc[s] \in {"publish", "count", "reply"} =>
        /\ disc[tgt[s]] = 0 /\ ~known[tgt[s]]
        /\ pc[tgt[s]] \notin Finale \cup Closing

(* connCount, the calls made and those about to be made are what was       *)
(* counted: nobody counts down without calling, nor calls without it.      *)
Notifying == {a \in Actor : At(a, "notify")}
Ledger ==
  /\ IsFiniteSet(Calls) /\ IsFiniteSet(Notifying)
  /\ count + Cardinality(Calls) + Cardinality(Notifying) = Cardinality(Counted)

(* What BooksBalance and NoGhostMembers ask for, beside Rest.              *)
Quiet == (\A c \in Conn : ~once[c]) /\ At(Shutdown, "idle")

(* Then nobody but the loops is at work.                                   *)
NoCloser ==
  /\ \A c \in Conn : pc[c] \notin Finale \cup Closing
  /\ \A s \in Session : pc[s] \notin {"closeLeave", "closeUnjoin"}

(* A loop takes no connection out of the table while it opens one, and one *)
(* that OnConnect refuses is still there.                                  *)
Opening == {"publish", "count", "reply", "onconnect", "unclaim"}
OpeningStays == \A s \in Session : pc[s] \in Opening => InTable(tgt[s])

(* A loop has c to finish, or has come with it to one of the places L.     *)
Awaits(c, L) == \E s \in Session : c \in todo[s] \/ (tgt[s] = c /\ pc[s] \in L)

(* A connection is in the table or its one finale is ahead, or it has no   *)
(* more to come; one that Server.conns lists has not been dropped.         *)
CalledOnce ==
  \A c \in Conn :
    /\ disc[c] <= 1
    /\ InTable(c) \/ Awaits(c, Finale) => disc[c] = 0
    /\ c \in conns => InTable(c) \/ Awaits(c, {"leave", "unjoin", "drop"})

(* A room is joined while OnConnect runs, which only the loop itself ends. *)
JoinsInConnect ==
  \A c \in Conn :
    adding[c] => /\ "joinInConnect" \in UserOps
                 /\ \E s \in Session : pc[s] = "onconnect" /\ tgt[s] = c

(* A connection in a room is in the table or has its leaveAll ahead.       *)
LeaveAhead ==
  \A c \in Conn :
    /\ member[c] => InTable(c) \/ Awaits(c, {"leave"})
    /\ joined[c] => InTable(c) \/ Awaits(c, {"leave", "unjoin"})

LoopsAlone ==
  /\ NoCloser /\ OpeningStays /\ CalledOnce
  /\ "join" \notin UserOps => JoinsInConnect /\ LeaveAhead

QuietFits == Quiet => LoopsAlone
=============================================================================

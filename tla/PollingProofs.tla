--------------------------- MODULE PollingProofs ----------------------------
(***************************************************************************)
(* Theorems about Polling, for every number of connections and writers,    *)
(* every capacity and every load.                                          *)
(***************************************************************************)
EXTENDS Polling, SequenceTheorems, TLAPS

USE PollingAssumption

-----------------------------------------------------------------------------
(* Types.                                                                  *)

(* The packets of a POST are a sequence.                                   *)
LEMMA BodyType ==
  ASSUME NEW k \in Nat, NEW n \in Nat
  PROVE  [i \in 1 .. n |-> <<k, i, n>>] \in Seq(Packet)
  BY DEF Packet

(* What a step makes of the state of a GET or a POST is such a state.      *)
LEMMA GetStates ==
  /\ IdleGet \in GetState
  /\ \A x \in GetState :
       /\ \A l \in {"idle", "found", "wait", "answer"} : [x EXCEPT !.at = l] \in GetState
       /\ \A m \in Nat : [x EXCEPT !.at = "answer", !.msg = m] \in GetState
       /\ [x EXCEPT !.gone = TRUE] \in GetState
       /\ x.msg \in Nat
  BY DEF GetState, IdleGet

LEMMA PostStates ==
  /\ IdlePost \in PostState
  /\ \A x \in PostState :
       /\ \A l \in {"idle", "found", "body", "feed"} : [x EXCEPT !.at = l] \in PostState
       /\ \A b \in Seq(Packet) : [x EXCEPT !.body = b] \in PostState
       /\ x.body \in Seq(Packet)
  /\ \A b \in Seq(Packet) : [at |-> "found", body |-> b] \in PostState
  BY DEF PostState, IdlePost

LEMMA TypesInit == Init => TypesFit
<1> SUFFICES ASSUME Init PROVE TypesFit
  OBVIOUS
<1>1. heard \in Packet
  BY DEF Init, Packet
<1>2. sendCh \in Seq(Nat) /\ Len(sendCh) <= Cap /\ recvCh \in Seq(Packet) /\ Len(recvCh) <= Cap
  BY DEF Init
<1>3. get \in [Get -> GetState] /\ post \in [Post -> PostState]
  BY GetStates, PostStates DEF Init
<1> QED
  BY <1>1, <1>2, <1>3 DEF Init, TypesFit

LEMMA TypesStep == TypesFit /\ [Next]_vars => TypesFit'
<1> SUFFICES ASSUME TypesFit, [Next]_vars PROVE TypesFit'
  OBVIOUS
<1> USE DEF TypesFit, conn, gets, posts, out, in, GetStep, PostStep, WriterStep, LoopStep,
            CloseBy
<1>1. ASSUME NEW g \in Get, SendGet(g) PROVE TypesFit'
  BY <1>1, GetStates DEF SendGet
<1>2. ASSUME NEW g \in Get, GiveUp(g) PROVE TypesFit'
  BY <1>2, GetStates DEF GiveUp
<1>3. ASSUME NEW g \in Get, EnterGet(g) PROVE TypesFit'
  <2>0. PICK l \in {"wait", "idle"} : get' = [get EXCEPT ![g].at = l]
    BY <1>3 DEF EnterGet
  <2>1. get' \in [Get -> GetState]
    BY <2>0, GetStates
  <2>2. closed' \in {NONE, "gate", "slow", "beat", "over", "upgrade"} /\ getInFlight' \in BOOLEAN
    BY <1>3 DEF EnterGet
  <2>3. UNCHANGED <<load, civil, upgraded, polled, answered, lost, posts, out, in>>
    BY <1>3 DEF EnterGet
  <2> QED
    BY <2>1, <2>2, <2>3
<1>4. ASSUME NEW g \in Get, TakeMessage(g) PROVE TypesFit'
  <2>1. Head(sendCh) \in Nat /\ Tail(sendCh) \in Seq(Nat) /\ Len(Tail(sendCh)) <= Cap
    BY <1>4 DEF TakeMessage, Ready
  <2>2. get' \in [Get -> GetState]
    BY <1>4, <2>1, GetStates DEF TakeMessage
  <2> QED
    BY <1>4, <2>1, <2>2 DEF TakeMessage
<1>5. ASSUME NEW g \in Get, Answer(g) PROVE TypesFit'
  <2>1. get' \in [Get -> GetState]
    BY <1>5, GetStates DEF Answer
  <2>2. get[g].msg \in Nat
    BY GetStates
  <2>3. answered' \in {answered, get[g].msg} /\ lost' \in {lost, lost \cup {get[g].msg}}
    BY <1>5 DEF Answer
  <2>4. answered' \in Nat /\ lost' \subseteq Nat
    BY <2>2, <2>3
  <2> QED
    BY <1>5, <2>1, <2>4 DEF Answer
<1>6. ASSUME NEW g \in Get, EndGet(g) PROVE TypesFit'
  BY <1>6, GetStates DEF EndGet
<1>7. ASSUME NEW p \in Post, SendPost(p) PROVE TypesFit'
  <2>1. PICK n \in 1 .. load.body :
          post' = [post EXCEPT ![p] =
            [at |-> "found", body |-> [i \in 1 .. n |-> <<posted', i, n>>]]]
    BY <1>7 DEF SendPost
  <2>2. posted' \in Nat /\ n \in Nat
    BY <1>7, <2>1 DEF SendPost
  <2>3. post' \in [Post -> PostState]
    BY <2>1, <2>2, BodyType, PostStates
  <2> QED
    BY <1>7, <2>2, <2>3 DEF SendPost
<1>8. ASSUME NEW p \in Post, EnterPost(p) PROVE TypesFit'
  <2>0. post' = [post EXCEPT ![p].at = "body"] \/ post' = [post EXCEPT ![p] = IdlePost]
    BY <1>8 DEF EnterPost
  <2>1. post' \in [Post -> PostState]
    <3>1. CASE post' = [post EXCEPT ![p].at = "body"]
      BY <3>1, PostStates
    <3>2. CASE post' = [post EXCEPT ![p] = IdlePost]
      BY <3>2, PostStates
    <3> QED
      BY <2>0, <3>1, <3>2
  <2>2. closed' \in {NONE, "gate", "slow", "beat", "over", "upgrade"} /\ postInFlight' \in BOOLEAN
    BY <1>8 DEF EnterPost
  <2>3. UNCHANGED <<load, civil, upgraded, polled, posted, gets, out, in>>
    BY <1>8 DEF EnterPost
  <2> QED
    BY <2>1, <2>2, <2>3
<1>9. ASSUME NEW p \in Post, ReadBody(p) PROVE TypesFit'
  BY <1>9, PostStates DEF ReadBody
<1>10. ASSUME NEW p \in Post, DropBody(p) PROVE TypesFit'
  BY <1>10, PostStates DEF DropBody, NotInFlight
<1>11. ASSUME NEW p \in Post, HandOver(p) PROVE TypesFit'
  <2>1. post[p].body \in Seq(Packet) /\ post[p].body # <<>>
    BY <1>11, PostStates DEF HandOver
  <2>2. Head(post[p].body) \in Packet /\ Tail(post[p].body) \in Seq(Packet)
    BY <2>1
  <2>3. recvCh' \in Seq(Packet) /\ Len(recvCh') <= Cap
    BY <1>11, <2>2 DEF HandOver
  <2>4. post' \in [Post -> PostState]
    BY <1>11, <2>2, PostStates DEF HandOver
  <2> QED
    BY <1>11, <2>3, <2>4 DEF HandOver
<1>12. ASSUME NEW p \in Post, EndPost(p) PROVE TypesFit'
  BY <1>12, PostStates DEF EndPost
<1>13. ASSUME NEW w \in Writers, Write(w) PROVE TypesFit'
  <2>1. writer' \in [Writers -> {"idle", "write", "blocked"}]
    BY <1>13 DEF Write
  <2>2. CASE /\ Len(sendCh) < Cap
             /\ written' = written + 1
             /\ sendCh' = Append(sendCh, written')
    <3>1. written' \in Nat
      BY <2>2
    <3>2. sendCh' \in Seq(Nat) /\ Len(sendCh') = Len(sendCh) + 1
      BY <2>2, <3>1
    <3> QED
      BY <1>13, <2>1, <2>2, <3>1, <3>2 DEF Write
  <2>3. CASE UNCHANGED <<sendCh, written>>
    BY <1>13, <2>1, <2>3 DEF Write
  <2> QED
    BY <1>13, <2>2, <2>3 DEF Write
<1>14. ASSUME NEW w \in Writers, Block(w) PROVE TypesFit'
  BY <1>14 DEF Block
<1>15. ASSUME NEW w \in Writers, WriteTimeout(w) PROVE TypesFit'
  BY <1>15 DEF WriteTimeout
<1>16. ASSUME NEW w \in Writer, StartWrite(w) PROVE TypesFit'
  BY <1>16 DEF StartWrite, Writers
<1>17. CASE Read
  <2>1. heard' \in Packet /\ recvCh' \in Seq(Packet) /\ Len(recvCh') <= Cap
    BY <1>17 DEF Read
  <2>2. writer' \in [Writers -> {"idle", "write", "blocked"}]
    BY <1>17 DEF Read, Writers
  <2>3. loop' \in {"read", "websocket", "over", "closed", "gone"}
    BY <1>17 DEF Read, Failed
  <2> QED
    BY <1>17, <2>1, <2>2, <2>3 DEF Read
<1>18. CASE ReadClosed
  BY <1>18 DEF ReadClosed, Failed
<1>19. CASE TearDown
  BY <1>19 DEF TearDown
<1>20. CASE Upgrade
  BY <1>20 DEF Upgrade
<1>21. CASE Forget
  BY <1>21 DEF Forget
<1>22. CASE Expire
  BY <1>22 DEF Expire
<1>23. CASE UNCHANGED vars
  BY <1>23 DEF vars
<1> QED
  BY <1>1, <1>2, <1>3, <1>4, <1>5, <1>6, <1>7, <1>8, <1>9, <1>10, <1>11, <1>12, <1>13,
     <1>14, <1>15, <1>16, <1>17, <1>18, <1>19, <1>20, <1>21, <1>22, <1>23
  DEF Next, GetHandler, PostHandler, WriteText, Serve

-----------------------------------------------------------------------------
(* The flags in flight.                                                    *)

(* What an action does to those that hold a flag, read off get and post.   *)
GetsKept == getInFlight' = getInFlight /\ \A h \in Get : InSelect(h)' <=> InSelect(h)
GetEnters(g) ==
  ~getInFlight /\ getInFlight' /\ \A h \in Get : InSelect(h)' <=> InSelect(h) \/ h = g
GetLeaves(g) ==
  InSelect(g) /\ ~getInFlight' /\ \A h \in Get : InSelect(h)' <=> InSelect(h) /\ h # g

PostsKept == postInFlight' = postInFlight /\ \A q \in Post : Feeding(q)' <=> Feeding(q)
PostEnters(p) ==
  ~postInFlight /\ postInFlight' /\ \A q \in Post : Feeding(q)' <=> Feeding(q) \/ q = p
PostLeaves(p) ==
  Feeding(p) /\ ~postInFlight' /\ \A q \in Post : Feeding(q)' <=> Feeding(q) /\ q # p

GetMoves == GetsKept \/ \E g \in Get : GetEnters(g) \/ GetLeaves(g)
PostMoves == PostsKept \/ \E p \in Post : PostEnters(p) \/ PostLeaves(p)

(* Each action keeps a flag's holder, brings the first or takes the last.  *)
LEMMA GetsMove == TypesFit /\ [Next]_vars => GetMoves
<1> SUFFICES ASSUME TypesFit, [Next]_vars PROVE GetMoves
  OBVIOUS
<1> USE DEF TypesFit, GetState, InSelect, GetStep
<1>1. ASSUME UNCHANGED gets PROVE GetMoves
  BY <1>1 DEF gets, GetMoves, GetsKept
<1>2. ASSUME NEW g \in Get, SendGet(g) PROVE GetMoves
  BY <1>2 DEF SendGet, GetMoves, GetsKept
<1>3. ASSUME NEW g \in Get, GiveUp(g) PROVE GetMoves
  BY <1>3 DEF GiveUp, GetMoves, GetsKept
<1>4. ASSUME NEW g \in Get, EnterGet(g) PROVE GetMoves
  <2>1. CASE GetFree /\ GetStep(g, "found", "wait") /\ getInFlight' = TRUE
    <3> GetEnters(g)
      BY <2>1 DEF GetFree, GetEnters
    <3> QED
      BY DEF GetMoves
  <2>2. CASE GetStep(g, "found", "idle") /\ UNCHANGED getInFlight
    BY <2>2 DEF GetMoves, GetsKept
  <2> QED
    BY <1>4, <2>1, <2>2 DEF EnterGet
<1>5. ASSUME NEW g \in Get, TakeMessage(g) PROVE GetMoves
  BY <1>5 DEF TakeMessage, GetMoves, GetsKept
<1>6. ASSUME NEW g \in Get, Answer(g) \/ EndGet(g) PROVE GetMoves
  <2> GetLeaves(g)
    BY <1>6 DEF Answer, EndGet, IdleGet, GetLeaves
  <2> QED
    BY DEF GetMoves
<1> QED
  BY <1>1, <1>2, <1>3, <1>4, <1>5, <1>6
  DEF Next, GetHandler, PostHandler, WriteText, Serve, vars, SendPost, EnterPost, ReadBody,
      DropBody, HandOver, EndPost, StartWrite, Write, Block, WriteTimeout, Read, ReadClosed,
      TearDown, Upgrade, Forget, Expire

LEMMA PostsMove == TypesFit /\ [Next]_vars => PostMoves
<1> SUFFICES ASSUME TypesFit, [Next]_vars PROVE PostMoves
  OBVIOUS
<1> USE DEF TypesFit, PostState, Feeding, PostStep
<1>1. ASSUME UNCHANGED posts PROVE PostMoves
  BY <1>1 DEF posts, PostMoves, PostsKept
<1>2. ASSUME NEW p \in Post, SendPost(p) PROVE PostMoves
  BY <1>2 DEF SendPost, PostMoves, PostsKept
<1>3. ASSUME NEW p \in Post, EnterPost(p) PROVE PostMoves
  <2>1. CASE PostFree /\ PostStep(p, "found", "body") /\ postInFlight' = TRUE
    <3> PostEnters(p)
      BY <2>1 DEF PostFree, PostEnters
    <3> QED
      BY DEF PostMoves
  <2>2. CASE post[p].at = "found" /\ post' = [post EXCEPT ![p] = IdlePost] /\ UNCHANGED postInFlight
    BY <2>2 DEF IdlePost, PostMoves, PostsKept
  <2> QED
    BY <1>3, <2>1, <2>2 DEF EnterPost
<1>4. ASSUME NEW p \in Post, ReadBody(p) PROVE PostMoves
  BY <1>4 DEF ReadBody, PostMoves, PostsKept
<1>5. ASSUME NEW p \in Post, HandOver(p) PROVE PostMoves
  BY <1>5 DEF HandOver, PostMoves, PostsKept
<1>6. ASSUME NEW p \in Post, DropBody(p) \/ EndPost(p) PROVE PostMoves
  <2> PostLeaves(p)
    BY <1>6 DEF DropBody, NotInFlight, EndPost, IdlePost, PostLeaves
  <2> QED
    BY DEF PostMoves
<1> QED
  BY <1>1, <1>2, <1>3, <1>4, <1>5, <1>6
  DEF Next, GetHandler, PostHandler, WriteText, Serve, vars, SendGet, GiveUp, EnterGet,
      TakeMessage, Answer, EndGet, StartWrite, Write, Block, WriteTimeout, Read, ReadClosed,
      TearDown, Upgrade, Forget, Expire

LEMMA TypeStep == TypeOK /\ [Next]_vars => TypeOK'
<1> SUFFICES ASSUME TypeOK, [Next]_vars PROVE TypeOK'
  OBVIOUS
<1>1. TypesFit'
  BY TypesStep DEF TypeOK
<1>2. GetMoves /\ PostMoves
  BY GetsMove, PostsMove DEF TypeOK
<1>3. /\ getInFlight' <=> \E g \in Get : InSelect(g)'
      /\ \A g, h \in Get : InSelect(g)' /\ InSelect(h)' => g = h
  BY <1>2 DEF TypeOK, FlagsExact, GetMoves, GetsKept, GetEnters, GetLeaves
<1>4. /\ postInFlight' <=> \E p \in Post : Feeding(p)'
      /\ \A p, q \in Post : Feeding(p)' /\ Feeding(q)' => p = q
  BY <1>2 DEF TypeOK, FlagsExact, PostMoves, PostsKept, PostEnters, PostLeaves
<1> QED
  BY <1>1, <1>3, <1>4 DEF TypeOK, FlagsExact

(* Every state is well typed, no queue exceeds its capacity, and a flag in *)
(* flight is set exactly while one request, and no second one, holds it.   *)
THEOREM TypeCorrect == Spec => []TypeOK
<1>1. Init => TypeOK
  BY TypesInit DEF Init, IdleGet, IdlePost, TypeOK, FlagsExact, InSelect, Feeding
<1> QED
  BY <1>1, TypeStep, PTL DEF Spec

-----------------------------------------------------------------------------
(* A client that takes turns.                                              *)

OneGet == \A g, h \in Get : get[g].at # "idle" /\ get[h].at # "idle" => g = h
OnePost == \A p, q \in Post : post[p].at # "idle" /\ post[q].at # "idle" => p = q
InTurn == civil => OneGet /\ OnePost /\ closed # "gate"

(* It has one GET and one POST under way at most.                          *)
LEMMA OneGetStep == TypesFit /\ civil /\ OneGet /\ [Next]_vars => OneGet'
<1> SUFFICES ASSUME TypesFit, civil, OneGet, [Next]_vars PROVE OneGet'
  OBVIOUS
<1>1. \/ UNCHANGED get
      \/ \E g \in Get : /\ get[g].at # "idle" \/ \A h \in Get : get[h].at = "idle"
                       /\ \A h \in Get \ {g} : get'[h] = get[h]
  BY DEF Next, GetHandler, PostHandler, WriteText, Serve, vars, gets, TypesFit, GetStep,
         SendGet, GiveUp, EnterGet, TakeMessage, Answer, EndGet, SendPost, EnterPost,
         ReadBody, DropBody, HandOver, EndPost, StartWrite, Write, Block, WriteTimeout,
         Read, ReadClosed, TearDown, Upgrade, Forget, Expire
<1> QED
  BY <1>1 DEF OneGet

LEMMA OnePostStep == TypesFit /\ civil /\ OnePost /\ [Next]_vars => OnePost'
<1> SUFFICES ASSUME TypesFit, civil, OnePost, [Next]_vars PROVE OnePost'
  OBVIOUS
<1>1. \/ UNCHANGED post
      \/ \E p \in Post : /\ post[p].at # "idle" \/ \A q \in Post : post[q].at = "idle"
                        /\ \A q \in Post \ {p} : post'[q] = post[q]
  BY DEF Next, GetHandler, PostHandler, WriteText, Serve, vars, posts, TypesFit, PostStep,
         SendGet, GiveUp, EnterGet, TakeMessage, Answer, EndGet, SendPost, EnterPost,
         ReadBody, DropBody, HandOver, EndPost, StartWrite, Write, Block, WriteTimeout,
         Read, ReadClosed, TearDown, Upgrade, Forget, Expire
<1> QED
  BY <1>1 DEF OnePost

(* A request that finds a flag set is not the one that set it.             *)
LEMMA InTurnStep == TypeOK /\ InTurn /\ [Next]_vars => InTurn'
<1> SUFFICES ASSUME TypeOK, InTurn, [Next]_vars PROVE InTurn'
  OBVIOUS
<1>1. civil' = civil
  BY DEF Next, GetHandler, PostHandler, WriteText, Serve, vars, conn, CloseBy,
         SendGet, GiveUp, EnterGet, TakeMessage, Answer, EndGet, SendPost, EnterPost,
         ReadBody, DropBody, HandOver, EndPost, StartWrite, Write, Block, WriteTimeout,
         Read, ReadClosed, TearDown, Upgrade, Forget, Expire
<1> SUFFICES ASSUME civil PROVE OneGet' /\ OnePost' /\ closed' # "gate"
  BY <1>1 DEF InTurn
<1>2. OneGet' /\ OnePost'
  BY OneGetStep, OnePostStep DEF TypeOK, InTurn
<1>3. ASSUME NEW g \in Get, EnterGet(g) PROVE closed' # "gate"
  <2>1. ~getInFlight
    BY <1>3 DEF EnterGet, GetStep, TypeOK, FlagsExact, InSelect, InTurn, OneGet
  <2> QED
    BY <1>3, <2>1 DEF EnterGet, GetFree, InTurn, conn
<1>4. ASSUME NEW p \in Post, EnterPost(p) PROVE closed' # "gate"
  <2>1. ~postInFlight
    BY <1>4 DEF EnterPost, PostStep, TypeOK, FlagsExact, Feeding, InTurn, OnePost
  <2> QED
    BY <1>4, <2>1 DEF EnterPost, PostFree, InTurn, conn
<1>5. CASE \/ closed' = closed
           \/ CloseBy("slow") \/ CloseBy("over") \/ CloseBy("beat") \/ Upgrade
  <2>1. closed' \in {closed, "slow", "over", "beat", "upgrade"}
    BY <1>5 DEF CloseBy, Upgrade
  <2>2. closed # "gate"
    BY DEF InTurn
  <2> QED
    BY <1>2, <2>1, <2>2
<1> QED
  BY <1>2, <1>3, <1>4, <1>5
  DEF Next, GetHandler, PostHandler, WriteText, Serve, vars, conn,
      SendGet, GiveUp, TakeMessage, Answer, EndGet, SendPost,
      ReadBody, DropBody, HandOver, EndPost, StartWrite, Write, Block, WriteTimeout,
      Read, ReadClosed, TearDown, Forget, Expire

(* The gates never close the session of a client that awaits each answer.  *)
THEOREM TurnsSafe == Spec => []TurnsAreSafe
<1>1. Init => InTurn
  BY DEF Init, IdleGet, IdlePost, InTurn, OneGet, OnePost
<1>2. InTurn => TurnsAreSafe
  BY DEF InTurn, TurnsAreSafe
<1> QED
  BY <1>1, <1>2, InTurnStep, TypeCorrect, PTL DEF Spec

-----------------------------------------------------------------------------
(* The order of the answers.                                               *)

(* The messages that have left sendCh: the first so many of those written. *)
Left == written - Len(sendCh)
Taking(g) == get[g].at = "answer"

(* Of those that have left, the last may be in the hands of a GET, and all *)
(* after the last one answered but for that are lost.                      *)
InOrder ==
  /\ Left >= 0
  /\ \A i \in 1 .. Len(sendCh) : sendCh[i] = Left + i
  /\ answered <= Left
  /\ \A g \in Get : Taking(g) => get[g].msg = Left /\ answered < Left
  /\ \A m \in Nat : answered < m /\ m < Left => m \in lost
  /\ answered < Left /\ Left \notin lost => \E g \in Get : Taking(g)

(* What is in order stays so if none of it changes but where GETs are.     *)
LEMMA OrderKept ==
  ASSUME TypeOK, InOrder, UNCHANGED <<written, sendCh, answered, lost>>,
         \A g \in Get : (Taking(g)' <=> Taking(g)) /\ (Taking(g) => get'[g].msg = get[g].msg)
  PROVE  InOrder'
  BY DEF InOrder, Left, Taking

LEMMA OrderTaken ==
  ASSUME TypeOK, TypesFit', InOrder, NEW g \in Get, TakeMessage(g)
  PROVE  InOrder'
<1>1. /\ written' = written /\ answered' = answered /\ lost' = lost
      /\ get[g].at = "wait" /\ sendCh # <<>> /\ sendCh' = Tail(sendCh)
      /\ get' = [get EXCEPT ![g].at = "answer", ![g].msg = Head(sendCh)]
  BY DEF TakeMessage, Ready
<1>2. /\ written \in Nat /\ answered \in Nat /\ lost \subseteq Nat
      /\ sendCh \in Seq(Nat) /\ get \in [Get -> GetState]
  BY DEF TypeOK, TypesFit
<1>3. Len(sendCh') = Len(sendCh) - 1 /\ \A i \in 1 .. Len(sendCh') : sendCh'[i] = sendCh[i + 1]
  BY <1>1, <1>2, HeadTailProperties, Zenon
<1>4. Left' = Left + 1 /\ Head(sendCh) = Left + 1 /\ Left \in Int
  BY <1>1, <1>2, <1>3 DEF Left, InOrder
<1>5. \A h \in Get : ~Taking(h)
  BY <1>1 DEF TypeOK, FlagsExact, InSelect, Taking
<1>6. Taking(g)' /\ get'[g].msg = Left' /\ \A h \in Get \ {g} : ~Taking(h)'
  BY <1>1, <1>2, <1>4, <1>5 DEF Taking, GetState
<1>7. \A m \in Nat : answered < m /\ m <= Left => m \in lost
  BY <1>2, <1>4, <1>5 DEF InOrder
<1>8. answered < Left'
  BY <1>2, <1>4 DEF InOrder
<1>9. \A i \in 1 .. Len(sendCh') : sendCh'[i] = Left' + i
  BY <1>2, <1>3, <1>4 DEF InOrder
<1> QED
  BY <1>1, <1>2, <1>4, <1>6, <1>7, <1>8, <1>9 DEF InOrder

LEMMA OrderAnswered ==
  ASSUME TypeOK, TypesFit', InOrder, NEW g \in Get, Answer(g)
  PROVE  /\ InOrder'
         /\ answered' # answered =>
              answered < answered' /\ (answered + 1) .. (answered' - 1) \subseteq lost
<1>1. /\ written' = written /\ sendCh' = sendCh
      /\ get[g].at = "answer" /\ get' = [get EXCEPT ![g] = IdleGet]
      /\ \/ answered' = get[g].msg /\ lost' = lost
         \/ answered' = answered /\ lost' = lost \cup {get[g].msg}
  BY DEF Answer, out
<1>2. /\ written \in Nat /\ answered \in Nat /\ lost \subseteq Nat
      /\ sendCh \in Seq(Nat) /\ get \in [Get -> GetState]
  BY DEF TypeOK, TypesFit
<1>3. get[g].msg = Left /\ answered < Left /\ Left \in Int /\ Left' = Left
  BY <1>1, <1>2 DEF InOrder, Taking, Left
<1>4. \A h \in Get : ~Taking(h)'
  BY <1>1, <1>2 DEF TypeOK, FlagsExact, InSelect, Taking, IdleGet
<1>5. \A m \in Nat : answered < m /\ m < Left => m \in lost
  BY DEF InOrder
<1>6. InOrder'
  <2>1. CASE answered' = get[g].msg /\ lost' = lost
    BY <1>1, <1>2, <1>3, <1>4, <2>1 DEF InOrder
  <2>2. CASE answered' = answered /\ lost' = lost \cup {get[g].msg}
    BY <1>1, <1>2, <1>3, <1>4, <2>2 DEF InOrder
  <2> QED
    BY <1>1, <2>1, <2>2
<1>7. ASSUME answered' # answered
      PROVE  answered < answered' /\ (answered + 1) .. (answered' - 1) \subseteq lost
  BY <1>1, <1>2, <1>3, <1>5, <1>7
<1> QED
  BY <1>6, <1>7

LEMMA OrderWritten ==
  ASSUME TypeOK, InOrder, NEW w \in Writers, Write(w)
  PROVE  InOrder'
<1>1. UNCHANGED <<get, answered, lost>>
  BY DEF Write, gets
<1>2. /\ written \in Nat /\ sendCh \in Seq(Nat)
  BY DEF TypeOK, TypesFit
<1>3. CASE written' = written + 1 /\ sendCh' = Append(sendCh, written')
  <2>1. /\ Len(sendCh') = Len(sendCh) + 1
        /\ \A i \in 1 .. Len(sendCh) : sendCh'[i] = sendCh[i]
        /\ sendCh'[Len(sendCh) + 1] = written + 1
    BY <1>2, <1>3
  <2>2. Left' = Left /\ Left \in Int
    BY <1>2, <1>3, <2>1 DEF Left
  <2>3. \A i \in 1 .. Len(sendCh') : sendCh'[i] = Left' + i
    BY <1>2, <2>1, <2>2 DEF InOrder, Left
  <2> QED
    BY <1>1, <2>2, <2>3 DEF InOrder, Taking
<1>4. CASE UNCHANGED <<sendCh, written>>
  BY <1>1, <1>4 DEF InOrder, Left, Taking
<1> QED
  BY <1>3, <1>4 DEF Write

LEMMA OrderStep ==
  ASSUME TypeOK, InOrder, [Next]_vars
  PROVE  /\ InOrder'
         /\ answered' # answered =>
              answered < answered' /\ (answered + 1) .. (answered' - 1) \subseteq lost
<1>1. TypesFit'
  BY TypesStep DEF TypeOK
<1>2. ASSUME NEW g \in Get, TakeMessage(g)
      PROVE  InOrder' /\ answered' = answered
  BY <1>1, <1>2, OrderTaken DEF TakeMessage
<1>3. ASSUME NEW w \in Writers, Write(w)
      PROVE  InOrder' /\ answered' = answered
  BY <1>3, OrderWritten DEF Write, gets
<1>4. ASSUME NEW g \in Get, SendGet(g) \/ GiveUp(g) \/ EnterGet(g) \/ EndGet(g)
      PROVE  InOrder' /\ answered' = answered
  <2>1. UNCHANGED <<written, sendCh, answered, lost>>
    BY <1>4 DEF SendGet, GiveUp, EnterGet, EndGet, out
  <2>2. \A h \in Get : (Taking(h)' <=> Taking(h)) /\ (Taking(h) => get'[h].msg = get[h].msg)
    <3>1. get \in [Get -> GetState]
      BY DEF TypeOK, TypesFit
    <3>2. CASE SendGet(g) \/ GiveUp(g)
      BY <3>1, <3>2 DEF SendGet, GiveUp, GetStep, Taking, GetState
    <3>3. CASE EnterGet(g) \/ EndGet(g)
      BY <3>1, <3>3 DEF EnterGet, EndGet, GetStep, IdleGet, Taking, GetState
    <3> QED
      BY <1>4, <3>2, <3>3
  <2> QED
    BY <2>1, <2>2, OrderKept
<1>5. CASE UNCHANGED <<written, sendCh, gets>>
  <2>1. \A h \in Get : (Taking(h)' <=> Taking(h)) /\ (Taking(h) => get'[h].msg = get[h].msg)
    BY <1>5 DEF gets, Taking
  <2> QED
    BY <1>5, <2>1, OrderKept DEF gets
<1>6. \A g \in Get : Answer(g) => InOrder' /\
        (answered' # answered =>
           answered < answered' /\ (answered + 1) .. (answered' - 1) \subseteq lost)
  BY <1>1, OrderAnswered
<1> QED
  BY <1>2, <1>3, <1>4, <1>5, <1>6
  DEF Next, GetHandler, PostHandler, WriteText, Serve, vars, out, SendPost, EnterPost,
      ReadBody, DropBody, HandOver, EndPost, StartWrite, Block, WriteTimeout, Read,
      ReadClosed, TearDown, Upgrade, Forget, Expire

(* Messages are answered in the order they were written, and none is       *)
(* skipped but those taken for a client that had gone: a GET takes the     *)
(* next one only when no other has one in hand.                            *)
THEOREM InOrderAnswered == Spec => AnsweredInOrder
<1>1. Init => InOrder
  BY DEF Init, InOrder, Left, Taking, IdleGet
<1>2. TypeOK /\ InOrder /\ [Next]_vars => InOrder'
  BY OrderStep
<1>3. TypeOK /\ InOrder /\ [Next]_vars =>
        [answered' # answered =>
           answered < answered' /\ (answered + 1) .. (answered' - 1) \subseteq lost]_vars
  BY OrderStep
<1> QED
  BY <1>1, <1>2, <1>3, TypeCorrect, PTL DEF Spec, AnsweredInOrder

-----------------------------------------------------------------------------
(* The packets of POSTs.                                                   *)

(* Packet b may come right after a.                                        *)
Follows(a, b) ==
  IF a[1] = b[1] THEN b[2] = a[2] + 1
  ELSE b[2] = 1 /\ (a[2] = a[3] \/ closed # NONE) /\ (civil => a[1] < b[1])

(* The packet before the i-th of recvCh, and the last one handed over.     *)
Before(i) == IF i = 1 THEN heard ELSE recvCh[i - 1]
Latest == Before(Len(recvCh) + 1)

Chained == \A i \in 1 .. Len(recvCh) : Follows(Before(i), recvCh[i])

(* What is left of a POST's packets.                                       *)
Consecutive(b) ==
  /\ \A i \in 1 .. Len(b) : b[i] = <<b[1][1], b[1][2] + (i - 1), b[1][3]>>
  /\ b[1][2] + Len(b) = b[1][3] + 1

(* It begins with the first one, or with the one after the last handed     *)
(* over; a POST none of which was handed over is not in recvCh.            *)
Fits(p) ==
  LET b == post[p].body IN
  b # <<>> =>
    /\ post[p].at # "idle" /\ Consecutive(b) /\ b[1][1] <= posted
    /\ post[p].at # "feed" => b[1][2] = 1
    /\ IF b[1][2] = 1 THEN Latest[1] # b[1][1] /\ (civil => Latest[1] < b[1][1])
       ELSE b[1][2] > 1 /\ Latest = <<b[1][1], b[1][2] - 1, b[1][3]>>

NumbersDiffer ==
  \A p, q \in Post : p # q /\ post[p].body # <<>> /\ post[q].body # <<>> =>
    post[p].body[1][1] # post[q].body[1][1]

Bodies == Latest[1] <= posted /\ (\A p \in Post : Fits(p)) /\ NumbersDiffer

(* A POST whose last packet has not come is being read, or cut off.        *)
Begun(p) == post[p].at = "feed" /\ post[p].body # <<>> /\ post[p].body[1][2] > 1
Complete == Latest[2] = Latest[3] \/ closed # NONE \/ \E p \in Post : Begun(p)

Whole == Chained /\ Bodies /\ Complete

LEMMA ClosedStays ==
  ASSUME TypeOK, [Next]_vars
  PROVE  (closed # NONE => closed' # NONE) /\ civil' = civil
<1> USE DEF conn
<1>1. CASE CloseBy("gate") \/ CloseBy("slow") \/ CloseBy("over") \/ CloseBy("beat") \/ Upgrade
  BY <1>1 DEF CloseBy, Upgrade
<1>2. CASE UNCHANGED <<closed, civil>>
  BY <1>2
<1> QED
  BY <1>1, <1>2
  DEF Next, GetHandler, PostHandler, WriteText, Serve, vars, SendGet, GiveUp, EnterGet, TakeMessage,
      Answer, EndGet, SendPost, EnterPost, ReadBody, DropBody, HandOver, EndPost, StartWrite, Write,
      Block, WriteTimeout, Read, ReadClosed, TearDown, Forget, Expire

LEMMA FollowsStays ==
  ASSUME closed # NONE => closed' # NONE, civil' = civil, NEW a, NEW b, Follows(a, b)
  PROVE  Follows(a, b)'
  BY DEF Follows

LEMMA LatestType ==
  ASSUME TypesFit
  PROVE  Latest \in Packet /\ \A i \in 1 .. Len(recvCh) : Before(i) \in Packet
  BY DEF TypesFit, Latest, Before

(* A POST, or none, goes on without handing anything over; one that is     *)
(* given up in the middle has been cut off.                                *)
Dropped(p) ==
  post'[p].body = <<>> /\ (post[p].at = "feed" /\ post[p].body # <<>> => closed # NONE)
GoesOn(p) ==
  /\ post'[p].body = post[p].body
  /\ post[p].body # <<>> => post'[p].at # "idle" /\ (post[p].at = "feed" => post'[p].at = "feed")

LEMMA PostsElsewhere ==
  ASSUME Whole, closed # NONE => closed' # NONE, civil' = civil,
         UNCHANGED <<posted, recvCh, heard>>, \A p \in Post : Dropped(p) \/ GoesOn(p)
  PROVE  Whole'
<1>1. Latest' = Latest /\ (\A i \in 1 .. Len(recvCh) : Before(i)' = Before(i))
  BY DEF Latest, Before
<1>2. Chained'
  BY <1>1, FollowsStays DEF Chained, Whole
<1>3. ASSUME NEW p \in Post PROVE Fits(p)'
  BY <1>1, <1>3 DEF Fits, Bodies, Whole, Dropped, GoesOn
<1>4. NumbersDiffer'
  BY DEF NumbersDiffer, Bodies, Whole, Dropped, GoesOn
<1>5. Complete'
  <2>1. CASE \E p \in Post : Begun(p)
    BY <2>1 DEF Complete, Begun, Dropped, GoesOn
  <2>2. CASE Latest[2] = Latest[3] \/ closed # NONE
    BY <1>1, <2>2 DEF Complete
  <2> QED
    BY <2>1, <2>2 DEF Whole, Complete
<1> QED
  BY <1>1, <1>2, <1>3, <1>4, <1>5 DEF Whole, Bodies

(* A POST sent has a number above all others.                              *)
LEMMA PostSent ==
  ASSUME TypeOK, Whole, NEW p \in Post, SendPost(p)
  PROVE  Whole'
<1>1. PICK n \in 1 .. load.body :
        post' = [post EXCEPT ![p] =
          [at |-> "found", body |-> [i \in 1 .. n |-> <<posted', i, n>>]]]
  BY DEF SendPost
<1>2. /\ posted' = posted + 1 /\ post[p].at = "idle"
      /\ UNCHANGED <<recvCh, heard, closed, civil>>
  BY DEF SendPost, in, conn
<1>3. /\ posted \in Nat /\ n \in Nat \ {0} /\ post \in [Post -> PostState] /\ Latest \in Packet
  BY <1>1, LatestType DEF TypeOK, TypesFit
<1>4. Latest' = Latest /\ (\A i \in 1 .. Len(recvCh) : Before(i)' = Before(i))
  BY <1>2 DEF Latest, Before
<1>5. Chained'
  BY <1>2, <1>4, FollowsStays DEF Chained, Whole
<1>6. Latest[1] <= posted /\ Latest[1] \in Nat
  BY <1>3 DEF Whole, Bodies, Packet
<1>7. /\ post'[p].at = "found" /\ post'[p].body = [i \in 1 .. n |-> <<posted + 1, i, n>>]
      /\ \A q \in Post \ {p} : post'[q] = post[q]
  BY <1>1, <1>2, <1>3 DEF PostState
<1>8. /\ post'[p].body # <<>> /\ post'[p].body[1] = <<posted + 1, 1, n>> /\ Len(post'[p].body) = n
      /\ \A i \in 1 .. n : post'[p].body[i] = <<posted + 1, i, n>>
  <2> HIDE <1>1
  <2>1. post'[p].body \in Seq(Packet) /\ Len(post'[p].body) = n
    BY <1>3, <1>7 DEF Packet
  <2> QED
    BY <1>3, <1>7, <2>1
<1>9. Fits(p)'
  <2>1. Consecutive(post'[p].body)
    BY <1>3, <1>8 DEF Consecutive
  <2> QED
    BY <1>2, <1>3, <1>4, <1>6, <1>7, <1>8, <2>1 DEF Fits
<1>10. ASSUME NEW q \in Post \ {p} PROVE Fits(q)'
  <2>1. Fits(q) /\ post'[q] = post[q]
    BY <1>7 DEF Whole, Bodies
  <2>2. post[q].body # <<>> => post[q].body[1][1] \in Nat
    BY <1>3 DEF PostState, Packet
  <2> QED
    BY <1>2, <1>3, <1>4, <2>1, <2>2 DEF Fits
<1>11. \A q \in Post \ {p} : post[q].body # <<>> => post[q].body[1][1] # posted + 1
  <2> TAKE q \in Post \ {p}
  <2>1. Fits(q)
    BY DEF Whole, Bodies
  <2>2. post[q].body # <<>> => post[q].body[1][1] \in Nat
    BY <1>3 DEF PostState, Packet
  <2> QED
    BY <1>3, <2>1, <2>2 DEF Fits
<1>12. NumbersDiffer'
  BY <1>7, <1>8, <1>11 DEF NumbersDiffer, Whole, Bodies
<1>13. Complete'
  <2>1. \A q \in Post : Begun(q) => Begun(q)'
    BY <1>2, <1>7 DEF Begun
  <2> QED
    BY <1>2, <1>4, <2>1 DEF Complete, Whole
<1>14. Latest'[1] <= posted'
  BY <1>2, <1>3, <1>4, <1>6
<1> QED
  BY <1>5, <1>9, <1>10, <1>12, <1>13, <1>14 DEF Whole, Bodies

(* The one POST that feeds the loop hands over its next packet.            *)
LEMMA PacketHandedOver ==
  ASSUME TypeOK, InTurn, Whole, NEW p \in Post, HandOver(p)
  PROVE  Whole'
<1> DEFINE b == post[p].body
           h == Head(b)
           t == Tail(b)
<1>1. /\ post[p].at = "feed" /\ b # <<>>
      /\ recvCh' = Append(recvCh, h) /\ post' = [post EXCEPT ![p].body = t]
      /\ UNCHANGED <<posted, heard, closed, civil>>
  BY DEF HandOver, conn
<1>2. /\ posted \in Nat /\ post \in [Post -> PostState] /\ Latest \in Packet
      /\ recvCh \in Seq(Packet)
  BY LatestType DEF TypeOK, TypesFit
<1>3. b \in Seq(Packet) /\ h = b[1] /\ h \in Packet /\ t \in Seq(Packet) /\ Len(t) = Len(b) - 1
      /\ \A i \in 1 .. Len(t) : t[i] = b[i + 1]
  BY <1>1, <1>2 DEF PostState
<1>4. h = <<h[1], h[2], h[3]>> /\ h[1] \in Nat /\ h[2] \in Nat /\ h[3] \in Nat
  BY <1>3 DEF Packet
<1>5. /\ post'[p].at = "feed" /\ post'[p].body = t
      /\ \A q \in Post \ {p} : post'[q] = post[q]
  BY <1>1, <1>2 DEF PostState
<1>6. Latest' = h /\ \A i \in 1 .. Len(recvCh) + 1 : Before(i)' = Before(i)
  <2>1. Len(recvCh') = Len(recvCh) + 1 /\ recvCh'[Len(recvCh) + 1] = h
        /\ \A i \in 1 .. Len(recvCh) : recvCh'[i] = recvCh[i]
    BY <1>1, <1>2, <1>3
  <2>2. Len(recvCh) \in Nat
    BY <1>2
  <2>3. Latest' = h
    BY <2>1, <2>2 DEF Latest, Before
  <2>4. \A i \in 1 .. Len(recvCh) + 1 :
          (IF i = 1 THEN heard' ELSE recvCh'[i - 1]) = IF i = 1 THEN heard ELSE recvCh[i - 1]
    BY <1>1, <2>1, <2>2
  <2> QED
    BY <2>3, <2>4 DEF Before
<1> HIDE DEF h, t, b
<1>7. /\ Consecutive(b) /\ h[1] <= posted /\ h[2] >= 1
      /\ IF h[2] = 1 THEN Latest[1] # h[1] /\ (civil => Latest[1] < h[1])
         ELSE Latest = <<h[1], h[2] - 1, h[3]>>
  <2>1. Fits(p)
    BY DEF Whole, Bodies
  <2> QED
    BY <1>1, <1>3, <1>4, <2>1 DEF Fits, b
<1>8. \A q \in Post \ {p} : post[q].at # "feed" /\ (civil => post[q].at = "idle")
  BY <1>1 DEF TypeOK, FlagsExact, Feeding, InTurn, OnePost
<1>9. h[2] = 1 => Latest[2] = Latest[3] \/ closed # NONE
  <2>1. h[2] = 1 => \A q \in Post : ~Begun(q)
    BY <1>3, <1>4, <1>8 DEF Begun, b
  <2> QED
    BY <2>1 DEF Whole, Complete
<1>10. Follows(Latest, h)
  BY <1>2, <1>4, <1>7, <1>9 DEF Follows, Packet
<1>11. Chained'
  <2>1. Len(recvCh') = Len(recvCh) + 1 /\ recvCh'[Len(recvCh) + 1] = h
        /\ \A i \in 1 .. Len(recvCh) : recvCh'[i] = recvCh[i]
    BY <1>1, <1>2, <1>3
  <2>2. \A x, y : Follows(x, y) => Follows(x, y)'
    BY <1>1 DEF Follows
  <2>3. \A i \in 1 .. Len(recvCh) : Follows(Before(i), recvCh[i])
    BY DEF Whole, Chained
  <2>4. ASSUME NEW i \in 1 .. Len(recvCh') PROVE Follows(Before(i), recvCh[i])'
    <3>1. CASE i = Len(recvCh) + 1
      <4>1. Before(i)' = Latest /\ recvCh'[i] = h
        BY <1>2, <1>6, <2>1, <3>1 DEF Latest
      <4> QED
        BY <1>1, <1>10, <4>1 DEF Follows
    <3>2. CASE i # Len(recvCh) + 1
      <4>1. i \in 1 .. Len(recvCh)
        BY <1>2, <2>1, <3>2
      <4> QED
        BY <1>1, <1>6, <2>1, <2>3, <4>1 DEF Follows
    <3> QED
      BY <3>1, <3>2
  <2> QED
    BY <2>4 DEF Chained
<1>12. t # <<>> => t[1] = <<h[1], h[2] + 1, h[3]>> /\ Consecutive(t)
  <2> HAVE t # <<>>
  <2>1. Len(t) \in Nat \ {0} /\ Len(b) = Len(t) + 1
    BY <1>3
  <2>2. \A i \in 1 .. Len(b) : b[i] = <<h[1], h[2] + (i - 1), h[3]>>
    BY <1>3, <1>7 DEF Consecutive
  <2>3. \A i \in 1 .. Len(t) : t[i] = <<h[1], h[2] + i, h[3]>>
    <3> TAKE i \in 1 .. Len(t)
    <3>1. i + 1 \in 1 .. Len(b) /\ (i + 1) - 1 = i
      BY <2>1
    <3> QED
      BY <1>3, <2>2, <3>1
  <2>4. t[1] = <<h[1], h[2] + 1, h[3]>>
    BY <2>1, <2>3
  <2>5. h[2] + Len(b) = h[3] + 1
    BY <1>3, <1>7 DEF Consecutive
  <2> QED
    <3>1. t[1][2] = h[2] + 1 /\ t[1][3] = h[3] /\ Len(t) \in Nat \ {0}
      BY <2>1, <2>4
    <3>2. h[2] \in Int /\ h[3] \in Int
      BY <1>4
    <3>3. t[1][2] + Len(t) = t[1][3] + 1
      BY <2>1, <2>5, <3>1, <3>2
    <3>4. \A i \in 1 .. Len(t) : t[i] = <<t[1][1], t[1][2] + (i - 1), t[1][3]>>
      BY <2>3, <2>4, <3>2
    <3> QED
      BY <2>4, <3>1, <3>3, <3>4 DEF Consecutive
<1>13. t = <<>> => h[2] = h[3]
  <2>1. h[2] + Len(b) = h[3] + 1 /\ Len(b) \in Nat
    BY <1>3, <1>7 DEF Consecutive
  <2> HAVE t = <<>>
  <2>2. Len(b) = 1
    BY <1>3, <2>1
  <2>3. h[2] \in Nat /\ h[3] \in Nat
    BY <1>4
  <2>4. \A x, y \in Nat : x + 1 = y + 1 => x = y
    OBVIOUS
  <2> QED
    BY <2>1, <2>2, <2>3, <2>4
<1>14. Fits(p)'
  BY <1>4, <1>5, <1>6, <1>7, <1>12, <1>1 DEF Fits
<1>15. ASSUME NEW q \in Post \ {p} PROVE Fits(q)'
  <2>1. Fits(q) /\ post'[q] = post[q]
    BY <1>5 DEF Whole, Bodies
  <2>2. post[q].body # <<>> => post[q].body[1][1] # h[1]
    BY <1>1, <1>3 DEF Whole, Bodies, NumbersDiffer, b
  <2> QED
    BY <1>1, <1>6, <1>8, <2>1, <2>2 DEF Fits
<1>16. NumbersDiffer'
  <2>1. \A q \in Post : post'[q].body # <<>> =>
          post[q].body # <<>> /\ post'[q].body[1][1] = post[q].body[1][1]
    BY <1>1, <1>3, <1>5, <1>12 DEF b
  <2> QED
    BY <2>1 DEF NumbersDiffer, Whole, Bodies
<1>17. Complete'
  <2>1. CASE t = <<>>
    BY <1>6, <1>13, <2>1 DEF Complete
  <2>2. CASE t # <<>>
    <3>1. Begun(p)'
      BY <1>4, <1>5, <1>7, <1>12, <2>2 DEF Begun
    <3> QED
      BY <3>1 DEF Complete
  <2> QED
    BY <2>1, <2>2
<1>18. Latest'[1] <= posted'
  BY <1>1, <1>6, <1>7
<1> QED
  BY <1>11, <1>14, <1>15, <1>16, <1>17, <1>18 DEF Whole, Bodies

(* The loop reads the first packet: the others stay as they follow.        *)
LEMMA PacketRead ==
  ASSUME TypeOK, Whole, Read
  PROVE  Whole'
<1>1. /\ recvCh # <<>> /\ heard' = Head(recvCh) /\ recvCh' = Tail(recvCh)
      /\ UNCHANGED <<closed, civil, post, posted>>
  BY DEF Read, conn, posts
<1>2. recvCh \in Seq(Packet)
  BY DEF TypeOK, TypesFit
<1>3. /\ Len(recvCh) \in Nat \ {0} /\ Len(recvCh') = Len(recvCh) - 1 /\ heard' = recvCh[1]
      /\ \A i \in 1 .. Len(recvCh') : recvCh'[i] = recvCh[i + 1]
  BY <1>1, <1>2
<1>4. ASSUME NEW i \in 1 .. Len(recvCh') + 1 PROVE Before(i)' = recvCh[i]
  <2>1. CASE i = 1
    BY <1>3, <2>1 DEF Before
  <2>2. CASE i # 1
    <3>1. i - 1 \in 1 .. Len(recvCh') /\ (i - 1) + 1 = i
      BY <1>3, <2>2
    <3>2. recvCh'[i - 1] = recvCh[i]
      BY <1>3, <3>1
    <3> QED
      BY <2>2, <3>2 DEF Before
  <2> QED
    BY <2>1, <2>2
<1>5. Latest' = Latest
  <2>1. Latest = recvCh[Len(recvCh)]
    BY <1>3 DEF Latest, Before
  <2>2. Latest' = recvCh[Len(recvCh') + 1]
    BY <1>3, <1>4 DEF Latest
  <2> QED
    BY <1>3, <2>1, <2>2
<1>6. Chained'
  <2>1. ASSUME NEW i \in 1 .. Len(recvCh') PROVE Follows(Before(i), recvCh[i])'
    <3>1. i + 1 \in 1 .. Len(recvCh) /\ i + 1 # 1 /\ (i + 1) - 1 = i
      BY <1>3
    <3>2. Before(i + 1) = recvCh[i] /\ Follows(Before(i + 1), recvCh[i + 1])
      BY <3>1 DEF Before, Whole, Chained
    <3>3. Before(i)' = recvCh[i] /\ recvCh'[i] = recvCh[i + 1]
      BY <1>3, <1>4
    <3> QED
      BY <1>1, <3>2, <3>3 DEF Follows
  <2> QED
    BY <2>1 DEF Chained
<1>7. Bodies' /\ Complete'
  BY <1>1, <1>5 DEF Whole, Bodies, Complete, Fits, NumbersDiffer, Begun
<1> QED
  BY <1>6, <1>7 DEF Whole

LEMMA WholeStep == TypeOK /\ InTurn /\ Whole /\ [Next]_vars => Whole'
<1> SUFFICES ASSUME TypeOK, InTurn, Whole, [Next]_vars PROVE Whole'
  OBVIOUS
<1>1. (closed # NONE => closed' # NONE) /\ civil' = civil
  BY ClosedStays
<1>2. post \in [Post -> PostState]
  BY DEF TypeOK, TypesFit
<1>3. ASSUME UNCHANGED <<posted, recvCh, heard>>, \A p \in Post : Dropped(p) \/ GoesOn(p)
      PROVE  Whole'
  BY <1>1, <1>3, PostsElsewhere
<1>4. ASSUME UNCHANGED <<posts, recvCh, heard>> PROVE Whole'
  <2>1. \A p \in Post : GoesOn(p)
    BY <1>4 DEF GoesOn, Fits, Whole, Bodies, posts
  <2> QED
    BY <1>3, <1>4, <2>1 DEF posts
<1>5. ASSUME NEW p \in Post, EnterPost(p) \/ ReadBody(p) \/ DropBody(p) \/ EndPost(p)
      PROVE  Whole'
  <2>1. UNCHANGED <<posted, recvCh, heard>>
    BY <1>5 DEF EnterPost, ReadBody, DropBody, EndPost, in
  <2>2. \A q \in Post \ {p} : GoesOn(q)
    <3>1. \A q \in Post \ {p} : post'[q] = post[q]
      BY <1>2, <1>5 DEF EnterPost, ReadBody, DropBody, EndPost, PostStep
    <3> QED
      BY <3>1 DEF GoesOn, Fits, Whole, Bodies
  <2>3. Dropped(p) \/ GoesOn(p)
    BY <1>2, <1>5 DEF EnterPost, ReadBody, DropBody, EndPost, PostStep, IdlePost, Dropped, GoesOn,
                      PostState
  <2> QED
    BY <1>3, <2>1, <2>2, <2>3
<1> QED
  BY <1>4, <1>5, PostSent, PacketHandedOver, PacketRead
  DEF Next, GetHandler, PostHandler, WriteText, Serve, vars, in, SendGet, GiveUp, EnterGet,
      TakeMessage, Answer, EndGet, StartWrite, Write, Block, WriteTimeout, ReadClosed, TearDown,
      Upgrade, Forget, Expire

(* The packets of a POST reach the loop together and in order: the one     *)
(* POST that holds the flag hands over packet by packet, and the next one  *)
(* takes the flag only when it is done or cut off.                         *)
THEOREM PostsComeWhole == Spec => []PostsWhole
<1>1. Init => Whole
  BY DEF Init, IdlePost, Whole, Chained, Bodies, Fits, NumbersDiffer, Complete, Latest, Before
<1>2. Init => InTurn
  BY DEF Init, IdleGet, IdlePost, InTurn, OneGet, OnePost
<1>3. TypeOK /\ Whole => PostsWhole
  <2> SUFFICES ASSUME TypeOK, Whole PROVE PostsWhole
    OBVIOUS
  <2> DEFINE seen == <<heard>> \o recvCh
  <2>1. recvCh \in Seq(Packet) /\ heard \in Packet
    BY DEF TypeOK, TypesFit
  <2>2. ASSUME NEW i \in 1 .. Len(recvCh)
        PROVE  seen[i] = Before(i) /\ seen[i + 1] = recvCh[i]
    BY <2>1 DEF Before
  <2>3. ASSUME NEW i \in 1 .. Len(recvCh) PROVE Follows(seen[i], seen[i + 1])
    BY <2>2 DEF Whole, Chained
  <2> QED
    BY <2>3 DEF PostsWhole, Follows
<1> QED
  BY <1>1, <1>2, <1>3, InTurnStep, WholeStep, TypeCorrect, PTL DEF Spec
=============================================================================

-------------------------- MODULE AdmissionProofs ---------------------------
(***************************************************************************)
(* Theorems about Admission: slots are counted exactly, limits are kept,   *)
(* and the tables say who is there, for any number of requests.            *)
(***************************************************************************)
EXTENDS Admission, FiniteSetTheorems, TLAPS

USE AdmissionAssumption

-----------------------------------------------------------------------------
(* Types.                                                                  *)

LEMMA GotoStep ==
  ASSUME TypeOK, NEW g \in Role, NEW r \in Req, NEW l \in PCs, Goto(g, r, l)
  PROVE  /\ pc' \in [Role -> [Req -> PCs]]
         /\ pc'[g][r] = l
         /\ \A h \in Role, q \in Req : h # g \/ q # r => pc'[h][q] = pc[h][q]
  BY DEF TypeOK, Goto

LEMMA GivenBackType == ASSUME TypeOK, NEW i \in IP PROVE GivenBack(i) \in [IP -> Nat]
  BY DEF TypeOK, GivenBack

LEMMA TypeStep == TypeOK /\ [Next]_vars => TypeOK'
<1> SUFFICES ASSUME TypeOK, [Next]_vars PROVE TypeOK'
  OBVIOUS
<1> USE DEF fixed, stop
<1>0. Http \in Role /\ Loop \in Role /\ Stop \in Role
  BY DEF Role
<1>1. ASSUME NEW r \in Req, Acquire(r) PROVE TypeOK'
  <2>1. pc' \in [Role -> [Req -> PCs]]
    BY <1>0, <1>1, GotoStep DEF Acquire, Step, PCs
  <2> QED
    BY <1>1, <2>1 DEF TypeOK, Acquire
<1>2. ASSUME NEW r \in Req, Refuse(r) \/ Deliver(r) \/ Accept(r) \/ LeaveLoop(r) PROVE TypeOK'
  <2>1. pc' \in [Role -> [Req -> PCs]]
    BY <1>0, <1>2, GotoStep DEF Refuse, Deliver, Accept, LeaveLoop, Step, PCs
  <2> QED
    BY <1>2, <2>1 DEF TypeOK, Refuse, Deliver, Accept, LeaveLoop
<1>3. ASSUME NEW r \in Req, Abort(r) \/ InsertPoll(r) \/ InsertActive(r) PROVE TypeOK'
  <2>1. pc' \in [Role -> [Req -> PCs]]
    BY <1>0, <1>3, GotoStep DEF Abort, InsertPoll, InsertActive, Step, PCs
  <2>2. GivenBack(ip[r]) \in [IP -> Nat]
    BY GivenBackType DEF TypeOK
  <2> QED
    BY <1>3, <2>1, <2>2 DEF TypeOK, Abort, InsertPoll, InsertActive, Polled
<1>4. ASSUME NEW r \in Req, NEW g \in Role, Closer(g, r) PROVE TypeOK'
  <2>1. pc' \in [Role -> [Req -> PCs]]
    BY <1>4, GotoStep DEF Closer, CloseSession, Remove, Unpoll, Step, AfterClose, PCs
  <2>2. GivenBack(ip[r]) \in [IP -> Nat]
    BY GivenBackType DEF TypeOK
  <2> QED
    BY <1>4, <2>1, <2>2 DEF TypeOK, Closer, CloseSession, Remove, Removed, Unpoll
<1>5. CASE CloseDown \/ ResetTables
  <2>1. CASE CloseDown
    BY <2>1 DEF CloseDown, TypeOK
  <2>2. CASE ResetTables
    BY <2>2 DEF ResetTables, TypeOK
  <2> QED
    BY <1>5, <2>1, <2>2
<1>6. CASE CloseNext
  <2>1. pc' \in [Role -> [Req -> PCs]]
    <3>1. snapshot \subseteq Req /\ pc \in [Role -> [Req -> PCs]]
      BY DEF TypeOK
    <3> QED
      BY <1>0, <1>6, <3>1, GotoStep DEF CloseNext, PCs
  <2> QED
    BY <1>6, <2>1 DEF TypeOK, CloseNext
<1>7. CASE UNCHANGED vars
  BY <1>7 DEF vars, TypeOK
<1> QED
  BY <1>1, <1>2, <1>3, <1>4, <1>5, <1>6, <1>7 DEF Next, Handler, CloseServer

(* Every state is well typed: whoever gives slots back and however often,  *)
(* no counter falls below zero.                                            *)
THEOREM TypeCorrect == Spec => []TypeOK
<1>1. Init => TypeOK
  <2>1. "off" \in PCs
    BY DEF PCs
  <2>2. Init => pc \in [Role -> [Req -> PCs]]
    BY <2>1 DEF Init
  <2>3. Init => sclosed \in [Req -> BOOLEAN] /\ ipCount \in [IP -> Nat]
    BY DEF Init
  <2>4. Init => closing \in {"off", "reset", "each", "done"} /\ down \in BOOLEAN
    BY DEF Init
  <2>5. Init => {} \in SUBSET Req /\ active = {} /\ pollSess = {} /\ queue = {}
                /\ snapshot = {} /\ raced = {}
    BY DEF Init
  <2>6. Init => ip \in [Req -> IP] /\ kind \in [Req -> {"ws", "poll"}]
    BY DEF Init
  <2> QED
    BY <2>2, <2>3, <2>4, <2>5, <2>6, Zenon DEF TypeOK
<1> QED
  BY <1>1, TypeStep, PTL DEF Spec

-----------------------------------------------------------------------------
(* Slots.                                                                  *)

(* A request is not active before its handler makes it so: a slot is never *)
(* held twice.                                                             *)
NotYetActive == \A r \in Req : pc[Http][r] \in {"off", "slot", "polled"} => r \notin active

LEMMA RolesDiffer == Http \in Role /\ Loop \in Role /\ Stop \in Role
                     /\ Http # Loop /\ Http # Stop /\ Loop # Stop
  BY DEF Http, Loop, Stop, Role

LEMMA NotYetActiveStep == TypeOK /\ NotYetActive /\ [Next]_vars => NotYetActive'
<1> SUFFICES ASSUME TypeOK, NotYetActive, [Next]_vars PROVE NotYetActive'
  OBVIOUS
<1> USE RolesDiffer DEF NotYetActive, fixed, stop
<1>1. ASSUME NEW r \in Req, Acquire(r) \/ Refuse(r) \/ Abort(r) \/ InsertPoll(r) \/ InsertActive(r)
      PROVE  NotYetActive'
  <2>1. PICK l \in {"slot", "done", "polled", "deliver"} :
          Goto(Http, r, l) /\ active' = IF l = "deliver" THEN active \cup {r} ELSE active
    BY <1>1 DEF Acquire, Refuse, Abort, InsertPoll, InsertActive, Step
  <2>2. pc[Http][r] \in {"off", "slot", "polled"}
    BY <1>1 DEF Acquire, Refuse, Abort, InsertPoll, InsertActive, Step, At
  <2>3. l \in PCs
    BY DEF PCs
  <2> QED
    BY <2>1, <2>2, <2>3, GotoStep
<1>2. ASSUME NEW r \in Req, NEW g \in Role,
             Deliver(r) \/ Accept(r) \/ LeaveLoop(r) \/ Closer(g, r)
      PROVE  NotYetActive'
  <2>1. active' \subseteq active
    BY <1>2 DEF Deliver, Accept, LeaveLoop, Closer, CloseSession, Remove, Removed, Unpoll
  <2>2. \E h \in Role, l \in PCs \ {"off", "slot", "polled"} : Goto(h, r, l)
    BY <1>2 DEF Deliver, Accept, LeaveLoop, Closer, CloseSession, Remove, Unpoll, Step,
                AfterClose, PCs
  <2>3. \A q \in Req : pc'[Http][q] \in {"off", "slot", "polled"} => pc[Http][q] = pc'[Http][q]
    BY <2>2, GotoStep
  <2> QED
    BY <2>1, <2>3
<1>3. CASE CloseDown \/ ResetTables
  BY <1>3 DEF CloseDown, ResetTables
<1>4. CASE CloseNext
  <2>1. active' = active
    BY <1>4 DEF CloseNext
  <2>2. \A q \in Req : pc'[Http][q] = pc[Http][q]
    <3>1. snapshot \subseteq Req /\ "close" \in PCs
      BY DEF TypeOK, PCs
    <3> QED
      BY <1>4, <3>1, GotoStep DEF CloseNext
  <2> QED
    BY <2>1, <2>2
<1>5. CASE UNCHANGED vars
  BY <1>5 DEF vars
<1> QED
  BY <1>1, <1>2, <1>3, <1>4, <1>5 DEF Next, Handler, CloseServer

LEMMA HoldersFinite ==
  ASSUME NEW i \in IP
  PROVE  IsFiniteSet(Holders(i)) /\ Cardinality(Holders(i)) \in Nat
<1>1. Holders(i) \in SUBSET Req
  BY DEF Holders
<1> QED
  BY <1>1, FS_Subset, FS_CardinalityType

(* What a step makes of the holders of each address.                       *)
LEMMA SameHolders ==
  ASSUME ip' = ip, \A q \in Req : HoldsSlot(q)' <=> HoldsSlot(q), NEW i \in IP
  PROVE  Holders(i)' = Holders(i)
  BY DEF Holders

LEMMA OneMoreHolder ==
  ASSUME ip' = ip, NEW r \in Req, ~HoldsSlot(r), HoldsSlot(r)',
         \A q \in Req \ {r} : HoldsSlot(q)' <=> HoldsSlot(q), NEW i \in IP
  PROVE  Cardinality(Holders(i))' = Cardinality(Holders(i)) + IF i = ip[r] THEN 1 ELSE 0
<1>1. CASE i = ip[r]
  <2>1. Holders(i)' = Holders(i) \cup {r} /\ r \notin Holders(i)
    BY <1>1 DEF Holders
  <2> QED
    BY <1>1, <2>1, HoldersFinite, FS_AddElement
<1>2. CASE i # ip[r]
  <2>1. Holders(i)' = Holders(i)
    BY <1>2 DEF Holders
  <2> QED
    BY <1>2, <2>1, HoldersFinite
<1> QED
  BY <1>1, <1>2

LEMMA OneHolderLess ==
  ASSUME ip' = ip, NEW r \in Req, HoldsSlot(r), ~HoldsSlot(r)',
         \A q \in Req \ {r} : HoldsSlot(q)' <=> HoldsSlot(q), NEW i \in IP
  PROVE  /\ Cardinality(Holders(i))' = Cardinality(Holders(i)) - IF i = ip[r] THEN 1 ELSE 0
         /\ i = ip[r] => Cardinality(Holders(i)) > 0
<1>1. CASE i = ip[r]
  <2>1. Holders(i)' = Holders(i) \ {r} /\ r \in Holders(i)
    BY <1>1 DEF Holders
  <2>2. Cardinality(Holders(i)) # 0
    BY <2>1, HoldersFinite, FS_EmptySet
  <2>3. Cardinality(Holders(i) \ {r}) = Cardinality(Holders(i)) - 1
    BY <2>1, HoldersFinite, FS_RemoveElement
  <2> QED
    BY <1>1, <2>1, <2>2, <2>3, HoldersFinite
<1>2. CASE i # ip[r]
  <2>1. Holders(i)' = Holders(i)
    BY <1>2 DEF Holders
  <2> QED
    BY <1>2, <2>1, HoldersFinite
<1> QED
  BY <1>1, <1>2

LEMMA SlotsStep == TypeOK /\ NotYetActive /\ SlotsExact /\ [Next]_vars => SlotsExact'
<1> SUFFICES ASSUME TypeOK, NotYetActive, SlotsExact, [Next]_vars PROVE SlotsExact'
  OBVIOUS
<1> USE RolesDiffer DEF fixed, stop
<1>0. /\ ip \in [Req -> IP] /\ ipCount \in [IP -> Nat]
      /\ \A i \in IP : Cardinality(Holders(i)) \in Nat
  BY HoldersFinite DEF TypeOK
<1>1. ASSUME ip' = ip, \A q \in Req : HoldsSlot(q)' <=> HoldsSlot(q),
             ipCount' = ipCount, Reset' = Reset
      PROVE  SlotsExact'
  BY <1>1, SameHolders DEF SlotsExact
<1>2. ASSUME NEW r \in Req, Acquire(r) PROVE SlotsExact'
  <2>1. Goto(Http, r, "slot") /\ active' = active /\ ip' = ip /\ pc[Http][r] = "off"
        /\ Reset' = Reset /\ ipCount' = [ipCount EXCEPT ![ip[r]] = @ + 1]
    BY <1>2 DEF Acquire, Step, At, Reset
  <2>2. "slot" \in PCs
    BY DEF PCs
  <2>3. ~HoldsSlot(r) /\ HoldsSlot(r)' /\ \A q \in Req \ {r} : HoldsSlot(q)' <=> HoldsSlot(q)
    BY <2>1, <2>2, GotoStep DEF HoldsSlot, OnItsWay, NotYetActive
  <2>4. \A i \in IP :
          Cardinality(Holders(i))' = Cardinality(Holders(i)) + IF i = ip[r] THEN 1 ELSE 0
    BY <2>1, <2>3, OneMoreHolder
  <2>5. \A i \in IP : ipCount'[i] = ipCount[i] + IF i = ip[r] THEN 1 ELSE 0
    BY <1>0, <2>1
  <2> QED
    BY <1>0, <2>1, <2>4, <2>5 DEF SlotsExact
<1>3. ASSUME NEW r \in Req, ip' = ip, HoldsSlot(r), ~HoldsSlot(r)',
             \A q \in Req \ {r} : HoldsSlot(q)' <=> HoldsSlot(q),
             Reset' = Reset, ipCount' = GivenBack(ip[r])
      PROVE  SlotsExact'
  <2>1. \A i \in IP :
          /\ Cardinality(Holders(i))' = Cardinality(Holders(i)) - IF i = ip[r] THEN 1 ELSE 0
          /\ i = ip[r] => Cardinality(Holders(i)) > 0
    BY <1>3, OneHolderLess
  <2>2. \A i \in IP :
          ipCount'[i] = IF i # ip[r] THEN ipCount[i] ELSE IF ipCount[i] > 1 THEN ipCount[i] - 1 ELSE 0
    BY <1>0, <1>3 DEF GivenBack
  <2> QED
    BY <1>0, <1>3, <2>1, <2>2 DEF SlotsExact
<1>4. ASSUME NEW r \in Req, Abort(r) PROVE SlotsExact'
  <2>1. Goto(Http, r, "done") /\ active' = active /\ ip' = ip /\ pc[Http][r] = "slot"
        /\ Reset' = Reset /\ ipCount' = GivenBack(ip[r])
    BY <1>4 DEF Abort, Step, At, Reset
  <2>2. "done" \in PCs
    BY DEF PCs
  <2>3. HoldsSlot(r) /\ ~HoldsSlot(r)' /\ \A q \in Req \ {r} : HoldsSlot(q)' <=> HoldsSlot(q)
    BY <2>1, <2>2, GotoStep DEF HoldsSlot, OnItsWay, NotYetActive
  <2> QED
    BY <1>3, <2>1, <2>3
<1>5. ASSUME NEW r \in Req, InsertPoll(r) \/ InsertActive(r) PROVE SlotsExact'
  <2>1. PICK l \in {"polled", "deliver"} :
          Goto(Http, r, l) /\ active' = IF l = "deliver" THEN active \cup {r} ELSE active
    BY <1>5 DEF InsertPoll, InsertActive, Step
  <2>2. pc[Http][r] \in {"slot", "polled"} /\ l \in PCs
    BY <1>5 DEF InsertPoll, InsertActive, Step, At, PCs
  <2>3. \A q \in Req : HoldsSlot(q)' <=> HoldsSlot(q)
    BY <2>1, <2>2, GotoStep DEF HoldsSlot, OnItsWay
  <2> QED
    BY <1>1, <1>5, <2>3 DEF InsertPoll, InsertActive, Reset
<1>6. ASSUME NEW r \in Req, NEW g \in Role,
             Refuse(r) \/ Deliver(r) \/ Accept(r) \/ LeaveLoop(r) \/ CloseSession(g, r) \/ Unpoll(g, r)
      PROVE  SlotsExact'
  <2>1. PICK h \in Role, l \in PCs : Goto(h, r, l) /\ l \notin {"slot", "polled"}
                                     /\ pc[h][r] \notin {"slot", "polled"}
    BY <1>6 DEF Refuse, Deliver, Accept, LeaveLoop, CloseSession, Unpoll, Step, At, AfterClose, PCs
  <2>2. active' = active /\ ip' = ip /\ ipCount' = ipCount /\ Reset' = Reset
    BY <1>6 DEF Refuse, Deliver, Accept, LeaveLoop, CloseSession, Unpoll, Reset
  <2>3. \A q \in Req : HoldsSlot(q)' <=> HoldsSlot(q)
    BY <2>1, <2>2, GotoStep DEF HoldsSlot, OnItsWay
  <2> QED
    BY <1>1, <2>2, <2>3
<1>7. ASSUME NEW r \in Req, NEW g \in Role, Remove(g, r) PROVE SlotsExact'
  <2>1. PICK l \in PCs \ {"slot", "polled"} : Goto(g, r, l)
    BY <1>7 DEF Remove, Step, PCs
  <2>2. pc[g][r] \notin {"slot", "polled"} /\ ip' = ip /\ Reset' = Reset /\ active' = active \ {r}
        /\ ipCount' = IF r \in active THEN GivenBack(ip[r]) ELSE ipCount
    BY <1>7 DEF Remove, Removed, StillCounted, Step, At, Reset
  <2>3. \A q \in Req : OnItsWay(q)' <=> OnItsWay(q)
    BY <2>1, <2>2, GotoStep DEF OnItsWay
  <2>4. CASE r \in active
    <3>1. HoldsSlot(r) /\ ~HoldsSlot(r)' /\ \A q \in Req \ {r} : HoldsSlot(q)' <=> HoldsSlot(q)
      BY <2>2, <2>3, <2>4 DEF HoldsSlot, OnItsWay, NotYetActive
    <3> QED
      BY <1>3, <2>2, <2>4, <3>1
  <2>5. CASE r \notin active
    BY <1>1, <2>2, <2>3, <2>5 DEF HoldsSlot
  <2> QED
    BY <2>4, <2>5
<1>8. CASE CloseDown
  BY <1>1, <1>8 DEF CloseDown, Reset, HoldsSlot, OnItsWay
<1>9. CASE ResetTables
  <2>1. ip' = ip /\ Reset' /\ \A i \in IP : ipCount'[i] = 0
    BY <1>9 DEF ResetTables, Reset
  <2>2. \A i \in IP : Cardinality(Holders(i))' \in Nat
    <3> TAKE i \in IP
    <3>1. Holders(i)' \in SUBSET Req
      BY DEF Holders
    <3> QED
      BY <3>1, FS_Subset, FS_CardinalityType
  <2> QED
    BY <2>1, <2>2 DEF SlotsExact
<1>10. CASE CloseNext
  <2>1. active' = active /\ ip' = ip /\ ipCount' = ipCount /\ Reset' = Reset
    BY <1>10 DEF CloseNext, Reset
  <2>2. \A q \in Req : pc'[Http][q] = pc[Http][q]
    <3>1. snapshot \subseteq Req /\ "close" \in PCs
      BY DEF TypeOK, PCs
    <3> QED
      BY <1>10, <3>1, GotoStep DEF CloseNext
  <2> QED
    BY <1>1, <2>1, <2>2 DEF HoldsSlot, OnItsWay
<1>11. CASE UNCHANGED vars
  BY <1>1, <1>11 DEF vars, Reset, HoldsSlot, OnItsWay
<1> QED
  BY <1>2, <1>4, <1>5, <1>6, <1>7, <1>8, <1>9, <1>10, <1>11
  DEF Next, Handler, Closer, CloseServer

(* ipCount is the number of sessions that are active or about to be, for   *)
(* each address: no slot is lost or given back twice, however often Remove *)
(* runs for a session.                                                     *)
THEOREM SlotsCounted == Spec => []SlotsExact
<1>1. Init => NotYetActive /\ SlotsExact
  <2> SUFFICES ASSUME Init PROVE NotYetActive /\ SlotsExact
    OBVIOUS
  <2>1. \A q \in Req : ~HoldsSlot(q)
    BY RolesDiffer DEF Init, HoldsSlot, OnItsWay
  <2>2. \A i \in IP : Holders(i) = {}
    BY <2>1 DEF Holders
  <2>3. ~Reset /\ \A i \in IP : ipCount[i] = 0
    BY DEF Init, Reset
  <2>4. NotYetActive
    BY DEF Init, NotYetActive
  <2> QED
    BY <2>2, <2>3, <2>4, FS_EmptySet DEF SlotsExact
<1> QED
  BY <1>1, NotYetActiveStep, SlotsStep, TypeCorrect, PTL DEF Spec

-----------------------------------------------------------------------------
(* Limits.                                                                 *)

(* The sessions that count against MaxConnections without excuse.          *)
Orderly == active \ raced

(* No counter passes the limit of an address.  Of the requests on their    *)
(* way all but one have raced, and that one left room for itself.          *)
WithinLimits ==
  /\ MaxPerIP # 0 => \A i \in IP : ipCount[i] <= MaxPerIP
  /\ \A q, r \in Req : OnItsWay(q) /\ OnItsWay(r) /\ q \notin raced /\ r \notin raced => q = r
  /\ MaxConn # 0 =>
       /\ Cardinality(Orderly) <= MaxConn
       /\ \A r \in Req : OnItsWay(r) /\ r \notin raced => Cardinality(Orderly) < MaxConn

(* Fewer sessions, requests on their way and slots do no harm.             *)
LEMMA FewerWithinLimits ==
  ASSUME TypeOK, TypeOK', WithinLimits, active' \subseteq active, raced' = raced,
         \A q \in Req : OnItsWay(q)' => OnItsWay(q),
         \A i \in IP : ipCount'[i] <= ipCount[i]
  PROVE  WithinLimits'
<1>1. Orderly' \in SUBSET Orderly /\ IsFiniteSet(Orderly)
  BY FS_Subset DEF Orderly, TypeOK
<1>2. /\ Cardinality(Orderly') <= Cardinality(Orderly)
      /\ Cardinality(Orderly') \in Nat /\ Cardinality(Orderly) \in Nat
  BY <1>1, FS_Subset, FS_CardinalityType
<1>3. \A i \in IP : ipCount[i] \in Nat /\ ipCount'[i] \in Nat
  BY DEF TypeOK
<1> QED
  BY <1>2, <1>3 DEF WithinLimits

LEMMA LimitsStep == TypeOK /\ WithinLimits /\ [Next]_vars => WithinLimits'
<1> SUFFICES ASSUME TypeOK, WithinLimits, [Next]_vars PROVE WithinLimits'
  OBVIOUS
<1> USE RolesDiffer DEF fixed, stop
<1>0. TypeOK'
  BY TypeStep
<1>1. /\ ip \in [Req -> IP] /\ ipCount \in [IP -> Nat]
      /\ \A i \in IP : \A j \in IP : GivenBack(i)[j] <= ipCount[j]
  BY DEF TypeOK, GivenBack
<1>2. \A S \in SUBSET Req : IsFiniteSet(S) /\ Cardinality(S) \in Nat
  BY FS_Subset, FS_CardinalityType
<1>3. ASSUME NEW r \in Req, Acquire(r) PROVE WithinLimits'
  <2>0. "slot" \in PCs
    BY DEF PCs
  <2>1. /\ Goto(Http, r, "slot") /\ active' = active
        /\ ipCount' = [ipCount EXCEPT ![ip[r]] = @ + 1]
        /\ \/ (\E q \in Req : OnItsWay(q)) /\ raced' = raced \cup {r}
           \/ (\A q \in Req : ~OnItsWay(q)) /\ raced' = raced
    BY <1>3 DEF Acquire, Step
  <2>2. OnItsWay(r)' /\ \A q \in Req \ {r} : OnItsWay(q)' <=> OnItsWay(q)
    BY <2>0, <2>1, GotoStep DEF OnItsWay
  <2>3. MaxPerIP # 0 => \A i \in IP : ipCount'[i] <= MaxPerIP
    BY <1>1, <1>3, <2>1 DEF Acquire, IPHasRoom, WithinLimits
  <2>4. active \subseteq Req /\ Orderly' \in SUBSET Orderly /\ Orderly' \in SUBSET active
    <3>1. raced \subseteq raced'
      BY <2>1
    <3> QED
      BY <2>1, <3>1 DEF Orderly, TypeOK
  <2>5. /\ Cardinality(Orderly') <= Cardinality(Orderly)
        /\ Cardinality(Orderly') <= Cardinality(active)
        /\ Cardinality(Orderly') \in Nat /\ Cardinality(Orderly) \in Nat
        /\ Cardinality(active) \in Nat
    BY <1>2, <2>4, FS_Subset DEF Orderly
  <2>6. MaxConn # 0 => Cardinality(active) < MaxConn
    BY <1>3 DEF Acquire, HasRoom
  <2> QED
    BY <2>1, <2>2, <2>3, <2>5, <2>6 DEF WithinLimits
<1>4. ASSUME NEW r \in Req, InsertActive(r) PROVE WithinLimits'
  <2>1. Goto(Http, r, "deliver") /\ active' = active \cup {r} /\ "deliver" \in PCs
        /\ raced' = raced /\ ipCount' = ipCount /\ OnItsWay(r)
    BY <1>4 DEF InsertActive, Step, At, OnItsWay, PCs
  <2>2. ~OnItsWay(r)' /\ \A q \in Req \ {r} : OnItsWay(q)' <=> OnItsWay(q)
    BY <2>1, GotoStep DEF OnItsWay
  <2>3. active \subseteq Req
    BY DEF TypeOK
  <2>4. CASE r \in raced
    <3>1. Orderly' = Orderly
      BY <2>1, <2>4 DEF Orderly
    <3> QED
      BY <2>1, <2>2, <3>1 DEF WithinLimits
  <2>5. CASE r \notin raced
    <3>1. Orderly' = Orderly \cup {r} /\ IsFiniteSet(Orderly) /\ Cardinality(Orderly) \in Nat
      BY <1>2, <2>1, <2>3, <2>5 DEF Orderly
    <3>2. Cardinality(Orderly \cup {r}) = IF r \in Orderly THEN Cardinality(Orderly)
                                            ELSE Cardinality(Orderly) + 1
      BY <3>1, FS_AddElement
    <3> QED
      BY <2>1, <2>2, <2>5, <3>1, <3>2 DEF WithinLimits
  <2> QED
    BY <2>4, <2>5
<1>5. ASSUME NEW r \in Req, NEW g \in Role,
             \/ Refuse(r) \/ Abort(r) \/ InsertPoll(r) \/ Deliver(r) \/ Accept(r) \/ LeaveLoop(r)
             \/ Closer(g, r)
      PROVE  WithinLimits'
  <2>1. PICK h \in Role, l \in PCs \ {"slot"} :
          Goto(h, r, l) /\ (l = "polled" => pc[h][r] = "slot")
    BY <1>5 DEF Refuse, Abort, InsertPoll, Deliver, Accept, LeaveLoop, Closer, CloseSession,
                Remove, Unpoll, Step, At, AfterClose, PCs
  <2>2. \A q \in Req : OnItsWay(q)' => OnItsWay(q)
    BY <2>1, GotoStep DEF OnItsWay
  <2>3. active' \subseteq active /\ raced' = raced /\ \A i \in IP : ipCount'[i] <= ipCount[i]
    BY <1>1, <1>5 DEF Refuse, Abort, InsertPoll, Deliver, Accept, LeaveLoop, Closer, CloseSession,
                      Remove, Removed, Unpoll
  <2> QED
    BY <1>0, <2>2, <2>3, FewerWithinLimits
<1>6. CASE CloseServer
  <2>1. active' \subseteq active /\ raced' = raced /\ \A i \in IP : ipCount'[i] <= ipCount[i]
    BY <1>1, <1>6 DEF CloseServer, CloseDown, ResetTables, CloseNext
  <2>2. \A q \in Req : pc'[Http][q] = pc[Http][q]
    <3>1. snapshot \subseteq Req /\ "close" \in PCs
      BY DEF TypeOK, PCs
    <3> QED
      BY <1>6, <3>1, GotoStep DEF CloseServer, CloseDown, ResetTables, CloseNext
  <2>3. \A q \in Req : OnItsWay(q)' => OnItsWay(q)
    BY <2>2 DEF OnItsWay
  <2> QED
    BY <1>0, <2>1, <2>3, FewerWithinLimits
<1>7. CASE UNCHANGED vars
  BY <1>7 DEF vars, WithinLimits, OnItsWay, Orderly
<1> QED
  BY <1>3, <1>4, <1>5, <1>6, <1>7 DEF Next, Handler

(* No address has more sessions than MaxConnectionsPerIP, however many     *)
(* requests race, and MaxConnections is exceeded only by sessions whose    *)
(* request raced another.                                                  *)
THEOREM LimitsHold == Spec => []LimitsKept
<1>1. Init => WithinLimits
  <2> SUFFICES ASSUME Init PROVE WithinLimits
    OBVIOUS
  <2>1. Orderly = {} /\ \A q \in Req : ~OnItsWay(q)
    BY RolesDiffer DEF Init, Orderly, OnItsWay
  <2>2. \A i \in IP : ipCount[i] = 0
    BY DEF Init
  <2>3. Cardinality(Orderly) = 0
    BY <2>1, FS_EmptySet
  <2> QED
    BY <2>1, <2>2, <2>3 DEF WithinLimits
<1>2. WithinLimits /\ SlotsExact => LimitsKept
  <2> SUFFICES ASSUME WithinLimits, SlotsExact PROVE LimitsKept
    OBVIOUS
  <2>1. MaxPerIP # 0 /\ ~Reset => \A i \in IP : Cardinality(Holders(i)) <= MaxPerIP
    BY DEF WithinLimits, SlotsExact
  <2>2. MaxConn # 0 => Cardinality(active \ raced) <= MaxConn
    BY DEF WithinLimits, Orderly
  <2> QED
    BY <2>1, <2>2 DEF LimitsKept
<1> QED
  BY <1>1, <1>2, LimitsStep, TypeCorrect, SlotsCounted, PTL DEF Spec

-----------------------------------------------------------------------------
(* The registry.                                                           *)

(* What a request is before its session has been given away or given up.   *)
Opening(r) == pc[Http][r] \in {"off", "slot", "polled", "deliver"}
Serving(r) == Opening(r) \/ r \in queue \/ pc[Loop][r] \in {"own", "close"}

(* A session passes from its handler to the queue to its loop.             *)
OneAfterAnother ==
  \A r \in Req :
    /\ r \in queue => pc[Http][r] = "done" /\ pc[Loop][r] = "off"
    /\ pc[Loop][r] # "off" => pc[Http][r] = "done"
    /\ pc[Loop][r] \in {"off", "own", "close", "remove", "unpoll", "done"}
    /\ pc[Stop][r] \in {"off", "close", "remove", "unpoll", "done"}
    /\ pc[Http][r] = "polled" => kind[r] = "poll"

(* Until the server is closed nobody but its loop closes a session; then   *)
(* Server.Close does, having taken it out of active, for good.             *)
StopFits ==
  /\ ~down => closing = "off"
  /\ closing \in {"off", "reset"} => snapshot = {} /\ \A r \in Req : pc[Stop][r] = "off"
  /\ \A r \in Req :
       /\ ~down => Opening(r) \/ pc[Http][r] = "done"
       /\ pc[Stop][r] # "off" \/ r \in snapshot =>
            r \notin active /\ pc[Http][r] \notin {"off", "slot", "polled"}
       /\ r \in snapshot => pc[Stop][r] = "off"

(* Who closed a session that is still served, and what its loop leaves.    *)
ClosedFits ==
  \A r \in Req :
    /\ Serving(r) /\ sclosed[r] => pc[Stop][r] \notin {"off", "close"}
    /\ pc[Loop][r] \in {"remove", "unpoll", "done"} => sclosed[r]
    /\ pc[Loop][r] \in {"unpoll", "done"} => r \notin active

(* A session that is served is in the tables, until the server is closed.  *)
Found ==
  ~down => \A r \in Req :
    /\ pc[Http][r] = "deliver" \/ r \in queue \/ pc[Loop][r] \in {"own", "close"} =>
         r \in active /\ (kind[r] = "poll" => r \in pollSess)
    /\ pc[Http][r] = "polled" => r \in pollSess
    /\ pc[Loop][r] = "done" => r \notin pollSess

Registry == NotYetActive /\ OneAfterAnother /\ StopFits /\ ClosedFits /\ Found

(* g alone moves, with r, from l to m.                                     *)
Moves(g, r, l, m) ==
  /\ pc[g][r] = l /\ pc'[g][r] = m
  /\ \A h \in Role, q \in Req : h # g \/ q # r => pc'[h][q] = pc[h][q]

LEMMA StepMoves ==
  ASSUME TypeOK, NEW g \in Role, NEW r \in Req, NEW l, NEW m \in PCs, Step(g, r, l, m)
  PROVE  Moves(g, r, l, m)
  BY GotoStep DEF Step, At, Moves

LEMMA RegistryStep == TypeOK /\ Registry /\ [Next]_vars => Registry'
<1> SUFFICES ASSUME TypeOK, Registry, [Next]_vars
             PROVE  OneAfterAnother' /\ StopFits' /\ ClosedFits' /\ Found'
  BY NotYetActiveStep DEF Registry
<1>0. NotYetActive /\ OneAfterAnother /\ StopFits /\ ClosedFits /\ Found
  BY DEF Registry
<1> USE RolesDiffer, <1>0 DEF fixed, stop
<1>1. ASSUME NEW r \in Req, Acquire(r) \/ Refuse(r) \/ Abort(r)
      PROVE  OneAfterAnother' /\ StopFits' /\ ClosedFits' /\ Found'
  <2>1. /\ \E l \in {"off", "slot"}, m \in {"slot", "done"} : Moves(Http, r, l, m)
        /\ UNCHANGED <<active, pollSess, queue, down, sclosed, kind, closing, snapshot>>
    BY <1>1, StepMoves DEF Acquire, Refuse, Abort, PCs
  <2>2. OneAfterAnother' /\ StopFits'
    BY <2>1 DEF Moves, OneAfterAnother, StopFits, Opening
  <2>3. ClosedFits'
    BY <2>1 DEF Moves, OneAfterAnother, StopFits, ClosedFits, Serving, Opening
  <2>4. Found'
    BY <2>1 DEF Moves, OneAfterAnother, StopFits, ClosedFits, Serving, Found, Opening
  <2> QED
    BY <2>2, <2>3, <2>4
<1>2. ASSUME NEW r \in Req, InsertPoll(r)
      PROVE  OneAfterAnother' /\ StopFits' /\ ClosedFits' /\ Found'
  <2>1. /\ Moves(Http, r, "slot", "polled") /\ kind[r] = "poll"
        /\ pollSess' = pollSess \cup {r}
        /\ UNCHANGED <<active, queue, down, sclosed, kind, closing, snapshot>>
    BY <1>2, StepMoves DEF InsertPoll, Polled, PCs
  <2>2. OneAfterAnother' /\ StopFits'
    BY <2>1 DEF Moves, OneAfterAnother, StopFits, Opening
  <2>3. ClosedFits'
    BY <2>1 DEF Moves, OneAfterAnother, StopFits, ClosedFits, Serving, Opening
  <2>4. Found'
    BY <2>1 DEF Moves, OneAfterAnother, StopFits, ClosedFits, Serving, Found, Opening
  <2> QED
    BY <2>2, <2>3, <2>4
<1>3. ASSUME NEW r \in Req, InsertActive(r)
      PROVE  OneAfterAnother' /\ StopFits' /\ ClosedFits' /\ Found'
  <2>1. /\ Moves(Http, r, IF kind[r] = "ws" THEN "slot" ELSE "polled", "deliver")
        /\ kind[r] \in {"ws", "poll"}
        /\ active' = active \cup {r}
        /\ UNCHANGED <<pollSess, queue, down, sclosed, kind, closing, snapshot>>
    BY <1>3, StepMoves DEF InsertActive, PCs, TypeOK
  <2>2. OneAfterAnother' /\ StopFits'
    BY <2>1 DEF Moves, OneAfterAnother, StopFits, Opening
  <2>3. ClosedFits'
    BY <2>1 DEF Moves, OneAfterAnother, StopFits, ClosedFits, Serving, Opening
  <2>4. Found'
    BY <2>1 DEF Moves, OneAfterAnother, StopFits, ClosedFits, Serving, Found, Opening
  <2> QED
    BY <2>2, <2>3, <2>4
<1>4. ASSUME NEW r \in Req, Deliver(r)
      PROVE  OneAfterAnother' /\ StopFits' /\ ClosedFits' /\ Found'
  <2>1. /\ \/ Moves(Http, r, "deliver", "done") /\ queue' = queue \cup {r}
           \/ Moves(Http, r, "deliver", "close") /\ down /\ queue' = queue
        /\ UNCHANGED <<active, pollSess, down, sclosed, kind, closing, snapshot>>
    BY <1>4, StepMoves DEF Deliver, PCs
  <2>2. OneAfterAnother' /\ StopFits'
    BY <2>1 DEF Moves, OneAfterAnother, StopFits, Opening
  <2>3. ClosedFits'
    BY <2>1 DEF Moves, OneAfterAnother, StopFits, ClosedFits, Serving, Opening
  <2>4. Found'
    BY <2>1 DEF Moves, OneAfterAnother, StopFits, ClosedFits, Serving, Found, Opening
  <2> QED
    BY <2>2, <2>3, <2>4
<1>5. ASSUME NEW r \in Req, Accept(r)
      PROVE  OneAfterAnother' /\ StopFits' /\ ClosedFits' /\ Found'
  <2>1. /\ Moves(Loop, r, "off", "own")
        /\ r \in queue /\ queue' = queue \ {r}
        /\ UNCHANGED <<active, pollSess, down, sclosed, kind, closing, snapshot>>
    BY <1>5, StepMoves DEF Accept, PCs
  <2>2. OneAfterAnother' /\ StopFits'
    BY <2>1 DEF Moves, OneAfterAnother, StopFits, Opening
  <2>3. ClosedFits'
    BY <2>1 DEF Moves, OneAfterAnother, StopFits, ClosedFits, Serving, Opening
  <2>4. Found'
    BY <2>1 DEF Moves, OneAfterAnother, StopFits, ClosedFits, Serving, Found, Opening
  <2> QED
    BY <2>2, <2>3, <2>4
<1>6. ASSUME NEW r \in Req, LeaveLoop(r)
      PROVE  OneAfterAnother' /\ StopFits' /\ ClosedFits' /\ Found'
  <2>1. /\ Moves(Loop, r, "own", "close")
        /\ UNCHANGED <<active, pollSess, queue, down, sclosed, kind, closing, snapshot>>
    BY <1>6, StepMoves DEF LeaveLoop, PCs
  <2>2. OneAfterAnother' /\ StopFits'
    BY <2>1 DEF Moves, OneAfterAnother, StopFits, Opening
  <2>3. ClosedFits'
    BY <2>1 DEF Moves, OneAfterAnother, StopFits, ClosedFits, Serving, Opening
  <2>4. Found'
    BY <2>1 DEF Moves, OneAfterAnother, StopFits, ClosedFits, Serving, Found, Opening
  <2> QED
    BY <2>2, <2>3, <2>4
<1>7. ASSUME NEW r \in Req, NEW g \in Role, CloseSession(g, r)
      PROVE  OneAfterAnother' /\ StopFits' /\ ClosedFits' /\ Found'
  <2>1. /\ Moves(g, r, "close", IF sclosed[r] THEN AfterClose(g) ELSE "remove")
        /\ sclosed' = [sclosed EXCEPT ![r] = TRUE]
        /\ g \in {Http, Loop, Stop}
        /\ sclosed \in [Req -> BOOLEAN]
        /\ UNCHANGED <<active, pollSess, queue, down, kind, closing, snapshot>>
        /\ pc[g][r] = "close" /\ pc'[g][r] \in {"remove", "removeAgain", "done"}
        /\ pc'[g][r] = "done" => sclosed[r]
    <3> DEFINE l == IF sclosed[r] THEN AfterClose(g) ELSE "remove"
    <3>1. l \in PCs /\ l \in {"remove", "removeAgain", "done"} /\ (l = "done" => sclosed[r])
      BY DEF AfterClose, PCs, TypeOK
    <3>2. Moves(g, r, "close", l)
      BY <1>7, <3>1, GotoStep DEF CloseSession, Moves, At
    <3>3. /\ sclosed' = [sclosed EXCEPT ![r] = TRUE] /\ g \in {Http, Loop, Stop}
          /\ sclosed \in [Req -> BOOLEAN]
          /\ UNCHANGED <<active, pollSess, queue, down, kind, closing, snapshot>>
      BY <1>7 DEF CloseSession, TypeOK, Role
    <3> HIDE DEF l
    <3>4. pc[g][r] = "close" /\ pc'[g][r] = l
      BY <3>2 DEF Moves
    <3> QED
      BY <3>1, <3>2, <3>3, <3>4 DEF l
  <2>2. OneAfterAnother' /\ StopFits'
    BY <2>1 DEF Moves, OneAfterAnother, StopFits, Opening, AfterClose
  <2>3. ClosedFits'
    BY <2>1 DEF Moves, OneAfterAnother, StopFits, ClosedFits, Serving, Opening, AfterClose
  <2>4. Found'
    BY <2>1 DEF Moves, OneAfterAnother, StopFits, ClosedFits, Serving, Found, Opening, AfterClose
  <2> QED
    BY <2>2, <2>3, <2>4
<1>8. ASSUME NEW r \in Req, NEW g \in Role, Remove(g, r)
      PROVE  OneAfterAnother' /\ StopFits' /\ ClosedFits' /\ Found'
  <2>1. /\ Moves(g, r, "remove", "unpoll") \/ Moves(g, r, "removeAgain", "unpollAgain")
        /\ active' = active \ {r}
        /\ g \in {Http, Loop, Stop}
        /\ UNCHANGED <<pollSess, queue, down, sclosed, kind, closing, snapshot>>
    BY <1>8, StepMoves DEF Remove, Removed, PCs, Role
  <2>2. OneAfterAnother' /\ StopFits'
    BY <2>1 DEF Moves, OneAfterAnother, StopFits, Opening
  <2>3. ClosedFits'
    BY <2>1 DEF Moves, OneAfterAnother, StopFits, ClosedFits, Serving, Opening
  <2>4. Found'
    BY <2>1 DEF Moves, OneAfterAnother, StopFits, ClosedFits, Serving, Found, Opening
  <2> QED
    BY <2>2, <2>3, <2>4
<1>9. ASSUME NEW r \in Req, NEW g \in Role, Unpoll(g, r)
      PROVE  OneAfterAnother' /\ StopFits' /\ ClosedFits' /\ Found'
  <2>1. /\ Moves(g, r, "unpoll", AfterClose(g)) \/ Moves(g, r, "unpollAgain", "done")
        /\ pollSess' = pollSess \ {r}
        /\ g \in {Http, Loop, Stop}
        /\ AfterClose(g) = IF g = Http THEN "removeAgain" ELSE "done"
        /\ UNCHANGED <<active, queue, down, sclosed, kind, closing, snapshot>>
    BY <1>9, StepMoves DEF Unpoll, AfterClose, PCs, Role
  <2>2. OneAfterAnother' /\ StopFits'
    BY <2>1 DEF Moves, OneAfterAnother, StopFits, Opening
  <2>3. ClosedFits'
    BY <2>1 DEF Moves, OneAfterAnother, StopFits, ClosedFits, Serving, Opening
  <2>4. Found'
    BY <2>1 DEF Moves, OneAfterAnother, StopFits, ClosedFits, Serving, Found, Opening
  <2> QED
    BY <2>2, <2>3, <2>4
<1>10. CASE CloseDown
  <2>1. /\ closing = "off" /\ closing' = "reset" /\ down'
        /\ UNCHANGED <<active, pollSess, queue, sclosed, kind, snapshot, pc>>
    BY <1>10 DEF CloseDown
  <2>2. OneAfterAnother' /\ StopFits'
    BY <2>1 DEF Moves, OneAfterAnother, StopFits, Opening
  <2>3. ClosedFits'
    BY <2>1 DEF Moves, OneAfterAnother, StopFits, ClosedFits, Serving, Opening
  <2>4. Found'
    BY <2>1 DEF Moves, OneAfterAnother, StopFits, ClosedFits, Serving, Found, Opening
  <2> QED
    BY <2>2, <2>3, <2>4
<1>11. CASE ResetTables
  <2>1. /\ closing = "reset" /\ closing' = "each" /\ snapshot' = active /\ active' = {}
        /\ active \subseteq Req
        /\ UNCHANGED <<pollSess, queue, sclosed, kind, down, pc>>
    BY <1>11 DEF ResetTables, TypeOK
  <2>2. OneAfterAnother' /\ StopFits'
    BY <2>1 DEF Moves, OneAfterAnother, StopFits, Opening, NotYetActive
  <2>3. ClosedFits'
    BY <2>1 DEF Moves, OneAfterAnother, StopFits, ClosedFits, Serving, Opening
  <2>4. Found'
    BY <2>1 DEF Moves, OneAfterAnother, StopFits, ClosedFits, Serving, Found, Opening
  <2> QED
    BY <2>2, <2>3, <2>4
<1>12. CASE CloseNext
  <2>1. /\ closing = "each"
        /\ UNCHANGED <<active, queue, down, sclosed, kind>>
        /\ \/ UNCHANGED <<pollSess, closing>> /\ \E r \in Req :
             r \in snapshot /\ snapshot' = snapshot \ {r}
             /\ \E l \in {"off", "done"} : Moves(Stop, r, l, "close")
           \/ snapshot = {} /\ closing' = "done" /\ UNCHANGED <<pc, snapshot>>
    <3>1. ASSUME NEW r \in snapshot, snapshot' = snapshot \ {r}, Goto(Stop, r, "close"),
                 pc[Stop][r] \in {"off", "done"}
          PROVE  r \in Req /\ \E l \in {"off", "done"} : Moves(Stop, r, l, "close")
      <4>1. r \in Req /\ Stop \in Role /\ "close" \in PCs
        BY <3>1 DEF TypeOK, Role, PCs
      <4> QED
        BY <3>1, <4>1, GotoStep DEF Moves
    <3>2. snapshot \subseteq Req
      BY DEF TypeOK
    <3> QED
      BY <1>12, <3>1, <3>2 DEF CloseNext
  <2>2. OneAfterAnother' /\ StopFits'
    BY <2>1 DEF Moves, OneAfterAnother, StopFits, Opening
  <2>3. ClosedFits'
    BY <2>1 DEF Moves, OneAfterAnother, StopFits, ClosedFits, Serving, Opening
  <2>4. Found'
    BY <2>1 DEF Moves, OneAfterAnother, StopFits, ClosedFits, Serving, Found, Opening
  <2> QED
    BY <2>2, <2>3, <2>4
<1>13. CASE UNCHANGED vars
  BY <1>13 DEF vars, OneAfterAnother, StopFits, ClosedFits, Found, Serving, Opening
<1> QED
  BY <1>1, <1>2, <1>3, <1>4, <1>5, <1>6, <1>7, <1>8, <1>9, <1>10, <1>11, <1>12, <1>13
  DEF Next, Handler, Closer, CloseServer

(* A session in connCh is open and in the tables, until Server.Close; one  *)
(* whose loop has finished with it is in none, though Server.Close may     *)
(* have closed it first.                                                   *)
THEOREM RegistryTrue == Spec => []RegistryExact
<1>1. Init => Registry
  BY RolesDiffer
  DEF Init, Registry, NotYetActive, OneAfterAnother, StopFits, ClosedFits, Found, Serving, Opening
<1>2. Registry => RegistryExact
  BY DEF Registry, OneAfterAnother, StopFits, ClosedFits, Found, Serving, RegistryExact, At
<1> QED
  BY <1>1, <1>2, RegistryStep, TypeCorrect, PTL DEF Spec
=============================================================================

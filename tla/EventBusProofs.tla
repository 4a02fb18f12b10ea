--------------------------- MODULE EventBusProofs ---------------------------
(***************************************************************************)
(* The bus never sends on a closed channel and queues a slow subscription  *)
(* for closing once, for any publishers, clients, sessions, buffer and     *)
(* threshold.                                                              *)
(*                                                                         *)
(* NoPanic is not inductive.  What keeps it is that a publisher inside the *)
(* loop holds the read lock and visits registered subscriptions only, that *)
(* a registered subscription's channel is open, and that nobody can ask to *)
(* close a subscription before it is registered.                           *)
(***************************************************************************)
EXTENDS EventBus, TLAPS

Early == {"accept", "subscribe", "lock"}

\* A publisher in the loop holds the lock and goes through registered
\* subscriptions.
LoopLocked ==
    \A p \in Publishers : pc[p] = "send" => p \in readers /\ todo[p] \subseteq subs

\* A registered subscription's channels are open.
RegisteredOpen == \A c \in subs : once[c] \in {"open", "lock"}

\* Before it has subscribed, a client has nothing to close.
EarlyUnknown ==
    \A c \in Clients : handler[c] \in Early =>
        /\ once[c] = "open" /\ c \notin subs
        /\ \A p \in Publishers : \A i \in 1 .. Len(escalate[p]) : escalate[p][i] # c

\* A publisher closes subscriptions only while it has some to close.
CloseHasWork == \A p \in Publishers : pc[p] = "close" => escalate[p] # <<>>

BusInv == TypeOK /\ LoopLocked /\ RegisteredOpen /\ EarlyUnknown /\ CloseHasWork /\ NoPanic

-----------------------------------------------------------------------------
(* Type correctness                                                         *)

LEMMA InitType == Init => TypeOK
<1> SUFFICES ASSUME Init PROVE TypeOK
  OBVIOUS
<1>1. conn \in [Clients -> BOOLEAN] /\ panicked \in BOOLEAN
  BY DEF Init
<1>2. ch \in [Clients -> 0 .. subscriberBuffer] /\ dropped \in [Clients -> Nat]
  BY BusAssumption DEF Init
<1>3. escalate \in [Publishers -> Seq(Clients)]
  BY DEF Init
<1> QED BY <1>1, <1>2, <1>3 DEF Init, TypeOK

LEMMA PublishType ==
    ASSUME TypeOK, CloseHasWork, NEW p \in Publishers, Publish(p) \/ PublishStep(p)
    PROVE  TypeOK'
<1>1. CASE Publish(p)
  BY <1>1 DEF TypeOK, Publish, busVars, wsVars
<1>2. ASSUME NEW s \in Sessions, RLock(p, s) PROVE TypeOK'
  BY <1>2 DEF TypeOK, RLock, wsVars
<1>3. ASSUME NEW c \in Clients, Offer(p, c) PROVE TypeOK'
  <2>1. ch' \in [Clients -> 0 .. subscriberBuffer]
    BY <1>3, BusAssumption DEF TypeOK, Offer, Room
  <2>2. dropped' \in [Clients -> Nat]
    BY <1>3 DEF TypeOK, Offer
  <2>3. escalate' \in [Publishers -> Seq(Clients)]
    BY <1>3 DEF TypeOK, Offer
  <2>4. todo' \in [Publishers -> SUBSET Clients]
    BY <1>3 DEF TypeOK, Offer
  <2>5. panicked' \in BOOLEAN
    BY <1>3 DEF TypeOK, Offer
  <2> QED BY <1>3, <2>1, <2>2, <2>3, <2>4, <2>5 DEF TypeOK, Offer, wsVars
<1>4. CASE RUnlock(p)
  BY <1>4 DEF TypeOK, RUnlock, wsVars
<1>5. CASE Escalated(p)
  <2>1. escalate[p] # <<>> /\ escalate[p] \in Seq(Clients)
    BY <1>5 DEF CloseHasWork, Escalated, TypeOK
  <2>2. Tail(escalate[p]) \in Seq(Clients)
    BY <2>1
  <2>3. escalate' \in [Publishers -> Seq(Clients)]
    BY <1>5, <2>2 DEF TypeOK, Escalated
  <2>4. pc' \in [Publishers -> {"idle", "rlock", "send", "close"}]
    BY <1>5 DEF TypeOK, Escalated
  <2> QED BY <1>5, <2>3, <2>4 DEF TypeOK, Escalated, busVars, wsVars
<1> QED BY <1>1, <1>2, <1>3, <1>4, <1>5 DEF PublishStep

LEMMA ClientType ==
    ASSUME TypeOK, NEW c \in Clients,
           \/ Accept(c) \/ SubscribeStep(c) \/ CloseStep(c) \/ HandlerStep(c) \/ Watch(c)
           \/ WriteEvent(c) \/ Timeout(c) \/ Disconnect(c)
    PROVE  TypeOK'
<1>1. CASE Accept(c)
  BY <1>1 DEF TypeOK, Accept, busVars, pubVars
<1>2. CASE SubscribeStep(c)
  <2>1. CASE SubscribeLock(c)
    BY <2>1 DEF TypeOK, SubscribeLock, pubVars
  <2>2. CASE Subscribe(c)
    BY <2>2 DEF TypeOK, Subscribe, pubVars
  <2> QED BY <1>2, <2>1, <2>2 DEF SubscribeStep
<1>3. CASE CloseStep(c)
  <2>1. CASE CloseLock(c)
    BY <2>1 DEF TypeOK, CloseLock, pubVars, wsVars
  <2>2. CASE CloseRemove(c)
    BY <2>2 DEF TypeOK, CloseRemove, pubVars, wsVars
  <2>3. CASE CloseDone(c) \/ CloseCh(c)
    BY <2>3 DEF TypeOK, CloseDone, CloseCh, pubVars, wsVars
  <2> QED BY <1>3, <2>1, <2>2, <2>3 DEF CloseStep
<1>4. CASE HandlerStep(c)
  <2>1. CASE PumpEvent(c)
    BY <2>1, BusAssumption DEF TypeOK, PumpEvent, pubVars
  <2>2. CASE PumpExit(c) \/ WriteFails(c)
    <3>1. Leave(c)
      BY <2>2 DEF PumpExit, WriteFails
    <3> QED BY <3>1 DEF TypeOK, Leave, busVars, pubVars
  <2>3. CASE Return(c)
    BY <2>3 DEF TypeOK, Return, busVars, pubVars
  <2> QED BY <1>4, <2>1, <2>2, <2>3 DEF HandlerStep
<1>5. CASE Watch(c) \/ Disconnect(c)
  BY <1>5 DEF TypeOK, Watch, Disconnect, busVars, pubVars
<1>6. CASE WriteEvent(c)
  BY <1>6 DEF TypeOK, WriteEvent, busVars, pubVars
<1>7. CASE Timeout(c)
  BY <1>7 DEF TypeOK, Timeout, Leave, busVars, pubVars
<1> QED BY <1>1, <1>2, <1>3, <1>4, <1>5, <1>6, <1>7

-----------------------------------------------------------------------------
(* The strengthening, action by action                                      *)

Others == <<subs, readers, once, todo, pc, escalate, handler, panicked>>

\* Steps of connections and clients that leave what the invariant is about.
LEMMA QuietStep ==
    ASSUME BusInv, TypeOK', UNCHANGED Others
    PROVE  BusInv'
BY DEF BusInv, Others, LoopLocked, RegisteredOpen, EarlyUnknown, CloseHasWork, NoPanic

\* A handler that has subscribed goes on.
LEMMA HandlerMoves ==
    ASSUME BusInv, TypeOK', NEW c \in Clients, handler[c] \notin Early,
           NEW h \in {"pump", "write", "closing", "returned"},
           handler' = [handler EXCEPT ![c] = h],
           UNCHANGED <<subs, readers, once, todo, pc, escalate, panicked>>
    PROVE  BusInv'
<1>1. \A d \in Clients : handler'[d] \in Early => handler[d] \in Early
  BY DEF BusInv, TypeOK, Early
<1> QED BY <1>1 DEF BusInv, LoopLocked, RegisteredOpen, EarlyUnknown, CloseHasWork, NoPanic

LEMMA PublishKeeps ==
    ASSUME BusInv, TypeOK', NEW p \in Publishers, Publish(p) \/ PublishStep(p)
    PROVE  BusInv'
<1> USE DEF BusInv
<1>1. CASE Publish(p)
  BY <1>1 DEF TypeOK, Publish, LoopLocked, RegisteredOpen, EarlyUnknown, CloseHasWork, NoPanic, busVars, wsVars
<1>2. ASSUME NEW s \in Sessions, RLock(p, s) PROVE BusInv'
  BY <1>2 DEF TypeOK, RLock, LoopLocked, RegisteredOpen, EarlyUnknown, CloseHasWork, NoPanic, wsVars
<1>3. ASSUME NEW c \in Clients, Offer(p, c) PROVE BusInv'
  <2>1. c \in subs /\ once[c] # "closed" /\ handler[c] \notin Early
    BY <1>3 DEF Offer, LoopLocked, RegisteredOpen, EarlyUnknown
  <2>2. LoopLocked' /\ RegisteredOpen' /\ CloseHasWork'
    <3>1. \A q \in Publishers : todo'[q] \subseteq todo[q]
      BY <1>3 DEF TypeOK, Offer
    <3>2. \A q \in Publishers : pc[q] = "close" => escalate'[q] = escalate[q]
      BY <1>3 DEF TypeOK, Offer
    <3> QED BY <1>3, <3>1, <3>2 DEF Offer, LoopLocked, RegisteredOpen, CloseHasWork
  <2>3. EarlyUnknown'
    <3> SUFFICES ASSUME NEW d \in Clients, handler[d] \in Early,
                        NEW q \in Publishers, NEW i \in 1 .. Len(escalate'[q])
                 PROVE  once[d] = "open" /\ d \notin subs /\ escalate'[q][i] # d
      BY <1>3 DEF EarlyUnknown, Offer, wsVars
    <3>1. once[d] = "open" /\ d \notin subs /\ d # c
      BY <2>1 DEF EarlyUnknown
    <3>2. escalate'[q] = escalate[q] \/ escalate'[q] = Append(escalate[q], c)
      BY <1>3 DEF TypeOK, Offer
    <3>3. escalate[q] \in Seq(Clients)
      BY DEF TypeOK
    <3>4. escalate'[q][i] = c \/ (i \in 1 .. Len(escalate[q]) /\ escalate'[q][i] = escalate[q][i])
      BY <3>2, <3>3
    <3> QED BY <3>1, <3>4 DEF EarlyUnknown
  <2>4. NoPanic'
    BY <1>3, <2>1 DEF Offer, NoPanic
  <2> QED BY <2>2, <2>3, <2>4
<1>4. CASE RUnlock(p)
  BY <1>4 DEF TypeOK, RUnlock, LoopLocked, RegisteredOpen, EarlyUnknown, CloseHasWork, NoPanic, wsVars
<1>5. CASE Escalated(p)
  <2>1. escalate[p] # <<>> /\ escalate[p] \in Seq(Clients)
    BY <1>5 DEF TypeOK, CloseHasWork, Escalated
  <2>2. EarlyUnknown'
    <3> SUFFICES ASSUME NEW d \in Clients, handler[d] \in Early,
                        NEW q \in Publishers, NEW i \in 1 .. Len(escalate'[q])
                 PROVE  once[d] = "open" /\ d \notin subs /\ escalate'[q][i] # d
      BY <1>5 DEF EarlyUnknown, Escalated, busVars, wsVars
    <3>1. CASE q = p
      <4>1. escalate'[q] = Tail(escalate[p])
        BY <1>5, <3>1 DEF TypeOK, Escalated
      <4>2. i + 1 \in 1 .. Len(escalate[p]) /\ escalate'[q][i] = escalate[p][i + 1]
        BY <2>1, <4>1
      <4> QED BY <4>2 DEF EarlyUnknown
    <3>2. CASE q # p
      BY <1>5, <3>2 DEF TypeOK, Escalated, EarlyUnknown
    <3> QED BY <3>1, <3>2
  <2>3. CloseHasWork'
    BY <1>5 DEF TypeOK, Escalated, CloseHasWork
  <2>4. LoopLocked' /\ RegisteredOpen' /\ NoPanic'
    BY <1>5 DEF TypeOK, Escalated, LoopLocked, RegisteredOpen, NoPanic, busVars
  <2> QED BY <2>2, <2>3, <2>4
<1> QED BY <1>1, <1>2, <1>3, <1>4, <1>5 DEF PublishStep

LEMMA ClientKeeps ==
    ASSUME BusInv, TypeOK', NEW c \in Clients,
           \/ Accept(c) \/ SubscribeStep(c) \/ CloseStep(c) \/ HandlerStep(c) \/ Watch(c)
           \/ WriteEvent(c) \/ Timeout(c) \/ Disconnect(c)
    PROVE  BusInv'
<1>1. CASE Accept(c) \/ SubscribeLock(c)
  BY <1>1 DEF BusInv, TypeOK, Accept, SubscribeLock, LoopLocked, RegisteredOpen, EarlyUnknown,
              CloseHasWork, NoPanic, busVars, pubVars, Early
<1>2. CASE Subscribe(c)
  <2>1. once[c] = "open"
    BY <1>2 DEF BusInv, Subscribe, EarlyUnknown, Early
  <2>2. \A d \in Clients : handler'[d] \in Early => handler[d] \in Early /\ d # c
    BY <1>2 DEF BusInv, TypeOK, Subscribe, Early
  <2> QED BY <1>2, <2>1, <2>2 DEF BusInv, Subscribe, LoopLocked, RegisteredOpen, EarlyUnknown,
                                 CloseHasWork, NoPanic, pubVars
<1>3. CASE CloseLock(c)
  <2>1. handler[c] \notin Early
    <3>1. CASE handler[c] = "closing"
      BY <3>1 DEF Early
    <3>2. ASSUME NEW p \in Publishers, pc[p] = "close", Head(escalate[p]) = c PROVE handler[c] \notin Early
      <4>1. escalate[p] # <<>> /\ escalate[p] \in Seq(Clients)
        BY <3>2 DEF BusInv, TypeOK, CloseHasWork
      <4>2. 1 \in 1 .. Len(escalate[p]) /\ escalate[p][1] = c
        BY <3>2, <4>1
      <4> QED BY <4>2 DEF BusInv, EarlyUnknown
    <3> QED BY <1>3, <3>1, <3>2 DEF CloseLock, Closing
  <2> QED BY <1>3, <2>1 DEF BusInv, TypeOK, CloseLock, LoopLocked, RegisteredOpen, EarlyUnknown,
                            CloseHasWork, NoPanic, pubVars, wsVars
<1>4. CASE CloseRemove(c)
  <2>1. \A p \in Publishers : pc[p] # "send"
    BY <1>4 DEF BusInv, CloseRemove, LoopLocked
  <2>2. handler[c] \notin Early
    BY <1>4 DEF BusInv, CloseRemove, EarlyUnknown
  <2>3. EarlyUnknown'
    BY <1>4, <2>2 DEF BusInv, TypeOK, CloseRemove, EarlyUnknown, pubVars, wsVars
  <2>4. RegisteredOpen'
    BY <1>4 DEF BusInv, TypeOK, CloseRemove, RegisteredOpen
  <2>5. LoopLocked' /\ CloseHasWork' /\ NoPanic'
    BY <1>4, <2>1 DEF BusInv, CloseRemove, LoopLocked, CloseHasWork, NoPanic, pubVars
  <2> QED BY <2>3, <2>4, <2>5 DEF BusInv
<1>5. CASE CloseDone(c) \/ CloseCh(c)
  <2>1. once[c] \in {"removed", "done"} /\ \E v \in {"done", "closed"} : once' = [once EXCEPT ![c] = v]
    BY <1>5 DEF CloseDone, CloseCh
  <2>2. UNCHANGED <<subs, readers, todo, pc, escalate, handler, panicked>>
    BY <1>5 DEF CloseDone, CloseCh, pubVars, wsVars
  <2>3. c \notin subs /\ handler[c] \notin Early
    BY <2>1 DEF BusInv, RegisteredOpen, EarlyUnknown
  <2>4. RegisteredOpen' /\ EarlyUnknown'
    <3>1. \A d \in Clients : d # c => once'[d] = once[d]
      BY <2>1 DEF BusInv, TypeOK
    <3>2. subs \subseteq Clients
      BY DEF BusInv, TypeOK
    <3>3. RegisteredOpen'
      BY <2>2, <2>3, <3>1, <3>2 DEF BusInv, RegisteredOpen
    <3>4. EarlyUnknown'
      BY <2>2, <2>3, <3>1 DEF BusInv, EarlyUnknown
    <3> QED BY <3>3, <3>4
  <2>5. LoopLocked' /\ CloseHasWork' /\ NoPanic'
    BY <2>2 DEF BusInv, LoopLocked, CloseHasWork, NoPanic
  <2> QED BY <2>4, <2>5 DEF BusInv
<1>6. CASE PumpEvent(c) \/ PumpExit(c) \/ WriteFails(c) \/ Return(c) \/ WriteEvent(c) \/ Timeout(c)
  <2>1. handler[c] \notin Early
    BY <1>6 DEF PumpEvent, PumpExit, WriteFails, Return, WriteEvent, Timeout, Early
  <2>2. \E h \in {"pump", "write", "closing", "returned"} : handler' = [handler EXCEPT ![c] = h]
    BY <1>6 DEF PumpEvent, PumpExit, WriteFails, Return, WriteEvent, Timeout, Leave
  <2>3. UNCHANGED <<subs, readers, once, todo, pc, escalate, panicked>>
    BY <1>6 DEF PumpEvent, PumpExit, WriteFails, Return, WriteEvent, Timeout, Leave, busVars, pubVars
  <2> QED BY <2>1, <2>2, <2>3, HandlerMoves
<1>7. CASE Watch(c) \/ Disconnect(c)
  <2>1. UNCHANGED Others
    BY <1>7 DEF Watch, Disconnect, Others, busVars, pubVars
  <2> QED BY <2>1, QuietStep
<1> QED BY <1>1, <1>2, <1>3, <1>4, <1>5, <1>6, <1>7 DEF SubscribeStep, CloseStep, HandlerStep

LEMMA NextKeepsBusInv == BusInv /\ [Next]_vars => BusInv'
<1> SUFFICES ASSUME BusInv, [Next]_vars PROVE BusInv'
  OBVIOUS
<1>1. ASSUME NEW p \in Publishers, Publish(p) \/ PublishStep(p) PROVE BusInv'
  <2>1. TypeOK'
    BY <1>1, PublishType DEF BusInv
  <2> QED BY <1>1, <2>1, PublishKeeps
<1>2. ASSUME NEW c \in Clients,
             \/ Accept(c) \/ SubscribeStep(c) \/ CloseStep(c) \/ HandlerStep(c) \/ Watch(c)
             \/ WriteEvent(c) \/ Timeout(c) \/ Disconnect(c)
      PROVE  BusInv'
  <2>1. TypeOK'
    BY <1>2, ClientType DEF BusInv
  <2> QED BY <1>2, <2>1, ClientKeeps
<1>3. CASE UNCHANGED vars
  <2>1. TypeOK'
    BY <1>3 DEF BusInv, TypeOK, vars, busVars, pubVars, wsVars
  <2>2. UNCHANGED Others
    BY <1>3 DEF vars, Others, busVars, pubVars, wsVars
  <2> QED BY <2>1, <2>2, QuietStep
<1> QED BY <1>1, <1>2, <1>3 DEF Next

LEMMA InitBusInv == Init => BusInv
<1> SUFFICES ASSUME Init PROVE BusInv
  OBVIOUS
<1>1. TypeOK
  BY InitType
<1>2. LoopLocked /\ RegisteredOpen /\ CloseHasWork /\ NoPanic
  BY DEF Init, LoopLocked, RegisteredOpen, CloseHasWork, NoPanic
<1>3. EarlyUnknown
  BY DEF Init, EarlyUnknown
<1> QED BY <1>1, <1>2, <1>3 DEF BusInv

LEMMA BusInvariant == Spec => []BusInv
BY InitBusInv, NextKeepsBusInv, PTL DEF Spec

\* Publish never sends on a channel that Close has closed, although Close closes
\* it without a lock: removal under the write lock comes first.
THEOREM BusNoPanic == Spec => []NoPanic
<1>1. BusInv => NoPanic
  BY DEF BusInv
<1> QED BY <1>1, BusInvariant, PTL

-----------------------------------------------------------------------------
(* Escalation                                                               *)

\* A queued subscription has reached the threshold.
QueuedOverThreshold ==
    \A p \in Publishers : \A i \in 1 .. Len(escalate[p]) :
        dropped[escalate[p][i]] >= dropThreshold

QueueInv == TypeOK /\ CloseHasWork /\ QueuedOverThreshold /\ EscalatedOnce

\* EscalatedOnce, for two given places.
LEMMA SamePlace ==
    ASSUME EscalatedOnce, NEW q \in Publishers, NEW r \in Publishers,
           NEW i \in DOMAIN escalate[q], NEW j \in DOMAIN escalate[r],
           escalate[q][i] = escalate[r][j]
    PROVE  q = r /\ i = j
BY Zenon DEF EscalatedOnce

LEMMA OfferQueues ==
    ASSUME QueueInv, NEW p \in Publishers, NEW c \in Clients, Offer(p, c)
    PROVE  QueuedOverThreshold' /\ EscalatedOnce'
<1>1. dropped \in [Clients -> Nat] /\ dropThreshold \in Nat
  BY BusAssumption DEF QueueInv, TypeOK
<1>2. \A q \in Publishers : escalate[q] \in Seq(Clients)
  BY DEF QueueInv, TypeOK
<1>3. \A d \in Clients : dropped'[d] >= dropped[d]
  BY <1>1 DEF Offer
<1>4. CASE escalate' = escalate
  <2>1. EscalatedOnce'
    BY <1>4 DEF QueueInv, EscalatedOnce
  <2>2. QueuedOverThreshold'
    <3> SUFFICES ASSUME NEW q \in Publishers, NEW i \in 1 .. Len(escalate[q])
                 PROVE  dropped'[escalate[q][i]] >= dropThreshold
      BY <1>4 DEF QueuedOverThreshold
    <3>1. escalate[q][i] \in Clients /\ dropped[escalate[q][i]] >= dropThreshold
      BY <1>2 DEF QueueInv, QueuedOverThreshold
    <3>2. dropped' \in [Clients -> Nat]
      BY <1>1 DEF Offer
    <3> QED BY <1>1, <1>3, <3>1, <3>2
  <2> QED BY <2>1, <2>2
<1>5. CASE escalate' = [escalate EXCEPT ![p] = Append(@, c)] /\ dropped[c] + 1 = dropThreshold
           /\ dropped' = [dropped EXCEPT ![c] = @ + 1]
  <2>1. \A q \in Publishers : \A i \in 1 .. Len(escalate[q]) :
          escalate[q][i] \in Clients /\ escalate[q][i] # c /\ dropped[escalate[q][i]] >= dropThreshold
    BY <1>1, <1>2, <1>5 DEF QueueInv, QueuedOverThreshold
  <2>2. \A q \in Publishers : \A i \in 1 .. Len(escalate'[q]) :
          \/ i \in 1 .. Len(escalate[q]) /\ escalate'[q][i] = escalate[q][i]
          \/ q = p /\ i = Len(escalate[p]) + 1 /\ escalate'[q][i] = c
    BY <1>2, <1>5 DEF QueueInv, TypeOK
  <2>3. QueuedOverThreshold'
    <3> SUFFICES ASSUME NEW q \in Publishers, NEW i \in 1 .. Len(escalate'[q])
                 PROVE  dropped'[escalate'[q][i]] >= dropThreshold
      BY DEF QueuedOverThreshold
    <3>1. dropped'[c] = dropThreshold
      BY <1>1, <1>5
    <3>2. \A d \in Clients : d # c => dropped'[d] = dropped[d]
      BY <1>1, <1>5
    <3>3. CASE i \in 1 .. Len(escalate[q]) /\ escalate'[q][i] = escalate[q][i]
      <4>1. escalate[q][i] \in Clients /\ escalate[q][i] # c /\ dropped[escalate[q][i]] >= dropThreshold
        BY <2>1, <3>3
      <4>2. dropped'[escalate[q][i]] = dropped[escalate[q][i]]
        BY <3>2, <4>1
      <4> QED BY <3>3, <4>1, <4>2
    <3>4. CASE escalate'[q][i] = c
      BY <1>1, <3>1, <3>4
    <3> QED BY <2>2, <3>3, <3>4
  <2>4. EscalatedOnce'
    <3> SUFFICES ASSUME NEW q \in Publishers, NEW r \in Publishers,
                        NEW i \in DOMAIN escalate'[q], NEW j \in DOMAIN escalate'[r],
                        escalate'[q][i] = escalate'[r][j]
                 PROVE  q = r /\ i = j
      BY DEF EscalatedOnce
    <3>1. \A s \in Publishers :
            /\ DOMAIN escalate'[s] = 1 .. Len(escalate'[s])
            /\ DOMAIN escalate[s] = 1 .. Len(escalate[s])
      BY <1>2, <1>5 DEF QueueInv, TypeOK
    <3>2. i \in 1 .. Len(escalate'[q]) /\ j \in 1 .. Len(escalate'[r])
      BY <3>1
    <3>3. CASE escalate'[q][i] = c
      <4>1. q = p /\ i = Len(escalate[p]) + 1
        BY <2>1, <2>2, <3>2, <3>3
      <4>2. r = p /\ j = Len(escalate[p]) + 1
        BY <2>1, <2>2, <3>2, <3>3
      <4> QED BY <4>1, <4>2
    <3>4. CASE escalate'[q][i] # c
      <4>1. /\ i \in DOMAIN escalate[q] /\ escalate'[q][i] = escalate[q][i]
            /\ j \in DOMAIN escalate[r] /\ escalate'[r][j] = escalate[r][j]
        BY <2>2, <3>1, <3>2, <3>4
      <4>2. escalate[q][i] = escalate[r][j]
        BY <4>1
      <4> QED BY <4>1, <4>2, SamePlace DEF QueueInv
    <3> QED BY <3>3, <3>4
  <2> QED BY <2>3, <2>4
<1> QED BY <1>4, <1>5 DEF Offer

LEMMA EscalatedQueues ==
    ASSUME QueueInv, NEW p \in Publishers, Escalated(p)
    PROVE  QueuedOverThreshold' /\ EscalatedOnce'
<1>1. escalate[p] # <<>> /\ \A q \in Publishers : escalate[q] \in Seq(Clients)
  BY DEF QueueInv, TypeOK, CloseHasWork, Escalated
<1>2. \A q \in Publishers : escalate'[q] = IF q = p THEN Tail(escalate[p]) ELSE escalate[q]
  BY DEF QueueInv, TypeOK, Escalated
<1>3. dropped' = dropped
  BY DEF Escalated, busVars
<1> DEFINE f(s, k) == IF s = p THEN k + 1 ELSE k
<1>4. ASSUME NEW q \in Publishers, NEW i \in DOMAIN escalate'[q]
      PROVE  /\ i \in Int /\ f(q, i) \in DOMAIN escalate[q]
             /\ escalate'[q][i] = escalate[q][f(q, i)]
  <2>1. CASE q = p
    <3>1. escalate'[q] = Tail(escalate[q]) /\ escalate[q] # <<>> /\ escalate[q] \in Seq(Clients)
      BY <1>1, <1>2, <2>1
    <3>2. i \in 1 .. Len(escalate[q]) - 1 /\ Tail(escalate[q])[i] = escalate[q][i + 1]
      BY <3>1
    <3> QED BY <2>1, <3>1, <3>2
  <2>2. CASE q # p
    <3>1. escalate'[q] = escalate[q] /\ escalate[q] \in Seq(Clients)
      BY <1>1, <1>2, <2>2
    <3> QED BY <2>2, <3>1
  <2> QED BY <2>1, <2>2
<1>5. QueuedOverThreshold'
  <2> SUFFICES ASSUME NEW q \in Publishers, NEW i \in 1 .. Len(escalate'[q])
               PROVE  dropped[escalate'[q][i]] >= dropThreshold
    BY <1>3 DEF QueuedOverThreshold
  <2>1. escalate'[q] \in Seq(Clients)
    <3>1. Tail(escalate[p]) \in Seq(Clients)
      BY <1>1
    <3> QED BY <1>1, <1>2, <3>1
  <2>2. f(q, i) \in DOMAIN escalate[q] /\ escalate'[q][i] = escalate[q][f(q, i)]
    BY <1>4, <2>1
  <2>3. DOMAIN escalate[q] = 1 .. Len(escalate[q])
    BY <1>1
  <2> HIDE DEF f
  <2> QED BY <2>2, <2>3 DEF QueueInv, QueuedOverThreshold
<1>6. EscalatedOnce'
  <2> SUFFICES ASSUME NEW q \in Publishers, NEW r \in Publishers,
                      NEW i \in DOMAIN escalate'[q], NEW j \in DOMAIN escalate'[r],
                      escalate'[q][i] = escalate'[r][j]
               PROVE  q = r /\ i = j
    BY DEF EscalatedOnce
  <2>1. /\ i \in Int /\ j \in Int
        /\ f(q, i) \in DOMAIN escalate[q] /\ escalate'[q][i] = escalate[q][f(q, i)]
        /\ f(r, j) \in DOMAIN escalate[r] /\ escalate'[r][j] = escalate[r][f(r, j)]
    BY <1>4
  <2>2. q = r /\ f(q, i) = f(r, j)
    <3> HIDE DEF f
    <3>1. escalate[q][f(q, i)] = escalate[r][f(r, j)]
      BY <2>1
    <3> QED BY <2>1, <3>1, SamePlace DEF QueueInv
  <2> QED BY <2>1, <2>2
<1> QED BY <1>5, <1>6

\* Every other step leaves the queues and the counters alone.
LEMMA NextKeepsQueueInv == BusInv /\ BusInv' /\ QueueInv /\ [Next]_vars => QueueInv'
<1> SUFFICES ASSUME BusInv, BusInv', QueueInv, [Next]_vars PROVE QueuedOverThreshold' /\ EscalatedOnce'
  BY DEF QueueInv, BusInv
<1>1. ASSUME UNCHANGED <<dropped, escalate>> PROVE QueuedOverThreshold' /\ EscalatedOnce'
  BY <1>1 DEF QueueInv, QueuedOverThreshold, EscalatedOnce
<1>2. ASSUME NEW p \in Publishers, Publish(p) \/ PublishStep(p)
      PROVE  QueuedOverThreshold' /\ EscalatedOnce'
  <2>1. CASE Publish(p) \/ RUnlock(p) \/ \E s \in Sessions : RLock(p, s)
    BY <2>1, <1>1 DEF Publish, RUnlock, RLock, busVars
  <2> QED BY <1>2, <2>1, OfferQueues, EscalatedQueues DEF PublishStep
<1>3. ASSUME NEW c \in Clients,
             \/ Accept(c) \/ SubscribeStep(c) \/ CloseStep(c) \/ HandlerStep(c) \/ Watch(c)
             \/ WriteEvent(c) \/ Timeout(c) \/ Disconnect(c)
      PROVE  UNCHANGED <<dropped, escalate>>
  BY <1>3 DEF Accept, SubscribeStep, SubscribeLock, Subscribe, CloseStep, CloseLock, CloseRemove,
              CloseDone, CloseCh, HandlerStep, PumpEvent, PumpExit, WriteFails, Return, Leave, Watch,
              WriteEvent, Timeout, Disconnect, busVars, pubVars
<1>4. CASE UNCHANGED vars
  BY <1>4, <1>1 DEF vars, busVars, pubVars
<1> QED BY <1>1, <1>2, <1>3, <1>4 DEF Next

LEMMA InitQueueInv == Init => QueueInv
<1> SUFFICES ASSUME Init PROVE QueueInv
  OBVIOUS
<1>1. QueuedOverThreshold /\ EscalatedOnce
  BY DEF Init, QueuedOverThreshold, EscalatedOnce
<1> QED BY <1>1, InitBusInv DEF QueueInv, BusInv

\* The comparison with == in Publish queues a subscription at most once, in at
\* most one publisher, however many drop events at the same time.
THEOREM BusEscalatedOnce == Spec => []EscalatedOnce
<1>1. QueueInv => EscalatedOnce
  BY DEF QueueInv
<1> QED BY <1>1, BusInvariant, InitQueueInv, NextKeepsQueueInv, PTL DEF Spec

=============================================================================

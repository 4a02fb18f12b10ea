------------------------------ MODULE EventBus ------------------------------
(***************************************************************************)
(* The in-memory fan-out of the cloud: the bus                             *)
(* (backend/internal/bus/bus.go) under concurrent publishers, and one      *)
(* WebSocket handler per client (backend/internal/ws/handler.go) with its  *)
(* pump and its force-close watcher.                                       *)
(*                                                                         *)
(* The steps are the points where goroutines meet: the two halves of the   *)
(* bus's RWMutex, each channel operation, and the connection.  A client    *)
(* connects once, so it also names its subscription and its handler.  Of   *)
(* an event only its session counts, of a channel only how full it is.     *)
(***************************************************************************)
EXTENDS Integers, Sequences

CONSTANTS
    Publishers,         \* goroutines that call Publish
    Clients,            \* WebSocket clients
    Sessions,           \* sessions that have a row
    SessionOf,          \* the session in the path of a client's request
    NoClient,           \* nobody has or wants the write lock
    subscriberBuffer,   \* capacity of a subscription's channel
    dropThreshold,      \* drops after which a subscription is closed
    MAX_DROPPED         \* bound: Publish is not called with more drops than this

ASSUME BusAssumption ==
    /\ SessionOf \in [Clients -> Sessions]
    /\ NoClient \notin Clients
    /\ subscriberBuffer \in Nat /\ dropThreshold \in Nat \ {0} /\ MAX_DROPPED \in Nat

VARIABLES
    subs,           \* Bus.subs: the registered subscriptions
    readers,        \* publishers that hold mu for reading
    writer,         \* client for whose subscription mu is taken or waited for
    ch,             \* events in each subscription's channel
    dropped,        \* Subscription.dropped
    once,           \* how far closeOnce has come
    pc,             \* where each publisher is
    todo,           \* subscriptions its loop has still to visit
    escalate,       \* subscriptions it has queued for closing
    handler,        \* where each client's handler is
    conn,           \* the connection is open
    panicked        \* history: an event was sent on a closed channel

busVars == <<subs, readers, writer, ch, dropped, once>>
pubVars == <<pc, todo, escalate>>
wsVars == <<handler, conn>>
vars == <<busVars, pubVars, wsVars, panicked>>

\* Every variable has its type, and no channel holds more than its capacity.
TypeOK ==
    /\ subs \subseteq Clients /\ readers \subseteq Publishers
    /\ writer \in Clients \cup {NoClient}
    /\ ch \in [Clients -> 0 .. subscriberBuffer]
    /\ dropped \in [Clients -> Nat]
    /\ once \in [Clients -> {"open", "lock", "removed", "done", "closed"}]
    /\ pc \in [Publishers -> {"idle", "rlock", "send", "close"}]
    /\ todo \in [Publishers -> SUBSET Clients]
    /\ escalate \in [Publishers -> Seq(Clients)]
    /\ handler \in [Clients -> {"accept", "subscribe", "lock", "pump", "write", "closing", "returned"}]
    /\ conn \in [Clients -> BOOLEAN]
    /\ panicked \in BOOLEAN

Init ==
    /\ subs = {} /\ readers = {} /\ writer = NoClient
    /\ ch = [c \in Clients |-> 0]
    /\ dropped = [c \in Clients |-> 0]
    /\ once = [c \in Clients |-> "open"]
    /\ pc = [p \in Publishers |-> "idle"]
    /\ todo = [p \in Publishers |-> {}]
    /\ escalate = [p \in Publishers |-> <<>>]
    /\ handler = [c \in Clients |-> "accept"]
    /\ conn = [c \in Clients |-> FALSE]
    /\ panicked = FALSE

-----------------------------------------------------------------------------
(* Publish                                                                  *)

\* A producer calls Publish.
Publish(p) ==
    /\ pc[p] = "idle" /\ \A c \in Clients : dropped[c] < MAX_DROPPED
    /\ pc' = [pc EXCEPT ![p] = "rlock"]
    /\ UNCHANGED <<busVars, todo, escalate, wsVars, panicked>>

\* RLock: held off by a writer, also by one that still waits for readers.  The
\* loop passes over the subscriptions of other sessions than the event's.
RLock(p, s) ==
    /\ pc[p] = "rlock" /\ writer = NoClient
    /\ readers' = readers \cup {p}
    /\ todo' = [todo EXCEPT ![p] = {c \in subs : SessionOf[c] = s}]
    /\ pc' = [pc EXCEPT ![p] = "send"]
    /\ UNCHANGED <<subs, writer, ch, dropped, once, escalate, wsVars, panicked>>

Room(c) == ch[c] < subscriberBuffer

\* A mutation: every drop beyond the threshold queues the subscription.
Offer_at_least(p, c) ==
    /\ pc[p] = "send" /\ c \in todo[p]
    /\ todo' = [todo EXCEPT ![p] = @ \ {c}]
    /\ ch' = IF Room(c) THEN [ch EXCEPT ![c] = @ + 1] ELSE ch
    /\ dropped' = IF Room(c) THEN dropped ELSE [dropped EXCEPT ![c] = @ + 1]
    /\ escalate' = IF ~Room(c) /\ dropped[c] + 1 >= dropThreshold
                   THEN [escalate EXCEPT ![p] = Append(@, c)] ELSE escalate
    /\ UNCHANGED <<subs, readers, writer, once, pc, wsVars, panicked>>

\* One round of the loop: a send that does not wait.  A full channel costs the
\* event, and the drop that reaches the threshold queues the subscription.  A
\* send on a closed channel panics, full or not.
Offer(p, c) ==
    /\ pc[p] = "send" /\ c \in todo[p]
    /\ todo' = [todo EXCEPT ![p] = @ \ {c}]
    /\ panicked' = (panicked \/ once[c] = "closed")
    /\ ch' = IF Room(c) THEN [ch EXCEPT ![c] = @ + 1] ELSE ch
    /\ dropped' = IF Room(c) THEN dropped ELSE [dropped EXCEPT ![c] = @ + 1]
    /\ escalate' = IF ~Room(c) /\ dropped[c] + 1 = dropThreshold
                   THEN [escalate EXCEPT ![p] = Append(@, c)] ELSE escalate
    /\ UNCHANGED <<subs, readers, writer, once, pc, wsVars>>

\* A mutation: queued subscriptions are closed with the read lock held.
RUnlock_after_close(p) ==
    /\ pc[p] = "send" /\ todo[p] = {}
    /\ readers' = IF escalate[p] = <<>> THEN readers \ {p} ELSE readers
    /\ pc' = [pc EXCEPT ![p] = IF escalate[p] = <<>> THEN "idle" ELSE "close"]
    /\ UNCHANGED <<subs, writer, ch, dropped, once, todo, escalate, wsVars, panicked>>

\* RUnlock, and on to the queued subscriptions if there are any.
RUnlock(p) ==
    /\ pc[p] = "send" /\ todo[p] = {}
    /\ readers' = readers \ {p}
    /\ pc' = [pc EXCEPT ![p] = IF escalate[p] = <<>> THEN "idle" ELSE "close"]
    /\ UNCHANGED <<subs, writer, ch, dropped, once, todo, escalate, wsVars, panicked>>

\* sub.Close() has returned.
Escalated(p) ==
    /\ pc[p] = "close" /\ once[Head(escalate[p])] = "closed"
    /\ escalate' = [escalate EXCEPT ![p] = Tail(@)]
    /\ pc' = [pc EXCEPT ![p] = IF Tail(escalate[p]) = <<>> THEN "idle" ELSE "close"]
    /\ UNCHANGED <<busVars, todo, wsVars, panicked>>

-----------------------------------------------------------------------------
(* Subscribe and Close.  Lock first holds new readers off, then waits for   *)
(* the ones that are in.                                                    *)

Accept(c) ==
    /\ handler[c] = "accept"
    /\ conn' = [conn EXCEPT ![c] = TRUE]
    /\ handler' = [handler EXCEPT ![c] = "subscribe"]
    /\ UNCHANGED <<busVars, pubVars, panicked>>

SubscribeLock(c) ==
    /\ handler[c] = "subscribe" /\ writer = NoClient
    /\ writer' = c
    /\ handler' = [handler EXCEPT ![c] = "lock"]
    /\ UNCHANGED <<subs, readers, ch, dropped, once, pubVars, conn, panicked>>

Subscribe(c) ==
    /\ handler[c] = "lock" /\ readers = {}
    /\ subs' = subs \cup {c}
    /\ writer' = NoClient
    /\ handler' = [handler EXCEPT ![c] = "pump"]
    /\ UNCHANGED <<readers, ch, dropped, once, pubVars, conn, panicked>>

\* Somebody is in sub.Close(): the handler's deferred call, or a publisher.
\* The first one runs the body and the others wait for it to end.
Closing(c) ==
    \/ handler[c] = "closing"
    \/ \E p \in Publishers : pc[p] = "close" /\ Head(escalate[p]) = c

CloseLock(c) ==
    /\ Closing(c) /\ once[c] = "open" /\ writer = NoClient
    /\ writer' = c
    /\ once' = [once EXCEPT ![c] = "lock"]
    /\ UNCHANGED <<subs, readers, ch, dropped, pubVars, wsVars, panicked>>

\* A mutation: the map is changed while publishers go through it.
CloseRemove_unlocked(c) ==
    /\ once[c] = "lock"
    /\ subs' = subs \ {c}
    /\ writer' = NoClient
    /\ once' = [once EXCEPT ![c] = "removed"]
    /\ UNCHANGED <<readers, ch, dropped, pubVars, wsVars, panicked>>

CloseRemove(c) ==
    /\ once[c] = "lock" /\ readers = {}
    /\ subs' = subs \ {c}
    /\ writer' = NoClient
    /\ once' = [once EXCEPT ![c] = "removed"]
    /\ UNCHANGED <<readers, ch, dropped, pubVars, wsVars, panicked>>

CloseDone(c) ==
    /\ once[c] = "removed"
    /\ once' = [once EXCEPT ![c] = "done"]
    /\ UNCHANGED <<subs, readers, writer, ch, dropped, pubVars, wsVars, panicked>>

CloseCh(c) ==
    /\ once[c] = "done"
    /\ once' = [once EXCEPT ![c] = "closed"]
    /\ UNCHANGED <<subs, readers, writer, ch, dropped, pubVars, wsVars, panicked>>

Done(c) == once[c] \in {"done", "closed"}

-----------------------------------------------------------------------------
(* The WebSocket handler of a client                                        *)

\* pump takes the next event from the channel and writes it.
PumpEvent(c) ==
    /\ handler[c] = "pump" /\ ch[c] > 0
    /\ ch' = [ch EXCEPT ![c] = @ - 1]
    /\ handler' = [handler EXCEPT ![c] = "write"]
    /\ UNCHANGED <<subs, readers, writer, dropped, once, pubVars, conn, panicked>>

\* pump has returned: the connection is closed, and the deferred sub.Close()
\* comes next.
Leave(c) ==
    /\ handler' = [handler EXCEPT ![c] = "closing"]
    /\ conn' = [conn EXCEPT ![c] = FALSE]
    /\ UNCHANGED <<busVars, pubVars, panicked>>

\* sub.Done(), clientGone, or a channel that is closed and empty.
PumpExit(c) ==
    /\ handler[c] = "pump" /\ (Done(c) \/ ~conn[c] \/ (once[c] = "closed" /\ ch[c] = 0))
    /\ Leave(c)

\* The client takes the frame.
WriteEvent(c) ==
    /\ handler[c] = "write" /\ conn[c]
    /\ handler' = [handler EXCEPT ![c] = "pump"]
    /\ UNCHANGED <<busVars, pubVars, conn, panicked>>

\* The write fails on a closed connection.
WriteFails(c) == handler[c] = "write" /\ ~conn[c] /\ Leave(c)

\* maxConnDuration or writeTimeout runs out.
Timeout(c) == handler[c] \in {"pump", "write"} /\ Leave(c)

\* A mutation: nobody watches sub.Done().
Watch_absent(c) ==
    /\ FALSE
    /\ UNCHANGED vars

\* The force-close watcher.
Watch(c) ==
    /\ Done(c) /\ conn[c]
    /\ conn' = [conn EXCEPT ![c] = FALSE]
    /\ UNCHANGED <<busVars, pubVars, handler, panicked>>

\* The deferred sub.Close() has returned.
Return(c) ==
    /\ handler[c] = "closing" /\ once[c] = "closed"
    /\ handler' = [handler EXCEPT ![c] = "returned"]
    /\ UNCHANGED <<busVars, pubVars, conn, panicked>>

\* The client goes away.
Disconnect(c) ==
    /\ conn[c]
    /\ conn' = [conn EXCEPT ![c] = FALSE]
    /\ UNCHANGED <<busVars, pubVars, handler, panicked>>

-----------------------------------------------------------------------------

PublishStep(p) ==
    \/ \E s \in Sessions : RLock(p, s)
    \/ \E c \in Clients : Offer(p, c)
    \/ RUnlock(p) \/ Escalated(p)

SubscribeStep(c) == SubscribeLock(c) \/ Subscribe(c)
CloseStep(c) == CloseLock(c) \/ CloseRemove(c) \/ CloseDone(c) \/ CloseCh(c)
HandlerStep(c) == PumpEvent(c) \/ PumpExit(c) \/ WriteFails(c) \/ Return(c)

Next ==
    \/ \E p \in Publishers : Publish(p) \/ PublishStep(p)
    \/ \E c \in Clients :
         \/ Accept(c) \/ SubscribeStep(c) \/ CloseStep(c) \/ HandlerStep(c) \/ Watch(c)
         \/ WriteEvent(c) \/ Timeout(c) \/ Disconnect(c)

\* Goroutines that can run do, and a lock that stays free is taken (the RWMutex
\* starves nobody).  Nothing is assumed of the clients: they may never read,
\* connect or leave; nor do the timeouts have to run out.
Fairness ==
    /\ \A p \in Publishers : WF_vars(PublishStep(p))
    /\ \A c \in Clients :
         WF_vars(SubscribeStep(c)) /\ WF_vars(CloseStep(c)) /\ WF_vars(HandlerStep(c)) /\ WF_vars(Watch(c))

Spec == Init /\ [][Next]_vars /\ Fairness

-----------------------------------------------------------------------------
(* Properties                                                               *)

\* No event is sent on a closed channel, which would bring the server down: a
\* channel is closed while other publishers run, without any lock held.
NoPanic == ~panicked

\* bus.go:80-82: the test with == "ensures exactly one goroutine queues this sub
\* for close even under concurrent drops".
EscalatedOnce ==
    \A p, q \in Publishers : \A i \in DOMAIN escalate[p], j \in DOMAIN escalate[q] :
        escalate[p][i] = escalate[q][j] => p = q /\ i = j

\* "One slow subscriber can't stall the bus": Publish returns although no client
\* ever reads, also when it has subscriptions to close.
PublishReturns == \A p \in Publishers : pc[p] # "idle" ~> pc[p] = "idle"

\* A subscription that has lost dropThreshold events is closed and its handler
\* returns, also from a write to a client that does not read and before any
\* timeout.
SlowClientCut ==
    \A c \in Clients : dropped[c] >= dropThreshold ~> c \notin subs /\ handler[c] = "returned"
=============================================================================

-------------------------- MODULE SessionLifecycle --------------------------
(***************************************************************************)
(* The life of the sessions of one BBB, from the cloud's table to the      *)
(* agent: the session service (backend/internal/sessions/service.go) over  *)
(* the sessions table, the JetStream publisher (natspub/publisher.go), the *)
(* COMMANDS stream (infra/nats/setup-streams.sh) and the session gate of   *)
(* the agent (bbb/orchestrator/command_bridge.py, state.py).               *)
(*                                                                         *)
(* Requests run concurrently: the steps of one are its SQL statements and  *)
(* its publish.  Sessions of other BBBs have other subjects and rows, and  *)
(* do not interact with these.                                             *)
(***************************************************************************)
EXTENDS Integers, Sequences, FiniteSets, SequencesExt

CONSTANTS
    Sessions,       \* ids of sessions, each allocated at most once
    NoSession,      \* the empty session_id
    MAX_CALLS,      \* bound: requests in progress at the same time
    MAX_FAULTS,     \* bound: faults in a behaviour
    Faults          \* the faults that may happen

ASSUME SessionAssumption ==
    /\ NoSession \notin Sessions
    /\ MAX_CALLS \in Nat /\ MAX_FAULTS \in Nat

VARIABLES
    status,         \* status column of each session's row, "none" without a row
    calls,          \* where the requests in progress are
    stream,         \* commands the agent has still to receive, oldest first
    unacked,        \* handled commands whose ack the broker did not get
    session_id,     \* DeviceState.session_id of the agent
    faults,         \* faults so far
    told,           \* history: sessions whose session_start reached the stream since the agent started
    orderly,        \* history: requests did not overlap and only publishes were lost
    serial          \* history: the same, but a publish may also have been late

vars == <<status, calls, stream, unacked, session_id, faults, told, orderly, serial>>

Steps == {"publish_start", "revert_allocate", "publish_stop", "revert_stop"}
Commands == [type : {"session_start", "session_stop"}, session : Sessions]
Start(s) == [type |-> "session_start", session |-> s]
Stop(s) == [type |-> "session_stop", session |-> s]

\* Every variable has its type.
TypeOK ==
    /\ status \in [Sessions -> {"none", "running", "stopped"}]
    /\ calls \subseteq [step : Steps, session : Sessions]
    /\ stream \in Seq(Commands)
    /\ unacked \in Seq(Commands)
    /\ session_id \in Sessions \cup {NoSession}
    /\ faults \in 0 .. MAX_FAULTS
    /\ told \subseteq Sessions /\ orderly \in BOOLEAN /\ serial \in BOOLEAN

Init ==
    /\ status = [s \in Sessions |-> "none"]
    /\ calls = {}
    /\ stream = <<>>
    /\ unacked = <<>>
    /\ session_id = NoSession
    /\ faults = 0
    /\ told = {} /\ orderly = TRUE /\ serial = TRUE

Counted(f) ==
    /\ f \in Faults /\ faults < MAX_FAULTS
    /\ faults' = faults + 1

Fault(f) ==
    /\ Counted(f)
    /\ orderly' = (orderly /\ f = "publish_lost")
    /\ serial' = (serial /\ f \in {"publish_lost", "publish_late"})

Call(step, s) == [step |-> step, session |-> s]
Goto(from, to, s) == calls' = (calls \ {Call(from, s)}) \cup {Call(to, s)}
Return(from, s) == calls' = calls \ {Call(from, s)}

-----------------------------------------------------------------------------
(* Session service                                                          *)

\* A mutation: the table has no unique index.
IndexAllows_always(s) == TRUE

\* sessions_one_active_per_bbb_idx: a row may only become running while no
\* other row of this BBB is.
IndexAllows(s) == \A t \in Sessions \ {s} : status[t] # "running"

\* Allocate: the INSERT.  A unique violation is answered with ErrBBBBusy and
\* changes nothing.
Allocate(s) ==
    /\ status[s] = "none" /\ IndexAllows(s)
    /\ status' = [status EXCEPT ![s] = "running"]
    /\ calls' = calls \cup {Call("publish_start", s)}
    /\ orderly' = (orderly /\ calls = {}) /\ serial' = (serial /\ calls = {})
    /\ UNCHANGED <<stream, unacked, session_id, faults, told>>

\* Stop: the UPDATE.  Without a running row it is answered with ErrNotFound or
\* ErrInvalidTransition and changes nothing.
StopSession(s) ==
    /\ status[s] = "running"
    /\ status' = [status EXCEPT ![s] = "stopped"]
    /\ calls' = calls \cup {Call("publish_stop", s)}
    /\ orderly' = (orderly /\ calls = {}) /\ serial' = (serial /\ calls = {})
    /\ UNCHANGED <<stream, unacked, session_id, faults, told>>

\* The command is in the stream.
Published(m) ==
    /\ stream' = Append(stream, m)
    /\ told' = IF m.type = "session_start" THEN told \cup {m.session} ELSE told

\* publishLifecycle: the broker's ack arrives (and the event bus is told, which
\* is not modelled); the publish does not reach the stream; or it does and only
\* the ack is late.
PublishLifecycle(step, m, revert) ==
    /\ Call(step, m.session) \in calls
    /\ \/ /\ Published(m)
          /\ Return(step, m.session)
          /\ UNCHANGED <<faults, orderly, serial>>
       \/ /\ Fault("publish_lost")
          /\ Goto(step, revert, m.session)
          /\ UNCHANGED <<stream, told>>
       \/ /\ Fault("publish_late")
          /\ Published(m)
          /\ Goto(step, revert, m.session)
    /\ UNCHANGED <<status, unacked, session_id>>

PublishStart(s) == PublishLifecycle("publish_start", Start(s), "revert_allocate")
PublishStop(s) == PublishLifecycle("publish_stop", Stop(s), "revert_stop")

\* A mutation: the DELETE looks for the status that Allocate inserts.
RevertAllocate_deletes(s) ==
    /\ Call("revert_allocate", s) \in calls
    /\ status' = [status EXCEPT ![s] = IF @ = "running" THEN "none" ELSE @]
    /\ Return("revert_allocate", s)
    /\ UNCHANGED <<stream, unacked, session_id, faults, told, orderly, serial>>

\* revertAllocate: DELETE ... WHERE status = 'allocated'.
RevertAllocate(s) ==
    /\ Call("revert_allocate", s) \in calls
    /\ status' = [status EXCEPT ![s] = IF @ = "allocated" THEN "none" ELSE @]
    /\ Return("revert_allocate", s)
    /\ UNCHANGED <<stream, unacked, session_id, faults, told, orderly, serial>>

\* A mutation: the row stays stopped.
RevertStop_forgotten(s) ==
    /\ Call("revert_stop", s) \in calls
    /\ Return("revert_stop", s)
    /\ UNCHANGED <<status, stream, unacked, session_id, faults, told, orderly, serial>>

\* revertStop: back to running, unless a newer session has taken the BBB: the
\* unique violation is only logged.
RevertStop(s) ==
    /\ Call("revert_stop", s) \in calls
    /\ status' = [status EXCEPT ![s] = IF @ = "stopped" /\ IndexAllows(s) THEN "running" ELSE @]
    /\ Return("revert_stop", s)
    /\ UNCHANGED <<stream, unacked, session_id, faults, told, orderly, serial>>

\* The server dies, or a request's context ends, between two of its steps.
Abandon(c) ==
    /\ Fault("abandon")
    /\ calls' = calls \ {c}
    /\ UNCHANGED <<status, stream, unacked, session_id, told>>

-----------------------------------------------------------------------------
(* The agent and the stream                                                 *)

\* A mutation: the test of a session_stop's id is the wrong way round.
SessionCheckPasses_swapped(m) ==
    IF m.type = "session_start" THEN session_id = NoSession
    ELSE session_id # NoSession /\ session_id # m.session

\* _session_check_passes
SessionCheckPasses(m) ==
    IF m.type = "session_start" THEN session_id = NoSession
    ELSE session_id # NoSession /\ session_id = m.session

\* _dispatch: the gate, the handler and the ack, which the broker may not get.
Dispatch ==
    /\ stream # <<>>
    /\ LET m == Head(stream)
       IN  /\ session_id' = IF ~SessionCheckPasses(m) THEN session_id
                             ELSE IF m.type = "session_start" THEN m.session ELSE NoSession
           /\ \/ UNCHANGED <<unacked, faults, orderly, serial>>
              \/ Fault("ack_lost") /\ unacked' = Append(unacked, m)
    /\ stream' = Tail(stream)
    /\ UNCHANGED <<status, calls, told>>

\* After ack_wait the broker delivers an unacked command again.
Redeliver ==
    /\ \E i \in 1 .. Len(unacked) :
         /\ stream' = Append(stream, unacked[i])
         /\ unacked' = RemoveAt(unacked, i)
    /\ UNCHANGED <<status, calls, session_id, faults, told, orderly, serial>>

\* max-age: a command the agent did not fetch for an hour is dropped.
Expire ==
    /\ stream # <<>>
    /\ Fault("expire")
    /\ stream' = Tail(stream)
    /\ UNCHANGED <<status, calls, unacked, session_id, told>>

\* Nothing is under way between the table and the agent.
Quiet == calls = {} /\ stream = <<>> /\ unacked = <<>>

\* The agent restarts with a new DeviceState; commands it had not acked stay in
\* the stream (drain() naks them).  The histories begin again: what went wrong
\* before a restart at a quiet moment is no excuse for what comes after it.
AgentRestart ==
    /\ Counted("agent_restart")
    /\ session_id' = NoSession
    /\ told' = {} /\ orderly' = Quiet /\ serial' = Quiet
    /\ UNCHANGED <<status, calls, stream, unacked>>

-----------------------------------------------------------------------------

Request ==
    /\ Cardinality(calls) < MAX_CALLS
    /\ \E s \in Sessions : Allocate(s) \/ StopSession(s)

Finish == \E s \in Sessions :
    PublishStart(s) \/ PublishStop(s) \/ RevertAllocate(s) \/ RevertStop(s)

Next ==
    \/ Request \/ Finish
    \/ \E c \in calls : Abandon(c)
    \/ Dispatch \/ Redeliver \/ Expire \/ AgentRestart

\* A request that has begun ends (the publish has a timeout), and the agent's
\* subscription handles what it receives.  Nobody has to make a request.
Fairness == WF_vars(Finish) /\ WF_vars(Dispatch) /\ WF_vars(Redeliver)

Spec == Init /\ [][Next]_vars /\ Fairness

-----------------------------------------------------------------------------
(* Properties                                                               *)

\* A BBB has at most one running session, whatever requests overlap or fail;
\* in particular when revertStop revives a session after its BBB was given to
\* another one.
AtMostOneActive ==
    \A s, t \in Sessions : status[s] = "running" /\ status[t] = "running" => s = t

InStream(m) == m \in Range(stream)
Stopping(s) == InStream(Stop(s)) \/ \E step \in {"publish_stop", "revert_stop"} : Call(step, s) \in calls

\* The agent is in a session only if the table says so or the stop is on its
\* way.
AgentFollowsTable == session_id # NoSession => status[session_id] = "running" \/ Stopping(session_id)

\* A running session the agent was told of is the agent's session, or its start
\* is still on its way.
TableFollowsAgent ==
    \A s \in told : status[s] = "running" => session_id = s \/ InStream(Start(s))

\* The table and the agent agree, up to what is under way, through every
\* sequence of requests, failed publishes and reverts.  They can only be held to
\* it while requests do not overlap and nothing else fails: a command that is
\* late, expired or delivered twice changes the agent's session behind the
\* table's back.  An agent that restarts while nothing is under way ends any such
\* disorder: from then on the sides agree again about the sessions started since,
\* although the table may still show the one the agent forgot.
SidesAgree == orderly => AgentFollowsTable /\ TableFollowsAgent

\* The BBB is never left in a session that the table has ended, also when the
\* publisher times out on commands that did reach the stream and the service
\* reverts what it had already done: a reverted start keeps its row, and a
\* reverted stop only ends the agent's session before the row's.
NoOrphanSession == serial => AgentFollowsTable

\* A session that is stopped in the table ends on the BBB too, unless the stop
\* is reverted.
StopReachesAgent ==
    \A s \in Sessions :
        status[s] = "stopped" ~> (session_id # s \/ status[s] = "running" \/ ~orderly)

\* service.go:200-202: revertAllocate deletes the row "so the frontend never
\* sees a session the BBB doesn't know about".
NoUnknownSession ==
    \A s \in Sessions : status[s] = "running" /\ (\A c \in calls : c.session # s) => s \in told
=============================================================================

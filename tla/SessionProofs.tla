--------------------------- MODULE SessionProofs ---------------------------
(***************************************************************************)
(* Proofs about the session life cycle for every set of sessions, every    *)
(* number of overlapping requests and every combination of faults.         *)
(*                                                                         *)
(* For SidesAgree the invariant follows a command through the stream: the  *)
(* request in progress (CallsInv), what the agent's session is waiting for *)
(* (AgentInv), and that starts and stops alternate (StreamInv).  For       *)
(* NoOrphanSession it only follows the end of a session (AllEnd).          *)
(***************************************************************************)
EXTENDS SessionLifecycle, SequenceTheorems, TLAPS

\* The inductive invariant: without the domain of the table, EXCEPT says
\* nothing about the row that is written.
ActiveInv ==
    /\ status \in [Sessions -> {"none", "running", "stopped"}]
    /\ AtMostOneActive

\* A row that becomes running while the index allows it is the only one.
LEMMA IndexKeepsOne ==
    ASSUME ActiveInv, NEW s \in Sessions, IndexAllows(s),
           status' = [status EXCEPT ![s] = "running"]
    PROVE  ActiveInv'
BY DEF ActiveInv, AtMostOneActive, IndexAllows

\* A row that becomes stopped takes no BBB.
LEMMA StoppingKeepsOne ==
    ASSUME ActiveInv, NEW s \in Sessions,
           status' = [status EXCEPT ![s] = "stopped"]
    PROVE  ActiveInv'
BY DEF ActiveInv, AtMostOneActive

\* Every step of the requests, the stream and the agent keeps the invariant.
LEMMA NextActiveInv == ActiveInv /\ [Next]_vars => ActiveInv'
<1> SUFFICES ASSUME ActiveInv, [Next]_vars PROVE ActiveInv'
  OBVIOUS
<1>1. ASSUME status' = status PROVE ActiveInv'
  BY <1>1 DEF ActiveInv, AtMostOneActive
<1>2. ASSUME NEW s \in Sessions, Allocate(s) PROVE ActiveInv'
  BY <1>2, IndexKeepsOne DEF Allocate
<1>3. ASSUME NEW s \in Sessions, StopSession(s) PROVE ActiveInv'
  BY <1>3, StoppingKeepsOne DEF StopSession
<1>4. ASSUME NEW s \in Sessions, PublishStart(s) \/ PublishStop(s) PROVE ActiveInv'
  BY <1>4, <1>1 DEF PublishStart, PublishStop, PublishLifecycle
<1>5. ASSUME NEW s \in Sessions, RevertAllocate(s) PROVE ActiveInv'
  <2>1. status[s] # "allocated"
    BY DEF ActiveInv
  <2>2. status' = status
    BY <1>5, <2>1 DEF RevertAllocate, ActiveInv
  <2> QED BY <2>2, <1>1
<1>6. ASSUME NEW s \in Sessions, RevertStop(s) PROVE ActiveInv'
  <2>1. CASE status[s] = "stopped" /\ IndexAllows(s)
    <3>1. status' = [status EXCEPT ![s] = "running"]
      BY <1>6, <2>1 DEF RevertStop
    <3> QED BY <2>1, <3>1, IndexKeepsOne
  <2>2. CASE ~(status[s] = "stopped" /\ IndexAllows(s))
    <3>1. status' = status
      BY <1>6, <2>2 DEF RevertStop, ActiveInv
    <3> QED BY <3>1, <1>1
  <2> QED BY <2>1, <2>2
<1>7. ASSUME NEW c \in calls, Abandon(c) PROVE ActiveInv'
  BY <1>7, <1>1 DEF Abandon
<1>8. CASE Dispatch \/ Redeliver \/ Expire \/ AgentRestart
  BY <1>8, <1>1 DEF Dispatch, Redeliver, Expire, AgentRestart
<1>9. CASE UNCHANGED vars
  BY <1>9, <1>1 DEF vars
<1> QED
  BY <1>2, <1>3, <1>4, <1>5, <1>6, <1>7, <1>8, <1>9 DEF Next, Request, Finish

\* A BBB never has two running sessions, for any number of sessions, requests
\* and faults: Allocate and revertStop cannot both win it.
THEOREM SessionsAtMostOneActive == Spec => []AtMostOneActive
<1>1. Init => ActiveInv
  BY DEF Init, ActiveInv, AtMostOneActive
<1>2. ActiveInv => AtMostOneActive
  BY DEF ActiveInv
<1> QED BY <1>1, <1>2, NextActiveInv, PTL DEF Spec

\* What a step does to the two sequences of commands and to the fault counter.
LEMMA FaultCounts ==
    ASSUME TypeOK, NEW f, Counted(f) PROVE faults' \in 0 .. MAX_FAULTS
BY SessionAssumption DEF TypeOK, Counted

LEMMA FaultTyped ==
    ASSUME TypeOK, NEW f, Fault(f)
    PROVE  faults' \in 0 .. MAX_FAULTS /\ orderly' \in BOOLEAN /\ serial' \in BOOLEAN
<1>1. faults' \in 0 .. MAX_FAULTS
  BY FaultCounts DEF Fault
<1>2. orderly' \in BOOLEAN /\ serial' \in BOOLEAN
  BY DEF Fault
<1> QED BY <1>1, <1>2

LEMMA StreamKeepsCommands ==
    ASSUME TypeOK, stream # <<>>
    PROVE  Head(stream) \in Commands /\ Tail(stream) \in Seq(Commands)
BY DEF TypeOK

LEMMA RemovalKeepsCommands ==
    ASSUME NEW q \in Seq(Commands), NEW i \in 1 .. Len(q)
    PROVE  q[i] \in Commands /\ RemoveAt(q, i) \in Seq(Commands)
<1>1. SubSeq(q, 1, i - 1) \in Seq(Commands) /\ SubSeq(q, i + 1, Len(q)) \in Seq(Commands)
  BY SubSeqProperties
<1> QED BY <1>1, ConcatProperties, ElementOfSeq DEF RemoveAt

\* publishLifecycle and its two callers.
LEMMA PublishKeepsType ==
    ASSUME TypeOK, NEW step \in Steps, NEW revert \in Steps, NEW m \in Commands,
           PublishLifecycle(step, m, revert)
    PROVE  TypeOK'
<1>1. m.session \in Sessions /\ Call(step, m.session) \in [step : Steps, session : Sessions]
      /\ Call(revert, m.session) \in [step : Steps, session : Sessions]
  BY DEF Commands, Call
<1>2. calls' \subseteq [step : Steps, session : Sessions]
  BY <1>1 DEF TypeOK, PublishLifecycle, Return, Goto
<1>3. stream' \in Seq(Commands) /\ told' \subseteq Sessions
  <2>1. Append(stream, m) \in Seq(Commands)
    BY AppendProperties DEF TypeOK
  <2>2. CASE Published(m)
    BY <1>1, <2>1, <2>2 DEF TypeOK, Published
  <2>3. CASE UNCHANGED <<stream, told>>
    BY <2>3 DEF TypeOK
  <2> QED BY <2>2, <2>3 DEF PublishLifecycle
<1>4. faults' \in 0 .. MAX_FAULTS /\ orderly' \in BOOLEAN /\ serial' \in BOOLEAN
  BY FaultTyped DEF TypeOK, PublishLifecycle
<1> QED BY <1>2, <1>3, <1>4 DEF TypeOK, PublishLifecycle

LEMMA RequestKeepsType == ASSUME TypeOK, Request PROVE TypeOK'
<1>1. PICK s \in Sessions : Allocate(s) \/ StopSession(s)
  BY DEF Request
<1>2. Call("publish_start", s) \in [step : Steps, session : Sessions]
      /\ Call("publish_stop", s) \in [step : Steps, session : Sessions]
  BY DEF Call, Steps
<1>3. CASE Allocate(s)
  BY <1>2, <1>3 DEF TypeOK, Allocate
<1>4. CASE StopSession(s)
  BY <1>2, <1>4 DEF TypeOK, StopSession
<1> QED BY <1>1, <1>3, <1>4

LEMMA FinishKeepsType == ASSUME TypeOK, Finish PROVE TypeOK'
<1>1. PICK s \in Sessions : PublishStart(s) \/ PublishStop(s) \/ RevertAllocate(s) \/ RevertStop(s)
  BY DEF Finish
<1>2. Start(s) \in Commands /\ Stop(s) \in Commands
  BY DEF Start, Stop, Commands
<1>3. CASE PublishStart(s)
  BY <1>2, <1>3, PublishKeepsType DEF PublishStart, Steps
<1>4. CASE PublishStop(s)
  BY <1>2, <1>4, PublishKeepsType DEF PublishStop, Steps
<1>5. CASE RevertAllocate(s)
  BY <1>5 DEF TypeOK, RevertAllocate, Return
<1>6. CASE RevertStop(s)
  BY <1>6 DEF TypeOK, RevertStop, Return
<1> QED BY <1>1, <1>3, <1>4, <1>5, <1>6

LEMMA AgentKeepsType ==
    ASSUME TypeOK, Dispatch \/ Redeliver \/ Expire \/ AgentRestart PROVE TypeOK'
<1>1. CASE Dispatch
  <2>1. Head(stream) \in Commands /\ stream' \in Seq(Commands)
    BY <1>1, StreamKeepsCommands DEF Dispatch
  <2>2. session_id' \in Sessions \cup {NoSession}
    BY <1>1, <2>1 DEF TypeOK, Dispatch, Commands
  <2>3. unacked' \in Seq(Commands)
    <3>1. Append(unacked, Head(stream)) \in Seq(Commands)
      BY <2>1, AppendProperties DEF TypeOK
    <3>2. unacked' = unacked \/ unacked' = Append(unacked, Head(stream))
      BY <1>1 DEF Dispatch
    <3> QED BY <3>1, <3>2 DEF TypeOK
  <2>4. faults' \in 0 .. MAX_FAULTS /\ orderly' \in BOOLEAN /\ serial' \in BOOLEAN
    BY <1>1, FaultTyped DEF TypeOK, Dispatch
  <2> QED BY <1>1, <2>1, <2>2, <2>3, <2>4 DEF TypeOK, Dispatch
<1>2. CASE Redeliver
  <2>1. PICK i \in 1 .. Len(unacked) : stream' = Append(stream, unacked[i]) /\ unacked' = RemoveAt(unacked, i)
    BY <1>2 DEF Redeliver
  <2>2. unacked[i] \in Commands /\ unacked' \in Seq(Commands)
    BY <2>1, RemovalKeepsCommands DEF TypeOK
  <2>3. stream' \in Seq(Commands)
    BY <2>1, <2>2 DEF TypeOK
  <2> QED BY <1>2, <2>2, <2>3 DEF TypeOK, Redeliver
<1>3. CASE Expire
  BY <1>3, FaultTyped, StreamKeepsCommands DEF TypeOK, Expire
<1>4. CASE AgentRestart
  BY <1>4, FaultCounts DEF TypeOK, AgentRestart, Quiet
<1> QED BY <1>1, <1>2, <1>3, <1>4

\* The rows, the requests in progress, the stream and the agent's session keep
\* their types; in particular no row ever has the status 'allocated' that
\* revertAllocate deletes by.
THEOREM SessionsTypeCorrect == Spec => []TypeOK
<1>1. Init => TypeOK
  BY SessionAssumption DEF Init, TypeOK
<1>2. TypeOK /\ [Next]_vars => TypeOK'
  <2> SUFFICES ASSUME TypeOK, [Next]_vars PROVE TypeOK'
    OBVIOUS
  <2>1. ASSUME NEW c \in calls, Abandon(c) PROVE TypeOK'
    BY <2>1, FaultTyped DEF TypeOK, Abandon
  <2>2. CASE UNCHANGED vars
    BY <2>2 DEF TypeOK, vars
  <2> QED BY <2>1, <2>2, RequestKeepsType, FinishKeepsType, AgentKeepsType DEF Next
<1> QED BY <1>1, <1>2, PTL DEF Spec

-----------------------------------------------------------------------------
(* Agreement of the table and the agent.                                   *)

\* A stop of s is in progress: its row is stopped, its command not sent yet.
Ending(s) == \E step \in {"publish_stop", "revert_stop"} : Call(step, s) \in calls

\* The request in progress, at most one, and what it has done so far.
CallsInv ==
    /\ \A c, d \in calls : c = d
    /\ \A c \in calls :
        IF c.step \in {"publish_start", "revert_allocate"}
        THEN status[c.session] = "running" /\ c.session \notin told
        ELSE status[c.session] = "stopped" /\ \A t \in Sessions : status[t] # "running"

\* The agent's session was started and lasts until its stop arrives; a session
\* that was started and not stopped is the agent's or will be.
AgentInv ==
    /\ \A s \in told : status[s] # "none"
    /\ session_id # NoSession =>
        /\ session_id \in told
        /\ status[session_id] = "running" \/ Ending(session_id) \/ InStream(Stop(session_id))
    /\ \A s \in told : status[s] = "running" \/ Ending(s) => session_id = s \/ InStream(Start(s))

\* A stop in the stream is final; a start in it is not followed by silence, and
\* comes after the stop of the session the agent is in.
CommandInv(i) ==
    IF stream[i].type = "session_stop"
    THEN status[stream[i].session] = "stopped" /\ ~Ending(stream[i].session)
    ELSE /\ stream[i].session \in told
         /\ \/ status[stream[i].session] = "running" \/ Ending(stream[i].session)
            \/ \E k \in i + 1 .. Len(stream) : stream[k] = Stop(stream[i].session)
         /\ session_id # NoSession => \E k \in 1 .. i - 1 : stream[k] = Stop(session_id)

\* Between two starts is the stop of the first.
StartsApart(i, j) ==
    stream[i].type = "session_start" /\ stream[j].type = "session_start"
    => \E k \in i + 1 .. j - 1 : stream[k] = Stop(stream[i].session)

StreamInv ==
    /\ \A i \in 1 .. Len(stream) : CommandInv(i)
    /\ \A j \in 1 .. Len(stream) : \A i \in 1 .. j - 1 : StartsApart(i, j)

OrderlyInv == orderly => unacked = <<>> /\ CallsInv /\ AgentInv /\ StreamInv

LEMMA InStreamAt ==
    ASSUME TypeOK, NEW m PROVE InStream(m) <=> \E i \in 1 .. Len(stream) : stream[i] = m
<1>1. Range(stream) = {stream[i] : i \in 1 .. Len(stream)}
  BY RangeEquality DEF TypeOK
<1> QED BY <1>1 DEF InStream

LEMMA CommandCases ==
    ASSUME NEW m \in Commands
    PROVE  /\ m.session \in Sessions
           /\ \/ m.type = "session_stop" /\ m = Stop(m.session)
              \/ m.type = "session_start" /\ m = Start(m.session)
<1>1. m.session \in Sessions /\ m.type \in {"session_start", "session_stop"}
  BY DEF Commands
<1>2. m = [type |-> m.type, session |-> m.session]
  BY DEF Commands
<1>3. CASE m.type = "session_stop"
  <2>1. m = Stop(m.session)
    BY <1>2, <1>3, Zenon DEF Stop
  <2> QED BY <1>1, <1>3, <2>1
<1>4. CASE m.type = "session_start"
  <2>1. m = Start(m.session)
    BY <1>2, <1>4, Zenon DEF Start
  <2> QED BY <1>1, <1>4, <2>1
<1> QED BY <1>1, <1>3, <1>4

LEMMA StreamTyped ==
    ASSUME TypeOK PROVE Len(stream) \in Nat /\ \A i \in 1 .. Len(stream) : stream[i] \in Commands
<1>1. stream \in Seq(Commands)
  BY DEF TypeOK
<1> QED BY <1>1, LenProperties, ElementOfSeq

LEMMA CallFields ==
    ASSUME NEW step, NEW s PROVE Call(step, s).step = step /\ Call(step, s).session = s
BY DEF Call

\* A step of a request that sends nothing: to the agent and the stream a session
\* that is active, or being stopped, stays so, and one that is stopped too.
LEMMA TableStepKeepsSides ==
    ASSUME TypeOK, AgentInv, StreamInv, UNCHANGED <<stream, session_id, told>>,
           \A s \in told : status'[s] # "none"
                           /\ (status'[s] = "running" \/ Ending(s)' <=> status[s] = "running" \/ Ending(s)),
           \A s \in Sessions : status[s] = "stopped" /\ ~Ending(s) => status'[s] = "stopped" /\ ~Ending(s)'
    PROVE  AgentInv' /\ StreamInv'
<1>1. \A m : InStream(m)' <=> InStream(m)
  BY DEF InStream
<1>2. AgentInv'
  BY <1>1 DEF AgentInv
<1>3. \A i \in 1 .. Len(stream) : stream[i].session \in Sessions
  BY StreamTyped, CommandCases
<1>4. ASSUME NEW i \in 1 .. Len(stream) PROVE CommandInv(i)'
  <2>1. CommandInv(i) /\ stream[i].session \in Sessions
    BY <1>3 DEF StreamInv
  <2> QED BY <2>1 DEF CommandInv
<1>5. StreamInv'
  BY <1>4 DEF StreamInv, StartsApart
<1> QED BY <1>2, <1>5

\* Allocate: the new session has no history.
LEMMA AllocateKeepsSides ==
    ASSUME TypeOK, ActiveInv, CallsInv, AgentInv, StreamInv, NEW s \in Sessions, Allocate(s), calls = {}
    PROVE  CallsInv' /\ AgentInv' /\ StreamInv'
<1>1. status[s] = "none" /\ status' = [status EXCEPT ![s] = "running"] /\ calls' = {Call("publish_start", s)}
      /\ UNCHANGED <<stream, session_id, told>>
  BY DEF Allocate
<1>2. s \notin told /\ told \subseteq Sessions
  BY <1>1 DEF AgentInv, TypeOK
<1>3. \A t : ~Ending(t) /\ ~Ending(t)'
  BY <1>1 DEF Ending, Call
<1>4. CallsInv'
  BY <1>1, <1>2, CallFields DEF CallsInv, TypeOK
<1>5. \A t \in Sessions : t # s => status'[t] = status[t]
  BY <1>1 DEF TypeOK
<1> QED BY <1>1, <1>2, <1>3, <1>4, <1>5, TableStepKeepsSides DEF AgentInv

\* StopSession: the row is stopped, the stop is in progress, and with the only
\* running row of the BBB gone, none is running.
LEMMA StopKeepsSides ==
    ASSUME TypeOK, ActiveInv, CallsInv, AgentInv, StreamInv, NEW s \in Sessions, StopSession(s), calls = {}
    PROVE  CallsInv' /\ AgentInv' /\ StreamInv'
<1>1. status[s] = "running" /\ status' = [status EXCEPT ![s] = "stopped"] /\ calls' = {Call("publish_stop", s)}
      /\ UNCHANGED <<stream, session_id, told>>
  BY DEF StopSession
<1>2. \A t \in Sessions : status'[t] = IF t = s THEN "stopped" ELSE status[t]
  BY <1>1 DEF TypeOK
<1>3. \A t : ~Ending(t) /\ (Ending(t)' <=> t = s)
  BY <1>1 DEF Ending, Call
<1>4. \A t \in Sessions : status'[t] # "running"
  BY <1>1, <1>2 DEF ActiveInv, AtMostOneActive
<1>5. CallsInv'
  BY <1>1, <1>2, <1>4, CallFields DEF CallsInv
<1>6. told \subseteq Sessions
  BY DEF TypeOK
<1> QED BY <1>1, <1>2, <1>3, <1>5, <1>6, TableStepKeepsSides DEF AgentInv

\* A request in progress is the only one.
LEMMA OnlyCall ==
    ASSUME CallsInv, NEW step, NEW s, Call(step, s) \in calls
    PROVE  calls = {Call(step, s)}
BY DEF CallsInv

\* The publish does not reach the stream: the request goes on to its revert.
LEMMA LostKeepsSides ==
    ASSUME TypeOK, CallsInv, AgentInv, StreamInv, NEW s \in Sessions, NEW from, NEW to,
           <<from, to>> \in {<<"publish_start", "revert_allocate">>, <<"publish_stop", "revert_stop">>},
           Call(from, s) \in calls, Goto(from, to, s), UNCHANGED <<status, stream, session_id, told>>
    PROVE  CallsInv' /\ AgentInv' /\ StreamInv'
<1>1. calls = {Call(from, s)} /\ calls' = {Call(to, s)}
  BY OnlyCall DEF Goto
<1>2. \A t : Ending(t)' <=> Ending(t)
  BY <1>1 DEF Ending, Call
<1>3. CallsInv'
  BY <1>1, CallFields DEF CallsInv
<1>4. AgentInv' /\ StreamInv'
  BY <1>2, TableStepKeepsSides DEF AgentInv, TypeOK
<1> QED BY <1>3, <1>4

\* revertAllocate changes no row: none has the status it deletes by.
LEMMA RevertAllocateKeepsSides ==
    ASSUME TypeOK, CallsInv, AgentInv, StreamInv, NEW s \in Sessions, RevertAllocate(s)
    PROVE  CallsInv' /\ AgentInv' /\ StreamInv'
<1>1. status[s] # "allocated"
  BY DEF TypeOK
<1>2. status' = status
  BY <1>1 DEF TypeOK, RevertAllocate
<1>3. calls = {Call("revert_allocate", s)} /\ calls' = {} /\ UNCHANGED <<stream, session_id, told>>
  BY OnlyCall DEF RevertAllocate, Return
<1>4. \A t : Ending(t)' <=> Ending(t)
  BY <1>3 DEF Ending, Call
<1>5. CallsInv'
  BY <1>3 DEF CallsInv
<1>6. AgentInv' /\ StreamInv'
  BY <1>2, <1>3, <1>4, TableStepKeepsSides DEF AgentInv, TypeOK
<1> QED BY <1>5, <1>6

\* revertStop revives the session: no other one has taken the BBB.
LEMMA RevertStopKeepsSides ==
    ASSUME TypeOK, CallsInv, AgentInv, StreamInv, NEW s \in Sessions, RevertStop(s)
    PROVE  CallsInv' /\ AgentInv' /\ StreamInv'
<1>1. calls = {Call("revert_stop", s)} /\ calls' = {} /\ UNCHANGED <<stream, session_id, told>>
  BY OnlyCall DEF RevertStop, Return
<1>2. status[s] = "stopped" /\ \A t \in Sessions : status[t] # "running"
  BY <1>1, CallFields DEF CallsInv
<1>3. status' = [status EXCEPT ![s] = "running"]
  BY <1>2 DEF RevertStop, IndexAllows, TypeOK
<1>4. \A t \in Sessions : status'[t] = IF t = s THEN "running" ELSE status[t]
  BY <1>3 DEF TypeOK
<1>5. \A t : (Ending(t) <=> t = s) /\ ~Ending(t)'
  BY <1>1 DEF Ending, Call
<1>6. CallsInv'
  BY <1>1 DEF CallsInv
<1>7. told \subseteq Sessions
  BY DEF TypeOK
<1>8. AgentInv' /\ StreamInv'
  BY <1>1, <1>4, <1>5, <1>7, TableStepKeepsSides DEF AgentInv
<1> QED BY <1>6, <1>8

\* What an Append adds to the stream, by position.
LEMMA AppendAt ==
    ASSUME TypeOK, NEW m \in Commands, stream' = Append(stream, m)
    PROVE  /\ Len(stream') = Len(stream) + 1 /\ Len(stream) \in Nat /\ stream'[Len(stream) + 1] = m
           /\ \A i \in 1 .. Len(stream) : stream'[i] = stream[i]
           /\ \A x : InStream(x)' <=> InStream(x) \/ x = m
<1>1. stream \in Seq(Commands) /\ stream' \in Seq(Commands)
  BY AppendProperties DEF TypeOK
<1>2. /\ Len(stream') = Len(stream) + 1 /\ Len(stream) \in Nat /\ stream'[Len(stream) + 1] = m
      /\ \A i \in 1 .. Len(stream) : stream'[i] = stream[i]
  BY <1>1, AppendProperties, LenProperties
<1>3. Range(stream) = {stream[i] : i \in 1 .. Len(stream)} /\ Range(stream') = {stream'[i] : i \in 1 .. Len(stream')}
  <2>1. ASSUME NEW q \in Seq(Commands) PROVE Range(q) = {q[i] : i \in 1 .. Len(q)}
    BY RangeEquality
  <2> QED BY <1>1, <2>1
<1>4. ASSUME NEW x PROVE InStream(x)' <=> InStream(x) \/ x = m
  BY <1>2, <1>3 DEF InStream
<1> QED BY <1>2, <1>4

\* session_start reaches the stream: the agent has left its last session, or the
\* stop that makes it leave is already there.
LEMMA StartSentKeepsSides ==
    ASSUME TypeOK, ActiveInv, CallsInv, AgentInv, StreamInv, NEW s \in Sessions,
           Call("publish_start", s) \in calls, Return("publish_start", s), Published(Start(s)),
           UNCHANGED <<status, session_id>>
    PROVE  CallsInv' /\ AgentInv' /\ StreamInv'
<1> DEFINE n == Len(stream) + 1
<1>1. calls = {Call("publish_start", s)} /\ calls' = {}
  BY OnlyCall DEF Return
<1>2. status[s] = "running" /\ s \notin told
  BY <1>1, CallFields DEF CallsInv
<1>3. stream' = Append(stream, Start(s)) /\ told' = told \cup {s} /\ Start(s) \in Commands
  BY DEF Published, Start, Commands
<1>4. /\ Len(stream') = n /\ Len(stream) \in Nat /\ stream'[n] = Start(s)
      /\ \A i \in 1 .. Len(stream) : stream'[i] = stream[i]
      /\ \A x : InStream(x)' <=> InStream(x) \/ x = Start(s)
  BY <1>3, AppendAt
<1>5. \A t : ~Ending(t) /\ ~Ending(t)'
  BY <1>1 DEF Ending, Call
<1>6. \A t \in Sessions : t # s => status[t] # "running"
  BY <1>2 DEF ActiveInv, AtMostOneActive
<1>7. CallsInv'
  BY <1>1 DEF CallsInv
<1>8. AgentInv'
  BY <1>2, <1>3, <1>4, <1>5 DEF AgentInv
<1>9. told \subseteq Sessions /\ \A i \in 1 .. Len(stream) : stream[i] \in Commands /\ stream[i].session \in Sessions
  BY StreamTyped, CommandCases DEF TypeOK
<1>10. session_id # NoSession => \E k \in 1 .. Len(stream) : stream[k] = Stop(session_id)
  <2> SUFFICES ASSUME session_id # NoSession PROVE \E k \in 1 .. Len(stream) : stream[k] = Stop(session_id)
    OBVIOUS
  <2>1. session_id \in told /\ (status[session_id] = "running" \/ InStream(Stop(session_id)))
    BY <1>5 DEF AgentInv
  <2>2. InStream(Stop(session_id))
    BY <1>2, <1>6, <1>9, <2>1
  <2> QED BY <2>2, InStreamAt
<1>11. \A i \in 1 .. Len(stream) : stream[i].type = "session_start" =>
          \E k \in i + 1 .. Len(stream) : stream[k] = Stop(stream[i].session)
  <2> SUFFICES ASSUME NEW i \in 1 .. Len(stream), stream[i].type = "session_start"
               PROVE  \E k \in i + 1 .. Len(stream) : stream[k] = Stop(stream[i].session)
    OBVIOUS
  <2>1. /\ stream[i].session \in told
        /\ \/ status[stream[i].session] = "running"
           \/ \E k \in i + 1 .. Len(stream) : stream[k] = Stop(stream[i].session)
    BY <1>5 DEF StreamInv, CommandInv
  <2> QED BY <1>2, <1>6, <1>9, <2>1
<1>12. Start(s).type = "session_start" /\ Start(s).session = s
  BY DEF Start
<1> HIDE DEF n
<1>13. ASSUME NEW i \in 1 .. n PROVE CommandInv(i)'
  <2>1. CASE i = n
    <3>1. session_id # NoSession => \E k \in 1 .. n - 1 : stream'[k] = Stop(session_id)
      BY <1>4, <1>10 DEF n
    <3> QED BY <1>2, <1>3, <1>4, <1>12, <2>1, <3>1 DEF CommandInv
  <2>2. CASE i # n
    <3>1. i \in 1 .. Len(stream) /\ stream'[i] = stream[i]
      BY <1>4, <2>2 DEF n
    <3>2. CASE stream[i].type = "session_stop"
      BY <1>5, <3>1, <3>2 DEF StreamInv, CommandInv
    <3>3. CASE stream[i].type # "session_stop"
      <4>1. stream[i].type = "session_start"
        BY <1>9, <3>1, <3>3, CommandCases
      <4>2. PICK k \in i + 1 .. Len(stream) : stream[k] = Stop(stream[i].session)
        BY <1>11, <3>1, <4>1
      <4>3. k \in 1 .. Len(stream) /\ k \in i + 1 .. n /\ stream'[k] = Stop(stream[i].session)
        BY <1>4, <4>2 DEF n
      <4>4. stream[i].session \in told /\ (session_id # NoSession => \E l \in 1 .. i - 1 : stream[l] = Stop(session_id))
        BY <3>1, <3>3 DEF StreamInv, CommandInv
      <4>5. \A l \in 1 .. i - 1 : stream'[l] = stream[l]
        BY <1>4, <3>1
      <4> QED BY <1>3, <1>4, <3>1, <3>3, <4>3, <4>4, <4>5 DEF CommandInv
    <3> QED BY <3>2, <3>3
  <2> QED BY <2>1, <2>2
<1>14. ASSUME NEW j \in 1 .. n, NEW i \in 1 .. j - 1 PROVE StartsApart(i, j)'
  <2>1. i \in 1 .. Len(stream) /\ stream'[i] = stream[i] /\ \A k \in 1 .. j - 1 : stream'[k] = stream[k]
    BY <1>4 DEF n
  <2>2. CASE j = n
    BY <1>4, <1>11, <2>1, <2>2 DEF n, StartsApart
  <2>3. CASE j # n
    <3>1. j \in 1 .. Len(stream) /\ stream'[j] = stream[j]
      BY <1>4, <2>3 DEF n
    <3>2. StartsApart(i, j)
      BY <3>1 DEF StreamInv
    <3> QED BY <2>1, <3>1, <3>2 DEF StartsApart
  <2> QED BY <2>2, <2>3
<1>15. StreamInv'
  BY <1>4, <1>13, <1>14 DEF StreamInv
<1> QED BY <1>7, <1>8, <1>15

\* session_stop reaches the stream: from here on the stop is final.
LEMMA StopSentKeepsSides ==
    ASSUME TypeOK, CallsInv, AgentInv, StreamInv, NEW s \in Sessions,
           Call("publish_stop", s) \in calls, Return("publish_stop", s), Published(Stop(s)),
           UNCHANGED <<status, session_id>>
    PROVE  CallsInv' /\ AgentInv' /\ StreamInv'
<1> DEFINE n == Len(stream) + 1
<1>1. calls = {Call("publish_stop", s)} /\ calls' = {}
  BY OnlyCall DEF Return
<1>2. status[s] = "stopped" /\ \A t \in Sessions : status[t] # "running"
  BY <1>1, CallFields DEF CallsInv
<1>3. stream' = Append(stream, Stop(s)) /\ told' = told /\ Stop(s) \in Commands
  BY DEF Published, Stop, Commands
<1>4. /\ Len(stream') = n /\ Len(stream) \in Nat /\ stream'[n] = Stop(s)
      /\ \A i \in 1 .. Len(stream) : stream'[i] = stream[i]
      /\ \A x : InStream(x)' <=> InStream(x) \/ x = Stop(s)
  BY <1>3, AppendAt
<1>5. \A t : (Ending(t) <=> t = s) /\ ~Ending(t)'
  BY <1>1 DEF Ending, Call
<1>6. CallsInv'
  BY <1>1 DEF CallsInv
<1>7. told \subseteq Sessions
  BY DEF TypeOK
<1>8. AgentInv'
  BY <1>2, <1>3, <1>4, <1>5, <1>7 DEF AgentInv
<1>9. Stop(s).type = "session_stop" /\ Stop(s).session = s
  BY DEF Stop
<1> HIDE DEF n
<1>10. ASSUME NEW i \in 1 .. n PROVE CommandInv(i)'
  <2>1. CASE i = n
    BY <1>2, <1>4, <1>5, <1>9, <2>1 DEF CommandInv
  <2>2. CASE i # n
    <3>1. i \in 1 .. Len(stream) /\ stream'[i] = stream[i]
      BY <1>4, <2>2 DEF n
    <3>2. CASE stream[i].type = "session_stop"
      BY <1>5, <3>1, <3>2 DEF StreamInv, CommandInv
    <3>3. CASE stream[i].type # "session_stop"
      <4>1. /\ stream[i].session \in told
            /\ \/ stream[i].session = s
               \/ \E k \in i + 1 .. Len(stream) : stream[k] = Stop(stream[i].session)
            /\ session_id # NoSession => \E l \in 1 .. i - 1 : stream[l] = Stop(session_id)
        BY <1>2, <1>5, <1>7, <3>1, <3>3 DEF StreamInv, CommandInv
      <4>2. \E k \in i + 1 .. n : stream'[k] = Stop(stream[i].session)
        <5>1. CASE stream[i].session = s
          <6>1. n \in i + 1 .. n /\ stream'[n] = Stop(stream[i].session)
            BY <1>4, <3>1, <5>1 DEF n
          <6> QED BY <6>1
        <5>2. CASE stream[i].session # s
          <6>1. PICK k \in i + 1 .. Len(stream) : stream[k] = Stop(stream[i].session)
            BY <4>1, <5>2
          <6>2. k \in i + 1 .. n /\ stream'[k] = Stop(stream[i].session)
            BY <1>4, <3>1, <6>1 DEF n
          <6> QED BY <6>2
        <5> QED BY <5>1, <5>2
      <4>3. \A l \in 1 .. i - 1 : stream'[l] = stream[l]
        BY <1>4, <3>1
      <4> QED BY <1>3, <1>4, <3>1, <3>3, <4>1, <4>2, <4>3 DEF CommandInv
    <3> QED BY <3>2, <3>3
  <2> QED BY <2>1, <2>2
<1>11. ASSUME NEW j \in 1 .. n, NEW i \in 1 .. j - 1 PROVE StartsApart(i, j)'
  <2>1. i \in 1 .. Len(stream) /\ stream'[i] = stream[i] /\ \A k \in 1 .. j - 1 : stream'[k] = stream[k]
    BY <1>4 DEF n
  <2>2. CASE j = n
    BY <1>4, <1>9, <2>2 DEF StartsApart
  <2>3. CASE j # n
    <3>1. j \in 1 .. Len(stream) /\ stream'[j] = stream[j]
      BY <1>4, <2>3 DEF n
    <3>2. StartsApart(i, j)
      BY <3>1 DEF StreamInv
    <3> QED BY <2>1, <3>1, <3>2 DEF StartsApart
  <2> QED BY <2>2, <2>3
<1>12. StreamInv'
  BY <1>4, <1>10, <1>11 DEF StreamInv
<1> QED BY <1>6, <1>8, <1>12

\* What a Tail leaves of the stream, by position.
LEMMA TailAt ==
    ASSUME TypeOK, stream # <<>>, stream' = Tail(stream)
    PROVE  /\ Len(stream) \in Nat /\ 1 \in 1 .. Len(stream) /\ Len(stream') = Len(stream) - 1
           /\ Head(stream) = stream[1]
           /\ \A i \in 1 .. Len(stream) - 1 : stream'[i] = stream[i + 1]
           /\ \A x : InStream(x) <=> InStream(x)' \/ x = Head(stream)
<1>1. stream \in Seq(Commands) /\ stream' \in Seq(Commands)
  BY StreamKeepsCommands DEF TypeOK
<1>2. /\ Len(stream) \in Nat /\ 1 \in 1 .. Len(stream) /\ Len(stream') = Len(stream) - 1
      /\ Head(stream) = stream[1]
      /\ \A i \in 1 .. Len(stream) - 1 : stream'[i] = stream[i + 1]
  BY <1>1, HeadTailProperties, LenProperties, EmptySeq
<1>3. Range(stream) = {stream[i] : i \in 1 .. Len(stream)} /\ Range(stream') = {stream'[i] : i \in 1 .. Len(stream')}
  <2>1. ASSUME NEW q \in Seq(Commands) PROVE Range(q) = {q[i] : i \in 1 .. Len(q)}
    BY RangeEquality
  <2> QED BY <1>1, <2>1
<1>4. ASSUME NEW x, InStream(x) PROVE InStream(x)' \/ x = Head(stream)
  <2>1. PICK i \in 1 .. Len(stream) : stream[i] = x
    BY <1>3, <1>4 DEF InStream
  <2>2. i = 1 \/ (i - 1 \in 1 .. Len(stream') /\ stream'[i - 1] = x)
    BY <1>2, <2>1
  <2> QED BY <1>2, <1>3, <2>1, <2>2 DEF InStream
<1>5. ASSUME NEW x, InStream(x)' PROVE InStream(x)
  <2>1. PICK i \in 1 .. Len(stream') : stream'[i] = x
    BY <1>3, <1>5 DEF InStream
  <2>2. i + 1 \in 1 .. Len(stream) /\ stream[i + 1] = x
    BY <1>2, <2>1
  <2> QED BY <1>3, <2>2 DEF InStream
<1>6. InStream(Head(stream))
  BY <1>2, <1>3 DEF InStream
<1> QED BY <1>2, <1>4, <1>5, <1>6

\* The commands behind the one that is handled stay in order; what changes is
\* the session that a later start has to wait for.
LEMMA TailKeepsStream ==
    ASSUME TypeOK, StreamInv, stream # <<>>, stream' = Tail(stream), UNCHANGED <<status, calls, told>>,
           \A i \in 2 .. Len(stream) : stream[i].type = "session_start" /\ session_id' # NoSession =>
               \E k \in 2 .. i - 1 : stream[k] = Stop(session_id')
    PROVE  StreamInv'
<1>1. /\ Len(stream) \in Nat /\ 1 \in 1 .. Len(stream) /\ Len(stream') = Len(stream) - 1
      /\ \A i \in 1 .. Len(stream) - 1 : stream'[i] = stream[i + 1]
  BY TailAt
<1>2. \A t : Ending(t)' <=> Ending(t)
  BY DEF Ending
<1>3. ASSUME NEW i \in 1 .. Len(stream') PROVE CommandInv(i)'
  <2>1. i + 1 \in 1 .. Len(stream) /\ i + 1 \in 2 .. Len(stream) /\ stream'[i] = stream[i + 1] /\ i \in Nat
    BY <1>1
  <2>2. CommandInv(i + 1)
    BY <2>1 DEF StreamInv
  <2>3. CASE stream[i + 1].type = "session_stop"
    BY <1>2, <2>1, <2>2, <2>3 DEF CommandInv
  <2>4. CASE stream[i + 1].type # "session_stop"
    <3>1. stream[i + 1].type = "session_start"
      BY <2>1, <2>4, StreamTyped, CommandCases
    <3>2. /\ stream[i + 1].session \in told
          /\ \/ status[stream[i + 1].session] = "running" \/ Ending(stream[i + 1].session)
             \/ \E k \in (i + 1) + 1 .. Len(stream) : stream[k] = Stop(stream[i + 1].session)
      BY <2>2, <2>4 DEF CommandInv
    <3>3. ASSUME NEW m, NEW k \in (i + 1) + 1 .. Len(stream), stream[k] = m
          PROVE  \E l \in i + 1 .. Len(stream') : stream'[l] = m
      <4>1. k - 1 \in i + 1 .. Len(stream') /\ k - 1 \in 1 .. Len(stream) - 1 /\ (k - 1) + 1 = k
        BY <1>1, <2>1
      <4>2. stream'[k - 1] = m
        BY <1>1, <3>3, <4>1
      <4> QED BY <4>1, <4>2
    <3>4. ASSUME session_id' # NoSession PROVE \E l \in 1 .. i - 1 : stream'[l] = Stop(session_id')
      <4>1. PICK k \in 2 .. (i + 1) - 1 : stream[k] = Stop(session_id')
        BY <2>1, <3>1, <3>4
      <4>2. k - 1 \in 1 .. i - 1 /\ k - 1 \in 1 .. Len(stream) - 1 /\ (k - 1) + 1 = k
        BY <1>1, <2>1
      <4>3. stream'[k - 1] = Stop(session_id')
        BY <1>1, <4>1, <4>2
      <4> QED BY <4>2, <4>3
    <3>5. PICK u \in Sessions : stream[i + 1].session = u
      BY <2>1, StreamTyped, CommandCases
    <3>6. stream'[i].session = u /\ stream'[i].type # "session_stop" /\ u \in told'
      BY <2>1, <2>4, <3>2, <3>5
    <3>7. \/ status'[u] = "running" \/ Ending(u)'
          \/ \E l \in i + 1 .. Len(stream') : stream'[l] = Stop(u)
      BY <1>2, <3>2, <3>3, <3>5
    <3> QED BY <3>4, <3>6, <3>7 DEF CommandInv
  <2> QED BY <2>3, <2>4
<1>4. ASSUME NEW j \in 1 .. Len(stream'), NEW i \in 1 .. j - 1 PROVE StartsApart(i, j)'
  <2>1. /\ i + 1 \in 1 .. (j + 1) - 1 /\ j + 1 \in 1 .. Len(stream)
        /\ stream'[i] = stream[i + 1] /\ stream'[j] = stream[j + 1]
    BY <1>1
  <2>2. StartsApart(i + 1, j + 1)
    BY <2>1 DEF StreamInv
  <2>3. ASSUME NEW m, NEW k \in (i + 1) + 1 .. (j + 1) - 1, stream[k] = m
        PROVE  \E l \in i + 1 .. j - 1 : stream'[l] = m
    <3>1. k - 1 \in i + 1 .. j - 1 /\ k - 1 \in 1 .. Len(stream) - 1 /\ (k - 1) + 1 = k
      BY <1>1
    <3>2. stream'[k - 1] = m
      BY <1>1, <2>3, <3>1
    <3> QED BY <3>1, <3>2
  <2> QED BY <2>1, <2>2, <2>3 DEF StartsApart
<1> QED BY <1>3, <1>4 DEF StreamInv

\* _dispatch takes a session_start: the agent had no session, because a start
\* never arrives before the stop of the session the agent is in.
LEMMA StartHandledKeepsSides ==
    ASSUME TypeOK, AgentInv, StreamInv, stream # <<>>, stream' = Tail(stream), UNCHANGED <<status, calls, told>>,
           NEW t \in Sessions, Head(stream) = Start(t),
           session_id' = IF SessionCheckPasses(Start(t)) THEN t ELSE session_id
    PROVE  AgentInv' /\ StreamInv'
<1>1. Start(t).type = "session_start" /\ Start(t).session = t
  BY DEF Start
<1>2. /\ Len(stream) \in Nat /\ 1 \in 1 .. Len(stream) /\ stream[1] = Start(t)
      /\ \A x : InStream(x) <=> InStream(x)' \/ x = Start(t)
  BY TailAt
<1>3. /\ t \in told
      /\ \/ status[t] = "running" \/ Ending(t)
         \/ \E k \in 2 .. Len(stream) : stream[k] = Stop(t)
      /\ session_id # NoSession => \E k \in 1 .. 0 : stream[k] = Stop(session_id)
  BY <1>1, <1>2 DEF StreamInv, CommandInv
<1>4. session_id = NoSession
  BY <1>3
<1>5. session_id' = t /\ t # NoSession
  BY <1>1, <1>4, SessionAssumption DEF SessionCheckPasses
<1>6. \A u : Ending(u)' <=> Ending(u)
  BY DEF Ending
<1>7. \A u : Stop(u) # Start(t)
  BY DEF Stop, Start
<1>8. status[t] = "running" \/ Ending(t) \/ InStream(Stop(t))'
  <2>1. ASSUME NEW k \in 2 .. Len(stream), stream[k] = Stop(t) PROVE InStream(Stop(t))'
    <3>1. k \in 1 .. Len(stream)
      BY <1>2
    <3> QED BY <1>2, <1>7, <2>1, <3>1, InStreamAt
  <2> QED BY <1>3, <2>1
<1>9. ASSUME NEW u \in told, status[u] = "running" \/ Ending(u) PROVE u = t \/ InStream(Start(u))'
  <2>1. u # NoSession
    BY SessionAssumption DEF TypeOK
  <2>2. InStream(Start(u))
    BY <1>4, <1>9, <2>1 DEF AgentInv
  <2>3. Start(u) = Start(t) => u = t
    BY DEF Start
  <2> QED BY <1>2, <2>2, <2>3
<1>10. AgentInv'
  BY <1>3, <1>5, <1>6, <1>8, <1>9 DEF AgentInv
<1>11. ASSUME NEW i \in 2 .. Len(stream), stream[i].type = "session_start"
       PROVE  \E k \in 2 .. i - 1 : stream[k] = Stop(t)
  <2>1. i \in 1 .. Len(stream) /\ 1 \in 1 .. i - 1
    BY <1>2
  <2>2. StartsApart(1, i)
    BY <2>1 DEF StreamInv
  <2> QED BY <1>1, <1>2, <1>11, <2>2 DEF StartsApart
<1>12. StreamInv'
  BY <1>5, <1>11, TailKeepsStream
<1> QED BY <1>10, <1>12

\* _dispatch takes a session_stop: it ends the session of that id, whose row is
\* stopped for good, and is ignored in every other session.
LEMMA StopHandledKeepsSides ==
    ASSUME TypeOK, AgentInv, StreamInv, stream # <<>>, stream' = Tail(stream), UNCHANGED <<status, calls, told>>,
           NEW t \in Sessions, Head(stream) = Stop(t),
           session_id' = IF SessionCheckPasses(Stop(t)) THEN NoSession ELSE session_id
    PROVE  AgentInv' /\ StreamInv'
<1>1. Stop(t).type = "session_stop" /\ Stop(t).session = t /\ t # NoSession
  BY SessionAssumption DEF Stop
<1>2. /\ Len(stream) \in Nat /\ 1 \in 1 .. Len(stream) /\ stream[1] = Stop(t)
      /\ \A x : InStream(x) <=> InStream(x)' \/ x = Stop(t)
  BY TailAt
<1>3. status[t] = "stopped" /\ ~Ending(t)
  BY <1>1, <1>2 DEF StreamInv, CommandInv
<1>4. session_id' = IF session_id = t THEN NoSession ELSE session_id
  BY <1>1 DEF SessionCheckPasses
<1>5. \A u : Ending(u)' <=> Ending(u)
  BY DEF Ending
<1>6. \A u : Start(u) # Stop(t) /\ (u # t => Stop(u) # Stop(t))
  BY DEF Stop, Start
<1>7. ASSUME NEW u \in told, status[u] = "running" \/ Ending(u) PROVE session_id' = u \/ InStream(Start(u))'
  <2>1. u # t /\ (session_id = u \/ InStream(Start(u)))
    BY <1>3, <1>7 DEF AgentInv
  <2> QED BY <1>2, <1>4, <1>6, <2>1
<1>8. session_id' # NoSession => session_id' = session_id /\ session_id # t
  BY <1>4
<1>9. AgentInv'
  BY <1>2, <1>5, <1>6, <1>7, <1>8 DEF AgentInv
<1>10. ASSUME NEW i \in 2 .. Len(stream), stream[i].type = "session_start", session_id' # NoSession
       PROVE  \E k \in 2 .. i - 1 : stream[k] = Stop(session_id')
  <2>1. i \in 1 .. Len(stream) /\ i \in Nat
    BY <1>2
  <2>2. PICK k \in 1 .. i - 1 : stream[k] = Stop(session_id)
    BY <1>8, <1>10, <2>1 DEF StreamInv, CommandInv
  <2>3. k # 1
    BY <1>2, <1>6, <1>8, <1>10, <2>2
  <2>4. k \in 2 .. i - 1
    BY <2>1, <2>2, <2>3
  <2> QED BY <1>8, <1>10, <2>2, <2>4
<1>11. StreamInv'
  BY <1>10, TailKeepsStream
<1> QED BY <1>9, <1>11

\* _dispatch takes the oldest command, whichever it is.
LEMMA DispatchKeepsSides ==
    ASSUME TypeOK, CallsInv, AgentInv, StreamInv, Dispatch
    PROVE  CallsInv' /\ AgentInv' /\ StreamInv'
<1>1. /\ stream # <<>> /\ stream' = Tail(stream) /\ UNCHANGED <<status, calls, told>>
      /\ session_id' = IF ~SessionCheckPasses(Head(stream)) THEN session_id
                       ELSE IF Head(stream).type = "session_start" THEN Head(stream).session ELSE NoSession
  BY DEF Dispatch
<1>2. CallsInv'
  BY <1>1 DEF CallsInv
<1>3. PICK m \in Commands : m = Head(stream)
  BY <1>1, StreamKeepsCommands
<1>4. PICK t \in Sessions : t = m.session
  BY CommandCases
<1>5. CASE m.type = "session_stop" /\ m = Stop(m.session)
  <2>1. session_id' = IF SessionCheckPasses(Stop(t)) THEN NoSession ELSE session_id
    BY <1>1, <1>3, <1>4, <1>5
  <2> QED BY <1>1, <1>2, <1>3, <1>4, <1>5, <2>1, StopHandledKeepsSides
<1>6. CASE m.type = "session_start" /\ m = Start(m.session)
  <2>1. session_id' = IF SessionCheckPasses(Start(t)) THEN t ELSE session_id
    BY <1>1, <1>3, <1>4, <1>6
  <2> QED BY <1>1, <1>2, <1>3, <1>4, <1>6, <2>1, StartHandledKeepsSides
<1> QED BY <1>5, <1>6, CommandCases

LEMMA NothingChangesSides ==
    ASSUME OrderlyInv, UNCHANGED vars PROVE OrderlyInv'
BY DEF OrderlyInv, vars, CallsInv, AgentInv, StreamInv, CommandInv, StartsApart, Ending, InStream

\* A restart while nothing is under way: the agent has no session and the
\* sessions it is told of are still to come, whatever happened before.
LEMMA QuietRestartKeepsSides ==
    ASSUME AgentRestart PROVE OrderlyInv'
<1> SUFFICES ASSUME orderly' PROVE OrderlyInv'
  BY DEF OrderlyInv
<1>1. /\ calls' = {} /\ stream' = <<>> /\ unacked' = <<>>
      /\ session_id' = NoSession /\ told' = {}
  BY DEF AgentRestart, Quiet
<1>2. Len(stream') = 0
  BY <1>1
<1>3. CallsInv' /\ AgentInv'
  BY <1>1 DEF CallsInv, AgentInv
<1>4. StreamInv'
  BY <1>2 DEF StreamInv
<1> QED BY <1>1, <1>3, <1>4 DEF OrderlyInv

\* Every step keeps the two sides together, or is one after which they cannot
\* be held to it: a request during another, or a fault other than a lost publish.
LEMMA NextOrderlyInv ==
    ASSUME TypeOK, ActiveInv, OrderlyInv, [Next]_vars PROVE OrderlyInv'
<1>0. CASE AgentRestart
  BY <1>0, QuietRestartKeepsSides
<1>1. CASE ~orderly /\ ~AgentRestart
  <2>1. ~orderly'
    <3>1. ASSUME NEW s \in Sessions, Allocate(s) \/ StopSession(s) PROVE ~orderly'
      BY <1>1, <3>1 DEF Allocate, StopSession
    <3>2. ASSUME NEW s \in Sessions,
                 PublishStart(s) \/ PublishStop(s) \/ RevertAllocate(s) \/ RevertStop(s)
          PROVE  ~orderly'
      BY <1>1, <3>2 DEF PublishStart, PublishStop, PublishLifecycle, Fault, RevertAllocate, RevertStop
    <3>3. ASSUME NEW c \in calls, Abandon(c) PROVE ~orderly'
      BY <1>1, <3>3 DEF Abandon, Fault
    <3>4. CASE Dispatch \/ Redeliver \/ Expire
      BY <1>1, <3>4 DEF Dispatch, Redeliver, Expire, Fault
    <3>5. CASE UNCHANGED vars
      BY <1>1, <3>5 DEF vars
    <3> QED BY <1>1, <3>1, <3>2, <3>3, <3>4, <3>5 DEF Next, Request, Finish
  <2> QED BY <2>1 DEF OrderlyInv
<1>2. CASE orderly /\ ~AgentRestart
  <2>1. unacked = <<>> /\ CallsInv /\ AgentInv /\ StreamInv
    BY <1>2 DEF OrderlyInv
  <2>2. ASSUME NEW s \in Sessions, Allocate(s) PROVE OrderlyInv'
    <3>1. unacked' = <<>> /\ (orderly' => calls = {})
      BY <2>1, <2>2 DEF Allocate
    <3> QED BY <2>1, <2>2, <3>1, AllocateKeepsSides DEF OrderlyInv
  <2>3. ASSUME NEW s \in Sessions, StopSession(s) PROVE OrderlyInv'
    <3>1. unacked' = <<>> /\ (orderly' => calls = {})
      BY <2>1, <2>3 DEF StopSession
    <3> QED BY <2>1, <2>3, <3>1, StopKeepsSides DEF OrderlyInv
  <2>4. ASSUME NEW f, Fault(f), f # "publish_lost" PROVE OrderlyInv'
    BY <2>4 DEF Fault, OrderlyInv
  <2>5. ASSUME NEW s \in Sessions, PublishStart(s) PROVE OrderlyInv'
    <3>1. /\ Start(s).session = s /\ Call("publish_start", s) \in calls
          /\ UNCHANGED <<status, unacked, session_id>>
      BY <2>5 DEF PublishStart, PublishLifecycle, Start
    <3>2. CASE Published(Start(s)) /\ Return("publish_start", s)
      BY <2>1, <3>1, <3>2, StartSentKeepsSides DEF OrderlyInv
    <3>3. CASE Goto("publish_start", "revert_allocate", s) /\ UNCHANGED <<stream, told>>
      BY <2>1, <3>1, <3>3, LostKeepsSides DEF OrderlyInv
    <3> QED BY <2>4, <2>5, <3>1, <3>2, <3>3 DEF PublishStart, PublishLifecycle
  <2>6. ASSUME NEW s \in Sessions, PublishStop(s) PROVE OrderlyInv'
    <3>1. /\ Stop(s).session = s /\ Call("publish_stop", s) \in calls
          /\ UNCHANGED <<status, unacked, session_id>>
      BY <2>6 DEF PublishStop, PublishLifecycle, Stop
    <3>2. CASE Published(Stop(s)) /\ Return("publish_stop", s)
      BY <2>1, <3>1, <3>2, StopSentKeepsSides DEF OrderlyInv
    <3>3. CASE Goto("publish_stop", "revert_stop", s) /\ UNCHANGED <<stream, told>>
      BY <2>1, <3>1, <3>3, LostKeepsSides DEF OrderlyInv
    <3> QED BY <2>4, <2>6, <3>1, <3>2, <3>3 DEF PublishStop, PublishLifecycle
  <2>7. ASSUME NEW s \in Sessions, RevertAllocate(s) PROVE OrderlyInv'
    BY <2>1, <2>7, RevertAllocateKeepsSides DEF OrderlyInv, RevertAllocate
  <2>8. ASSUME NEW s \in Sessions, RevertStop(s) PROVE OrderlyInv'
    BY <2>1, <2>8, RevertStopKeepsSides DEF OrderlyInv, RevertStop
  <2>9. ASSUME NEW c \in calls, Abandon(c) PROVE OrderlyInv'
    BY <2>4, <2>9 DEF Abandon
  <2>10. CASE Dispatch
    <3>1. CASE UNCHANGED unacked
      BY <2>1, <2>10, <3>1, DispatchKeepsSides DEF OrderlyInv
    <3>2. CASE Fault("ack_lost")
      BY <2>4, <3>2
    <3> QED BY <2>10, <3>1, <3>2 DEF Dispatch
  <2>11. CASE Redeliver
    <3>1. Len(unacked) = 0
      BY <2>1
    <3> QED BY <2>11, <3>1 DEF Redeliver
  <2>12. CASE Expire
    BY <2>4, <2>12 DEF Expire
  <2>13. CASE UNCHANGED vars
    BY <2>13, NothingChangesSides
  <2> QED BY <1>2, <2>2, <2>3, <2>5, <2>6, <2>7, <2>8, <2>9, <2>10, <2>11, <2>12, <2>13
          DEF Next, Request, Finish
<1> QED BY <1>0, <1>1, <1>2

\* While requests do not overlap and nothing but publishes fails, from the first
\* start of the agent or from any restart while nothing is under way, the table
\* and the agent agree up to what is under way: for any number of sessions, any
\* sequence of allocations, stops and reverts, and however far the agent is
\* behind the stream.
THEOREM SessionsSidesAgree == Spec => []SidesAgree
<1>1. Init => ActiveInv /\ OrderlyInv
  <2> SUFFICES ASSUME Init PROVE ActiveInv /\ OrderlyInv
    OBVIOUS
  <2>1. ActiveInv
    BY DEF Init, ActiveInv, AtMostOneActive
  <2>2. unacked = <<>> /\ calls = {} /\ told = {} /\ session_id = NoSession /\ Len(stream) = 0
    BY DEF Init
  <2>3. CallsInv /\ AgentInv
    BY <2>2 DEF CallsInv, AgentInv
  <2>4. StreamInv
    BY <2>2 DEF StreamInv
  <2> QED BY <2>1, <2>2, <2>3, <2>4 DEF OrderlyInv
<1>2. TypeOK /\ ActiveInv /\ OrderlyInv /\ [Next]_vars => ActiveInv' /\ OrderlyInv'
  BY NextActiveInv, NextOrderlyInv
<1>3. OrderlyInv => SidesAgree
  <2> SUFFICES ASSUME OrderlyInv, orderly PROVE AgentFollowsTable /\ TableFollowsAgent
    BY DEF SidesAgree
  <2>1. AgentInv
    BY DEF OrderlyInv
  <2>2. \A s : Ending(s) => Stopping(s)
    BY DEF Ending, Stopping
  <2>3. AgentFollowsTable
    BY <2>1, <2>2 DEF AgentInv, AgentFollowsTable, Stopping
  <2>4. TableFollowsAgent
    BY <2>1 DEF AgentInv, TableFollowsAgent
  <2> QED BY <2>3, <2>4
<1> QED BY <1>1, <1>2, <1>3, SessionsTypeCorrect, PTL DEF Spec

-----------------------------------------------------------------------------
(* No orphan: a late publish is also allowed.  A stop in the stream is then  *)
(* not final any more, but every start is still followed by its stop, or its *)
(* session is alive in the table.                                            *)

Alive(s) == status[s] = "running" \/ Ending(s)

SerialCalls ==
    /\ \A c, d \in calls : c = d
    /\ \A c \in calls :
        IF c.step \in {"publish_start", "revert_allocate"}
        THEN status[c.session] = "running"
        ELSE status[c.session] = "stopped" /\ \A t \in Sessions : status[t] # "running"

AgentEnds == session_id # NoSession => Alive(session_id) \/ InStream(Stop(session_id))

StartEnds(i) ==
    stream[i].type = "session_start" =>
        \/ Alive(stream[i].session)
        \/ \E k \in i + 1 .. Len(stream) : stream[k] = Stop(stream[i].session)

AllEnd == AgentEnds /\ \A i \in 1 .. Len(stream) : StartEnds(i)

SerialInv == serial => unacked = <<>> /\ SerialCalls /\ AllEnd

\* A step of the table: what was alive stays alive.
LEMMA TableKeepsEnds ==
    ASSUME TypeOK, AllEnd, UNCHANGED <<stream, session_id>>, \A s \in Sessions : Alive(s) => Alive(s)'
    PROVE  AllEnd'
<1>1. \A m : InStream(m)' <=> InStream(m)
  BY DEF InStream
<1>2. AgentEnds'
  BY <1>1 DEF AllEnd, AgentEnds, TypeOK
<1>3. ASSUME NEW i \in 1 .. Len(stream) PROVE StartEnds(i)'
  <2>1. StartEnds(i) /\ stream[i].session \in Sessions
    BY StreamTyped, CommandCases DEF AllEnd
  <2> QED BY <2>1 DEF StartEnds
<1> QED BY <1>2, <1>3 DEF AllEnd

\* A command reaches the stream: a start of a session that is alive, or the stop
\* of one that need not be any more.
LEMMA AppendKeepsEnds ==
    ASSUME TypeOK, AllEnd, NEW m \in Commands, stream' = Append(stream, m), UNCHANGED session_id,
           m.type = "session_start" => Alive(m.session)',
           \A s \in Sessions : Alive(s) => Alive(s)' \/ m = Stop(s)
    PROVE  AllEnd'
<1> DEFINE n == Len(stream) + 1
<1>1. /\ Len(stream') = n /\ Len(stream) \in Nat /\ stream'[n] = m
      /\ \A i \in 1 .. Len(stream) : stream'[i] = stream[i]
      /\ \A x : InStream(x)' <=> InStream(x) \/ x = m
  BY AppendAt
<1>2. AgentEnds'
  BY <1>1 DEF AllEnd, AgentEnds, TypeOK
<1>3. ASSUME NEW i \in 1 .. Len(stream') PROVE StartEnds(i)'
  <2>1. CASE i = n
    BY <1>1, <2>1 DEF StartEnds
  <2>2. CASE i # n
    <3>1. i \in 1 .. Len(stream) /\ stream'[i] = stream[i] /\ n \in i + 1 .. n
      BY <1>1, <2>2
    <3>2. PICK u \in Sessions : stream[i].session = u
      BY <3>1, StreamTyped, CommandCases
    <3>3. StartEnds(i)
      BY <3>1 DEF AllEnd
    <3>4. ASSUME NEW k \in i + 1 .. Len(stream), stream[k] = Stop(u)
          PROVE  \E l \in i + 1 .. Len(stream') : stream'[l] = Stop(u)
      <4>1. k \in i + 1 .. Len(stream') /\ k \in 1 .. Len(stream)
        BY <1>1, <3>1
      <4> QED BY <1>1, <3>4, <4>1
    <3>5. Alive(u) => Alive(u)' \/ \E l \in i + 1 .. Len(stream') : stream'[l] = Stop(u)
      BY <1>1, <3>1, <3>2
    <3> QED BY <3>1, <3>2, <3>3, <3>4, <3>5 DEF StartEnds
  <2> QED BY <2>1, <2>2
<1> QED BY <1>2, <1>3 DEF AllEnd

\* _dispatch: a start that is taken brings its end with it.
LEMMA DispatchKeepsEnds ==
    ASSUME TypeOK, AllEnd, Dispatch PROVE AllEnd'
<1>1. /\ stream # <<>> /\ stream' = Tail(stream) /\ UNCHANGED <<status, calls>>
      /\ session_id' = IF ~SessionCheckPasses(Head(stream)) THEN session_id
                       ELSE IF Head(stream).type = "session_start" THEN Head(stream).session ELSE NoSession
  BY DEF Dispatch
<1>2. /\ Len(stream) \in Nat /\ 1 \in 1 .. Len(stream) /\ Len(stream') = Len(stream) - 1
      /\ Head(stream) = stream[1]
      /\ \A i \in 1 .. Len(stream) - 1 : stream'[i] = stream[i + 1]
      /\ \A x : InStream(x) <=> InStream(x)' \/ x = Head(stream)
  BY <1>1, TailAt
<1>3. \A u : Alive(u)' <=> Alive(u)
  BY <1>1 DEF Alive, Ending
<1>4. ASSUME NEW i \in 1 .. Len(stream') PROVE StartEnds(i)'
  <2>1. i + 1 \in 1 .. Len(stream) /\ stream'[i] = stream[i + 1]
    BY <1>2
  <2>2. PICK u \in Sessions : stream[i + 1].session = u
    BY <2>1, StreamTyped, CommandCases
  <2>3. StartEnds(i + 1)
    BY <2>1 DEF AllEnd
  <2>4. ASSUME NEW k \in (i + 1) + 1 .. Len(stream), stream[k] = Stop(u)
        PROVE  \E l \in i + 1 .. Len(stream') : stream'[l] = Stop(u)
    <3>1. k - 1 \in i + 1 .. Len(stream') /\ k - 1 \in 1 .. Len(stream) - 1 /\ (k - 1) + 1 = k
      BY <1>2, <2>1
    <3> QED BY <1>2, <2>4, <3>1
  <2> QED BY <1>3, <2>1, <2>2, <2>3, <2>4 DEF StartEnds
<1>5. AgentEnds'
  <2>1. PICK m \in Commands : m = Head(stream)
    BY <1>1, StreamKeepsCommands
  <2>2. PICK t \in Sessions : t = m.session
    BY CommandCases
  <2>3. CASE m.type = "session_stop" /\ m = Stop(m.session)
    <3>1. session_id' # NoSession => session_id' = session_id /\ session_id # t
      BY <1>1, <2>1, <2>2, <2>3, SessionAssumption DEF SessionCheckPasses
    <3>2. \A u : u # t => Stop(u) # m
      BY <2>2, <2>3 DEF Stop
    <3> QED BY <1>2, <1>3, <2>1, <3>1, <3>2 DEF AllEnd, AgentEnds
  <2>4. CASE m.type = "session_start" /\ m = Start(m.session)
    <3>1. session_id' = session_id \/ session_id' = t
      BY <1>1, <2>1, <2>2, <2>4
    <3>2. \A u : Stop(u) # m
      BY <2>4 DEF Stop, Start
    <3>3. CASE session_id' = session_id
      BY <1>2, <1>3, <2>1, <3>2, <3>3 DEF AllEnd, AgentEnds
    <3>4. CASE session_id' = t
      <4>1. Alive(t) \/ \E k \in 2 .. Len(stream) : stream[k] = Stop(t)
        BY <1>2, <2>1, <2>2, <2>4 DEF AllEnd, StartEnds
      <4>2. ASSUME NEW k \in 2 .. Len(stream), stream[k] = Stop(t) PROVE InStream(Stop(t))'
        <5>1. k \in 1 .. Len(stream)
          BY <1>2
        <5> QED BY <1>2, <2>1, <3>2, <4>2, <5>1, InStreamAt
      <4> QED BY <1>3, <3>4, <4>1, <4>2 DEF AgentEnds
    <3> QED BY <3>1, <3>3, <3>4
  <2> QED BY <2>3, <2>4, CommandCases
<1> QED BY <1>4, <1>5 DEF AllEnd

\* The requests: Allocate and Stop begin alone, and a session that is alive stays
\* alive until its stop is in the stream.
LEMMA RequestKeepsEnds ==
    ASSUME TypeOK, ActiveInv, AllEnd, NEW s \in Sessions, Allocate(s) \/ StopSession(s), calls = {}
    PROVE  SerialCalls' /\ AllEnd'
<1>1. CASE Allocate(s)
  <2>1. /\ status' = [status EXCEPT ![s] = "running"] /\ calls' = {Call("publish_start", s)}
        /\ UNCHANGED <<stream, session_id>>
    BY <1>1 DEF Allocate
  <2>2. \A t \in Sessions : status'[t] = IF t = s THEN "running" ELSE status[t]
    BY <2>1 DEF TypeOK
  <2>3. \A t \in Sessions : Alive(t) => Alive(t)'
    BY <2>2 DEF Alive, Ending
  <2>4. SerialCalls'
    BY <2>1, <2>2, CallFields DEF SerialCalls
  <2> QED BY <2>1, <2>3, <2>4, TableKeepsEnds
<1>2. CASE StopSession(s)
  <2>1. /\ status[s] = "running" /\ status' = [status EXCEPT ![s] = "stopped"]
        /\ calls' = {Call("publish_stop", s)} /\ UNCHANGED <<stream, session_id>>
    BY <1>2 DEF StopSession
  <2>2. \A t \in Sessions : status'[t] = IF t = s THEN "stopped" ELSE status[t]
    BY <2>1 DEF TypeOK
  <2>3. Ending(s)'
    BY <2>1 DEF Ending
  <2>4. \A t \in Sessions : Alive(t) => Alive(t)'
    BY <2>2, <2>3 DEF Alive, Ending
  <2>5. \A t \in Sessions : status'[t] # "running"
    BY <2>1, <2>2 DEF ActiveInv, AtMostOneActive
  <2>6. SerialCalls'
    BY <2>1, <2>2, <2>5, CallFields DEF SerialCalls
  <2> QED BY <2>1, <2>4, <2>6, TableKeepsEnds
<1> QED BY <1>1, <1>2

LEMMA OnlySerialCall ==
    ASSUME SerialCalls, NEW step, NEW s, Call(step, s) \in calls
    PROVE  calls = {Call(step, s)}
BY DEF SerialCalls

\* publishLifecycle for a start: acked, lost or late, the row is running.
LEMMA StartPublishKeepsEnds ==
    ASSUME TypeOK, SerialCalls, AllEnd, NEW s \in Sessions, PublishStart(s)
    PROVE  SerialCalls' /\ AllEnd'
<1>1. /\ calls = {Call("publish_start", s)} /\ Start(s).session = s /\ UNCHANGED <<status, session_id>>
      /\ calls' = {} \/ calls' = {Call("revert_allocate", s)}
      /\ UNCHANGED stream \/ stream' = Append(stream, Start(s))
  <2>1. Start(s).session = s
    BY DEF Start
  <2>2. calls = {Call("publish_start", s)}
    BY <2>1, OnlySerialCall DEF PublishStart, PublishLifecycle
  <2> QED BY <2>1, <2>2 DEF PublishStart, PublishLifecycle, Return, Goto, Published
<1>2. status[s] = "running" /\ Alive(s)'
  BY <1>1, CallFields DEF SerialCalls, Alive
<1>3. \A t \in Sessions : Alive(t) => Alive(t)'
  BY <1>1 DEF Alive, Ending, Call
<1>4. SerialCalls'
  BY <1>1, <1>2, CallFields DEF SerialCalls
<1>5. CASE UNCHANGED stream
  BY <1>1, <1>3, <1>4, <1>5, TableKeepsEnds
<1>6. CASE stream' = Append(stream, Start(s))
  <2>1. Start(s) \in Commands
    BY DEF Start, Commands
  <2>2. AllEnd'
    BY <1>1, <1>2, <1>3, <1>6, <2>1, AppendKeepsEnds
  <2> QED BY <1>4, <2>2
<1> QED BY <1>1, <1>5, <1>6

\* publishLifecycle for a stop: where the request ends, the command is sent.
LEMMA StopPublishKeepsEnds ==
    ASSUME TypeOK, SerialCalls, AllEnd, NEW s \in Sessions, PublishStop(s)
    PROVE  SerialCalls' /\ AllEnd'
<1>1. /\ calls = {Call("publish_stop", s)} /\ UNCHANGED <<status, session_id>>
      /\ \/ calls' = {} /\ stream' = Append(stream, Stop(s))
         \/ calls' = {Call("revert_stop", s)} /\ UNCHANGED stream
         \/ calls' = {Call("revert_stop", s)} /\ stream' = Append(stream, Stop(s))
  <2>1. Stop(s).session = s
    BY DEF Stop
  <2>2. calls = {Call("publish_stop", s)}
    BY <2>1, OnlySerialCall DEF PublishStop, PublishLifecycle
  <2> QED BY <2>1, <2>2 DEF PublishStop, PublishLifecycle, Return, Goto, Published
<1>2. status[s] = "stopped" /\ \A t \in Sessions : status[t] # "running"
  BY <1>1, CallFields DEF SerialCalls
<1>3. \A t \in Sessions : Alive(t) => t = s
  BY <1>1, <1>2 DEF Alive, Ending, Call
<1>4. SerialCalls'
  BY <1>1, <1>2, CallFields DEF SerialCalls
<1>5. CASE UNCHANGED stream /\ calls' = {Call("revert_stop", s)}
  <2>1. Ending(s)'
    BY <1>5 DEF Ending
  <2> QED BY <1>1, <1>3, <1>4, <1>5, <2>1, TableKeepsEnds DEF Alive
<1>6. CASE stream' = Append(stream, Stop(s))
  <2>1. Stop(s) \in Commands /\ Stop(s).type # "session_start"
    BY DEF Stop, Commands
  <2>2. AllEnd'
    BY <1>1, <1>3, <1>6, <2>1, AppendKeepsEnds
  <2> QED BY <1>4, <2>2
<1> QED BY <1>1, <1>5, <1>6

\* The reverts: a start's changes no row, a stop's finds the BBB free.
LEMMA RevertKeepsEnds ==
    ASSUME TypeOK, SerialCalls, AllEnd, NEW s \in Sessions, RevertAllocate(s) \/ RevertStop(s)
    PROVE  SerialCalls' /\ AllEnd'
<1>1. CASE RevertAllocate(s)
  <2>1. calls = {Call("revert_allocate", s)} /\ calls' = {} /\ UNCHANGED <<stream, session_id>>
    BY <1>1, OnlySerialCall DEF RevertAllocate, Return
  <2>2. status[s] # "allocated"
    BY DEF TypeOK
  <2>3. status' = status
    BY <1>1, <2>2 DEF RevertAllocate, TypeOK
  <2>4. \A t \in Sessions : Alive(t) => Alive(t)'
    BY <2>1, <2>3 DEF Alive, Ending, Call
  <2>5. SerialCalls'
    BY <2>1 DEF SerialCalls
  <2> QED BY <2>1, <2>4, <2>5, TableKeepsEnds
<1>2. CASE RevertStop(s)
  <2>1. calls = {Call("revert_stop", s)} /\ calls' = {} /\ UNCHANGED <<stream, session_id>>
    BY <1>2, OnlySerialCall DEF RevertStop, Return
  <2>2. status[s] = "stopped" /\ \A t \in Sessions : status[t] # "running"
    BY <2>1, CallFields DEF SerialCalls
  <2>3. status' = [status EXCEPT ![s] = "running"]
    BY <1>2, <2>2 DEF RevertStop, IndexAllows, TypeOK
  <2>4. \A t \in Sessions : status'[t] = IF t = s THEN "running" ELSE status[t]
    BY <2>3 DEF TypeOK
  <2>5. \A t \in Sessions : Alive(t) => Alive(t)'
    BY <2>1, <2>2, <2>4 DEF Alive, Ending, Call
  <2>6. SerialCalls'
    BY <2>1 DEF SerialCalls
  <2> QED BY <2>1, <2>5, <2>6, TableKeepsEnds
<1> QED BY <1>1, <1>2

LEMMA NothingChangesEnds ==
    ASSUME SerialInv, UNCHANGED vars PROVE SerialInv'
BY DEF SerialInv, vars, SerialCalls, AllEnd, AgentEnds, StartEnds, Alive, Ending, InStream

LEMMA QuietRestartKeepsEnds ==
    ASSUME AgentRestart PROVE SerialInv'
<1> SUFFICES ASSUME serial' PROVE SerialInv'
  BY DEF SerialInv
<1>1. calls' = {} /\ stream' = <<>> /\ unacked' = <<>> /\ session_id' = NoSession
  BY DEF AgentRestart, Quiet
<1>2. Len(stream') = 0
  BY <1>1
<1>3. SerialCalls' /\ AgentEnds'
  BY <1>1 DEF SerialCalls, AgentEnds
<1> QED BY <1>1, <1>2, <1>3 DEF SerialInv, AllEnd

LEMMA NextSerialInv ==
    ASSUME TypeOK, ActiveInv, SerialInv, [Next]_vars PROVE SerialInv'
<1>1. CASE AgentRestart
  BY <1>1, QuietRestartKeepsEnds
<1>2. CASE UNCHANGED vars
  BY <1>2, NothingChangesEnds
<1>3. ASSUME NEW f, Fault(f), f \notin {"publish_lost", "publish_late"} PROVE SerialInv'
  BY <1>3 DEF Fault, SerialInv
<1>4. ASSUME serial' => serial /\ unacked' = unacked /\ (SerialCalls /\ AllEnd => SerialCalls' /\ AllEnd')
      PROVE  SerialInv'
  BY <1>4 DEF SerialInv
<1>5. ASSUME NEW s \in Sessions, Allocate(s) \/ StopSession(s) PROVE SerialInv'
  <2>1. unacked' = unacked /\ (serial' => serial /\ calls = {})
    BY <1>5 DEF Allocate, StopSession
  <2> QED BY <1>4, <1>5, <2>1, RequestKeepsEnds
<1>6. ASSUME NEW s \in Sessions,
             PublishStart(s) \/ PublishStop(s) \/ RevertAllocate(s) \/ RevertStop(s)
      PROVE  SerialInv'
  <2>1. unacked' = unacked
    BY <1>6 DEF PublishStart, PublishStop, PublishLifecycle, RevertAllocate, RevertStop
  <2>2. ASSUME ~serial PROVE ~serial'
    BY <1>6, <2>2 DEF PublishStart, PublishStop, PublishLifecycle, Fault, RevertAllocate, RevertStop
  <2> QED BY <1>4, <1>6, <2>1, <2>2, StartPublishKeepsEnds, StopPublishKeepsEnds, RevertKeepsEnds
<1>7. ASSUME NEW c \in calls, Abandon(c) PROVE SerialInv'
  BY <1>3, <1>7 DEF Abandon
<1>8. CASE Dispatch
  <2>1. CASE Fault("ack_lost")
    BY <1>3, <2>1
  <2>2. CASE UNCHANGED <<unacked, faults, orderly, serial>>
    <3>1. SerialCalls => SerialCalls'
      BY <1>8 DEF Dispatch, SerialCalls
    <3> QED BY <1>4, <1>8, <2>2, <3>1, DispatchKeepsEnds
  <2> QED BY <1>8, <2>1, <2>2 DEF Dispatch
<1>9. CASE Redeliver
  <2>1. PICK i \in 1 .. Len(unacked) : unacked' = RemoveAt(unacked, i)
    BY <1>9 DEF Redeliver
  <2>2. serial' = serial
    BY <1>9 DEF Redeliver
  <2>3. unacked # <<>>
    <3>1. Len(<<>>) = 0
      OBVIOUS
    <3> QED BY <2>1, <3>1
  <2> QED BY <2>2, <2>3 DEF SerialInv
<1>10. CASE Expire
  BY <1>3, <1>10 DEF Expire
<1> QED BY <1>1, <1>2, <1>5, <1>6, <1>7, <1>8, <1>9, <1>10 DEF Next, Request, Finish

\* The agent is never left in a session that the table has ended, although the
\* publisher may time out on commands that reached the stream and the service
\* then reverts what it did: for any number of sessions and any sequence of
\* requests that do not overlap, since the agent started or restarted while
\* nothing was under way.
THEOREM SessionsNoOrphan == Spec => []NoOrphanSession
<1>1. Init => ActiveInv /\ SerialInv
  <2> SUFFICES ASSUME Init PROVE ActiveInv /\ SerialInv
    OBVIOUS
  <2>1. ActiveInv
    BY DEF Init, ActiveInv, AtMostOneActive
  <2>2. unacked = <<>> /\ calls = {} /\ session_id = NoSession /\ Len(stream) = 0
    BY DEF Init
  <2>3. SerialCalls /\ AgentEnds
    BY <2>2 DEF SerialCalls, AgentEnds
  <2> QED BY <2>1, <2>2, <2>3 DEF SerialInv, AllEnd
<1>2. TypeOK /\ ActiveInv /\ SerialInv /\ [Next]_vars => ActiveInv' /\ SerialInv'
  BY NextActiveInv, NextSerialInv
<1>3. SerialInv => NoOrphanSession
  <2> SUFFICES ASSUME SerialInv, serial PROVE AgentFollowsTable
    BY DEF NoOrphanSession
  <2>1. AgentEnds
    BY DEF SerialInv, AllEnd
  <2> QED BY <2>1 DEF AgentEnds, AgentFollowsTable, Alive, Ending, Stopping
<1> QED BY <1>1, <1>2, <1>3, SessionsTypeCorrect, PTL DEF Spec
=============================================================================

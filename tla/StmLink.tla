------------------------------ MODULE StmLink -------------------------------
(***************************************************************************)
(* The agent's side of the serial link: StmLink (bbb/comms/stm_link.py)    *)
(* with its sequence counter and pending ACKs, the runtime commands of the *)
(* command bridge that use it (orchestrator/command_bridge.py), the        *)
(* response bridge that forwards ACKs (response_bridge.py) and the agent's *)
(* start-up, shutdown and restart around them (agent.py).                  *)
(*                                                                         *)
(* A step is what the event loop runs between two awaits.  The bridge's    *)
(* subscription calls its handler for one message at a time, so at most    *)
(* one command is in send_command; the reader and the tasks it creates     *)
(* run in between.  The firmware answers the frames it gets in order, with *)
(* their sequence number and type, and frames are lost on the line.        *)
(***************************************************************************)
EXTENDS Integers, Sequences, SequencesExt

CONSTANTS
    SEQ_RANGE,      \* values of the SEQ byte (256 in the code)
    SYNC_RETRIES,   \* attempts of the start-up handshake
    Sessions,
    NoSession,      \* the empty session_id
    MAX_COMMANDS,   \* bound: commands a process sends
    MAX_PROCESSES,  \* bound: times the agent is started
    MAX_FAULTS      \* bound: lost frames, refused or unreadable ACKs and failing calls

ASSUME StmLinkAssumption ==
    /\ SEQ_RANGE \in Nat \ {0, 1} /\ SYNC_RETRIES \in Nat \ {0}
    /\ NoSession \notin Sessions
    /\ MAX_COMMANDS \in Nat \ {0} /\ MAX_PROCESSES \in Nat \ {0} /\ MAX_FAULTS \in Nat

VARIABLES
    phase,          \* how far the agent's start-up or shutdown is
    pc,             \* where the handler in send_command is
    seq,            \* SeqCounter._value
    pending_acks,   \* the future of each sequence number in _pending_acks
    ack,            \* the frame a resolved future holds
    attempts,       \* CMD_SYNC attempts of this process
    cmd,            \* the command last sent
    session_id,     \* DeviceState.session_id
    late,           \* tasks created for unsolicited ACKs, not run yet
    to_stm,         \* commands the firmware has still to handle
    from_stm,       \* ACKs the reader has still to see
    process, sent,  \* history: the agent's starts, the commands of this one
    telemetry,      \* history: how often each command's ACK was published
    faults

linkVars == <<pc, seq, pending_acks, ack, attempts, cmd>>
wireVars == <<to_stm, from_stm>>
vars == <<phase, linkVars, session_id, late, wireVars, process, sent, telemetry, faults>>

Seqs == 0 .. (SEQ_RANGE - 1)
Ids == (1 .. MAX_PROCESSES) \X (0 .. MAX_COMMANDS)
Types == {"CMD_SYNC", "CMD_SET_OUTPUT"}     \* and two more, which nothing tells apart
Frames == [id : Ids, seq : Seqs, type : Types]
NoFrame == [id |-> <<1, 0>>, seq |-> 0, type |-> "CMD_SYNC"]

\* Every variable has its type; in particular seq stays a byte.
TypeOK ==
    /\ phase \in {"boot", "synced", "up", "draining", "offline", "closed"}
    /\ pc \in {"idle", "await", "forward"}
    /\ seq \in Seqs /\ pending_acks \in [Seqs -> {"none", "pending", "done"}]
    /\ ack \in Frames /\ attempts \in 0 .. SYNC_RETRIES
    /\ cmd \in Frames
    /\ session_id \in Sessions \cup {NoSession} /\ late \subseteq Frames
    /\ to_stm \in Seq(Frames) /\ from_stm \in Seq(Frames)
    /\ process \in 1 .. MAX_PROCESSES /\ sent \in 0 .. MAX_COMMANDS
    /\ telemetry \in [Ids -> Nat]
    /\ faults \in 0 .. MAX_FAULTS

NoAcks == [s \in Seqs |-> "none"]

Init ==
    /\ phase = "boot" /\ pc = "idle" /\ seq = 0 /\ attempts = 0 /\ sent = 0
    /\ pending_acks = NoAcks /\ ack = NoFrame /\ cmd = NoFrame
    /\ session_id = NoSession /\ late = {}
    /\ to_stm = <<>> /\ from_stm = <<>> /\ process = 1
    /\ telemetry = [i \in Ids |-> 0] /\ faults = 0

Fault == faults < MAX_FAULTS /\ faults' = faults + 1

-----------------------------------------------------------------------------
\* StmLink

seq_next(s) == (s + 1) % SEQ_RANGE

\* Timing: a frame is answered, or lost, before the sequence numbers have come
\* round to it; in the firmware that is 255 commands, most of them timed out.
InTime == \A f \in Range(to_stm \o from_stm) : f.id[1] = process => sent + 1 - f.id[2] < SEQ_RANGE

\* send_command up to its await: number the frame, register the waiter, write.
\* A write that raises takes the waiter out again.
send_command(type) ==
    LET f == [id |-> <<process, sent + 1>>, seq |-> seq, type |-> type]
    IN  /\ pc = "idle" /\ sent < MAX_COMMANDS /\ InTime
        /\ seq' = seq_next(seq) /\ sent' = sent + 1
        /\ cmd' = f
        /\ \/ /\ to_stm' = Append(to_stm, f)
              /\ pending_acks' = [pending_acks EXCEPT ![seq] = "pending"]
              /\ pc' = "await"
              /\ UNCHANGED <<faults, phase>>
           \/ /\ Fault
              /\ phase' = IF phase = "boot" THEN "closed" ELSE phase
              /\ UNCHANGED <<to_stm, pending_acks, pc>>
        /\ UNCHANGED <<ack, session_id, late, from_stm, process, telemetry>>

\* The unsolicited-frame hook: nothing until the response bridge is installed,
\* then a task of its own that forwards the ACK, unless its payload is unreadable.
on_unsolicited(f) ==
    \/ phase \in {"boot", "synced"} /\ UNCHANGED <<late, faults>>
    \/ phase \notin {"boot", "synced"} /\ late' = late \cup {f} /\ UNCHANGED faults
    \/ phase \notin {"boot", "synced"} /\ Fault /\ UNCHANGED late

\* A mutation: a resolved future does not keep the ACK from the hook.
dispatch_falls_through ==
    /\ from_stm # <<>> /\ phase # "closed"
    /\ LET f == Head(from_stm)
       IN  /\ pending_acks' = [pending_acks EXCEPT ![f.seq] = IF @ = "pending" THEN "done" ELSE @]
           /\ ack' = IF pending_acks[f.seq] = "pending" THEN f ELSE ack
           /\ on_unsolicited(f)
    /\ from_stm' = Tail(from_stm)
    /\ UNCHANGED <<phase, pc, seq, attempts, cmd, session_id, to_stm, process, sent, telemetry>>

\* A mutation: an ACK goes to the waiter whatever its sequence number is.
dispatch_any_seq ==
    /\ from_stm # <<>> /\ phase # "closed"
    /\ LET f == Head(from_stm)
       IN  IF pc = "await" /\ pending_acks[cmd.seq] = "pending"
           THEN /\ pending_acks' = [pending_acks EXCEPT ![cmd.seq] = "done"]
                /\ ack' = f /\ UNCHANGED <<late, faults>>
           ELSE /\ on_unsolicited(f)
                /\ UNCHANGED <<pending_acks, ack>>
    /\ from_stm' = Tail(from_stm)
    /\ UNCHANGED <<phase, pc, seq, attempts, cmd, session_id, to_stm, process, sent, telemetry>>

\* The reader takes a frame: to the future that waits for its sequence number,
\* or to the hook.
dispatch ==
    /\ from_stm # <<>> /\ phase # "closed"
    /\ LET f == Head(from_stm)
       IN  IF pending_acks[f.seq] = "pending"
           THEN /\ pending_acks' = [pending_acks EXCEPT ![f.seq] = "done"]
                /\ ack' = f /\ UNCHANGED <<late, faults>>
           ELSE /\ on_unsolicited(f)
                /\ UNCHANGED <<pending_acks, ack>>
    /\ from_stm' = Tail(from_stm)
    /\ UNCHANGED <<phase, pc, seq, attempts, cmd, session_id, to_stm, process, sent, telemetry>>

\* send_command ends, the entry is popped; err closes a link that is not synced.
Pop == pending_acks' = [pending_acks EXCEPT ![cmd.seq] = "none"]
Fails(fatal) == pc' = "idle" /\ phase' = IF phase = "boot" /\ fatal THEN "closed" ELSE phase

\* The handler goes on with its ACK, which must be readable and of the type it
\* sent.  A CMD_SYNC that succeeds ends sync(), one the firmware refuses ends
\* start-up; the ACK of a runtime command is forwarded whatever it reports.
Resume ==
    /\ pc = "await" /\ pending_acks[cmd.seq] = "done" /\ Pop
    /\ \/ ack.type # cmd.type /\ Fails(TRUE) /\ UNCHANGED faults
       \/ Fault /\ Fails(TRUE)
       \/ /\ ack.type = cmd.type /\ phase = "boot"
          /\ pc' = "idle" /\ phase' = "synced" /\ UNCHANGED faults
       \/ /\ ack.type = cmd.type /\ phase # "boot"
          /\ pc' = "forward" /\ UNCHANGED <<phase, faults>>
    /\ UNCHANGED <<seq, ack, attempts, cmd, session_id, late, wireVars, process, sent, telemetry>>

\* A mutation: the waiter of a timed-out command stays in the map.
TimedOut_no_pop ==
    /\ pc = "await"
    /\ pending_acks' = [pending_acks EXCEPT ![cmd.seq] = "done"]
    /\ Fails(attempts = SYNC_RETRIES)
    /\ UNCHANGED <<seq, ack, attempts, cmd, session_id, late, wireVars, process, sent, telemetry, faults>>

\* wait_for gives up; from Python 3.12 on it may do so although the ACK came in
\* the same turn of the event loop.  sync() fails after its last attempt.
TimedOut ==
    /\ pc = "await" /\ Pop
    /\ Fails(attempts = SYNC_RETRIES)
    /\ UNCHANGED <<seq, ack, attempts, cmd, session_id, late, wireVars, process, sent, telemetry, faults>>

-----------------------------------------------------------------------------
\* The bridges

\* publish_ack through NatsClient.publish: once, or it raises, which is logged.
Publish(f) ==
    \/ phase # "offline" /\ telemetry' = [telemetry EXCEPT ![f.id] = @ + 1] /\ UNCHANGED faults
    \/ phase = "offline" /\ UNCHANGED <<telemetry, faults>>
    \/ phase # "offline" /\ Fault /\ UNCHANGED telemetry

\* The handler of a runtime command forwards its ACK.
Forward ==
    /\ pc = "forward" /\ pc' = "idle" /\ Publish(ack)
    /\ UNCHANGED <<phase, seq, pending_acks, ack, attempts, cmd, session_id, late, wireVars, process, sent>>

\* A task the hook created forwards an ACK that nobody waited for.
ForwardLate ==
    /\ phase # "closed"
    /\ \E f \in late : late' = late \ {f} /\ Publish(f)
    /\ UNCHANGED <<phase, linkVars, session_id, wireVars, process, sent>>

\* A runtime command of the current session, a CMD_SYNC included.
Runtime ==
    /\ phase = "up" /\ session_id # NoSession
    /\ \E type \in Types : send_command(type)
    /\ UNCHANGED attempts

\* A mutation: timed-out attempts are not counted.
Sync_uncounted ==
    /\ phase = "boot" /\ send_command("CMD_SYNC") /\ UNCHANGED attempts

\* An attempt of sync() at start-up.
Sync == phase = "boot" /\ send_command("CMD_SYNC") /\ attempts' = attempts + 1

\* session_start without a session, session_stop of the current one; the
\* subscription delivers them when the handler of the last message is done.
Lifecycle ==
    /\ phase = "up" /\ pc = "idle"
    /\ \/ session_id = NoSession /\ session_id' \in Sessions
       \/ session_id # NoSession /\ session_id' = NoSession
    /\ UNCHANGED <<phase, linkVars, late, wireVars, process, sent, telemetry, faults>>

-----------------------------------------------------------------------------
\* The agent

\* Registration, NATS, the bridges, or one of them fails and start-up is undone.
StartUp ==
    /\ phase = "synced"
    /\ \/ phase' = "up" /\ UNCHANGED faults
       \/ phase' = "closed" /\ Fault
    /\ UNCHANGED <<linkVars, session_id, late, wireVars, process, sent, telemetry>>

\* A signal: drain() refuses new messages ...
ShutDown ==
    /\ phase = "up" /\ phase' = "draining"
    /\ UNCHANGED <<linkVars, session_id, late, wireVars, process, sent, telemetry, faults>>

\* ... and waits for the handler, not for ever; then NATS is closed ...
CloseNats ==
    /\ phase = "draining" /\ phase' = "offline"
    /\ \/ pc = "idle" /\ UNCHANGED faults
       \/ pc # "idle" /\ Fault
    /\ UNCHANGED <<linkVars, session_id, late, wireVars, process, sent, telemetry>>

\* ... and the link, which fails the futures that are left.
CloseStm ==
    /\ phase = "offline" /\ phase' = "closed"
    /\ pending_acks' = NoAcks /\ pc' = "idle"
    /\ UNCHANGED <<seq, ack, attempts, cmd, session_id, late, wireVars, process, sent, telemetry, faults>>

\* The process ended, or is killed, and a new one opens the port, which discards
\* what the operating system has received; later ACKs are still under way.
Restart ==
    /\ process < MAX_PROCESSES /\ process' = process + 1
    /\ phase' = "boot" /\ pc' = "idle" /\ seq' = 0 /\ attempts' = 0 /\ sent' = 0
    /\ pending_acks' = NoAcks /\ ack' = NoFrame /\ cmd' = NoFrame
    /\ session_id' = NoSession /\ late' = {}
    /\ \E k \in 0 .. Len(from_stm) : from_stm' = SubSeq(from_stm, k + 1, Len(from_stm))
    /\ UNCHANGED <<to_stm, telemetry, faults>>

-----------------------------------------------------------------------------
\* The firmware and the line, as the code above sees them

Answer ==
    /\ to_stm # <<>>
    /\ from_stm' = Append(from_stm, Head(to_stm)) /\ to_stm' = Tail(to_stm)
    /\ UNCHANGED <<phase, linkVars, session_id, late, process, sent, telemetry, faults>>

Lose ==
    /\ Fault
    /\ \/ to_stm # <<>> /\ to_stm' = Tail(to_stm) /\ UNCHANGED from_stm
       \/ from_stm # <<>> /\ from_stm' = Tail(from_stm) /\ UNCHANGED to_stm
    /\ UNCHANGED <<phase, linkVars, session_id, late, process, sent, telemetry>>

Agent == Sync \/ StartUp \/ Runtime \/ Lifecycle \/ ShutDown \/ CloseNats \/ CloseStm \/ Restart
Handler == Resume \/ TimedOut \/ Forward

Next == Agent \/ Handler \/ dispatch \/ ForwardLate \/ Answer \/ Lose

\* The event loop runs what is ready and its timers fire; nothing is said of
\* the firmware, the cloud or the operator.
Fairness == WF_vars(Handler) /\ WF_vars(Sync) /\ WF_vars(StartUp)
            /\ WF_vars(CloseNats) /\ WF_vars(CloseStm)

Spec == Init /\ [][Next]_vars /\ Fairness

-----------------------------------------------------------------------------
\* Properties

\* The ACK a command gets is its own, not the late one of an earlier command of
\* the same process (matching by seq, stm_link.py _dispatch).
AckIsOwn ==
    /\ pc = "forward" \/ (pc = "await" /\ pending_acks[cmd.seq] = "done")
    /\ ack.id[1] = process
    => ack = cmd

\* Only the command that is being awaited has a waiter in the map, so no late
\* ACK is swallowed by a future nobody reads (the finally of send_command).
OnlyWaiterPending ==
    {s \in Seqs : pending_acks[s] # "none"} = IF pc = "await" THEN {cmd.seq} ELSE {}

\* An ACK is forwarded by the handler or by the hook, never by both
\* (stm_link.py _dispatch, response_bridge.py _on_unsolicited).
ForwardedOnce == \A i \in Ids : telemetry[i] <= 1

\* Start-up and shutdown both come to an end, whatever the line loses and
\* however late ACKs are: the retry loop of sync decides, and drain() does not
\* wait for ever for a handler that is still waiting.
PhasesEnd ==
    /\ phase = "boot" ~> phase # "boot"
    /\ phase = "draining" ~> phase \in {"closed", "boot"}
=============================================================================

--------------------------- MODULE StmLinkProofs ----------------------------
(***************************************************************************)
(* Proofs about the agent's serial link for every range of sequence        *)
(* numbers, every number of retries, restarts and faults.                  *)
(*                                                                         *)
(* For AckIsOwn the invariant (NumberInv) relates the number of each frame *)
(* on the line to how many commands were sent after it; for ForwardedOnce  *)
(* (OncePlaceInv) an ACK is in one place at a time: on the line, with a    *)
(* task of the hook, with the handler, or published.                       *)
(***************************************************************************)
EXTENDS StmLink, SequenceTheorems, TLAPS

\* The counter stays a sequence number.
LEMMA SeqNextInRange == ASSUME NEW s \in Seqs PROVE seq_next(s) \in Seqs
BY StmLinkAssumption DEF Seqs, seq_next

\* What the map of waiters and the commands agree on: the numbers are in range,
\* and only the awaited command has an entry.
WaiterInv ==
    /\ seq \in Seqs /\ cmd.seq \in Seqs
    /\ pending_acks \in [Seqs -> {"none", "pending", "done"}]
    /\ \A s \in Seqs : pending_acks[s] # "none" <=> pc = "await" /\ s = cmd.seq

\* send_command registers the only waiter, or fails and leaves none.
LEMMA SendKeepsWaiter ==
    ASSUME WaiterInv, NEW type, send_command(type) PROVE WaiterInv'
<1>1. seq' \in Seqs /\ cmd'.seq = seq
  BY SeqNextInRange DEF WaiterInv, send_command
<1>2. CASE pc' = "await" /\ pending_acks' = [pending_acks EXCEPT ![seq] = "pending"]
  BY <1>1, <1>2 DEF WaiterInv, send_command
<1>3. CASE UNCHANGED <<pending_acks, pc>>
  BY <1>1, <1>3 DEF WaiterInv, send_command
<1> QED BY <1>2, <1>3 DEF send_command

\* A step that pops the entry and ends the wait leaves no waiter.
LEMMA PopKeepsWaiter ==
    ASSUME WaiterInv, Pop, pc = "await", pc' # "await", seq' = seq, cmd' = cmd
    PROVE  WaiterInv'
BY DEF WaiterInv, Pop

\* A new process, and a closed link, have no waiters.
LEMMA EmptyKeepsWaiter ==
    ASSUME pending_acks' = NoAcks, pc' = "idle", seq' \in Seqs, cmd'.seq \in Seqs
    PROVE  WaiterInv'
BY DEF WaiterInv, NoAcks

\* Every step keeps the map of waiters exact.
LEMMA NextWaiterInv == WaiterInv /\ [Next]_vars => WaiterInv'
<1> SUFFICES ASSUME WaiterInv, [Next]_vars PROVE WaiterInv'
  OBVIOUS
<1>1. ASSUME UNCHANGED <<pc, seq, pending_acks, cmd>> PROVE WaiterInv'
  BY <1>1 DEF WaiterInv
<1>2. CASE Sync \/ Runtime
  BY <1>2, SendKeepsWaiter DEF Sync, Runtime
<1>3. CASE Resume
  BY <1>3, PopKeepsWaiter DEF Resume, Fails
<1>4. CASE TimedOut
  BY <1>4, PopKeepsWaiter DEF TimedOut, Fails
<1>5. CASE Forward
  BY <1>5 DEF Forward, WaiterInv
<1>6. CASE dispatch
  <2>1. CASE pending_acks[Head(from_stm).seq] = "pending"
    <3>1. pending_acks' = [pending_acks EXCEPT ![Head(from_stm).seq] = "done"]
      BY <1>6, <2>1 DEF dispatch
    <3>2. UNCHANGED <<pc, seq, cmd>>
      BY <1>6 DEF dispatch
    <3> QED BY <2>1, <3>1, <3>2 DEF WaiterInv
  <2>2. CASE pending_acks[Head(from_stm).seq] # "pending"
    BY <1>6, <2>2, <1>1 DEF dispatch
  <2> QED BY <2>1, <2>2
<1>7. CASE CloseStm
  BY <1>7, EmptyKeepsWaiter DEF CloseStm, WaiterInv
<1>8. CASE Restart
  <2>1. 0 \in Seqs
    BY StmLinkAssumption DEF Seqs
  <2> QED BY <1>8, <2>1, EmptyKeepsWaiter DEF Restart, NoFrame
<1>9. CASE StartUp \/ Lifecycle \/ ShutDown \/ CloseNats
  BY <1>9, <1>1 DEF StartUp, Lifecycle, ShutDown, CloseNats, linkVars
<1>10. CASE ForwardLate \/ Answer \/ Lose
  BY <1>10, <1>1 DEF ForwardLate, Answer, Lose, linkVars
<1>11. CASE UNCHANGED vars
  BY <1>11, <1>1 DEF vars, linkVars
<1> QED
  BY <1>2, <1>3, <1>4, <1>5, <1>6, <1>7, <1>8, <1>9, <1>10, <1>11 DEF Next, Agent, Handler

\* The map of waiters is exact throughout.
LEMMA WaiterAlways == Spec => []WaiterInv
<1>1. Init => WaiterInv
  <2>1. 0 \in Seqs
    BY StmLinkAssumption DEF Seqs
  <2> QED BY <2>1 DEF Init, WaiterInv, NoAcks, NoFrame
<1> QED BY <1>1, NextWaiterInv, PTL DEF Spec

\* The finally of send_command: whatever times out, is answered late, fails or
\* is closed, no waiter outlives its command.
THEOREM LinkOnlyWaiterPending == Spec => []OnlyWaiterPending
<1>1. WaiterInv => OnlyWaiterPending
  BY DEF WaiterInv, OnlyWaiterPending
<1> QED BY <1>1, WaiterAlways, PTL

\* The types that every step of the agent has to keep; attempts of the
\* handshake are bounded only because a process that used them up has given up,
\* or has its last attempt still under way.
AttemptsInv ==
    phase = "boot" => pc = "await" \/ (pc = "idle" /\ attempts < SYNC_RETRIES)

LinkTypeInv == TypeOK /\ AttemptsInv

LEMMA FaultInRange == ASSUME TypeOK, Fault PROVE faults' \in 0 .. MAX_FAULTS
BY StmLinkAssumption DEF TypeOK, Fault

LEMMA SendKeepsType ==
    ASSUME TypeOK, NEW type \in Types, send_command(type)
    PROVE  /\ phase' \in {phase, "closed"} /\ pc' \in {"idle", "await"}
           /\ seq' \in Seqs /\ sent' \in 0 .. MAX_COMMANDS
           /\ cmd' \in Frames
           /\ pending_acks' \in [Seqs -> {"none", "pending", "done"}]
           /\ to_stm' \in Seq(Frames) /\ faults' \in 0 .. MAX_FAULTS
           /\ UNCHANGED <<ack, session_id, late, from_stm, process, telemetry>>
<1> DEFINE f == [id |-> <<process, sent + 1>>, seq |-> seq, type |-> type]
<1>1. sent + 1 \in 0 .. MAX_COMMANDS
  BY StmLinkAssumption DEF TypeOK, send_command
<1>2. f \in Frames
  BY <1>1 DEF TypeOK, Frames, Ids
<1>3. Append(to_stm, f) \in Seq(Frames)
  BY <1>2, AppendProperties DEF TypeOK
<1>4. to_stm' \in Seq(Frames)
  <2>1. to_stm' = to_stm \/ to_stm' = Append(to_stm, f)
    BY DEF send_command
  <2> QED BY <1>3, <2>1 DEF TypeOK
<1>5. seq' \in Seqs /\ sent' \in 0 .. MAX_COMMANDS
  BY <1>1, SeqNextInRange DEF TypeOK, send_command
<1>6. cmd' \in Frames
  BY <1>2 DEF TypeOK, send_command
<1>7. faults' \in 0 .. MAX_FAULTS
  BY FaultInRange DEF TypeOK, send_command
<1>8. pending_acks' \in [Seqs -> {"none", "pending", "done"}]
  BY DEF TypeOK, send_command
<1>9. phase' \in {phase, "closed"} /\ pc' \in {"idle", "await"}
  BY DEF send_command
<1> QED BY <1>4, <1>5, <1>6, <1>7, <1>8, <1>9 DEF send_command

LEMMA PublishKeepsType ==
    ASSUME TypeOK, NEW f \in Frames, Publish(f)
    PROVE  telemetry' \in [Ids -> Nat] /\ faults' \in 0 .. MAX_FAULTS
<1>1. f.id \in Ids
  BY DEF Frames
<1>2. telemetry' \in [Ids -> Nat]
  BY <1>1 DEF TypeOK, Publish
<1> QED BY <1>2, FaultInRange DEF TypeOK, Publish

LEMMA HandlerKeepsType == ASSUME LinkTypeInv, Handler PROVE LinkTypeInv'
<1> USE DEF LinkTypeInv
<1>1. CASE Resume \/ TimedOut
  <2>1. /\ pending_acks' \in [Seqs -> {"none", "pending", "done"}]
        /\ UNCHANGED <<seq, ack, attempts, cmd, session_id, late, to_stm, from_stm, process, sent, telemetry>>
        /\ faults' \in 0 .. MAX_FAULTS
    BY <1>1, FaultInRange DEF TypeOK, Resume, TimedOut, Pop, wireVars
  <2>2. phase' \in {phase, "closed", "synced"} /\ pc' \in {"idle", "forward"}
    BY <1>1 DEF Resume, TimedOut, Fails
  <2>3. phase' = "boot" => pc' = "idle" /\ attempts # SYNC_RETRIES
    BY <1>1 DEF Resume, TimedOut, Fails
  <2>4. phase' = "boot" => pc' = "idle" /\ attempts' < SYNC_RETRIES
    BY <2>1, <2>3, StmLinkAssumption DEF TypeOK
  <2>5. TypeOK'
    BY <2>1, <2>2 DEF TypeOK
  <2> QED BY <2>4, <2>5 DEF AttemptsInv
<1>2. CASE Forward
  <2>1. telemetry' \in [Ids -> Nat] /\ faults' \in 0 .. MAX_FAULTS
    BY <1>2, PublishKeepsType DEF TypeOK, Forward
  <2>2. TypeOK'
    BY <1>2, <2>1 DEF TypeOK, Forward, wireVars
  <2>3. phase # "boot"
    BY <1>2 DEF AttemptsInv, Forward
  <2> QED BY <1>2, <2>2, <2>3 DEF AttemptsInv, Forward
<1> QED BY <1>1, <1>2 DEF Handler

LEMMA SendingKeepsType == ASSUME LinkTypeInv, Sync \/ Runtime PROVE LinkTypeInv'
<1> USE DEF LinkTypeInv
<1>1. "CMD_SYNC" \in Types
  BY DEF Types
<1>2. PICK type \in Types : send_command(type)
  BY <1>1 DEF Sync, Runtime
<1>3. attempts' \in 0 .. SYNC_RETRIES
  BY <1>2, StmLinkAssumption DEF TypeOK, AttemptsInv, Sync, Runtime, send_command
<1>4. TypeOK'
  BY <1>2, <1>3, SendKeepsType DEF TypeOK
<1>5. phase' = "boot" => pc' = "await"
  BY <1>2 DEF send_command, Sync, Runtime, Fault
<1> QED BY <1>4, <1>5 DEF AttemptsInv

LEMMA ReaderKeepsType == ASSUME LinkTypeInv, dispatch PROVE LinkTypeInv'
<1> USE DEF LinkTypeInv
<1>1. Head(from_stm) \in Frames /\ from_stm' \in Seq(Frames)
  BY HeadTailProperties DEF TypeOK, dispatch
<1>2. pending_acks' \in [Seqs -> {"none", "pending", "done"}] /\ ack' \in Frames /\ late' \subseteq Frames
  BY <1>1 DEF TypeOK, dispatch, on_unsolicited
<1>3. faults' \in 0 .. MAX_FAULTS
  BY FaultInRange DEF TypeOK, dispatch, on_unsolicited
<1>4. TypeOK'
  BY <1>1, <1>2, <1>3 DEF TypeOK, dispatch
<1> QED BY <1>4 DEF AttemptsInv, dispatch

LEMMA LateKeepsType == ASSUME LinkTypeInv, ForwardLate PROVE LinkTypeInv'
<1> USE DEF LinkTypeInv
<1>1. PICK f \in late : late' = late \ {f} /\ Publish(f)
  BY DEF ForwardLate
<1>2. f \in Frames
  BY DEF TypeOK
<1>3. TypeOK'
  BY <1>1, <1>2, PublishKeepsType DEF TypeOK, ForwardLate, linkVars, wireVars
<1> QED BY <1>3 DEF AttemptsInv, ForwardLate, linkVars

LEMMA LineKeepsType == ASSUME LinkTypeInv, Answer \/ Lose PROVE LinkTypeInv'
<1> USE DEF LinkTypeInv
<1>1. to_stm # <<>> => Head(to_stm) \in Frames /\ Tail(to_stm) \in Seq(Frames)
  BY HeadTailProperties DEF TypeOK
<1>2. from_stm # <<>> => Tail(from_stm) \in Seq(Frames)
  BY HeadTailProperties DEF TypeOK
<1>3. to_stm # <<>> => Append(from_stm, Head(to_stm)) \in Seq(Frames)
  BY <1>1, AppendProperties DEF TypeOK
<1>4. to_stm' \in Seq(Frames)
  BY <1>1 DEF TypeOK, Answer, Lose
<1>5. from_stm' \in Seq(Frames)
  <2>1. \/ from_stm' = from_stm
        \/ to_stm # <<>> /\ from_stm' = Append(from_stm, Head(to_stm))
        \/ from_stm # <<>> /\ from_stm' = Tail(from_stm)
    BY DEF Answer, Lose
  <2> QED BY <1>2, <1>3, <2>1 DEF TypeOK
<1>6. faults' \in 0 .. MAX_FAULTS
  BY FaultInRange DEF TypeOK, Answer, Lose
<1>7. TypeOK'
  BY <1>4, <1>5, <1>6 DEF TypeOK, Answer, Lose, linkVars
<1> QED BY <1>7 DEF AttemptsInv, Answer, Lose, linkVars

LEMMA AgentKeepsType ==
    ASSUME LinkTypeInv, StartUp \/ Lifecycle \/ ShutDown \/ CloseNats \/ CloseStm PROVE LinkTypeInv'
<1> USE DEF LinkTypeInv
<1>1. CASE StartUp \/ ShutDown \/ CloseNats
  <2>1. faults' \in 0 .. MAX_FAULTS
    BY <1>1, FaultInRange DEF TypeOK, StartUp, ShutDown, CloseNats
  <2> QED BY <1>1, <2>1 DEF TypeOK, AttemptsInv, StartUp, ShutDown, CloseNats, linkVars, wireVars
<1>2. CASE Lifecycle
  BY <1>2 DEF TypeOK, AttemptsInv, Lifecycle, linkVars, wireVars
<1>3. CASE CloseStm
  BY <1>3 DEF TypeOK, AttemptsInv, CloseStm, wireVars, NoAcks
<1> QED BY <1>1, <1>2, <1>3

LEMMA RestartKeepsType == ASSUME LinkTypeInv, Restart PROVE LinkTypeInv'
<1> USE DEF LinkTypeInv
<1>1. 0 \in Seqs /\ NoFrame \in Frames
  BY StmLinkAssumption DEF Seqs, NoFrame, Frames, Ids, Types
<1>2. PICK k \in 0 .. Len(from_stm) : from_stm' = SubSeq(from_stm, k + 1, Len(from_stm))
  BY DEF Restart
<1>3. from_stm' \in Seq(Frames)
  BY <1>2, SubSeqProperties DEF TypeOK
<1>4. process' \in 1 .. MAX_PROCESSES
  BY StmLinkAssumption DEF TypeOK, Restart
<1>5. NoAcks \in [Seqs -> {"none", "pending", "done"}]
  BY DEF NoAcks
<1>6. 0 \in 0 .. SYNC_RETRIES /\ 0 \in 0 .. MAX_COMMANDS /\ 0 < SYNC_RETRIES
  BY StmLinkAssumption
<1>7. TypeOK'
  BY <1>1, <1>3, <1>4, <1>5, <1>6 DEF TypeOK, Restart
<1> QED BY <1>6, <1>7 DEF AttemptsInv, Restart

\* The types and the bound on the attempts hold throughout.
LEMMA LinkTypeAlways == Spec => []LinkTypeInv
<1>1. Init => LinkTypeInv
  <2>1. 0 \in Seqs /\ NoFrame \in Frames
    BY StmLinkAssumption DEF Seqs, NoFrame, Frames, Ids, Types
  <2>2. NoAcks \in [Seqs -> {"none", "pending", "done"}]
    BY DEF NoAcks
  <2> QED BY <2>1, <2>2, StmLinkAssumption DEF Init, LinkTypeInv, TypeOK, AttemptsInv
<1>2. LinkTypeInv /\ [Next]_vars => LinkTypeInv'
  <2> SUFFICES ASSUME LinkTypeInv, [Next]_vars PROVE LinkTypeInv'
    OBVIOUS
  <2>1. CASE UNCHANGED vars
    BY <2>1 DEF LinkTypeInv, TypeOK, AttemptsInv, vars, linkVars, wireVars
  <2> QED BY <2>1, SendingKeepsType, HandlerKeepsType, ReaderKeepsType, LateKeepsType, LineKeepsType,
             AgentKeepsType, RestartKeepsType DEF Next, Agent
<1> QED BY <1>1, <1>2, PTL DEF Spec

\* The link's state keeps its types for every range of sequence numbers and
\* every number of retries; in particular seq stays a byte and sync() makes no
\* more attempts than it has retries.
THEOREM LinkTypeCorrect == Spec => []TypeOK
<1>1. LinkTypeInv => TypeOK
  BY DEF LinkTypeInv
<1> QED BY <1>1, LinkTypeAlways, PTL

-----------------------------------------------------------------------------
\* What is on the line

\* The frames on the line, commands and ACKs.
Wire == Range(to_stm) \cup Range(from_stm)

LEMMA RangeAppend ==
    ASSUME NEW S, NEW s \in Seq(S), NEW x \in S
    PROVE  Range(Append(s, x)) = Range(s) \cup {x}
<1>1. /\ Append(s, x) \in Seq(S) /\ Len(Append(s, x)) = Len(s) + 1
      /\ \A i \in 1 .. Len(s) : Append(s, x)[i] = s[i]
      /\ Append(s, x)[Len(s) + 1] = x
  BY AppendProperties
<1>2. Range(Append(s, x)) = {Append(s, x)[i] : i \in 1 .. Len(Append(s, x))}
  BY <1>1, RangeEquality
<1>3. Range(s) = {s[i] : i \in 1 .. Len(s)} /\ Len(s) \in Nat
  BY RangeEquality, LenProperties
<1> QED BY <1>1, <1>2, <1>3

LEMMA RangeTail ==
    ASSUME NEW S, NEW s \in Seq(S), s # <<>>
    PROVE  Range(s) = {Head(s)} \cup Range(Tail(s)) /\ Head(s) \in S /\ Tail(s) \in Seq(S)
<1>1. /\ Head(s) = s[1] /\ Head(s) \in S /\ Tail(s) \in Seq(S) /\ Len(Tail(s)) = Len(s) - 1
      /\ \A i \in 1 .. Len(Tail(s)) : Tail(s)[i] = s[i + 1]
  BY HeadTailProperties
<1>2. Range(s) = {s[i] : i \in 1 .. Len(s)} /\ Len(s) \in Nat /\ Len(s) > 0
  BY RangeEquality, LenProperties, EmptySeq
<1>3. Range(Tail(s)) = {Tail(s)[i] : i \in 1 .. Len(Tail(s))}
  BY <1>1, RangeEquality
<1>4. \A i \in 1 .. Len(s) : i = 1 \/ (i - 1 \in 1 .. Len(Tail(s)) /\ s[i] = Tail(s)[i - 1])
  BY <1>1, <1>2
<1>5. \A i \in 1 .. Len(Tail(s)) : i + 1 \in 1 .. Len(s)
  BY <1>1, <1>2
<1>6. Range(s) \subseteq {Head(s)} \cup Range(Tail(s))
  BY <1>1, <1>2, <1>3, <1>4
<1>7. {Head(s)} \cup Range(Tail(s)) \subseteq Range(s)
  BY <1>1, <1>2, <1>3, <1>5
<1> QED BY <1>1, <1>6, <1>7

LEMMA RangeSuffix ==
    ASSUME NEW S, NEW s \in Seq(S), NEW k \in 0 .. Len(s)
    PROVE  Range(SubSeq(s, k + 1, Len(s))) \subseteq Range(s)
<1> DEFINE u == SubSeq(s, k + 1, Len(s))
<1>1. Len(s) \in Nat
  BY LenProperties
<1>2. u \in Seq(S) /\ Len(u) = Len(s) - k /\ \A i \in 1 .. Len(u) : u[i] = s[k + i]
  BY <1>1, SubSeqProperties
<1>3. Range(u) = {u[i] : i \in 1 .. Len(u)} /\ Range(s) = {s[i] : i \in 1 .. Len(s)}
  BY <1>2, RangeEquality
<1> HIDE DEF u
<1>4. \A i \in 1 .. Len(u) : k + i \in 1 .. Len(s)
  BY <1>1, <1>2
<1>5. Range(u) \subseteq Range(s)
  BY <1>2, <1>3, <1>4
<1> QED BY <1>5 DEF u

-----------------------------------------------------------------------------
\* Matching by sequence number

\* A frame of this process on the line: its number is as many behind the number
\* of the last command, the counter having come round at most once, as there
\* were commands sent after it.
Numbered(f) ==
    f.id[1] = process =>
        LET behind == sent - f.id[2]
        IN  /\ f.id[2] \in 1 .. sent /\ behind < SEQ_RANGE
            /\ f.seq \in {cmd.seq - behind, cmd.seq - behind + SEQ_RANGE}
            /\ behind = 0 => f = cmd

\* What the counter, the last command and the frames on the line agree on.
NumberInv ==
    /\ sent > 0 => seq = seq_next(cmd.seq) /\ cmd.id = <<process, sent>>
    /\ pc # "idle" => sent > 0
    /\ \A f \in Wire : f.id[1] <= process /\ Numbered(f)

MatchInv == NumberInv /\ AckIsOwn

\* The counter goes one up or comes round to 0.
LEMMA SeqNextCases ==
    ASSUME NEW s \in Seqs
    PROVE  \/ s + 1 < SEQ_RANGE /\ seq_next(s) = s + 1
           \/ s + 1 = SEQ_RANGE /\ seq_next(s) = 0
<1>1. SEQ_RANGE \in Nat /\ SEQ_RANGE > 0 /\ s \in Nat /\ s + 1 <= SEQ_RANGE
  BY StmLinkAssumption DEF Seqs
<1>2. CASE s + 1 < SEQ_RANGE
  BY <1>1, <1>2 DEF seq_next
<1>3. CASE s + 1 = SEQ_RANGE
  BY <1>1, <1>3 DEF seq_next
<1> QED BY <1>1, <1>2, <1>3

\* A frame that carries the number of the last command is that command: the
\* timing keeps the numbers of the frames on the line apart.
LEMMA SameSeqSameFrame ==
    ASSUME TypeOK, NEW f \in Frames, Numbered(f), f.id[1] = process, f.seq = cmd.seq
    PROVE  f = cmd
<1>1. f.id \in Ids /\ cmd.seq \in Seqs /\ sent \in 0 .. MAX_COMMANDS
  BY DEF TypeOK, Frames
<1>2. f.id[2] \in Int /\ sent \in Int /\ cmd.seq \in Int /\ SEQ_RANGE \in Int
  BY <1>1, StmLinkAssumption DEF Ids, Seqs
<1>3. sent - f.id[2] = 0
  BY <1>2 DEF Numbered
<1> QED BY <1>3 DEF Numbered

\* Numbering goes by the process, the count of commands and the last command.
LEMMA FewerFramesNumbered ==
    ASSUME NumberInv, Wire' \subseteq Wire, UNCHANGED <<process, sent, seq, cmd>>,
           pc' # "idle" => pc # "idle"
    PROVE  NumberInv'
BY DEF NumberInv, Numbered

\* A command numbers its frame next to the last one; the frames on the line are
\* one further behind, and InTime says that is not a whole round.
LEMMA SendKeepsNumbers ==
    ASSUME TypeOK, NumberInv, NEW type \in Types, send_command(type)
    PROVE  NumberInv'
<1>0. sent + 1 \in 1 .. MAX_COMMANDS
  BY StmLinkAssumption DEF TypeOK, send_command
<1>1. PICK f \in Frames : f = [id |-> <<process, sent + 1>>, seq |-> seq, type |-> type]
  <2>1. <<process, sent + 1>> \in Ids /\ seq \in Seqs
    BY <1>0, StmLinkAssumption DEF TypeOK, Ids
  <2> QED BY <2>1 DEF Frames
<1>2. /\ cmd' = f /\ sent' = sent + 1 /\ process' = process /\ seq' = seq_next(seq)
      /\ to_stm' \in {to_stm, Append(to_stm, f)} /\ from_stm' = from_stm
  BY <1>1 DEF send_command
<1>3. Wire' \subseteq Wire \cup {f}
  <2>1. Range(Append(to_stm, f)) = Range(to_stm) \cup {f}
    BY RangeAppend DEF TypeOK
  <2> QED BY <1>2, <2>1 DEF Wire
<1>4. Range(to_stm \o from_stm) = Wire
  BY RangeConcatenation DEF TypeOK, Wire
<1>5. ASSUME NEW g \in Wire PROVE g.id[1] <= process' /\ Numbered(g)'
  <2>1. g \in Frames /\ g.id[1] <= process /\ Numbered(g)
    BY <1>5, RangeOfSeq DEF TypeOK, Wire, NumberInv
  <2>2. SUFFICES ASSUME g.id[1] = process PROVE Numbered(g)'
    BY <1>2, <2>1 DEF Numbered
  <2>3. sent + 1 - g.id[2] < SEQ_RANGE
    BY <1>4, <1>5, <2>2 DEF InTime, send_command
  <2>4. g.id[2] \in 1 .. sent /\ sent \in Nat /\ g.seq \in Int /\ SEQ_RANGE \in Nat /\ cmd.seq \in Seqs
    <3>1. g.id[2] \in 1 .. sent
      BY <2>1, <2>2 DEF Numbered
    <3>2. g.seq \in Seqs /\ cmd.seq \in Seqs /\ sent \in 0 .. MAX_COMMANDS
      BY <2>1 DEF TypeOK, Frames
    <3> QED BY <3>1, <3>2, StmLinkAssumption DEF Seqs
  <2>5. seq = seq_next(cmd.seq) /\ cmd.seq \in Int
    BY <2>4 DEF NumberInv, Seqs
  <2>6. \/ seq = cmd.seq + 1
        \/ seq = 0 /\ cmd.seq + 1 = SEQ_RANGE
    BY <2>4, <2>5, SeqNextCases
  <2>7. g.seq \in Seqs
    BY <2>1 DEF Frames
  <2>8. g.seq \in {seq - (sent + 1 - g.id[2]), seq - (sent + 1 - g.id[2]) + SEQ_RANGE}
    BY <2>1, <2>2, <2>3, <2>4, <2>5, <2>6, <2>7 DEF Numbered, Seqs
  <2>9. cmd'.seq = seq
    BY <1>1, <1>2
  <2>10. sent' - g.id[2] # 0
    BY <1>2, <2>4
  <2> QED BY <1>2, <2>3, <2>4, <2>8, <2>9, <2>10 DEF Numbered
<1>6. f.id[1] <= process' /\ Numbered(f)'
  <2>1. f.id[1] = process /\ f.id[2] = sent + 1 /\ f.seq = seq /\ seq \in Int /\ process \in Int
    BY <1>1 DEF TypeOK, Seqs
  <2> QED BY <1>0, <1>2, <2>1, StmLinkAssumption DEF Numbered
<1>7. sent' > 0 /\ cmd'.id = <<process', sent'>> /\ seq' = seq_next(cmd'.seq)
  BY <1>0, <1>1, <1>2
<1> QED BY <1>3, <1>5, <1>6, <1>7 DEF NumberInv

\* Every step keeps the numbering of the frames and gives a command no other
\* ACK of its process than its own.
LEMMA NextMatchInv == TypeOK /\ WaiterInv /\ MatchInv /\ [Next]_vars => MatchInv'
<1> SUFFICES ASSUME TypeOK, WaiterInv, MatchInv, [Next]_vars PROVE MatchInv'
  OBVIOUS
<1> USE DEF MatchInv
<1>1. ASSUME Wire' \subseteq Wire, UNCHANGED <<process, sent, pc, seq, cmd, pending_acks, ack>> PROVE MatchInv'
  BY <1>1, FewerFramesNumbered DEF AckIsOwn
<1>2. CASE Sync \/ Runtime
  <2>1. PICK type \in Types : send_command(type)
    BY <1>2 DEF Sync, Runtime, Types
  <2>2. NumberInv'
    BY <2>1, SendKeepsNumbers
  <2>3. pc' = "idle" \/ (pc' = "await" /\ pending_acks'[cmd'.seq] = "pending")
    BY <2>1 DEF TypeOK, send_command
  <2> QED BY <2>2, <2>3 DEF AckIsOwn
<1>3. CASE Resume
  <2>1. NumberInv'
    BY <1>3, FewerFramesNumbered DEF Resume, Wire, wireVars
  <2> QED BY <1>3, <2>1 DEF AckIsOwn, Resume, Fails
<1>4. CASE TimedOut \/ Forward
  <2>1. NumberInv'
    BY <1>4, FewerFramesNumbered DEF TimedOut, Forward, Fails, Wire, wireVars
  <2> QED BY <1>4, <2>1 DEF AckIsOwn, TimedOut, Forward, Fails
<1>5. CASE dispatch
  <2> DEFINE f == Head(from_stm)
  <2>1. Range(from_stm) = {f} \cup Range(Tail(from_stm)) /\ f \in Frames
    BY <1>5, RangeTail DEF TypeOK, dispatch
  <2>2. NumberInv'
    BY <1>5, <2>1, FewerFramesNumbered DEF dispatch, Wire
  <2>3. Numbered(f)
    BY <2>1 DEF NumberInv, Wire
  <2> HIDE DEF f
  <2>4. CASE pending_acks[f.seq] = "pending"
    <3>1. f.seq = cmd.seq
      BY <2>1, <2>4 DEF WaiterInv, Frames
    <3>2. ack' = f /\ UNCHANGED <<cmd, process>>
      BY <1>5, <2>4 DEF dispatch, f
    <3>3. ack'.id[1] = process' => ack' = cmd'
      BY <2>1, <2>3, <3>1, <3>2, SameSeqSameFrame
    <3> QED BY <2>2, <3>3 DEF AckIsOwn
  <2>5. CASE pending_acks[f.seq] # "pending"
    <3>1. UNCHANGED <<process, pc, cmd, pending_acks, ack>>
      BY <1>5, <2>5 DEF dispatch, f
    <3> QED BY <2>2, <3>1 DEF AckIsOwn
  <2> QED BY <2>4, <2>5
<1>6. CASE CloseStm
  <2>1. NumberInv'
    BY <1>6, FewerFramesNumbered DEF CloseStm, Wire, wireVars
  <2> QED BY <1>6, <2>1 DEF AckIsOwn, CloseStm
<1>7. CASE Restart
  <2>1. Wire' \subseteq Wire
    BY <1>7, RangeSuffix DEF TypeOK, Restart, Wire
  <2>2. process' = process + 1 /\ sent' = 0 /\ pc' = "idle" /\ process \in Int
    BY <1>7 DEF TypeOK, Restart
  <2>3. ASSUME NEW f \in Wire' PROVE f.id[1] <= process' /\ Numbered(f)'
    <3>1. f \in Frames /\ f.id[1] <= process
      BY <2>1, <2>3, RangeOfSeq DEF TypeOK, Wire, NumberInv
    <3>2. f.id[1] \in Int
      BY <3>1 DEF Frames, Ids
    <3> QED BY <2>2, <3>1, <3>2 DEF Numbered
  <2> QED BY <2>2, <2>3 DEF NumberInv, AckIsOwn
<1>8. CASE StartUp \/ Lifecycle \/ ShutDown \/ CloseNats \/ ForwardLate
  BY <1>8, <1>1 DEF StartUp, Lifecycle, ShutDown, CloseNats, ForwardLate, linkVars, wireVars, Wire
<1>9. CASE Answer
  <2>1. Range(to_stm) = {Head(to_stm)} \cup Range(Tail(to_stm)) /\ Head(to_stm) \in Frames
    BY <1>9, RangeTail DEF TypeOK, Answer
  <2>2. Range(from_stm') = Range(from_stm) \cup {Head(to_stm)}
    BY <1>9, <2>1, RangeAppend DEF TypeOK, Answer
  <2> QED BY <1>9, <2>1, <2>2, <1>1 DEF Answer, linkVars, Wire
<1>10. CASE Lose
  <2>1. to_stm # <<>> => Range(Tail(to_stm)) \subseteq Range(to_stm)
    BY RangeTail DEF TypeOK
  <2>2. from_stm # <<>> => Range(Tail(from_stm)) \subseteq Range(from_stm)
    BY RangeTail DEF TypeOK
  <2>3. Wire' \subseteq Wire
    BY <1>10, <2>1, <2>2 DEF Lose, Wire
  <2> QED BY <1>10, <2>3, <1>1 DEF Lose, linkVars
<1>11. CASE UNCHANGED vars
  BY <1>11, <1>1 DEF vars, linkVars, wireVars, Wire
<1> QED
  BY <1>2, <1>3, <1>4, <1>5, <1>6, <1>7, <1>8, <1>9, <1>10, <1>11 DEF Next, Agent, Handler

\* Matching by the sequence number alone gives a command its own ACK and never
\* the late one of an earlier command of the same process, as long as a frame
\* is answered or lost before the numbers have come round to it.
THEOREM LinkAckIsOwn == Spec => []AckIsOwn
<1>1. Init => MatchInv
  <2>1. Init => Wire = {}
    <3>1. ASSUME Init PROVE to_stm = <<>> /\ from_stm = <<>>
      BY <3>1 DEF Init
    <3>2. Range(<<>>) = {}
      BY DEF Range
    <3> QED BY <3>1, <3>2 DEF Wire
  <2> QED BY <2>1 DEF Init, MatchInv, NumberInv, AckIsOwn
<1>2. LinkTypeInv => TypeOK
  BY DEF LinkTypeInv
<1>3. MatchInv => AckIsOwn
  BY DEF MatchInv
<1> QED BY <1>1, <1>2, <1>3, NextMatchInv, LinkTypeAlways, WaiterAlways, PTL DEF Spec

-----------------------------------------------------------------------------
\* Every ACK in one place

\* The commands whose frames are in a queue, each of them there once.
IdsOf(s) == {f.id : f \in Range(s)}
Distinct(s) == \A i, j \in 1 .. Len(s) : s[i].id = s[j].id => i = j

\* A command that some process has sent.
Issued(i) == i[1] < process \/ (i[1] = process /\ i[2] <= sent)

\* The handler has an ACK, in its future or in hand.
Holding == pc = "forward" \/ (pc = "await" /\ pending_acks[cmd.seq] = "done")

OnWire == IdsOf(to_stm) \cup IdsOf(from_stm)

QueuesInv ==
    /\ Distinct(to_stm) /\ Distinct(from_stm) /\ IdsOf(to_stm) \cap IdsOf(from_stm) = {}
    /\ \A i \in OnWire : Issued(i) /\ telemetry[i] = 0

\* What the hook's tasks hold is nowhere else and not published yet.
LateInv ==
    /\ \A f \in late : f.id \notin OnWire /\ Issued(f.id) /\ telemetry[f.id] = 0
    /\ \A f, g \in late : f.id = g.id => f = g

\* So is what the handler holds.
HoldingInv ==
    Holding =>
        /\ ack.id \notin OnWire /\ Issued(ack.id) /\ telemetry[ack.id] = 0
        /\ \A f \in late : f.id # ack.id

\* No ACK was published twice, and none of a command that was not sent.
PublishedInv == \A i \in Ids : telemetry[i] <= 1 /\ (telemetry[i] = 1 => Issued(i))

OncePlaceInv == QueuesInv /\ LateInv /\ HoldingInv /\ PublishedInv

LEMMA DistinctAppend ==
    ASSUME NEW s \in Seq(Frames), NEW x \in Frames, Distinct(s), x.id \notin IdsOf(s)
    PROVE  Distinct(Append(s, x)) /\ IdsOf(Append(s, x)) = IdsOf(s) \cup {x.id}
<1>1. /\ Len(s) \in Nat /\ Len(Append(s, x)) = Len(s) + 1
      /\ \A i \in 1 .. Len(s) : Append(s, x)[i] = s[i]
      /\ Append(s, x)[Len(s) + 1] = x
  BY AppendProperties, LenProperties
<1>2. Range(Append(s, x)) = Range(s) \cup {x}
  BY RangeAppend
<1>3. \A i \in 1 .. Len(s) : s[i].id # x.id
  BY RangeEquality DEF IdsOf
<1>4. Distinct(Append(s, x))
  BY <1>1, <1>3 DEF Distinct
<1> QED BY <1>2, <1>4 DEF IdsOf

LEMMA DistinctTail ==
    ASSUME NEW s \in Seq(Frames), s # <<>>, Distinct(s)
    PROVE  /\ Distinct(Tail(s)) /\ IdsOf(s) = {Head(s).id} \cup IdsOf(Tail(s))
           /\ Head(s).id \notin IdsOf(Tail(s)) /\ Head(s) \in Frames
<1>1. /\ Len(s) \in Nat /\ Len(s) > 0 /\ Len(Tail(s)) = Len(s) - 1 /\ Tail(s) \in Seq(Frames)
      /\ Head(s) = s[1] /\ Head(s) \in Frames
      /\ \A i \in 1 .. Len(Tail(s)) : Tail(s)[i] = s[i + 1]
  BY HeadTailProperties, LenProperties, EmptySeq
<1>2. IdsOf(s) = {Head(s).id} \cup IdsOf(Tail(s))
  <2>1. Range(s) = {Head(s)} \cup Range(Tail(s))
    BY RangeTail
  <2> QED BY <2>1 DEF IdsOf
<1>3. \A i \in 1 .. Len(Tail(s)) : i + 1 \in 1 .. Len(s) /\ i + 1 # 1
  BY <1>1
<1>4. Distinct(Tail(s))
  <2> SUFFICES ASSUME NEW i \in 1 .. Len(Tail(s)), NEW j \in 1 .. Len(Tail(s)), Tail(s)[i].id = Tail(s)[j].id
               PROVE  i = j
    BY DEF Distinct
  <2>1. i + 1 = j + 1
    BY <1>1, <1>3 DEF Distinct
  <2> QED BY <2>1
<1>5. \A i \in 1 .. Len(Tail(s)) : Tail(s)[i].id # Head(s).id
  BY <1>1, <1>3 DEF Distinct
<1>6. Range(Tail(s)) = {Tail(s)[i] : i \in 1 .. Len(Tail(s))}
  BY <1>1, RangeEquality
<1>7. Head(s).id \notin IdsOf(Tail(s))
  BY <1>5, <1>6 DEF IdsOf
<1> QED BY <1>1, <1>2, <1>4, <1>7

LEMMA DistinctSuffix ==
    ASSUME NEW s \in Seq(Frames), NEW k \in 0 .. Len(s), Distinct(s)
    PROVE  Distinct(SubSeq(s, k + 1, Len(s))) /\ IdsOf(SubSeq(s, k + 1, Len(s))) \subseteq IdsOf(s)
<1> DEFINE u == SubSeq(s, k + 1, Len(s))
<1>1. Len(s) \in Nat
  BY LenProperties
<1>2. u \in Seq(Frames) /\ Len(u) = Len(s) - k /\ \A i \in 1 .. Len(u) : u[i] = s[k + i]
  BY <1>1, SubSeqProperties
<1>3. Range(u) \subseteq Range(s)
  BY RangeSuffix
<1> HIDE DEF u
<1>4. \A i \in 1 .. Len(u) : k + i \in 1 .. Len(s)
  BY <1>1, <1>2
<1>5. Distinct(u)
  <2> SUFFICES ASSUME NEW i \in 1 .. Len(u), NEW j \in 1 .. Len(u), u[i].id = u[j].id
               PROVE  i = j
    BY DEF Distinct
  <2>1. k + i = k + j
    BY <1>2, <1>4 DEF Distinct
  <2> QED BY <2>1
<1>6. IdsOf(u) \subseteq IdsOf(s)
  BY <1>3 DEF IdsOf
<1> QED BY <1>5, <1>6 DEF u

LEMMA IdsOfTyped == ASSUME TypeOK PROVE OnWire \subseteq Ids
<1>1. Range(to_stm) \subseteq Frames /\ Range(from_stm) \subseteq Frames
  BY RangeOfSeq DEF TypeOK
<1> QED BY <1>1 DEF OnWire, IdsOf, Frames

\* A step that only takes frames away, or moves them on the line, keeps every
\* ACK in one place.
LEMMA LessKeepsPlaces ==
    ASSUME TypeOK, OncePlaceInv, UNCHANGED telemetry,
           Distinct(to_stm'), Distinct(from_stm'), IdsOf(to_stm') \cap IdsOf(from_stm') = {},
           OnWire' \subseteq OnWire, late' \subseteq late, Holding' => Holding /\ ack' = ack,
           \A i \in Ids : Issued(i) => Issued(i)'
    PROVE  OncePlaceInv'
<1>1. OnWire \subseteq Ids /\ (\A f \in late : f.id \in Ids) /\ ack.id \in Ids
  BY IdsOfTyped DEF TypeOK, Frames
<1>2. QueuesInv'
  BY <1>1 DEF OncePlaceInv, QueuesInv
<1>3. LateInv'
  BY <1>1 DEF OncePlaceInv, LateInv
<1>4. HoldingInv'
  BY <1>1 DEF OncePlaceInv, HoldingInv
<1>5. PublishedInv'
  BY DEF OncePlaceInv, PublishedInv
<1> QED BY <1>2, <1>3, <1>4, <1>5 DEF OncePlaceInv

\* The same when nothing moves on the line.
LEMMA HandlerKeepsPlaces ==
    ASSUME TypeOK, OncePlaceInv, UNCHANGED <<telemetry, to_stm, from_stm, late, process, sent>>,
           Holding' => Holding /\ ack' = ack
    PROVE  OncePlaceInv'
<1>1. OnWire' = OnWire /\ \A i \in Ids : Issued(i) => Issued(i)'
  BY DEF OnWire, Issued
<1> QED BY <1>1, LessKeepsPlaces DEF OncePlaceInv, QueuesInv

\* A new command is in no place yet, and then on the line or nowhere.
LEMMA SendKeepsPlaces ==
    ASSUME TypeOK, OncePlaceInv, NEW type \in Types, send_command(type)
    PROVE  OncePlaceInv'
<1>0. sent + 1 \in 1 .. MAX_COMMANDS
  BY StmLinkAssumption DEF TypeOK, send_command
<1>1. PICK f \in Frames : f = [id |-> <<process, sent + 1>>, seq |-> seq, type |-> type]
  <2>1. <<process, sent + 1>> \in Ids /\ seq \in Seqs
    BY <1>0, StmLinkAssumption DEF TypeOK, Ids
  <2> QED BY <2>1 DEF Frames
<1>2. /\ to_stm' \in {to_stm, Append(to_stm, f)} /\ sent' = sent + 1
      /\ UNCHANGED <<from_stm, late, telemetry, process>>
  BY <1>1 DEF send_command
<1>3. f.id \in Ids /\ f.id[1] = process /\ f.id[2] = sent + 1 /\ process \in Int /\ sent \in Int
  BY <1>1 DEF TypeOK, Frames
<1>4. ~Issued(f.id) /\ Issued(f.id)' /\ \A i \in Ids : Issued(i) => Issued(i)'
  BY <1>2, <1>3 DEF Issued, Ids
<1>5. OnWire \subseteq Ids /\ (\A g \in late : g.id \in Ids)
  BY IdsOfTyped DEF TypeOK, Frames
<1>6. f.id \notin OnWire /\ (\A g \in late : g.id # f.id) /\ telemetry[f.id] = 0
  <2>1. f.id \notin OnWire /\ (\A g \in late : g.id # f.id)
    BY <1>4 DEF OncePlaceInv, QueuesInv, LateInv
  <2>2. telemetry[f.id] <= 1 /\ telemetry[f.id] # 1 /\ telemetry[f.id] \in Nat
    BY <1>3, <1>4 DEF OncePlaceInv, PublishedInv, TypeOK
  <2> QED BY <2>1, <2>2
<1>7. /\ Distinct(Append(to_stm, f)) /\ Distinct(to_stm)
      /\ IdsOf(Append(to_stm, f)) = IdsOf(to_stm) \cup {f.id}
  BY <1>6, DistinctAppend DEF TypeOK, OncePlaceInv, QueuesInv, OnWire
<1>8. OnWire' \subseteq OnWire \cup {f.id} /\ Distinct(to_stm') /\ IdsOf(to_stm') \cap IdsOf(from_stm') = {}
  BY <1>2, <1>6, <1>7 DEF OncePlaceInv, QueuesInv, OnWire
<1>9. ~Holding'
  BY DEF send_command, Holding, TypeOK
<1>10. QueuesInv'
  BY <1>2, <1>4, <1>5, <1>6, <1>8 DEF OncePlaceInv, QueuesInv
<1>11. LateInv'
  BY <1>2, <1>4, <1>5, <1>6, <1>8 DEF OncePlaceInv, LateInv
<1>12. PublishedInv'
  BY <1>2, <1>4 DEF OncePlaceInv, PublishedInv
<1> QED BY <1>9, <1>10, <1>11, <1>12 DEF OncePlaceInv, HoldingInv

\* The reader gives a frame to the waiter or to the hook, not to both.
LEMMA ReaderKeepsPlaces ==
    ASSUME TypeOK, OncePlaceInv, dispatch PROVE OncePlaceInv'
<1>1. PICK f \in Frames : f = Head(from_stm)
  BY HeadTailProperties DEF TypeOK, dispatch
<1>2. /\ UNCHANGED <<to_stm, telemetry, process, sent, pc, cmd>> /\ from_stm' = Tail(from_stm)
      /\ from_stm # <<>> /\ f.id \in Ids
  BY DEF dispatch, Frames
<1>3. /\ Distinct(from_stm') /\ IdsOf(from_stm) = {f.id} \cup IdsOf(from_stm')
      /\ f.id \notin IdsOf(from_stm')
  BY <1>1, <1>2, DistinctTail DEF TypeOK, OncePlaceInv, QueuesInv
<1>4. OnWire' \subseteq OnWire /\ f.id \in OnWire /\ f.id \notin OnWire'
  BY <1>2, <1>3 DEF OnWire, OncePlaceInv, QueuesInv
<1>5. Issued(f.id) /\ telemetry[f.id] = 0 /\ (\A i : Issued(i) => Issued(i)')
  BY <1>2, <1>4 DEF OncePlaceInv, QueuesInv, Issued
<1>6. QueuesInv' /\ PublishedInv'
  BY <1>2, <1>3, <1>4, <1>5 DEF OncePlaceInv, QueuesInv, PublishedInv
<1>7. CASE pending_acks[f.seq] = "pending"
  <2>1. ack' = f /\ late' = late
    BY <1>1, <1>7 DEF dispatch
  <2>2. LateInv'
    BY <1>2, <1>4, <1>5, <2>1 DEF OncePlaceInv, LateInv
  <2>3. HoldingInv'
    BY <1>2, <1>4, <1>5, <2>1 DEF OncePlaceInv, LateInv, HoldingInv
  <2> QED BY <1>6, <2>2, <2>3 DEF OncePlaceInv
<1>8. CASE pending_acks[f.seq] # "pending"
  <2>1. UNCHANGED <<ack, pending_acks>> /\ late' \subseteq late \cup {f}
    BY <1>1, <1>8 DEF dispatch, on_unsolicited
  <2>2. LateInv'
    BY <1>2, <1>4, <1>5, <2>1 DEF OncePlaceInv, LateInv
  <2>3. Holding' <=> Holding
    BY <1>2, <2>1 DEF Holding
  <2>4. HoldingInv'
    BY <1>2, <1>4, <1>5, <2>1, <2>3 DEF OncePlaceInv, HoldingInv
  <2> QED BY <1>6, <2>2, <2>4 DEF OncePlaceInv
<1> QED BY <1>7, <1>8

\* Publishing what is in one place only, and taking it from there.
LEMMA PublishKeepsPlaces ==
    ASSUME TypeOK, OncePlaceInv, NEW f \in Frames, Publish(f),
           UNCHANGED <<to_stm, from_stm, process, sent>>,
           f.id \notin OnWire, Issued(f.id), telemetry[f.id] = 0,
           late' \subseteq late, \A g \in late' : g.id # f.id,
           Holding' => Holding /\ ack' = ack /\ ack.id # f.id
    PROVE  OncePlaceInv'
<1>1. f.id \in Ids /\ OnWire \subseteq Ids /\ (\A g \in late : g.id \in Ids) /\ ack.id \in Ids
  BY IdsOfTyped DEF TypeOK, Frames
<1>2. telemetry'[f.id] \in {0, 1} /\ \A i \in Ids \ {f.id} : telemetry'[i] = telemetry[i]
  BY <1>1 DEF TypeOK, Publish
<1>3. OnWire' = OnWire /\ \A i : Issued(i) <=> Issued(i)'
  BY DEF OnWire, Issued
<1>4. QueuesInv'
  BY <1>1, <1>2, <1>3 DEF OncePlaceInv, QueuesInv
<1>5. LateInv'
  BY <1>1, <1>2, <1>3 DEF OncePlaceInv, LateInv
<1>6. HoldingInv'
  BY <1>1, <1>2, <1>3 DEF OncePlaceInv, HoldingInv
<1>7. PublishedInv'
  BY <1>1, <1>2, <1>3 DEF OncePlaceInv, PublishedInv
<1> QED BY <1>4, <1>5, <1>6, <1>7 DEF OncePlaceInv

\* The line answers a frame or loses one.
LEMMA LineKeepsPlaces == ASSUME TypeOK, OncePlaceInv, Answer \/ Lose PROVE OncePlaceInv'
<1>1. /\ UNCHANGED <<telemetry, late, process, sent, pc, pending_acks, cmd, ack>>
      /\ Holding' => Holding /\ ack' = ack
  BY DEF Answer, Lose, linkVars, Holding
<1>2. \A i \in Ids : Issued(i) => Issued(i)'
  BY <1>1 DEF Issued
<1>3. Distinct(to_stm) /\ Distinct(from_stm) /\ IdsOf(to_stm) \cap IdsOf(from_stm) = {}
  BY DEF OncePlaceInv, QueuesInv
<1>4. to_stm # <<>> => /\ Distinct(Tail(to_stm)) /\ IdsOf(to_stm) = {Head(to_stm).id} \cup IdsOf(Tail(to_stm))
                       /\ Head(to_stm).id \notin IdsOf(Tail(to_stm)) /\ Head(to_stm) \in Frames
  BY <1>3, DistinctTail DEF TypeOK
<1>5. CASE Answer
  <2>1. to_stm # <<>> /\ to_stm' = Tail(to_stm) /\ from_stm' = Append(from_stm, Head(to_stm))
    BY <1>5 DEF Answer
  <2>2. Head(to_stm).id \notin IdsOf(from_stm)
    BY <1>3, <1>4, <2>1
  <2>3. Distinct(from_stm') /\ IdsOf(from_stm') = IdsOf(from_stm) \cup {Head(to_stm).id}
    BY <1>3, <1>4, <2>1, <2>2, DistinctAppend DEF TypeOK
  <2>4. OnWire' \subseteq OnWire /\ IdsOf(to_stm') \cap IdsOf(from_stm') = {} /\ Distinct(to_stm')
    BY <1>3, <1>4, <2>1, <2>3 DEF OnWire
  <2> QED BY <1>1, <1>2, <2>3, <2>4, LessKeepsPlaces
<1>6. CASE Lose
  <2>1. from_stm # <<>> => Distinct(Tail(from_stm)) /\ IdsOf(Tail(from_stm)) \subseteq IdsOf(from_stm)
    BY <1>3, DistinctTail DEF TypeOK
  <2>2. \/ to_stm # <<>> /\ to_stm' = Tail(to_stm) /\ from_stm' = from_stm
        \/ from_stm # <<>> /\ from_stm' = Tail(from_stm) /\ to_stm' = to_stm
    BY <1>6 DEF Lose
  <2>3. OnWire' \subseteq OnWire /\ IdsOf(to_stm') \cap IdsOf(from_stm') = {}
    BY <1>3, <1>4, <2>1, <2>2 DEF OnWire
  <2>4. Distinct(to_stm') /\ Distinct(from_stm')
    BY <1>3, <1>4, <2>1, <2>2
  <2> QED BY <1>1, <1>2, <2>3, <2>4, LessKeepsPlaces
<1> QED BY <1>5, <1>6

\* A new process forgets what it held; its own commands are not issued yet.
LEMMA RestartKeepsPlaces == ASSUME TypeOK, OncePlaceInv, Restart PROVE OncePlaceInv'
<1>1. PICK k \in 0 .. Len(from_stm) : from_stm' = SubSeq(from_stm, k + 1, Len(from_stm))
  BY DEF Restart
<1>2. Distinct(to_stm) /\ Distinct(from_stm) /\ IdsOf(to_stm) \cap IdsOf(from_stm) = {}
  BY DEF OncePlaceInv, QueuesInv
<1>3. Distinct(from_stm') /\ IdsOf(from_stm') \subseteq IdsOf(from_stm)
  BY <1>1, <1>2, DistinctSuffix DEF TypeOK
<1>4. UNCHANGED <<to_stm, telemetry>> /\ late' = {} /\ pc' = "idle" /\ process' = process + 1
  BY DEF Restart
<1>5. \A i \in Ids : Issued(i) => Issued(i)'
  BY <1>4 DEF TypeOK, Issued, Ids
<1>6. OnWire' \subseteq OnWire /\ IdsOf(to_stm') \cap IdsOf(from_stm') = {} /\ ~Holding'
  BY <1>2, <1>3, <1>4 DEF OnWire, Holding
<1> QED BY <1>2, <1>3, <1>4, <1>5, <1>6, LessKeepsPlaces

\* Every step keeps every ACK in one place.
LEMMA NextPlaces == TypeOK /\ OncePlaceInv /\ [Next]_vars => OncePlaceInv'
<1> SUFFICES ASSUME TypeOK, OncePlaceInv, [Next]_vars PROVE OncePlaceInv'
  OBVIOUS
<1>1. CASE Sync \/ Runtime
  BY <1>1, SendKeepsPlaces DEF Sync, Runtime, Types
<1>2. CASE Resume
  <2>1. Holding /\ ack' = ack /\ UNCHANGED <<telemetry, to_stm, from_stm, late, process, sent>>
    BY <1>2 DEF Resume, Holding, wireVars
  <2> QED BY <2>1, HandlerKeepsPlaces
<1>3. CASE TimedOut \/ CloseStm
  <2>1. ~Holding' /\ UNCHANGED <<telemetry, to_stm, from_stm, late, process, sent>>
    BY <1>3 DEF TimedOut, CloseStm, Fails, Holding, wireVars
  <2> QED BY <2>1, HandlerKeepsPlaces
<1>4. CASE Forward
  <2>1. /\ Holding /\ ~Holding' /\ ack' = ack /\ Publish(ack) /\ late' = late
        /\ UNCHANGED <<to_stm, from_stm, process, sent>>
    BY <1>4 DEF Forward, Holding, wireVars
  <2>2. PICK f \in Frames : f = ack
    BY DEF TypeOK
  <2>3. f.id \notin OnWire /\ Issued(f.id) /\ telemetry[f.id] = 0 /\ \A g \in late : g.id # f.id
    BY <2>1, <2>2 DEF OncePlaceInv, HoldingInv
  <2> QED BY <2>1, <2>2, <2>3, PublishKeepsPlaces
<1>5. CASE ForwardLate
  <2>1. PICK f \in late : late' = late \ {f} /\ Publish(f)
    BY <1>5 DEF ForwardLate
  <2>2. /\ UNCHANGED <<to_stm, from_stm, process, sent, ack>> /\ f \in Frames
        /\ Holding' => Holding
    BY <1>5 DEF ForwardLate, TypeOK, linkVars, wireVars, Holding
  <2>3. f.id \notin OnWire /\ Issued(f.id) /\ telemetry[f.id] = 0 /\ \A g \in late' : g.id # f.id
    BY <2>1 DEF OncePlaceInv, LateInv
  <2>4. Holding => ack.id # f.id
    BY DEF OncePlaceInv, HoldingInv
  <2> QED BY <2>1, <2>2, <2>3, <2>4, PublishKeepsPlaces
<1>6. CASE StartUp \/ Lifecycle \/ ShutDown \/ CloseNats \/ UNCHANGED vars
  <2>1. UNCHANGED <<telemetry, to_stm, from_stm, late, process, sent, linkVars>>
    BY <1>6 DEF StartUp, Lifecycle, ShutDown, CloseNats, vars, wireVars
  <2>2. (Holding' => Holding) /\ ack' = ack
    BY <2>1 DEF Holding, linkVars
  <2> QED BY <2>1, <2>2, HandlerKeepsPlaces
<1> QED
  BY <1>1, <1>2, <1>3, <1>4, <1>5, <1>6, ReaderKeepsPlaces, LineKeepsPlaces, RestartKeepsPlaces
  DEF Next, Agent, Handler

\* An ACK is published at most once, by the handler or by the hook, through late
\* answers, timeouts and restarts: it is always in one place only.
THEOREM LinkForwardedOnce == Spec => []ForwardedOnce
<1>1. Init => OncePlaceInv
  <2> SUFFICES ASSUME Init PROVE OncePlaceInv
    OBVIOUS
  <2>1. to_stm = <<>> /\ from_stm = <<>> /\ late = {} /\ pc = "idle" /\ telemetry = [i \in Ids |-> 0]
    BY DEF Init
  <2>2. Range(<<>>) = {}
    BY DEF Range
  <2>3. IdsOf(to_stm) = {} /\ IdsOf(from_stm) = {} /\ Distinct(to_stm) /\ Distinct(from_stm)
    BY <2>1, <2>2 DEF IdsOf, Distinct
  <2> QED BY <2>1, <2>3 DEF OncePlaceInv, QueuesInv, LateInv, HoldingInv, PublishedInv, OnWire, Holding
<1>2. LinkTypeInv => TypeOK
  BY DEF LinkTypeInv
<1>3. OncePlaceInv => ForwardedOnce
  BY DEF OncePlaceInv, PublishedInv, ForwardedOnce
<1> QED BY <1>1, <1>2, <1>3, NextPlaces, LinkTypeAlways, PTL DEF Spec
=============================================================================

--------------------------- MODULE ProtocolParser ---------------------------
(***************************************************************************)
(* The frame parser of the wire protocol, fed one byte at a time from a    *)
(* serial line that may lose, change and invent bytes.                     *)
(*                                                                         *)
(* protocol_parser.c and bbb/protocol/parser.py are the same state         *)
(* machine; the frames come from build_frame (protocol_encoder.c) and      *)
(* encode_frame (bbb/protocol/encoder.py).  The UART keeps bytes in order  *)
(* (module Uart), so the line is a byte at a time: what is still in the    *)
(* peer's frame.                                                           *)
(*                                                                         *)
(* A frame is START TYPE LEN_LO LEN_HI SEQ payload CRC_LO CRC_HI, and no   *)
(* byte is escaped: START may occur anywhere inside it.                    *)
(***************************************************************************)
EXTENDS Integers, Sequences

CONSTANTS
    START,            \* PROTO_START_BYTE
    MAX_PAYLOAD,      \* PROTO_MAX_PAYLOAD
    CRC_INIT,         \* CRC16_INIT
    crc_update(_, _), \* the CRC register after one more byte
    Frames,           \* what the peer sends: [type, seq, payload]
    Noise,            \* the bytes a fault can put on the line
    MaxFaults         \* bound on the bytes lost, changed or invented

Byte == 0..255

ASSUME ParserAssumption ==
    /\ START \in Byte
    /\ MAX_PAYLOAD \in Nat \ {0}

----------------------------------------------------------------------------
(* The peer's encoder. *)

\* crc16_ccitt_update over a buffer, from CRC16_INIT: the register after each
\* byte, and after the last one.
CrcSteps(bytes) ==
    LET crc[n \in 0..Len(bytes)] ==
            IF n = 0 THEN CRC_INIT
            ELSE crc_update(crc[n - 1], bytes[n])
    IN  crc

CrcOf(bytes) == CrcSteps(bytes)[Len(bytes)]

\* build_frame: the CRC covers everything between START and itself.
frame_body(f) ==
    <<f.type, Len(f.payload) % 256, Len(f.payload) \div 256, f.seq>> \o f.payload

build_frame(f) ==
    LET crc == CrcOf(frame_body(f))
    IN  <<START>> \o frame_body(f) \o <<crc % 256, crc \div 256>>

\* The fields are bytes, encode_frame refuses a longer payload (the firmware
\* sends ACKs of three bytes), and the CRC is a number.
ASSUME FramesAssumption ==
    \A f \in Frames :
        /\ f.type \in Byte /\ f.seq \in Byte /\ f.payload \in Seq(Byte)
        /\ Len(f.payload) <= MAX_PAYLOAD
        /\ CrcOf(frame_body(f)) \in Nat

----------------------------------------------------------------------------
VARIABLES
    state,         \* protocol_parser_t: the state,
    payload_idx,   \* the payload bytes stored,
    expected_len,  \* the length field,
    crc_running,   \* the CRC of the bytes taken
    crc_recv,      \* and the CRC received;
    frame,         \* its frame, assembled in place: type, len, seq
    payload,       \* and the payload buffer
    ok,            \* what the last call of protocol_parser_feed returned
    sending,       \* the frame the peer is sending, NoFrame before the first
    line,          \* the bytes of it that have not reached the parser
    faults,        \* faults so far
    clean,         \* `sending' met a waiting parser and nothing befell it since
    raw,           \* the bytes fed since the last START the parser took
    crcs           \* reference CRC after each byte of raw

parser == <<state, payload_idx, expected_len, crc_running, crc_recv>>
vars == <<parser, frame, payload, ok, sending, line, faults, clean, raw, crcs>>

NoFrame == [type |-> 0, seq |-> 0, payload |-> <<>>]

States == {"WAIT_START", "READ_TYPE", "READ_LEN_LO", "READ_LEN_HI",
           "READ_SEQ", "READ_PAYLOAD", "READ_CRC_LO", "READ_CRC_HI"}

----------------------------------------------------------------------------
(* protocol_parser_feed, one action per case of its switch.  Each sets     *)
(* the parser, the frame and ok.                                           *)

\* The frame buffer is left as it is.
protocol_parser_reset ==
    /\ state' = "WAIT_START"
    /\ payload_idx' = 0
    /\ expected_len' = 0
    /\ crc_running' = CRC_INIT
    /\ crc_recv' = 0

crc_eat(b) == crc_running' = crc_update(crc_running, b)

WaitStart(b) ==
    /\ state = "WAIT_START"
    /\ IF b = START THEN state' = "READ_TYPE" /\ crc_running' = CRC_INIT
                    ELSE UNCHANGED <<state, crc_running>>
    /\ ok' = FALSE
    /\ UNCHANGED <<payload_idx, expected_len, crc_recv, frame, payload>>

ReadType(b) ==
    /\ state = "READ_TYPE"
    /\ frame' = [frame EXCEPT !.type = b]
    /\ crc_eat(b)
    /\ state' = "READ_LEN_LO"
    /\ ok' = FALSE
    /\ UNCHANGED <<payload_idx, expected_len, crc_recv, payload>>

ReadLenLo(b) ==
    /\ state = "READ_LEN_LO"
    /\ expected_len' = b
    /\ crc_eat(b)
    /\ state' = "READ_LEN_HI"
    /\ ok' = FALSE
    /\ UNCHANGED <<payload_idx, crc_recv, frame, payload>>

ReadLenHi(b) ==
    LET len == expected_len + 256 * b IN
    /\ state = "READ_LEN_HI"
    /\ ok' = FALSE
    /\ \/ /\ len > MAX_PAYLOAD
          /\ protocol_parser_reset
          /\ UNCHANGED <<frame, payload>>
       \/ /\ len <= MAX_PAYLOAD
          /\ expected_len' = len
          /\ crc_eat(b)
          /\ frame' = [frame EXCEPT !.len = len]
          /\ state' = "READ_SEQ"
          /\ UNCHANGED <<payload_idx, crc_recv, payload>>

\* A mutation: a frame without payload is not told apart, so the first byte of
\* its CRC is taken for payload.
ReadSeq_NoEmptyCase(b) ==
    /\ state = "READ_SEQ"
    /\ frame' = [frame EXCEPT !.seq = b]
    /\ crc_eat(b)
    /\ payload_idx' = 0
    /\ state' = "READ_PAYLOAD"
    /\ ok' = FALSE
    /\ UNCHANGED <<expected_len, crc_recv, payload>>

ReadSeq(b) ==
    /\ state = "READ_SEQ"
    /\ frame' = [frame EXCEPT !.seq = b]
    /\ crc_eat(b)
    /\ payload_idx' = 0
    /\ state' = IF expected_len = 0 THEN "READ_CRC_LO" ELSE "READ_PAYLOAD"
    /\ ok' = FALSE
    /\ UNCHANGED <<expected_len, crc_recv, payload>>

\* The reset on payload_idx >= PROTO_MAX_PAYLOAD is a guard the code keeps for
\* safety: the length check makes it unreachable.
ReadPayload(b) ==
    /\ state = "READ_PAYLOAD"
    /\ ok' = FALSE
    /\ UNCHANGED frame
    /\ IF payload_idx >= MAX_PAYLOAD
       THEN protocol_parser_reset /\ UNCHANGED payload
       ELSE /\ payload' = [payload EXCEPT ![payload_idx] = b]
            /\ payload_idx' = payload_idx + 1
            /\ crc_eat(b)
            /\ state' = IF payload_idx' >= expected_len THEN "READ_CRC_LO"
                                                        ELSE "READ_PAYLOAD"
            /\ UNCHANGED <<expected_len, crc_recv>>

ReadCrcLo(b) ==
    /\ state = "READ_CRC_LO"
    /\ crc_recv' = b
    /\ state' = "READ_CRC_HI"
    /\ ok' = FALSE
    /\ UNCHANGED <<payload_idx, expected_len, crc_running, frame, payload>>

\* A mutation: the low byte alone is compared.
ReadCrcHi_LowOnly(b) ==
    /\ state = "READ_CRC_HI"
    /\ ok' = (crc_recv = crc_running % 256)
    /\ protocol_parser_reset
    /\ UNCHANGED <<frame, payload>>

\* A mutation: the parser is reset only when the CRC matches.
ReadCrcHi_ResetOnMatch(b) ==
    /\ state = "READ_CRC_HI"
    /\ ok' = (crc_recv + 256 * b = crc_running)
    /\ IF ok' THEN protocol_parser_reset ELSE UNCHANGED parser
    /\ UNCHANGED <<frame, payload>>

ReadCrcHi(b) ==
    /\ state = "READ_CRC_HI"
    /\ ok' = (crc_recv + 256 * b = crc_running)
    /\ protocol_parser_reset
    /\ UNCHANGED <<frame, payload>>

\* The bytes of the current frame and their reference CRC, kept until the
\* next byte.  One byte more than BoundedLoss allows is enough to see it fail.
Record(b) ==
    IF state = "WAIT_START"
    THEN /\ raw'  = IF b = START THEN <<b>> ELSE <<>>
         /\ crcs' = IF b = START THEN <<CRC_INIT>> ELSE <<>>
    ELSE IF Len(raw) > MAX_PAYLOAD + 7
    THEN UNCHANGED <<raw, crcs>>
    ELSE /\ raw'  = Append(raw, b)
         /\ crcs' = [i \in 1..Len(raw) + 1 |->
                        IF i <= Len(raw) THEN crcs[i]
                        ELSE crc_update(crcs[Len(raw)], b)]

\* protocol_parser_feed.  The agent's feed is the same switch: it hands out a
\* Frame where ok is set, and clears its fields on a reset, which nobody reads
\* before they are written again.
Feed(b) ==
    /\ b \in Byte
    /\ \/ WaitStart(b) \/ ReadType(b) \/ ReadLenLo(b) \/ ReadLenHi(b)
       \/ ReadSeq(b) \/ ReadPayload(b) \/ ReadCrcLo(b) \/ ReadCrcHi(b)
    /\ Record(b)

----------------------------------------------------------------------------
(* The line. *)

Init ==
    /\ state = "WAIT_START"
    /\ payload_idx = 0 /\ expected_len = 0
    /\ crc_running = CRC_INIT /\ crc_recv = 0
    /\ frame = [type |-> 0, len |-> 0, seq |-> 0]
    /\ payload = [i \in 0..MAX_PAYLOAD - 1 |-> 0]
    /\ ok = FALSE
    /\ sending = NoFrame
    /\ line = <<>>
    /\ faults = 0
    /\ clean = FALSE
    /\ raw = <<>> /\ crcs = <<>>

\* The peer starts a frame when the last byte of the previous one is gone.
Send ==
    /\ line = <<>>
    /\ \E f \in Frames :
        /\ sending' = f
        /\ line' = build_frame(f)
    /\ clean' = (state = "WAIT_START")
    /\ UNCHANGED <<parser, frame, payload, ok, faults, raw, crcs>>

Deliver ==
    /\ line # <<>>
    /\ Feed(Head(line))
    /\ line' = Tail(line)
    /\ UNCHANGED <<sending, faults, clean>>

Fault ==
    /\ faults < MaxFaults
    /\ faults' = faults + 1
    /\ clean' = FALSE
    /\ UNCHANGED sending

Lose ==
    /\ Fault
    /\ line # <<>>
    /\ line' = Tail(line)
    /\ UNCHANGED <<parser, frame, payload, ok, raw, crcs>>

Corrupt ==
    /\ Fault
    /\ line # <<>>
    /\ \E b \in Noise \ {Head(line)} : Feed(b)
    /\ line' = Tail(line)

Insert ==
    /\ Fault
    /\ \E b \in Noise : Feed(b)
    /\ UNCHANGED line

Next == Send \/ Deliver \/ Lose \/ Corrupt \/ Insert

\* The peer goes on sending and the line goes on delivering.
Fairness == WF_vars(Send) /\ WF_vars(Deliver)

Spec == Init /\ [][Next]_vars /\ Fairness

----------------------------------------------------------------------------
(* Properties. *)

\* The parser's indices and registers have their widths, and the payload
\* index never leaves the frame's buffer.
TypeOK ==
    /\ state \in States
    /\ payload_idx \in 0..MAX_PAYLOAD
    /\ expected_len \in Nat
    /\ crc_recv \in Byte
    /\ frame \in [type : Byte, len : 0..MAX_PAYLOAD, seq : Byte]
    /\ payload \in [0..MAX_PAYLOAD - 1 -> Byte]
    /\ ok \in BOOLEAN
    /\ clean \in BOOLEAN
    /\ faults \in Nat
    /\ raw \in Seq(Byte)
    /\ DOMAIN crcs = 1..Len(raw)

\* protocol_parser_feed returns true only for a whole frame: the bytes since
\* the START it locked on are exactly a header, `len' payload bytes and the CRC
\* of the two, and every field and every payload byte the dispatcher will read
\* comes from them, none from an earlier frame left in the buffer.
AcceptedIsWhole ==
    ok => LET n == frame.len IN
          /\ Len(raw) = n + 7
          /\ raw[1] = START
          /\ raw[2] = frame.type
          /\ raw[3] + 256 * raw[4] = n
          /\ raw[5] = frame.seq
          /\ \A i \in 0..n - 1 : raw[6 + i] = payload[i]
          /\ raw[n + 6] + 256 * raw[n + 7] = crcs[n + 5]

\* Whatever the line did, the parser is back in search of a START after at
\* most a maximal frame: a damaged length cannot make it swallow more.
BoundedLoss ==
    /\ Len(raw) <= MAX_PAYLOAD + 7
    /\ Len(raw) = MAX_PAYLOAD + 7 => state = "WAIT_START"

\* A frame that meets a waiting parser and arrives undamaged is accepted as it
\* was sent and leaves the parser waiting; without faults every frame does.
IntactFrameAccepted ==
    /\ clean /\ line = <<>> =>
        /\ ok
        /\ state = "WAIT_START"
        /\ frame.type = sending.type
        /\ frame.seq = sending.seq
        /\ frame.len = Len(sending.payload)
        /\ \A i \in 1..frame.len : payload[i - 1] = sending.payload[i]
    /\ faults = 0 /\ sending # NoFrame => clean

\* START occurs only at the start of the frame.
Plain(f) == LET bytes == build_frame(f) IN \A i \in 2..Len(bytes) : bytes[i] # START

\* Once the line is clean and the peer sends frames without an inner START,
\* the parser accepts frames again, from whatever state the damage left it in
\* ("re-syncs on the next START byte").
Resynchronises == <>[]Plain(sending) => []<>ok
=============================================================================

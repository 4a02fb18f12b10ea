---------------------------- MODULE ParserProofs ----------------------------
(***************************************************************************)
(* What the frame parser guarantees for every buffer size, every CRC       *)
(* function, every stream of bytes and any number of faults.               *)
(*                                                                         *)
(* ParserInv ties the parser's registers to the bytes it has been fed: its *)
(* state says how many bytes `raw' holds, its fields are those bytes, and  *)
(* its running CRC is the reference CRC of them.                           *)
(*                                                                         *)
(* IntactInv ties those bytes to the frame the peer is sending while       *)
(* nothing has befallen it.  It needs what the recursive CrcSteps computes *)
(* for any frame, which is proved from the least number at which it would  *)
(* not exist.                                                              *)
(***************************************************************************)
EXTENDS ProtocolParser, WellFoundedInduction, TLAPS

\* The number of bytes taken so far is fixed by the state.
Position ==
    /\ state = "READ_TYPE"    => Len(raw) = 1
    /\ state = "READ_LEN_LO"  => Len(raw) = 2
    /\ state = "READ_LEN_HI"  => Len(raw) = 3
    /\ state = "READ_SEQ"     => Len(raw) = 4
    /\ state = "READ_PAYLOAD" => /\ Len(raw) = 5 + payload_idx
                                 /\ payload_idx < expected_len
    /\ state = "READ_CRC_LO"  => Len(raw) = 5 + expected_len
    /\ state = "READ_CRC_HI"  => Len(raw) = 6 + expected_len
    /\ Len(raw) <= MAX_PAYLOAD + 7

\* The header fields read so far are the bytes at their offsets.
Header ==
    state # "WAIT_START" =>
        /\ raw[1] = START
        /\ Len(raw) >= 2 => raw[2] = frame.type
        /\ Len(raw) = 3  => raw[3] = expected_len
        /\ Len(raw) >= 4 => /\ raw[3] + 256 * raw[4] = expected_len
                            /\ frame.len = expected_len
                            /\ expected_len <= MAX_PAYLOAD
        /\ Len(raw) >= 5 => raw[5] = frame.seq

\* The payload bytes stored so far are those of this frame.
Stored ==
    /\ state = "READ_PAYLOAD" =>
        \A i \in 0..payload_idx - 1 : raw[6 + i] = payload[i]
    /\ state \in {"READ_CRC_LO", "READ_CRC_HI"} =>
        \A i \in 0..expected_len - 1 : raw[6 + i] = payload[i]

\* The running CRC is the reference CRC of the bytes it covers.
Checksum ==
    /\ state \notin {"WAIT_START", "READ_CRC_HI"} => crc_running = crcs[Len(raw)]
    /\ state = "READ_CRC_HI" => /\ crc_running = crcs[Len(raw) - 1]
                                /\ crc_recv = raw[Len(raw)]

ParserInv ==
    /\ TypeOK
    /\ Position
    /\ Header
    /\ Stored
    /\ Checksum
    /\ AcceptedIsWhole

----------------------------------------------------------------------------
LEMMA InitInv == Init => ParserInv
  <1> SUFFICES ASSUME Init PROVE ParserInv
    OBVIOUS
  <1>1. raw = <<>> /\ Len(raw) = 0 /\ raw \in Seq(Byte) /\ DOMAIN crcs = 1..0
    BY DEF Init
  <1>2. 0 \in Byte /\ MAX_PAYLOAD \in Nat
    BY ParserAssumption DEF Byte
  <1>3. TypeOK
    <2>1. frame \in [type : Byte, len : 0..MAX_PAYLOAD, seq : Byte]
      BY <1>2 DEF Init
    <2>2. payload \in [0..MAX_PAYLOAD - 1 -> Byte]
      BY <1>2 DEF Init
    <2> QED
      BY <1>1, <1>2, <2>1, <2>2 DEF Init, TypeOK, States
  <1>4. Position /\ Header /\ Stored /\ Checksum /\ AcceptedIsWhole
    BY <1>1, <1>2 DEF Init, Position, Header, Stored, Checksum, AcceptedIsWhole
  <1> QED
    BY <1>3, <1>4 DEF ParserInv

\* The history inside a frame: one byte longer, the old bytes kept.
LEMMA RecordInFrame ==
  ASSUME raw \in Seq(Byte), state # "WAIT_START", NEW b \in Byte, Record(b),
         Len(raw) <= MAX_PAYLOAD + 7
  PROVE  /\ raw' \in Seq(Byte)
         /\ Len(raw') = Len(raw) + 1
         /\ raw'[Len(raw) + 1] = b
         /\ \A i \in 1..Len(raw) : raw'[i] = raw[i]
         /\ DOMAIN crcs' = 1..Len(raw) + 1
         /\ \A i \in 1..Len(raw) : crcs'[i] = crcs[i]
         /\ crcs'[Len(raw) + 1] = crc_update(crcs[Len(raw)], b)
  <1>1. /\ raw' = Append(raw, b)
        /\ crcs' = [i \in 1..Len(raw) + 1 |->
                        IF i <= Len(raw) THEN crcs[i]
                        ELSE crc_update(crcs[Len(raw)], b)]
    BY ParserAssumption DEF Record
  <1>2. Len(raw) \in Nat
    OBVIOUS
  <1>3. /\ raw' \in Seq(Byte)
        /\ Len(raw') = Len(raw) + 1
        /\ raw'[Len(raw) + 1] = b
        /\ \A i \in 1..Len(raw) : raw'[i] = raw[i]
    BY <1>1, <1>2
  <1>4. /\ DOMAIN crcs' = 1..Len(raw) + 1
        /\ \A i \in 1..Len(raw) : crcs'[i] = crcs[i]
        /\ crcs'[Len(raw) + 1] = crc_update(crcs[Len(raw)], b)
    BY <1>1, <1>2
  <1> QED
    BY <1>3, <1>4

\* One byte, whatever it is and wherever it comes from, keeps the invariant.
LEMMA FeedInv ==
  ASSUME ParserInv, NEW b \in Byte, Feed(b),
         clean' \in BOOLEAN, faults' \in Nat
  PROVE  ParserInv'
  <1> DEFINE n == Len(raw)
  <1>0. /\ Position /\ Header /\ Stored /\ Checksum
        /\ state \in States
        /\ payload_idx \in 0..MAX_PAYLOAD
        /\ expected_len \in Nat
        /\ crc_recv \in Byte
        /\ frame \in [type : Byte, len : 0..MAX_PAYLOAD, seq : Byte]
        /\ payload \in [0..MAX_PAYLOAD - 1 -> Byte]
        /\ raw \in Seq(Byte)
        /\ n \in Nat
    BY DEF ParserInv, TypeOK
  <1>n. n \in Nat /\ payload_idx \in Nat /\ expected_len \in Nat /\ MAX_PAYLOAD \in Nat /\ b \in Nat
    BY <1>0, ParserAssumption DEF Byte
  <1>f. frame \in [type : Byte, len : 0..MAX_PAYLOAD, seq : Byte]
    BY <1>0
  <1>h. Header
    BY <1>0
  <1>s. Stored /\ payload \in [0..MAX_PAYLOAD - 1 -> Byte]
    BY <1>0
  <1>c. Checksum
    BY <1>0
  <1>r. Record(b)
    BY DEF Feed
  <1>q. ASSUME ok' = FALSE PROVE AcceptedIsWhole'
    BY <1>q DEF AcceptedIsWhole
  <1>p. MAX_PAYLOAD \in Nat \ {0} /\ b \in Nat /\ 0 \in Byte
    BY ParserAssumption DEF Byte
  <1>t. ASSUME state # "WAIT_START"
        PROVE  /\ raw' \in Seq(Byte)
               /\ Len(raw') = n + 1
               /\ raw'[n + 1] = b
               /\ \A i \in 1..n : raw'[i] = raw[i]
               /\ DOMAIN crcs' = 1..n + 1
               /\ \A i \in 1..n : crcs'[i] = crcs[i]
               /\ crcs'[n + 1] = crc_update(crcs[n], b)
    <2>1. n <= MAX_PAYLOAD + 7
      BY <1>0 DEF Position
    <2> QED
      BY <1>0, <1>r, <1>t, <2>1, RecordInFrame
  <1>1. CASE WaitStart(b) /\ b = START
    <2>1. /\ state' = "READ_TYPE" /\ crc_running' = CRC_INIT
          /\ raw' = <<b>> /\ crcs' = <<CRC_INIT>> /\ ok' = FALSE
          /\ UNCHANGED <<payload_idx, expected_len, crc_recv, frame, payload>>
      BY <1>1, <1>r DEF WaitStart, Record
    <2>2. /\ Len(raw') = 1 /\ raw'[1] = START /\ raw' \in Seq(Byte)
          /\ DOMAIN crcs' = 1..1 /\ crcs'[1] = CRC_INIT
      BY <2>1, <1>1
    <2>3. TypeOK'
      BY <1>0, <2>1, <2>2 DEF TypeOK, States
    <2>4. Position' /\ Header' /\ Stored' /\ Checksum'
      BY <1>p, <2>1, <2>2 DEF Position, Header, Stored, Checksum
    <2> QED
      BY <1>q, <2>1, <2>3, <2>4 DEF ParserInv
  <1>2. CASE WaitStart(b) /\ b # START
    <2>1. /\ state' = "WAIT_START"
          /\ raw' = <<>> /\ crcs' = <<>> /\ ok' = FALSE
          /\ UNCHANGED <<payload_idx, expected_len, crc_recv, frame, payload>>
      BY <1>2, <1>r DEF WaitStart, Record
    <2>2. Len(raw') = 0 /\ raw' \in Seq(Byte) /\ DOMAIN crcs' = 1..0
      BY <2>1
    <2>3. TypeOK'
      BY <1>0, <2>1, <2>2 DEF TypeOK, States
    <2>4. Position' /\ Header' /\ Stored' /\ Checksum'
      BY <1>p, <2>1, <2>2 DEF Position, Header, Stored, Checksum
    <2> QED
      BY <1>q, <2>1, <2>3, <2>4 DEF ParserInv
  <1>3. CASE ReadType(b)
    <2>1. /\ state = "READ_TYPE" /\ state' = "READ_LEN_LO" /\ n = 1
          /\ frame' = [frame EXCEPT !.type = b] /\ crc_running' = crc_update(crc_running, b)
          /\ ok' = FALSE /\ UNCHANGED <<payload_idx, expected_len, crc_recv, payload>>
      BY <1>0, <1>p, <1>3 DEF ReadType, crc_eat, Position
    <2>2. /\ raw' \in Seq(Byte) /\ Len(raw') = n + 1 /\ raw'[n + 1] = b
          /\ DOMAIN crcs' = 1..n + 1 /\ crcs'[n + 1] = crc_update(crcs[n], b)
      BY <1>t, <2>1
    <2>3. \A i \in 1..n : raw'[i] = raw[i] /\ crcs'[i] = crcs[i]
      BY <1>t, <2>1
    <2>a. frame' \in [type : Byte, len : 0..MAX_PAYLOAD, seq : Byte]
      BY <1>n, <1>f, <2>1
    <2>b. payload' \in [0..MAX_PAYLOAD - 1 -> Byte]
      BY <1>n, <1>s, <2>1
    <2>c. /\ payload_idx' \in 0..MAX_PAYLOAD /\ expected_len' \in Nat
          /\ crc_recv' \in Byte /\ state' \in States
      BY <1>0, <1>n, <2>1 DEF States
    <2>4. TypeOK'
      BY <1>n, <2>1, <2>2, <2>a, <2>b, <2>c DEF TypeOK
    <2>5. Position'
      BY <1>n, <2>1, <2>2 DEF Position
    <2>6. Header'
      BY <1>n, <1>f, <1>h, <2>1, <2>2, <2>3 DEF Header
    <2>7. Stored'
      BY <1>n, <1>s, <2>1, <2>2, <2>3 DEF Stored
    <2>8. Checksum'
      BY <1>n, <1>c, <2>1, <2>2, <2>3 DEF Checksum
    <2> QED
      BY <1>q, <2>1, <2>4, <2>5, <2>6, <2>7, <2>8 DEF ParserInv
  <1>4. CASE ReadLenLo(b)
    <2>1. /\ state = "READ_LEN_LO" /\ state' = "READ_LEN_HI" /\ n = 2
          /\ expected_len' = b /\ crc_running' = crc_update(crc_running, b)
          /\ ok' = FALSE /\ UNCHANGED <<payload_idx, crc_recv, frame, payload>>
      BY <1>0, <1>p, <1>4 DEF ReadLenLo, crc_eat, Position
    <2>2. /\ raw' \in Seq(Byte) /\ Len(raw') = n + 1 /\ raw'[n + 1] = b
          /\ DOMAIN crcs' = 1..n + 1 /\ crcs'[n + 1] = crc_update(crcs[n], b)
      BY <1>t, <2>1
    <2>3. \A i \in 1..n : raw'[i] = raw[i] /\ crcs'[i] = crcs[i]
      BY <1>t, <2>1
    <2>a. frame' \in [type : Byte, len : 0..MAX_PAYLOAD, seq : Byte]
      BY <1>n, <1>f, <2>1
    <2>b. payload' \in [0..MAX_PAYLOAD - 1 -> Byte]
      BY <1>n, <1>s, <2>1
    <2>c. /\ payload_idx' \in 0..MAX_PAYLOAD /\ expected_len' \in Nat
          /\ crc_recv' \in Byte /\ state' \in States
      BY <1>0, <1>n, <2>1 DEF States
    <2>4. TypeOK'
      BY <1>n, <2>1, <2>2, <2>a, <2>b, <2>c DEF TypeOK
    <2>5. Position'
      BY <1>n, <2>1, <2>2 DEF Position
    <2>6. Header'
      BY <1>n, <1>f, <1>h, <2>1, <2>2, <2>3 DEF Header
    <2>7. Stored'
      BY <1>n, <1>s, <2>1, <2>2, <2>3 DEF Stored
    <2>8. Checksum'
      BY <1>n, <1>c, <2>1, <2>2, <2>3 DEF Checksum
    <2> QED
      BY <1>q, <2>1, <2>4, <2>5, <2>6, <2>7, <2>8 DEF ParserInv
  <1>5. CASE ReadLenHi(b) /\ expected_len + 256 * b > MAX_PAYLOAD
    <2>1. /\ state = "READ_LEN_HI" /\ state' = "WAIT_START" /\ n = 3
          /\ payload_idx' = 0 /\ expected_len' = 0 /\ crc_recv' = 0
          /\ ok' = FALSE /\ UNCHANGED <<frame, payload>>
      BY <1>0, <1>p, <1>5 DEF ReadLenHi, protocol_parser_reset, Position
    <2>t. raw' \in Seq(Byte) /\ Len(raw') = n + 1 /\ DOMAIN crcs' = 1..n + 1
      BY <1>t, <2>1
    <2>2. TypeOK'
      <3>1. /\ payload_idx' \in 0..MAX_PAYLOAD /\ expected_len' \in Nat
            /\ crc_recv' \in Byte /\ state' \in States
        BY <1>n, <1>p, <2>1 DEF States
      <3>2. frame' \in [type : Byte, len : 0..MAX_PAYLOAD, seq : Byte] /\ payload' \in [0..MAX_PAYLOAD - 1 -> Byte]
        BY <1>f, <1>s, <2>1
      <3>3. ok' \in BOOLEAN
        BY <2>1
      <3> QED
        BY <2>t, <3>1, <3>2, <3>3 DEF TypeOK
    <2>3. Position' /\ Header' /\ Stored' /\ Checksum'
      BY <1>n, <2>t, <2>1 DEF Position, Header, Stored, Checksum
    <2> QED
      BY <1>q, <2>1, <2>2, <2>3 DEF ParserInv
  <1>6. CASE ReadLenHi(b) /\ expected_len + 256 * b <= MAX_PAYLOAD
    <2>1. /\ state = "READ_LEN_HI" /\ state' = "READ_SEQ" /\ n = 3
          /\ expected_len' = expected_len + 256 * b /\ expected_len' <= MAX_PAYLOAD
          /\ frame' = [frame EXCEPT !.len = expected_len'] /\ crc_running' = crc_update(crc_running, b)
          /\ ok' = FALSE /\ UNCHANGED <<payload_idx, crc_recv, payload>>
      BY <1>0, <1>p, <1>6 DEF ReadLenHi, crc_eat, Position
    <2>2. /\ raw' \in Seq(Byte) /\ Len(raw') = n + 1 /\ raw'[n + 1] = b
          /\ DOMAIN crcs' = 1..n + 1 /\ crcs'[n + 1] = crc_update(crcs[n], b)
      BY <1>t, <2>1
    <2>3. \A i \in 1..n : raw'[i] = raw[i] /\ crcs'[i] = crcs[i]
      BY <1>t, <2>1
    <2>a. frame' \in [type : Byte, len : 0..MAX_PAYLOAD, seq : Byte]
      BY <1>n, <1>f, <2>1
    <2>b. payload' \in [0..MAX_PAYLOAD - 1 -> Byte]
      BY <1>n, <1>s, <2>1
    <2>c. /\ payload_idx' \in 0..MAX_PAYLOAD /\ expected_len' \in Nat
          /\ crc_recv' \in Byte /\ state' \in States
      BY <1>0, <1>n, <2>1 DEF States
    <2>4. TypeOK'
      BY <1>n, <2>1, <2>2, <2>a, <2>b, <2>c DEF TypeOK
    <2>5. Position'
      BY <1>n, <2>1, <2>2 DEF Position
    <2>6. Header'
      BY <1>n, <1>f, <1>h, <2>1, <2>2, <2>3 DEF Header
    <2>7. Stored'
      BY <1>n, <1>s, <2>1, <2>2, <2>3 DEF Stored
    <2>8. Checksum'
      BY <1>n, <1>c, <2>1, <2>2, <2>3 DEF Checksum
    <2> QED
      BY <1>q, <2>1, <2>4, <2>5, <2>6, <2>7, <2>8 DEF ParserInv
  <1>7. CASE ReadSeq(b)
    <2>1. /\ state = "READ_SEQ" /\ n = 4
          /\ state' = IF expected_len = 0 THEN "READ_CRC_LO" ELSE "READ_PAYLOAD"
          /\ payload_idx' = 0 /\ frame' = [frame EXCEPT !.seq = b]
          /\ crc_running' = crc_update(crc_running, b)
          /\ ok' = FALSE /\ UNCHANGED <<expected_len, crc_recv, payload>>
      BY <1>0, <1>p, <1>7 DEF ReadSeq, crc_eat, Position
    <2>2. /\ raw' \in Seq(Byte) /\ Len(raw') = n + 1 /\ raw'[n + 1] = b
          /\ DOMAIN crcs' = 1..n + 1 /\ crcs'[n + 1] = crc_update(crcs[n], b)
      BY <1>t, <2>1
    <2>3. \A i \in 1..n : raw'[i] = raw[i] /\ crcs'[i] = crcs[i]
      BY <1>t, <2>1
    <2>a. frame' \in [type : Byte, len : 0..MAX_PAYLOAD, seq : Byte]
      BY <1>n, <1>f, <2>1
    <2>b. payload' \in [0..MAX_PAYLOAD - 1 -> Byte]
      BY <1>n, <1>s, <2>1
    <2>c. /\ payload_idx' \in 0..MAX_PAYLOAD /\ expected_len' \in Nat
          /\ crc_recv' \in Byte /\ state' \in States
      BY <1>0, <1>n, <2>1 DEF States
    <2>4. TypeOK'
      BY <1>n, <2>1, <2>2, <2>a, <2>b, <2>c DEF TypeOK
    <2>5. Position'
      BY <1>n, <2>1, <2>2 DEF Position
    <2>6. Header'
      BY <1>n, <1>f, <1>h, <2>1, <2>2, <2>3 DEF Header
    <2>7. Stored'
      BY <1>n, <1>s, <2>1, <2>2, <2>3 DEF Stored
    <2>8. Checksum'
      BY <1>n, <1>c, <2>1, <2>2, <2>3 DEF Checksum
    <2> QED
      BY <1>q, <2>1, <2>4, <2>5, <2>6, <2>7, <2>8 DEF ParserInv
  <1>8. CASE ReadPayload(b)
    <2>1. /\ state = "READ_PAYLOAD" /\ n = 5 + payload_idx
          /\ payload_idx < expected_len /\ expected_len <= MAX_PAYLOAD
          /\ state' = IF payload_idx + 1 >= expected_len THEN "READ_CRC_LO" ELSE "READ_PAYLOAD"
          /\ payload_idx' = payload_idx + 1 /\ payload' = [payload EXCEPT ![payload_idx] = b]
          /\ crc_running' = crc_update(crc_running, b)
          /\ ok' = FALSE /\ UNCHANGED <<expected_len, crc_recv, frame>>
      BY <1>0, <1>p, <1>8 DEF ReadPayload, crc_eat, Position, Header
    <2>2. /\ raw' \in Seq(Byte) /\ Len(raw') = n + 1 /\ raw'[n + 1] = b
          /\ DOMAIN crcs' = 1..n + 1 /\ crcs'[n + 1] = crc_update(crcs[n], b)
      BY <1>t, <2>1
    <2>3. \A i \in 1..n : raw'[i] = raw[i] /\ crcs'[i] = crcs[i]
      BY <1>t, <2>1
    <2>a. frame' \in [type : Byte, len : 0..MAX_PAYLOAD, seq : Byte]
      BY <1>n, <1>f, <2>1
    <2>b. payload' \in [0..MAX_PAYLOAD - 1 -> Byte]
      BY <1>n, <1>s, <2>1
    <2>c. /\ payload_idx' \in 0..MAX_PAYLOAD /\ expected_len' \in Nat
          /\ crc_recv' \in Byte /\ state' \in States
      BY <1>0, <1>n, <2>1 DEF States
    <2>4. TypeOK'
      BY <1>n, <2>1, <2>2, <2>a, <2>b, <2>c DEF TypeOK
    <2>5. Position'
      BY <1>n, <2>1, <2>2 DEF Position
    <2>6. Header'
      BY <1>n, <1>f, <1>h, <2>1, <2>2, <2>3 DEF Header
    <2>7. Stored'
      BY <1>n, <1>s, <2>1, <2>2, <2>3 DEF Stored
    <2>8. Checksum'
      BY <1>n, <1>c, <2>1, <2>2, <2>3 DEF Checksum
    <2> QED
      BY <1>q, <2>1, <2>4, <2>5, <2>6, <2>7, <2>8 DEF ParserInv
  <1>9. CASE ReadCrcLo(b)
    <2>1. /\ state = "READ_CRC_LO" /\ state' = "READ_CRC_HI" /\ n = 5 + expected_len
          /\ expected_len <= MAX_PAYLOAD /\ crc_recv' = b /\ crc_running' = crc_running
          /\ ok' = FALSE /\ UNCHANGED <<payload_idx, expected_len, frame, payload>>
      BY <1>0, <1>p, <1>9 DEF ReadCrcLo, Position, Header
    <2>2. /\ raw' \in Seq(Byte) /\ Len(raw') = n + 1 /\ raw'[n + 1] = b
          /\ DOMAIN crcs' = 1..n + 1 /\ crcs'[n + 1] = crc_update(crcs[n], b)
      BY <1>t, <2>1
    <2>3. \A i \in 1..n : raw'[i] = raw[i] /\ crcs'[i] = crcs[i]
      BY <1>t, <2>1
    <2>a. frame' \in [type : Byte, len : 0..MAX_PAYLOAD, seq : Byte]
      BY <1>n, <1>f, <2>1
    <2>b. payload' \in [0..MAX_PAYLOAD - 1 -> Byte]
      BY <1>n, <1>s, <2>1
    <2>c. /\ payload_idx' \in 0..MAX_PAYLOAD /\ expected_len' \in Nat
          /\ crc_recv' \in Byte /\ state' \in States
      BY <1>0, <1>n, <2>1 DEF States
    <2>4. TypeOK'
      BY <1>n, <2>1, <2>2, <2>a, <2>b, <2>c DEF TypeOK
    <2>5. Position'
      BY <1>n, <2>1, <2>2 DEF Position
    <2>6. Header'
      BY <1>n, <1>f, <1>h, <2>1, <2>2, <2>3 DEF Header
    <2>7. Stored'
      BY <1>n, <1>s, <2>1, <2>2, <2>3 DEF Stored
    <2>8. Checksum'
      BY <1>n, <1>c, <2>1, <2>2, <2>3 DEF Checksum
    <2> QED
      BY <1>q, <2>1, <2>4, <2>5, <2>6, <2>7, <2>8 DEF ParserInv
  <1>10. CASE ReadCrcHi(b)
    <2>1. /\ state = "READ_CRC_HI" /\ state' = "WAIT_START" /\ n = 6 + expected_len
          /\ payload_idx' = 0 /\ expected_len' = 0 /\ crc_recv' = 0
          /\ ok' = (crc_recv + 256 * b = crc_running)
          /\ expected_len <= MAX_PAYLOAD /\ UNCHANGED <<frame, payload>>
      BY <1>0, <1>p, <1>10 DEF ReadCrcHi, protocol_parser_reset, Position, Header
    <2>t. raw' \in Seq(Byte) /\ Len(raw') = n + 1 /\ DOMAIN crcs' = 1..n + 1
      BY <1>t, <2>1
    <2>2. TypeOK'
      <3>1. /\ payload_idx' \in 0..MAX_PAYLOAD /\ expected_len' \in Nat
            /\ crc_recv' \in Byte /\ state' \in States
        BY <1>n, <1>p, <2>1 DEF States
      <3>2. frame' \in [type : Byte, len : 0..MAX_PAYLOAD, seq : Byte] /\ payload' \in [0..MAX_PAYLOAD - 1 -> Byte]
        BY <1>f, <1>s, <2>1
      <3>3. ok' \in BOOLEAN
        BY <2>1
      <3> QED
        BY <2>t, <3>1, <3>2, <3>3 DEF TypeOK
    <2>3. Position' /\ Header' /\ Stored' /\ Checksum'
      BY <1>n, <2>t, <2>1 DEF Position, Header, Stored, Checksum
    <2>4. AcceptedIsWhole'
      <3> SUFFICES ASSUME ok' PROVE AcceptedIsWhole'
        BY DEF AcceptedIsWhole
      <3>1. /\ frame.len = expected_len /\ frame' = frame /\ payload' = payload
            /\ raw[1] = START /\ raw[2] = frame.type
            /\ raw[3] + 256 * raw[4] = expected_len /\ raw[5] = frame.seq
        BY <1>0, <2>1 DEF Header
      <3>2. \A i \in 0..expected_len - 1 : raw[6 + i] = payload[i]
        BY <1>0, <2>1 DEF Stored
      <3>3. /\ crc_recv + 256 * b = crcs[n - 1] /\ crc_recv = raw[n]
        BY <1>0, <2>1 DEF Checksum
      <3>4. /\ raw'[1] = raw[1] /\ raw'[2] = raw[2] /\ raw'[3] = raw[3]
            /\ raw'[4] = raw[4] /\ raw'[5] = raw[5]
            /\ raw'[n] = raw[n] /\ raw'[n + 1] = b /\ Len(raw') = n + 1
            /\ crcs'[n - 1] = crcs[n - 1]
        BY <1>0, <1>t, <2>1
      <3>5. \A i \in 0..expected_len - 1 : raw'[6 + i] = payload[i]
        <4>1. \A i \in 1..n : raw'[i] = raw[i]
          BY <1>t, <2>1
        <4>2. \A i \in 0..expected_len - 1 : 6 + i \in 1..n
          BY <1>n, <2>1
        <4> QED
          BY <3>2, <4>1, <4>2
      <3>6. /\ n = expected_len + 6 /\ n + 1 = expected_len + 7 /\ n - 1 = expected_len + 5
        BY <1>0, <2>1
      <3> QED
        BY <3>1, <3>3, <3>4, <3>5, <3>6 DEF AcceptedIsWhole
    <2> QED
      BY <2>2, <2>3, <2>4 DEF ParserInv
  <1>11. ReadLenHi(b) => expected_len + 256 * b > MAX_PAYLOAD
                          \/ expected_len + 256 * b <= MAX_PAYLOAD
    BY DEF ReadLenHi
  <1> QED
    BY <1>1, <1>2, <1>3, <1>4, <1>5, <1>6, <1>7, <1>8, <1>9, <1>10, <1>11 DEF Feed

\* The variables the invariant speaks of.
LEMMA StutterInv ==
  ASSUME ParserInv, clean' \in BOOLEAN, faults' \in Nat,
         UNCHANGED <<parser, frame, payload, ok, raw, crcs>>
  PROVE  ParserInv'
  BY DEF ParserInv, TypeOK, Position, Header, Stored, Checksum, AcceptedIsWhole, parser

LEMMA NextInv == ParserInv /\ [Next]_vars => ParserInv'
  <1> SUFFICES ASSUME ParserInv, [Next]_vars PROVE ParserInv'
    OBVIOUS
  <1>0. clean \in BOOLEAN /\ faults \in Nat
    BY DEF ParserInv, TypeOK
  <1>a. ASSUME Fault PROVE clean' \in BOOLEAN /\ faults' \in Nat
    <2>1. clean' \in BOOLEAN
      BY <1>a DEF Fault
    <2>2. faults \in Nat /\ faults' = faults + 1
      BY <1>0, <1>a DEF Fault
    <2>3. faults' \in Nat
      BY <2>2
    <2> QED
      BY <2>1, <2>3
  <1>1. CASE Send
    <2>1. clean' \in BOOLEAN /\ faults' \in Nat /\ UNCHANGED <<parser, frame, payload, ok, raw, crcs>>
      BY <1>0, <1>1 DEF Send
    <2> QED
      BY <2>1, StutterInv
  <1>2. CASE Deliver
    <2>1. PICK b : Feed(b)
      BY <1>2 DEF Deliver
    <2>b. b \in Byte
      BY <2>1 DEF Feed
    <2>2. clean' \in BOOLEAN /\ faults' \in Nat
      BY <1>0, <1>2 DEF Deliver
    <2> QED
      BY <2>1, <2>b, <2>2, FeedInv
  <1>3. CASE Lose
    <2>1. Fault /\ UNCHANGED <<parser, frame, payload, ok, raw, crcs>>
      BY <1>3 DEF Lose
    <2>2. clean' \in BOOLEAN /\ faults' \in Nat
      BY <2>1, <1>a
    <2> QED
      BY <2>1, <2>2, StutterInv
  <1>4. CASE Corrupt
    <2>1. PICK b : Feed(b)
      BY <1>4 DEF Corrupt
    <2>b. b \in Byte
      BY <2>1 DEF Feed
    <2>2. clean' \in BOOLEAN /\ faults' \in Nat
      <3>1. Fault
        BY <1>4 DEF Corrupt
      <3> QED
        BY <3>1, <1>a
    <2> QED
      BY <2>1, <2>b, <2>2, FeedInv
  <1>5. CASE Insert
    <2>1. PICK b : Feed(b)
      BY <1>5 DEF Insert
    <2>b. b \in Byte
      BY <2>1 DEF Feed
    <2>2. clean' \in BOOLEAN /\ faults' \in Nat
      <3>1. Fault
        BY <1>5 DEF Insert
      <3> QED
        BY <3>1, <1>a
    <2> QED
      BY <2>1, <2>b, <2>2, FeedInv
  <1>6. CASE UNCHANGED vars
    <2>1. clean' \in BOOLEAN /\ faults' \in Nat /\ UNCHANGED <<parser, frame, payload, ok, raw, crcs>>
      BY <1>0, <1>6 DEF vars
    <2> QED
      BY <2>1, StutterInv
  <1> QED
    BY <1>1, <1>2, <1>3, <1>4, <1>5, <1>6 DEF Next

LEMMA InvBounded == ParserInv => BoundedLoss
  <1> SUFFICES ASSUME ParserInv PROVE BoundedLoss
    OBVIOUS
  <1>1. /\ state \in States /\ Len(raw) \in Nat /\ expected_len \in Nat
        /\ payload_idx \in 0..MAX_PAYLOAD /\ MAX_PAYLOAD \in Nat \ {0}
    BY ParserAssumption DEF ParserInv, TypeOK
  <1> QED
    BY <1>1 DEF ParserInv, Position, Header, BoundedLoss, States

----------------------------------------------------------------------------
\* The registers and indices of protocol_parser_feed keep their ranges; in
\* particular payload_idx never leaves the payload buffer.
THEOREM ParserTypeCorrect == Spec => []TypeOK
  <1>1. ParserInv => TypeOK
    BY DEF ParserInv
  <1> QED
    BY InitInv, NextInv, <1>1, PTL DEF Spec

\* protocol_parser_feed returns true only for bytes that are exactly a frame
\* with a matching CRC, and the frame it hands out is made of those bytes.
THEOREM AcceptsWholeFrames == Spec => []AcceptedIsWhole
  <1>1. ParserInv => AcceptedIsWhole
    BY DEF ParserInv
  <1> QED
    BY InitInv, NextInv, <1>1, PTL DEF Spec

\* However damaged the stream, the parser hunts for a START again after at
\* most PROTO_MAX_PAYLOAD + 7 bytes.
THEOREM LossIsBounded == Spec => []BoundedLoss
  <1> QED
    BY InitInv, NextInv, InvBounded, PTL DEF Spec

----------------------------------------------------------------------------
(* The peer's encoder. *)

\* Every nonempty set of naturals has a least element.
LEMMA LeastNatural ==
    ASSUME NEW T \in SUBSET Nat, T # {}
    PROVE  \E m \in T : \A k \in T : m <= k
<1>1. PICK m \in T : \A k \in T : ~(<<k, m>> \in OpToRel(<, Nat))
  BY WFMin, NatLessThanWellFounded
<1>2. \A k \in T : k < m => <<k, m>> \in OpToRel(<, Nat)
  BY DEF OpToRel
<1>3. \A k \in T : ~(k < m)
  BY <1>1, <1>2, Zenon
<1>4. m \in Nat /\ \A k \in T : k \in Nat
  BY <1>1
<1>5. \A k \in T : m <= k
  BY <1>3, <1>4
<1> QED
  BY <1>5

\* c is the CRC register over the first n bytes.
StepsTo(bytes, c, n) ==
    c = [i \in 0..n |-> IF i = 0 THEN CRC_INIT ELSE crc_update(c[i - 1], bytes[i])]

\* There is such a register for every number of bytes: a least n without one
\* would be 0, where CRC_INIT is it, or have a predecessor to extend.
LEMMA StepsExist ==
    ASSUME NEW bytes, NEW n \in Nat
    PROVE  \E c : StepsTo(bytes, c, n)
<1> DEFINE T == {m \in Nat : ~\E c : StepsTo(bytes, c, m)}
<1> SUFFICES ASSUME T # {} PROVE FALSE
  OBVIOUS
<1>1. PICK m \in T : \A k \in T : m <= k
  <2> HIDE DEF T
  <2>1. T \in SUBSET Nat
    BY DEF T
  <2> QED BY <2>1, LeastNatural
<1>2. CASE m = 0
  <2>1. StepsTo(bytes, [i \in 0..0 |-> CRC_INIT], m)
    BY <1>2 DEF StepsTo
  <2> QED BY <2>1
<1>3. CASE m # 0
  <2>1. m \in Nat /\ m - 1 \in Nat /\ m - 1 \notin T
    BY <1>1, <1>3
  <2>2. PICK c : StepsTo(bytes, c, m - 1)
    BY <2>1
  <2> DEFINE d == [i \in 0..m |-> IF i = m THEN crc_update(c[m - 1], bytes[m]) ELSE c[i]]
  <2>3. \A i \in 0..m - 1 : c[i] = IF i = 0 THEN CRC_INIT ELSE crc_update(c[i - 1], bytes[i])
    BY <2>2 DEF StepsTo
  <2>4. \A i \in 0..m : d[i] = IF i = 0 THEN CRC_INIT ELSE crc_update(d[i - 1], bytes[i])
    BY <2>1, <2>3, <1>3
  <2>5. StepsTo(bytes, d, m)
    <3> HIDE DEF d
    <3>1. d = [i \in 0..m |-> d[i]]
      BY DEF d
    <3> QED BY <3>1, <2>4 DEF StepsTo
  <2> QED BY <2>5
<1> QED BY <1>2, <1>3

\* So the recursive function of CrcOf is what its definition says.
LEMMA CrcStepsAre ==
    ASSUME NEW bytes, Len(bytes) \in Nat
    PROVE  StepsTo(bytes, CrcSteps(bytes), Len(bytes))
<1>1. \E c : StepsTo(bytes, c, Len(bytes))
  BY StepsExist
<1>2. CrcSteps(bytes) = CHOOSE c : StepsTo(bytes, c, Len(bytes))
  BY DEF CrcSteps, StepsTo
<1> QED BY <1>1, <1>2

\* Where the bytes of a concatenation are.
LEMMA BytesJoined ==
    ASSUME NEW s \in Seq(Nat), NEW t \in Seq(Nat)
    PROVE  /\ s \o t \in Seq(Nat) /\ Len(s \o t) = Len(s) + Len(t)
           /\ \A i \in 1..Len(s) : (s \o t)[i] = s[i]
           /\ \A i \in 1..Len(t) : (s \o t)[Len(s) + i] = t[i]
OBVIOUS

\* The CRC build_frame appends.
FrameCrc(f) == CrcOf(frame_body(f))

\* The bytes of a body, by their place.
BodyLaidOut(f) ==
    LET body == frame_body(f) IN
    /\ Len(f.payload) \in Nat
    /\ body \in Seq(Nat) /\ Len(body) = Len(f.payload) + 4
    /\ body[1] = f.type /\ body[4] = f.seq
    /\ body[2] = Len(f.payload) % 256 /\ body[3] = Len(f.payload) \div 256
    /\ \A i \in 1..Len(f.payload) : body[4 + i] = f.payload[i]

LEMMA BodyBytes == ASSUME NEW f \in Frames PROVE BodyLaidOut(f)
<1> DEFINE L == Len(f.payload)
           h == <<f.type, L % 256, L \div 256, f.seq>>
<1>1. f.type \in Nat /\ f.seq \in Nat /\ f.payload \in Seq(Nat) /\ L \in Nat
  <2> HIDE DEF L, h
  <2>1. f.type \in Byte /\ f.seq \in Byte /\ f.payload \in Seq(Byte)
    BY FramesAssumption
  <2>2. \A b \in Byte : b \in Nat
    BY DEF Byte
  <2>3. f.payload \in Seq(Nat) /\ Len(f.payload) \in Nat
    BY <2>1, <2>2
  <2> QED BY <2>1, <2>2, <2>3 DEF L
<1>2. L % 256 \in Nat /\ L \div 256 \in Nat
  <2> HIDE DEF L
  <2> QED BY <1>1
<1>3. h \in Seq(Nat) /\ Len(h) = 4 /\ h[1] = f.type /\ h[2] = L % 256 /\ h[3] = L \div 256 /\ h[4] = f.seq
  <2> HIDE DEF L
  <2> QED BY <1>1, <1>2
<1>4. frame_body(f) = h \o f.payload
  BY DEF frame_body
<1> HIDE DEF h, L
<1>l. Len(f.payload) = L
  BY DEF L
<1>5. /\ frame_body(f) \in Seq(Nat) /\ Len(frame_body(f)) = 4 + L
      /\ \A i \in 1..4 : frame_body(f)[i] = h[i]
      /\ \A i \in 1..L : frame_body(f)[4 + i] = f.payload[i]
  <2>0. h \in Seq(Nat) /\ f.payload \in Seq(Nat)
    BY <1>1, <1>3, <1>4
  <2>j. /\ h \o f.payload \in Seq(Nat) /\ Len(h \o f.payload) = Len(h) + Len(f.payload)
        /\ \A i \in 1..Len(h) : (h \o f.payload)[i] = h[i]
        /\ \A i \in 1..Len(f.payload) : (h \o f.payload)[Len(h) + i] = f.payload[i]
    BY <2>0, BytesJoined
  <2>1. /\ frame_body(f) \in Seq(Nat) /\ Len(frame_body(f)) = Len(h) + Len(f.payload)
        /\ \A i \in 1..Len(h) : frame_body(f)[i] = h[i]
        /\ \A i \in 1..Len(f.payload) : frame_body(f)[Len(h) + i] = f.payload[i]
    BY <2>j, <1>4, Zenon
  <2> QED BY <1>3, <1>l, <2>1
<1>6. Len(frame_body(f)) = L + 4
  BY <1>1, <1>5
<1>7. /\ frame_body(f)[1] = f.type /\ frame_body(f)[2] = L % 256
      /\ frame_body(f)[3] = L \div 256 /\ frame_body(f)[4] = f.seq
  BY <1>3, <1>5
<1> QED BY <1>1, <1>3, <1>5, <1>6, <1>7 DEF L, BodyLaidOut

\* The bytes of a frame around its body.
LEMMA FrameBytes ==
    ASSUME NEW f \in Frames
    PROVE  /\ build_frame(f) \in Seq(Nat) /\ Len(build_frame(f)) = Len(f.payload) + 7
           /\ build_frame(f)[1] = START
           /\ \A i \in 1..Len(f.payload) + 4 : build_frame(f)[i + 1] = frame_body(f)[i]
           /\ build_frame(f)[Len(f.payload) + 6] = FrameCrc(f) % 256
           /\ build_frame(f)[Len(f.payload) + 7] = FrameCrc(f) \div 256
<1> DEFINE L == Len(f.payload)
           crc == FrameCrc(f)
           head == <<START>> \o frame_body(f)
           tail == <<crc % 256, crc \div 256>>
<1>1. L \in Nat /\ frame_body(f) \in Seq(Nat) /\ Len(frame_body(f)) = L + 4
  BY BodyBytes DEF BodyLaidOut
<1>2. <<START>> \in Seq(Nat) /\ Len(<<START>>) = 1 /\ <<START>>[1] = START
  BY ParserAssumption DEF Byte
<1>3. crc \in Nat
  <2>1. CrcOf(frame_body(f)) \in Nat
    BY FramesAssumption
  <2> QED BY <2>1 DEF FrameCrc
<1>4. crc % 256 \in Nat /\ crc \div 256 \in Nat
  <2> HIDE DEF crc
  <2> QED BY <1>3
<1>5. tail \in Seq(Nat) /\ Len(tail) = 2 /\ tail[1] = crc % 256 /\ tail[2] = crc \div 256
  <2> HIDE DEF crc
  <2> QED BY <1>4
<1>6. /\ head \in Seq(Nat) /\ Len(head) = 1 + (L + 4)
      /\ \A i \in 1..1 : head[i] = <<START>>[i]
      /\ \A i \in 1..L + 4 : head[1 + i] = frame_body(f)[i]
  <2> HIDE DEF L
  <2>1. /\ head \in Seq(Nat) /\ Len(head) = Len(<<START>>) + Len(frame_body(f))
        /\ \A i \in 1..Len(<<START>>) : head[i] = <<START>>[i]
        /\ \A i \in 1..Len(frame_body(f)) : head[Len(<<START>>) + i] = frame_body(f)[i]
    BY <1>1, <1>2, BytesJoined
  <2> QED BY <1>1, <1>2, <2>1
<1>7. build_frame(f) = head \o tail
  BY DEF build_frame, FrameCrc
<1> HIDE DEF head, tail, crc, L
<1>8. /\ build_frame(f) \in Seq(Nat) /\ Len(build_frame(f)) = (1 + (L + 4)) + 2
      /\ \A i \in 1..(1 + (L + 4)) : build_frame(f)[i] = head[i]
      /\ \A i \in 1..2 : build_frame(f)[(1 + (L + 4)) + i] = tail[i]
  <2>0. head \in Seq(Nat) /\ tail \in Seq(Nat)
    BY <1>5, <1>6, <1>7
  <2>j. /\ head \o tail \in Seq(Nat) /\ Len(head \o tail) = Len(head) + Len(tail)
        /\ \A i \in 1..Len(head) : (head \o tail)[i] = head[i]
        /\ \A i \in 1..Len(tail) : (head \o tail)[Len(head) + i] = tail[i]
    BY <2>0, BytesJoined
  <2>1. /\ build_frame(f) \in Seq(Nat) /\ Len(build_frame(f)) = Len(head) + Len(tail)
        /\ \A i \in 1..Len(head) : build_frame(f)[i] = head[i]
        /\ \A i \in 1..Len(tail) : build_frame(f)[Len(head) + i] = tail[i]
    BY <2>j, <1>7, Zenon
  <2> QED BY <1>5, <1>6, <2>1
<1>9. Len(build_frame(f)) = L + 7
  BY <1>1, <1>8
<1>10. build_frame(f)[L + 6] = tail[1] /\ build_frame(f)[L + 7] = tail[2]
  <2>1. (1 + (L + 4)) + 1 = L + 6 /\ (1 + (L + 4)) + 2 = L + 7
    BY <1>1
  <2> QED BY <1>8, <2>1
<1>11. build_frame(f)[1] = START
  BY <1>1, <1>2, <1>6, <1>8
<1>12. \A i \in 1..L + 4 : build_frame(f)[i + 1] = frame_body(f)[i]
  <2> SUFFICES ASSUME NEW i \in 1..L + 4 PROVE build_frame(f)[i + 1] = frame_body(f)[i]
    OBVIOUS
  <2>1. 1 + i \in 1..(1 + (L + 4)) /\ 1 + i = i + 1
    BY <1>1
  <2> QED BY <1>6, <1>8, <2>1
<1> QED BY <1>5, <1>8, <1>9, <1>10, <1>11, <1>12 DEF L, crc

\* The CRC register of the peer over the body.
LEMMA BodyCrcs ==
    ASSUME NEW f \in Frames
    PROVE  LET c == CrcSteps(frame_body(f))
               L == Len(f.payload) IN
           /\ c[0] = CRC_INIT /\ c[L + 4] = FrameCrc(f)
           /\ \A i \in 1..L + 4 : c[i] = crc_update(c[i - 1], frame_body(f)[i])
<1> DEFINE c == CrcSteps(frame_body(f))
           L == Len(f.payload)
<1>1. L \in Nat /\ Len(frame_body(f)) = L + 4
  BY BodyBytes DEF BodyLaidOut
<1>2. StepsTo(frame_body(f), c, L + 4)
  <2> HIDE DEF L
  <2>1. Len(frame_body(f)) \in Nat
    BY <1>1
  <2> QED BY <1>1, <2>1, CrcStepsAre
<1>3. c[L + 4] = FrameCrc(f)
  BY <1>1 DEF FrameCrc, CrcOf
<1> HIDE DEF L, c
<1>4. \A i \in 0..L + 4 : c[i] = IF i = 0 THEN CRC_INIT ELSE crc_update(c[i - 1], frame_body(f)[i])
  BY <1>2 DEF StepsTo
<1>5. c[0] = CRC_INIT /\ \A i \in 1..L + 4 : c[i] = crc_update(c[i - 1], frame_body(f)[i])
  BY <1>1, <1>4
<1> QED BY <1>3, <1>5 DEF L, c

----------------------------------------------------------------------------
(* A frame that arrives undamaged. *)

\* What has arrived of the frame being sent.
Arrived == Len(sending.payload) + 7 - Len(line)

\* While nothing has befallen it: the rest of the frame is on the line, the
\* parser has taken the bytes before it, their CRCs are those the peer
\* computed, and only the whole frame ends the reading.
Underway ==
    LET w == build_frame(sending)
        L == Len(sending.payload)
    IN  /\ sending \in Frames
        /\ line \in Seq(Nat) /\ Len(line) <= L + 7
        /\ \A i \in 1..Len(line) : line[i] = w[Arrived + i]
        /\ Arrived = 0 => state = "WAIT_START"
        /\ Arrived > 0 =>
            /\ Len(raw) = Arrived
            /\ \A i \in 1..Arrived : raw[i] = w[i]
            /\ \A i \in 1..Arrived : i <= L + 5 => crcs[i] = CrcSteps(frame_body(sending))[i - 1]
            /\ state = "WAIT_START" <=> Arrived = L + 7
            /\ Arrived = L + 7 => ok

\* Without faults every frame that was sent met a waiting parser.
IntactInv ==
    /\ clean => Underway
    /\ faults = 0 => clean \/ (sending = NoFrame /\ line = <<>> /\ state = "WAIT_START")

\* A byte taken inside a frame that arrives undamaged: where the parser goes
\* from here depends on how much of the frame has arrived.
LEMMA ReadsOn ==
    ASSUME ParserInv, sending \in Frames, NEW k \in Nat, NEW b \in Byte, Feed(b),
           state # "WAIT_START", Len(raw) = k, k < Len(sending.payload) + 7,
           b = build_frame(sending)[k + 1],
           \A i \in 1..k : raw[i] = build_frame(sending)[i],
           k >= Len(sending.payload) + 5 => crcs[Len(sending.payload) + 5] = FrameCrc(sending)
    PROVE  /\ state' = "WAIT_START" <=> k + 1 = Len(sending.payload) + 7
           /\ k + 1 = Len(sending.payload) + 7 => ok'
<1> DEFINE L == Len(sending.payload)
           w == build_frame(sending)
<1>1. /\ L \in Nat /\ L <= MAX_PAYLOAD /\ MAX_PAYLOAD \in Nat /\ b \in Nat
      /\ w[3] = L % 256 /\ w[4] = L \div 256
      /\ w[L + 6] = FrameCrc(sending) % 256 /\ w[L + 7] = FrameCrc(sending) \div 256
  <2>1. /\ L \in Nat /\ frame_body(sending)[2] = L % 256 /\ frame_body(sending)[3] = L \div 256
    <3>1. /\ Len(sending.payload) \in Nat
          /\ frame_body(sending)[2] = Len(sending.payload) % 256
          /\ frame_body(sending)[3] = Len(sending.payload) \div 256
      <4>1. BodyLaidOut(sending)
        BY BodyBytes
      <4> QED BY <4>1 DEF BodyLaidOut
    <3> QED BY <3>1
  <2>2. /\ \A i \in 1..L + 4 : w[i + 1] = frame_body(sending)[i]
        /\ w[L + 6] = FrameCrc(sending) % 256 /\ w[L + 7] = FrameCrc(sending) \div 256
    BY FrameBytes
  <2>3. L <= MAX_PAYLOAD
    BY FramesAssumption
  <2> HIDE DEF L, w
  <2>4. w[3] = L % 256 /\ w[4] = L \div 256
    <3>1. 2 \in 1..L + 4 /\ 3 \in 1..L + 4 /\ 2 + 1 = 3 /\ 3 + 1 = 4
      BY <2>1
    <3>2. w[2 + 1] = frame_body(sending)[2] /\ w[3 + 1] = frame_body(sending)[3]
      BY <2>2, <3>1, Zenon
    <3> QED BY <2>1, <3>1, <3>2, Zenon
  <2>5. MAX_PAYLOAD \in Nat
    BY ParserAssumption
  <2>6. \A x \in Byte : x \in Nat
    BY DEF Byte
  <2> QED BY <2>1, <2>2, <2>3, <2>4, <2>5, <2>6
<1>2. Position /\ Header /\ Checksum /\ state \in States /\ payload_idx \in Nat /\ expected_len \in Nat
  BY DEF ParserInv, TypeOK
<1>3. (L % 256) + 256 * (L \div 256) = L
  <2> HIDE DEF L
  <2> QED BY <1>1
<1>4. FrameCrc(sending) \in Nat
  BY FramesAssumption DEF FrameCrc
<1>5. (FrameCrc(sending) % 256) + 256 * (FrameCrc(sending) \div 256) = FrameCrc(sending)
  BY <1>4
<1> HIDE DEF L, w
<1>w. b = w[k + 1] /\ \A i \in 1..k : raw[i] = w[i]
  BY DEF w
<1>k. k < L + 7 /\ (k >= L + 5 => crcs[L + 5] = FrameCrc(sending))
  BY DEF L
<1>6. k >= 4 => expected_len = L
  BY <1>1, <1>2, <1>3, <1>w DEF Header
<1>7. CASE ReadType(b)
  BY <1>1, <1>2, <1>7 DEF ReadType, Position, L
<1>8. CASE ReadLenLo(b)
  BY <1>1, <1>2, <1>8 DEF ReadLenLo, Position, L
<1>9. CASE ReadLenHi(b)
  <2>1. state = "READ_LEN_HI" /\ k = 3
    BY <1>2, <1>9 DEF ReadLenHi, Position
  <2>2. expected_len = w[3] /\ b = w[4]
    BY <1>2, <1>w, <2>1 DEF Header
  <2>3. expected_len + 256 * b = L
    BY <1>1, <1>3, <2>2
  <2>4. state' = "READ_SEQ"
    BY <1>1, <1>9, <2>3 DEF ReadLenHi
  <2> QED BY <1>1, <2>1, <2>4 DEF L
<1>10. CASE ReadSeq(b)
  <2>1. state = "READ_SEQ" /\ k = 4 /\ state' \in {"READ_CRC_LO", "READ_PAYLOAD"}
    BY <1>2, <1>10 DEF ReadSeq, Position
  <2> QED BY <1>1, <2>1 DEF L
<1>11. CASE ReadPayload(b)
  <2>1. state = "READ_PAYLOAD" /\ k = 5 + payload_idx /\ payload_idx < expected_len
    BY <1>2, <1>11 DEF ReadPayload, Position
  <2>2. expected_len = L
    BY <1>2, <1>6, <2>1
  <2>3. state' \in {"READ_CRC_LO", "READ_PAYLOAD"}
    BY <1>1, <1>2, <1>11, <2>1, <2>2 DEF ReadPayload
  <2> QED BY <1>1, <1>2, <2>1, <2>2, <2>3 DEF L
<1>12. CASE ReadCrcLo(b)
  <2>1. state = "READ_CRC_LO" /\ k = 5 + expected_len /\ state' = "READ_CRC_HI"
    BY <1>2, <1>12 DEF ReadCrcLo, Position
  <2> QED BY <1>1, <1>2, <1>6, <2>1 DEF L
<1>13. CASE ReadCrcHi(b)
  <2>1. state = "READ_CRC_HI" /\ k = 6 + expected_len
    BY <1>2, <1>13 DEF ReadCrcHi, Position
  <2>2. k = L + 6 /\ b = w[L + 7] /\ raw[k] = w[L + 6]
    <3>1. k >= 4
      BY <1>2, <2>1
    <3>2. k = L + 6 /\ k + 1 = L + 7 /\ k \in 1..k
      BY <1>1, <1>6, <2>1, <3>1
    <3> QED BY <1>w, <3>2
  <2>3. crc_recv = raw[k] /\ crc_running = crcs[k - 1]
    BY <1>2, <2>1 DEF Checksum
  <2>4. crc_running = FrameCrc(sending)
    BY <1>1, <1>k, <2>2, <2>3
  <2>5. crc_recv + 256 * b = crc_running
    BY <1>1, <1>5, <2>2, <2>3, <2>4
  <2>6. ok' /\ state' = "WAIT_START"
    BY <1>13, <2>5 DEF ReadCrcHi, protocol_parser_reset
  <2> QED BY <1>1, <2>2, <2>6 DEF L
<1> QED
  BY <1>7, <1>8, <1>9, <1>10, <1>11, <1>12, <1>13 DEF Feed, WaitStart

\* A byte delivered in its turn keeps the frame under way.
LEMMA DeliverUnderway ==
    ASSUME ParserInv, Underway, Deliver
    PROVE  Underway'
<1> DEFINE L == Len(sending.payload)
           w == build_frame(sending)
           body == frame_body(sending)
           c == CrcSteps(body)
           k == Arrived
           b == Head(line)
<1>1. /\ sending \in Frames /\ L \in Nat
      /\ w[1] = START /\ \A i \in 1..L + 4 : w[i + 1] = body[i]
      /\ c[0] = CRC_INIT /\ c[L + 4] = FrameCrc(sending)
      /\ \A i \in 1..L + 4 : c[i] = crc_update(c[i - 1], body[i])
  <2>1. sending \in Frames
    BY DEF Underway
  <2>2. L \in Nat
    BY <2>1, BodyBytes DEF BodyLaidOut
  <2>3. w[1] = START /\ \A i \in 1..L + 4 : w[i + 1] = body[i]
    BY <2>1, FrameBytes
  <2>4. /\ c[0] = CRC_INIT /\ c[L + 4] = FrameCrc(sending)
        /\ \A i \in 1..L + 4 : c[i] = crc_update(c[i - 1], body[i])
    BY <2>1, BodyCrcs
  <2> QED BY <2>1, <2>2, <2>3, <2>4
<1>2. /\ line \in Seq(Nat) /\ Len(line) <= L + 7 /\ line # <<>>
      /\ \A i \in 1..Len(line) : line[i] = w[k + i]
      /\ k = L + 7 - Len(line)
      /\ k = 0 => state = "WAIT_START"
      /\ k > 0 => /\ Len(raw) = k
                  /\ \A i \in 1..k : raw[i] = w[i]
                  /\ \A i \in 1..k : i <= L + 5 => crcs[i] = c[i - 1]
                  /\ state = "WAIT_START" <=> k = L + 7
  BY DEF Underway, Deliver, Arrived
<1>3. b \in Byte /\ Feed(b) /\ Record(b) /\ line' = Tail(line) /\ sending' = sending
  BY DEF Deliver, Feed
<1>4. b = line[1] /\ Len(line) \in Nat /\ Len(line) > 0
  BY <1>2
<1>5. /\ line' \in Seq(Nat) /\ Len(line') = Len(line) - 1
      /\ \A i \in 1..Len(line') : line'[i] = line[i + 1]
  BY <1>2, <1>3
<1>6. L' = L /\ w' = w /\ body' = body /\ c' = c /\ Arrived' = L + 7 - Len(line')
  BY <1>3 DEF Arrived
<1> HIDE DEF L, w, body, c, k, b
<1>n. L \in Nat /\ Len(line) \in Nat /\ Len(line) > 0 /\ Len(line) <= L + 7
      /\ k = L + 7 - Len(line) /\ Len(line') = Len(line) - 1
  BY <1>1, <1>2, <1>4, <1>5
<1>7. k \in 0..L + 6 /\ Arrived' = k + 1 /\ b = w[k + 1]
  <2>1. k \in 0..L + 6 /\ L + 7 - (Len(line) - 1) = k + 1 /\ 1 \in 1..Len(line)
    BY <1>n
  <2>2. Arrived' = k + 1
    BY <1>n, <1>6, <2>1
  <2>3. b = w[k + 1]
    BY <1>2, <1>4, <2>1
  <2> QED BY <2>1, <2>2, <2>3
<1>8. \A i \in 1..Len(line') : line'[i] = w[k + 1 + i]
  <2> SUFFICES ASSUME NEW i \in 1..Len(line') PROVE line'[i] = w[k + 1 + i]
    OBVIOUS
  <2>1. i + 1 \in 1..Len(line) /\ k + (i + 1) = k + 1 + i
    BY <1>n, <1>7
  <2> QED BY <1>2, <1>5, <2>1
<1>9. ASSUME /\ Len(raw') = k + 1
             /\ \A i \in 1..k + 1 : raw'[i] = w[i]
             /\ \A i \in 1..k + 1 : i <= L + 5 => crcs'[i] = c[i - 1]
             /\ state' = "WAIT_START" <=> k + 1 = L + 7
             /\ k + 1 = L + 7 => ok'
      PROVE  Underway'
  <2>1. Len(line') <= L + 7 /\ k + 1 > 0 /\ k + 1 # 0
    BY <1>n, <1>7
  <2>2. sending' \in Frames
    BY <1>1, <1>3
  <2> QED
    BY <1>5, <1>6, <1>7, <1>8, <1>9, <2>1, <2>2 DEF Underway, L, w, body, c
<1>10. CASE state = "WAIT_START"
  <2>1. k = 0 /\ b = START
    BY <1>1, <1>2, <1>7, <1>10
  <2>2. raw' = <<b>> /\ crcs' = <<CRC_INIT>>
    BY <1>3, <1>10, <2>1 DEF Record
  <2>3. state' = "READ_TYPE"
    BY <1>3, <1>10, <2>1 DEF Feed, WaitStart, ReadType, ReadLenLo, ReadLenHi, ReadSeq,
                             ReadPayload, ReadCrcLo, ReadCrcHi
  <2>4. Len(raw') = 1 /\ raw'[1] = w[1] /\ crcs'[1] = c[0]
    BY <1>1, <2>1, <2>2
  <2> QED
    BY <1>1, <1>9, <2>1, <2>3, <2>4
<1>11. CASE state # "WAIT_START"
  <2>1. k > 0 /\ Len(raw) = k
    BY <1>2, <1>7, <1>11
  <2>2. raw \in Seq(Byte) /\ Len(raw) <= MAX_PAYLOAD + 7
    BY DEF ParserInv, TypeOK, Position
  <2>3. /\ Len(raw') = k + 1 /\ raw'[k + 1] = b
        /\ \A i \in 1..k : raw'[i] = raw[i]
        /\ \A i \in 1..k : crcs'[i] = crcs[i]
        /\ crcs'[k + 1] = crc_update(crcs[k], b)
    BY <1>3, <1>11, <2>1, <2>2, RecordInFrame
  <2>4. \A i \in 1..k + 1 : raw'[i] = w[i]
    <3> SUFFICES ASSUME NEW i \in 1..k + 1 PROVE raw'[i] = w[i]
      OBVIOUS
    <3>1. i = k + 1 \/ i \in 1..k
      BY <1>7
    <3> QED BY <1>2, <1>7, <2>1, <2>3, <3>1
  <2>5. k + 1 <= L + 5 => crcs'[k + 1] = c[k]
    <3> SUFFICES ASSUME k + 1 <= L + 5 PROVE crcs'[k + 1] = c[k]
      OBVIOUS
    <3>1. k \in 1..L + 4 /\ k \in 1..k
      BY <1>1, <1>7, <2>1
    <3>2. crcs[k] = c[k - 1] /\ b = body[k] /\ c[k] = crc_update(c[k - 1], body[k])
      BY <1>1, <1>2, <1>7, <2>1, <3>1
    <3> QED BY <2>3, <3>2
  <2>6. \A i \in 1..k + 1 : i <= L + 5 => crcs'[i] = c[i - 1]
    <3> SUFFICES ASSUME NEW i \in 1..k + 1, i <= L + 5 PROVE crcs'[i] = c[i - 1]
      OBVIOUS
    <3>1. CASE i = k + 1
      BY <1>7, <2>5, <3>1
    <3>2. CASE i # k + 1
      <4>1. i \in 1..k
        BY <1>n, <1>7, <3>2
      <4> QED BY <1>2, <2>1, <2>3, <4>1
    <3> QED BY <3>1, <3>2
  <2>7. k >= L + 5 => crcs[L + 5] = FrameCrc(sending)
    <3> SUFFICES ASSUME k >= L + 5 PROVE crcs[L + 5] = FrameCrc(sending)
      OBVIOUS
    <3>1. L + 5 \in 1..k /\ L + 5 <= L + 5 /\ (L + 5) - 1 = L + 4
      BY <1>n, <1>7
    <3>2. crcs[L + 5] = c[(L + 5) - 1]
      BY <1>2, <2>1, <3>1
    <3> QED BY <1>1, <3>1, <3>2
  <2>8. (state' = "WAIT_START" <=> k + 1 = L + 7) /\ (k + 1 = L + 7 => ok')
    <3>1. k \in Nat /\ k < L + 7 /\ \A i \in 1..k : raw[i] = w[i]
      BY <1>n, <1>2, <1>7, <2>1
    <3> QED
      BY <1>1, <1>3, <1>7, <1>11, <2>1, <2>7, <3>1, ReadsOn DEF L, w
  <2> QED
    BY <1>9, <2>3, <2>4, <2>6, <2>8
<1> QED BY <1>10, <1>11

\* A frame that meets a waiting parser is under way.
LEMMA SendUnderway ==
    ASSUME Send, state = "WAIT_START"
    PROVE  Underway'
<1>1. PICK f \in Frames : sending' = f /\ line' = build_frame(f)
  BY DEF Send
<1>2. state' = "WAIT_START"
  BY DEF Send, parser
<1>3. /\ line' \in Seq(Nat) /\ Len(line') = Len(f.payload) + 7 /\ Len(f.payload) \in Nat
  BY <1>1, FrameBytes, BodyBytes DEF BodyLaidOut
<1>4. Arrived' = 0
  <2>1. Arrived' = Len(f.payload) + 7 - Len(line')
    BY <1>1 DEF Arrived
  <2> QED BY <1>3, <2>1
<1>5. \A i \in 1..Len(line') : line'[i] = build_frame(f)[0 + i]
  BY <1>1, <1>3
<1>6. Len(line') <= Len(f.payload) + 7 /\ ~(0 > 0)
  BY <1>3
<1> QED
  BY <1>1, <1>2, <1>3, <1>4, <1>5, <1>6 DEF Underway

LEMMA UnderwayStutters ==
    ASSUME Underway, UNCHANGED vars
    PROVE  Underway'
<1>1. UNCHANGED <<sending, line, state, raw, crcs, ok>>
  BY DEF vars, parser
<1> QED
  BY <1>1 DEF Underway, Arrived

\* At the end of an undamaged frame the bytes taken are the frame's, so that
\* what AcceptedIsWhole says of them says it of the frame.
LEMMA WholeFrameTaken ==
    ASSUME ParserInv, Underway, line = <<>>
    PROVE  /\ ok
           /\ state = "WAIT_START"
           /\ frame.type = sending.type
           /\ frame.seq = sending.seq
           /\ frame.len = Len(sending.payload)
           /\ \A i \in 1..frame.len : payload[i - 1] = sending.payload[i]
<1> DEFINE L == Len(sending.payload)
           w == build_frame(sending)
           body == frame_body(sending)
<1>1. sending \in Frames
  BY DEF Underway
<1>2. /\ L \in Nat /\ body[1] = sending.type /\ body[4] = sending.seq
      /\ \A i \in 1..L : body[4 + i] = sending.payload[i]
  <2>1. /\ Len(sending.payload) \in Nat
        /\ frame_body(sending)[1] = sending.type /\ frame_body(sending)[4] = sending.seq
        /\ \A i \in 1..Len(sending.payload) : frame_body(sending)[4 + i] = sending.payload[i]
    <3>1. BodyLaidOut(sending)
      BY <1>1, BodyBytes
    <3> QED BY <3>1 DEF BodyLaidOut
  <2> QED BY <2>1
<1>3. \A i \in 1..L + 4 : w[i + 1] = body[i]
  BY <1>1, FrameBytes
<1>4. Arrived = L + 7
  <2>1. Arrived = L + 7 - 0
    BY DEF Arrived
  <2> HIDE DEF L
  <2> QED BY <1>2, <2>1
<1>5. /\ ok /\ state = "WAIT_START" /\ Len(raw) = L + 7
      /\ \A i \in 1..L + 7 : raw[i] = w[i]
  <2>1. L + 7 > 0
    <3> HIDE DEF L
    <3> QED BY <1>2
  <2> QED BY <1>4, <2>1 DEF Underway
<1>6. /\ Len(raw) = frame.len + 7 /\ raw[2] = frame.type /\ raw[5] = frame.seq
      /\ \A i \in 0..frame.len - 1 : raw[6 + i] = payload[i]
  BY <1>5 DEF ParserInv, AcceptedIsWhole
<1>7. frame.len \in Nat
  <2>1. frame \in [type : Byte, len : 0..MAX_PAYLOAD, seq : Byte] /\ MAX_PAYLOAD \in Nat
    BY ParserAssumption DEF ParserInv, TypeOK
  <2> QED BY <2>1
<1> HIDE DEF L, w, body
<1>8. frame.len = L
  BY <1>2, <1>5, <1>6, <1>7
<1>9. raw[2] = body[1] /\ raw[5] = body[4]
  BY <1>2, <1>3, <1>5
<1>10. \A i \in 1..L : payload[i - 1] = sending.payload[i]
  <2> SUFFICES ASSUME NEW i \in 1..L PROVE payload[i - 1] = sending.payload[i]
    OBVIOUS
  <2>1. /\ i - 1 \in 0..L - 1 /\ 6 + (i - 1) = (4 + i) + 1
        /\ 4 + i \in 1..L + 4 /\ (4 + i) + 1 \in 1..L + 7
    BY <1>2
  <2>2. payload[i - 1] = raw[6 + (i - 1)]
    BY <1>6, <1>8, <2>1
  <2>3. raw[(4 + i) + 1] = body[4 + i]
    BY <1>3, <1>5, <2>1
  <2> QED BY <1>2, <2>1, <2>2, <2>3
<1> QED
  BY <1>2, <1>5, <1>6, <1>8, <1>9, <1>10 DEF L

LEMMA IntactAccepted == ParserInv /\ IntactInv => IntactFrameAccepted
<1> SUFFICES ASSUME ParserInv, IntactInv PROVE IntactFrameAccepted
  OBVIOUS
<1>1. clean /\ line = <<>> =>
        /\ ok /\ state = "WAIT_START"
        /\ frame.type = sending.type /\ frame.seq = sending.seq
        /\ frame.len = Len(sending.payload)
        /\ \A i \in 1..frame.len : payload[i - 1] = sending.payload[i]
  BY WholeFrameTaken DEF IntactInv
<1>2. faults = 0 /\ sending # NoFrame => clean
  BY DEF IntactInv
<1> QED BY <1>1, <1>2 DEF IntactFrameAccepted

LEMMA InitIntact == Init => IntactInv
BY DEF Init, IntactInv

LEMMA NextIntact == ParserInv /\ IntactInv /\ [Next]_vars => IntactInv'
<1> SUFFICES ASSUME ParserInv, IntactInv, [Next]_vars PROVE IntactInv'
  OBVIOUS
<1>1. CASE Send
  <2>1. clean => state = "WAIT_START"
    BY <1>1, WholeFrameTaken DEF IntactInv, Send
  <2>2. clean' = (state = "WAIT_START") /\ faults' = faults
    BY <1>1 DEF Send
  <2>3. state = "WAIT_START" => Underway'
    BY <1>1, SendUnderway
  <2> QED BY <2>1, <2>2, <2>3 DEF IntactInv
<1>2. CASE Deliver
  <2>1. line # <<>> /\ clean' = clean /\ faults' = faults
    BY <1>2 DEF Deliver
  <2>2. clean => Underway'
    BY <1>2, DeliverUnderway DEF IntactInv
  <2> QED BY <2>1, <2>2 DEF IntactInv
<1>3. CASE Lose \/ Corrupt \/ Insert
  <2>1. clean' = FALSE /\ faults' = faults + 1 /\ faults \in Nat
    BY <1>3 DEF Lose, Corrupt, Insert, Fault, ParserInv, TypeOK
  <2>2. faults' # 0
    BY <2>1
  <2> QED BY <2>1, <2>2 DEF IntactInv
<1>4. CASE UNCHANGED vars
  <2>1. UNCHANGED <<clean, faults, sending, line, state>>
    BY <1>4 DEF vars, parser
  <2>2. clean => Underway'
    BY <1>4, UnderwayStutters DEF IntactInv
  <2> QED BY <2>1, <2>2 DEF IntactInv
<1> QED
  BY <1>1, <1>2, <1>3, <1>4 DEF Next

\* A frame that meets a waiting parser and arrives undamaged is accepted as it
\* was built and leaves the parser waiting, whatever bytes it carries, START
\* among them (build_frame against protocol_parser_feed, for every CRC).
THEOREM AcceptsIntactFrames == Spec => []IntactFrameAccepted
<1>1. Init => ParserInv /\ IntactInv
  BY InitInv, InitIntact
<1>2. ParserInv /\ IntactInv /\ [Next]_vars => (ParserInv /\ IntactInv)'
  BY NextInv, NextIntact
<1> QED
  BY <1>1, <1>2, IntactAccepted, PTL DEF Spec
=============================================================================

------------------------------- MODULE Crc16 -------------------------------
(***************************************************************************)
(* CRC-16/CCITT-FALSE, the checksum of the wire protocol: crc16.c in the   *)
(* firmware and bbb/protocol/crc.py in the agent, one byte at a time.      *)
(*                                                                         *)
(* A register is worked on as the set of its one bits (0 the lowest), so   *)
(* that exclusive or is the symmetric difference.                          *)
(***************************************************************************)
EXTENDS Naturals
LOCAL INSTANCE FiniteSetsExt

CRC16_INIT == 65535
CRC16_POLY == {0, 5, 12}       \* 0x1021
CRC16_MSBIT == 15

Bits(n) == {i \in 0..15 : (n \div 2^i) % 2 = 1}

Value(bits) ==
    LET low[n \in 0..16] ==
            IF n = 0 THEN 0
            ELSE low[n - 1] + (IF n - 1 \in bits THEN 2^(n - 1) ELSE 0)
    IN  low[16]

\* One turn of the inner loop: a bit leaves at the top of the 16.
Shift(crc) ==
    LET up == {i + 1 : i \in crc \ {CRC16_MSBIT}}
    IN  IF CRC16_MSBIT \in crc THEN SymDiff(up, CRC16_POLY) ELSE up

\* One turn of the loop over the bytes: the byte enters at the top, then
\* eight shifts.
crc16_step(crc, byte) ==
    LET shifts[n \in 0..8, r \in SUBSET (0..15)] ==
            IF n = 0 THEN r ELSE shifts[n - 1, Shift(r)]
        step[c \in 0..65535] ==
            Value(shifts[8, SymDiff(Bits(c), {i + 8 : i \in Bits(byte)})])
    IN  step[crc]

\* The check value of the algorithm, the CRC of the ASCII digits 1 to 9
\* (docs/protocol/crc16.md): 0x29B1.
ASSUME CheckValue ==
    LET crc[n \in 0..9] ==
            IF n = 0 THEN CRC16_INIT
            ELSE crc16_step(crc[n - 1], 48 + n)
    IN  crc[9] = 10673
=============================================================================

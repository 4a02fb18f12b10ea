-------------------------- MODULE MCProtocolParser --------------------------
(* ProtocolParser with the real CRC and a small buffer.  Among the frames    *)
(* are one without payload and one that carries START bytes in its payload. *)
EXTENDS ProtocolParser, Crc16

MCCrc(crc, byte) == crc16_step(crc, byte)

Sync  == [type |-> 5, seq |-> 1, payload |-> <<>>]
Write == [type |-> 2, seq |-> 2, payload |-> <<START, 1>>]

MCFrames == {Sync, Write}
MCNoise  == {START, 0, 1}
=============================================================================

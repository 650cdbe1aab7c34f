------------------------------- MODULE Crc16 -------------------------------
(***************************************************************************)
(* The slot of a sequence of bytes (cluster.rs): CRC16-XMODEM of the       *)
(* bytes, modulo the number of slots.                                      *)
(***************************************************************************)
EXTENDS Naturals, SequencesExt, Bitwise

\* Eight rounds of the shift register for one byte.
Shift[n \in 0..8, crc \in 0..65535] ==
    IF n = 0 THEN crc
    ELSE Shift[n - 1, IF crc >= 32768 THEN ((2 * crc) % 65536) ^^ 4129
                      ELSE 2 * crc]

Crc16Xmodem(bytes) ==
    FoldLeft(LAMBDA crc, b : Shift[8, crc ^^ (b * 256)], 0, bytes)

CrcSlot(bytes) == Crc16Xmodem(bytes) % 16384

\* "123456789" has the check value 0x31C3 the CRC's definition gives.
ASSUME CrcCheckValue == Crc16Xmodem([i \in 1..9 |-> 48 + i]) = 12739

=============================================================================

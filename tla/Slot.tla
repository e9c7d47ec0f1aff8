--------------------------------- MODULE Slot ---------------------------------
(***************************************************************************)
(* The hash slot of a key (pkg/server/slot.go).  A key is the sequence of  *)
(* its bytes; a crc is a uint16.                                           *)
(***************************************************************************)
EXTENDS Integers, Sequences, Bitwise

\* One round of the inner loop: a shift, and the polynomial if a bit fell out.
shift(crc) == IF crc >= 2^15 THEN ((2 * crc) % 2^16) ^^ 4129 ELSE 2 * crc

\* The outer loop's body for byte b.
addByte(crc, b) ==
  LET shifted[i \in 0..8] == IF i = 0 THEN crc ^^ (b * 2^8) ELSE shift(shifted[i - 1])
  IN  shifted[8]

crc16(data) ==
  LET crc[i \in 0..Len(data)] == IF i = 0 THEN 0 ELSE addByte(crc[i - 1], data[i])
  IN  crc[Len(data)]

\* The divisor is converted to uint16.
keySlot(key, slots) == IF slots <= 0 THEN 0 ELSE crc16(key) % (slots % 2^16)
=============================================================================

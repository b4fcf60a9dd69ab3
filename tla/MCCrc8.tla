------------------------------ MODULE MCCrc8 --------------------------------
(* Crc8 over three data bytes and four patterns a byte may be disturbed by: *)
(* one bit at either end of the byte, two bits, and all of them.  ByteXor   *)
(* is compared with the operator of the community modules on all bytes.     *)
EXTENDS Crc8, Bitwise

ASSUME XorAssumption == \A x, y \in Byte : ByteXor(x, y) = x ^^ y

MCDataBytes == {0, 65, 255}
MCErrors == {1, 24, 128, 255}
=============================================================================

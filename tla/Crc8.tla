-------------------------------- MODULE Crc8 --------------------------------
(***************************************************************************)
(* Crc8Update (INC/srl_devcart_sdcard_crc.hpp): the table-driven CRC-8     *)
(* that protects uploads and downloads.  The handlers call it once per     *)
(* chunk, feeding the checksum of the chunks before into the next call;    *)
(* the other end computes it over the whole file.  The specification feeds *)
(* a message in chunks of any size, as sent and with an error on the way,  *)
(* and compares with the bitwise definition of the code (polynomial        *)
(* x^8 + x^2 + x + 1).                                                     *)
(***************************************************************************)
EXTENDS Naturals, Sequences

CONSTANTS
  DataBytes,    \* the bytes messages are made of
  Errors,       \* the non-zero patterns a byte may be disturbed by
  MaxMessage,   \* bound: length of a message
  MaxChunk      \* bound: length of a chunk (kFileBufferSize in the code)

ASSUME DataAssumption ==
  /\ DataBytes \subseteq 0..255
  /\ Errors \subseteq 1..255
  /\ MaxMessage \in Nat
  /\ MaxChunk \in Nat

CrcTable == <<
    0,   7,  14,   9,  28,  27,  18,  21,  56,  63,  54,  49,  36,  35,  42,  45,
  112, 119, 126, 121, 108, 107,  98, 101,  72,  79,  70,  65,  84,  83,  90,  93,
  224, 231, 238, 233, 252, 251, 242, 245, 216, 223, 214, 209, 196, 195, 202, 205,
  144, 151, 158, 153, 140, 139, 130, 133, 168, 175, 166, 161, 180, 179, 186, 189,
  199, 192, 201, 206, 219, 220, 213, 210, 255, 248, 241, 246, 227, 228, 237, 234,
  183, 176, 185, 190, 171, 172, 165, 162, 143, 136, 129, 134, 147, 148, 157, 154,
   39,  32,  41,  46,  59,  60,  53,  50,  31,  24,  17,  22,   3,   4,  13,  10,
   87,  80,  89,  94,  75,  76,  69,  66, 111, 104,  97, 102, 115, 116, 125, 122,
  137, 142, 135, 128, 149, 146, 155, 156, 177, 182, 191, 184, 173, 170, 163, 164,
  249, 254, 247, 240, 229, 226, 235, 236, 193, 198, 207, 200, 221, 218, 211, 212,
  105, 110, 103,  96, 117, 114, 123, 124,  81,  86,  95,  88,  77,  74,  67,  68,
   25,  30,  23,  16,   5,   2,  11,  12,  33,  38,  47,  40,  61,  58,  51,  52,
   78,  73,  64,  71,  82,  85,  92,  91, 118, 113, 120, 127, 106, 109, 100,  99,
   62,  57,  48,  55,  34,  37,  44,  43,   6,   1,   8,  15,  26,  29,  20,  19,
  174, 169, 160, 167, 178, 181, 188, 187, 150, 145, 152, 159, 138, 141, 132, 131,
  222, 217, 208, 215, 194, 197, 204, 203, 230, 225, 232, 239, 250, 253, 244, 243 >>

(* Exclusive or of two bytes, bit by bit: Bit takes the bit of weight w. *)
Byte == 0..255
Bit(n, w) == (n \div w) % 2
Differ(x, y, w) == w * ((Bit(x, w) + Bit(y, w)) % 2)
ByteXor(x, y) ==
  Differ(x, y, 1) + Differ(x, y, 2) + Differ(x, y, 4) + Differ(x, y, 8)
    + Differ(x, y, 16) + Differ(x, y, 32) + Differ(x, y, 64) + Differ(x, y, 128)

(* Mutant of CrcStep: a shift that is not cut to eight bits. *)
UncutStep(c, b) == 2 * ByteXor(c, b)

(* One byte: crcTable[(crc ^ byte) & 0xFF]. *)
CrcStep(c, b) == CrcTable[(ByteXor(c, b) % 256) + 1]

(* Mutants of Crc8Update: every chunk starts over; a byte is left out. *)
RestartedUpdate(c, data) ==
  LET crc[i \in 0..Len(data)] == IF i = 0 THEN 0 ELSE CrcStep(crc[i - 1], data[i])
  IN crc[Len(data)]
LastByteUpdate(c, data) == CrcStep(c, data[Len(data)])

Crc8Update(c, data) ==
  LET crc[i \in 0..Len(data)] == IF i = 0 THEN c ELSE CrcStep(crc[i - 1], data[i])
  IN crc[Len(data)]

(* The reference: one bit at a time, most significant first. *)
ShiftBit(c) == IF c >= 128 THEN ByteXor((c * 2) % 256, 7) ELSE c * 2

ShiftNibble(c) == ShiftBit(ShiftBit(ShiftBit(ShiftBit(c))))

PolyStep(c, b) == ShiftNibble(ShiftNibble(ByteXor(c, b)))

PolyCrc(data) ==
  LET crc[i \in 0..Len(data)] == IF i = 0 THEN 0 ELSE PolyStep(crc[i - 1], data[i])
  IN crc[Len(data)]

-----------------------------------------------------------------------------

VARIABLES
  message,   \* the bytes one end has sent
  arrived,   \* the bytes the other end has received
  sent,      \* running checksum of the sender
  received   \* running checksum of the receiver

crcVars == <<message, arrived, sent, received>>

CrcTypeOK ==
  /\ message \in Seq(DataBytes)
  /\ arrived \in Seq(Byte)
  /\ Len(arrived) = Len(message)
  /\ sent \in Byte
  /\ received \in Byte

CrcInit == message = <<>> /\ arrived = <<>> /\ sent = 0 /\ received = 0

Chunks == UNION {[1..n -> DataBytes] : n \in 1..MaxChunk}

Feed(chunk, got) ==
  /\ Len(message) + Len(chunk) <= MaxMessage
  /\ message' = message \o chunk
  /\ arrived' = arrived \o got
  /\ sent' = Crc8Update(sent, chunk)
  /\ received' = Crc8Update(received, got)

(* A chunk arrives as it was sent, *)
SendIntact == \E chunk \in Chunks : Feed(chunk, chunk)

(* or with one byte disturbed. *)
SendDisturbed ==
  \E chunk \in Chunks : \E i \in 1..Len(chunk), e \in Errors :
    Feed(chunk, [chunk EXCEPT ![i] = ByteXor(@, e)])

CrcNext == SendIntact \/ SendDisturbed

CrcSpec == CrcInit /\ [][CrcNext]_crcVars

-----------------------------------------------------------------------------

(* However a file is cut into chunks, the running table-driven checksum is *)
(* the CRC-8 of the whole of it by the polynomial (Crc8Update, as called   *)
(* by HandleCrc, HandleUpload and HandleDownload).                         *)
ChunkingIsIrrelevant == sent = PolyCrc(message) /\ received = PolyCrc(arrived)

(* A file with exactly one disturbed byte never has the checksum of the    *)
(* original (what the verification of an upload relies on).                *)
OneByteErrorDetected ==
  (\E i \in 1..Len(message) :
     /\ message[i] # arrived[i]
     /\ \A j \in 1..Len(message) : j # i => message[j] = arrived[j])
  => sent # received
=============================================================================

---------------------------- MODULE HostIoProofs ----------------------------
(***************************************************************************)
(* Proofs about HostIo, for every FIFO depth, buffer capacity, checksum    *)
(* step, set of commands, payloads and files and any number of requests:   *)
(* its types; and, while no read of a download fails, that the two ends of *)
(* the link stay in step, also after a host was killed and another started *)
(* over on a quiet link, and with it what the host makes of the answers,   *)
(* the verdict on an upload among it.                                      *)
(***************************************************************************)
EXTENDS HostIo, NaturalRecursion, SequenceTheorems, TLAPS

(* What is true of the Saturn's own registers, whatever the host does.     *)
Registers ==
  /\ (spc = "write") = (reply # <<>>)
  /\ spc \in {"payload", "drain", "data"} => need > 0
  /\ spc = "header" => Len(buf) < 7
  /\ spc = "size" => Len(buf) < 4
  /\ spc \in {"payload", "drain", "dispatch"} => Len(buf) = 7
  /\ spc = "write" /\ then = "size" => buf = <<>>
  /\ ack = Len(requests) => hpc = "frame"
  /\ base <= Len(requests)

TypeInv == TypeOK /\ Registers

LEMMA EmptyIffZero ==
  ASSUME NEW S, NEW s \in Seq(S)
  PROVE  s = <<>> <=> Len(s) = 0
<1>1. Len(<<>>) = 0
  OBVIOUS
<1>2. s = <<>> => Len(s) = 0
  BY <1>1, Zenon
<1>3. Len(s) = 0 => s = <<>>
  BY EmptySeq
<1> QED BY <1>2, <1>3

LEMMA OneLeft ==
  ASSUME NEW S, NEW s \in Seq(S), s # <<>>
  PROVE  Len(s) = 1 <=> Tail(s) = <<>>
<1>1. Tail(s) \in Seq(S) /\ Len(Tail(s)) = Len(s) - 1 /\ Len(s) \in Nat
  OBVIOUS
<1>2. Tail(s) = <<>> <=> Len(Tail(s)) = 0
  BY <1>1, EmptyIffZero
<1>3. Len(Tail(s)) = 0 <=> Len(s) = 1
  BY <1>1
<1> QED BY <1>2, <1>3, Zenon

(* What CS0::Read() returns, and a buffer with that byte appended. *)
LEMMA ReadOneByte ==
  ASSUME TypeInv, rd < wr
  PROVE  /\ rd + 1 \in 1..Len(stream)
         /\ stream[rd + 1] \in Byte
         /\ rd + 1 \in 0..wr
         /\ Append(buf, stream[rd + 1]) \in Seq(Byte)
         /\ Len(Append(buf, stream[rd + 1])) = Len(buf) + 1
<1>1. rd + 1 \in 1..Len(stream) /\ rd + 1 \in 0..wr
  BY DEF TypeInv, TypeOK
<1>2. stream[rd + 1] \in Byte
  BY <1>1 DEF TypeInv, TypeOK
<1> QED BY <1>1, <1>2 DEF TypeInv, TypeOK

LEMMA ByteIsNat == \A b \in Byte : b \in Nat /\ b < 256
  BY DEF Byte

LEMMA NatIsByte == \A b \in Nat : b < 256 => b \in Byte
  BY DEF Byte

(* The lengths the Saturn decodes are natural numbers. *)
LEMMA PayloadLenType ==
  ASSUME NEW h \in Seq(Byte), Len(h) = 7
  PROVE  PayloadLen(h) \in Nat
<1>1. 6 \in 1..Len(h) /\ 7 \in 1..Len(h)
  OBVIOUS
<1>2. h[6] \in Byte /\ h[7] \in Byte
  BY <1>1, ElementOfSeq
<1>3. h[6] \in Nat /\ h[7] \in Nat
  BY <1>2, ByteIsNat, Zenon
<1>4. \A x, y \in Nat : x * 256 + y \in Nat
  OBVIOUS
<1> QED BY <1>3, <1>4, Zenon DEF PayloadLen

LEMMA FileSizeType ==
  ASSUME NEW b \in Seq(Byte), Len(b) = 4
  PROVE  FileSize(b) \in Nat
<1>1. ASSUME NEW i \in 1..4 PROVE b[i] \in Byte
  <2>1. i \in 1..Len(b)
    OBVIOUS
  <2> QED BY <2>1, ElementOfSeq
<1>2. b[1] \in Nat /\ b[2] \in Nat /\ b[3] \in Nat /\ b[4] \in Nat
  BY <1>1, ByteIsNat
<1>3. \A x, y \in Nat : x * 256 + y \in Nat
  OBVIOUS
<1>4. b[1] * 256 + b[2] \in Nat
  BY <1>2, <1>3, Zenon
<1>5. (b[1] * 256 + b[2]) * 256 + b[3] \in Nat
  BY <1>2, <1>3, <1>4, Zenon
<1>6. ((b[1] * 256 + b[2]) * 256 + b[3]) * 256 + b[4] \in Nat
  BY <1>2, <1>3, <1>5, Zenon
<1> QED BY <1>6, Zenon DEF FileSize

(* The Saturn answers only with messages. *)
LEMMA SingleType ==
  ASSUME NEW status \in 0..4, cur \in Nat
  PROVE  Single(status, cur) \in Seq(Message) /\ Single(status, cur) # <<>>
<1>1. Frame(status, 0, cur, 0, 0) \in Message
  BY DEF Frame, Message, Byte
<1> QED BY <1>1 DEF Single

(* Each action of the Saturn keeps the types: one lemma for the reads, one *)
(* for the handlers.                                                       *)
LEMMA SaturnReadTypes ==
  TypeInv /\ (Poll \/ ReadHeaderByte \/ ReadHeader \/ ReadPayload \/ Drain) => TypeInv'
<1> SUFFICES ASSUME TypeInv, Poll \/ ReadHeaderByte \/ ReadHeader \/ ReadPayload \/ Drain
             PROVE  TypeInv'
  OBVIOUS
<1>1. CASE Poll
  BY <1>1 DEF Poll, hostVars, TypeInv, TypeOK, Registers
<1>2. CASE ReadHeaderByte
  BY <1>2, ReadOneByte DEF ReadHeaderByte, ReadByte, HeaderSize, hostVars, TypeInv, TypeOK, Registers
<1>3. CASE ReadHeader
  <2>1. buf' \in Seq(Byte) /\ Len(buf') = 7 /\ PayloadLen(buf') \in Nat
    <3>1. buf' \in Seq(Byte) /\ Len(buf') = 7
      BY <1>3, ReadOneByte DEF ReadHeader, ReadByte, HeaderSize
    <3> QED BY <3>1, PayloadLenType
  <2>2. Single(BadRequest, cur) \in Seq(Message) /\ Single(BadRequest, cur) # <<>>
    BY SingleType DEF BadRequest, TypeInv, TypeOK
  <2>3. rd' \in 0..wr /\ UNCHANGED <<stream, wr, toHost, cur, crc, file, hostVars>>
    BY <1>3, ReadOneByte DEF ReadHeader, ReadByte
  <2>4. CASE ~GoodMagic(buf')
    <3>1. spc' = "write" /\ reply' = Single(BadRequest, cur) /\ then' = "poll" /\ need' = need
      BY <1>3, <2>4 DEF ReadHeader, Answer
    <3> QED BY <2>1, <2>2, <2>3, <3>1 DEF hostVars, TypeInv, TypeOK, Registers
  <2>5. CASE GoodMagic(buf')
    <3>1. /\ need' = PayloadLen(buf')
          /\ spc' = IF PayloadLen(buf') > MaxRequestBytes THEN "drain"
                    ELSE IF PayloadLen(buf') > 0 THEN "payload"
                    ELSE "dispatch"
          /\ UNCHANGED <<reply, then>>
      BY <1>3, <2>5 DEF ReadHeader, TooLong, HasPayload
    <3>2. spc = "header"
      BY <1>3 DEF ReadHeader
    <3>3. spc' \in {"payload", "drain"} => need' > 0
      BY <2>1, <3>1, CapacityAssumption
    <3> QED BY <2>1, <2>3, <3>1, <3>2, <3>3 DEF hostVars, TypeInv, TypeOK, Registers
  <2> QED BY <2>4, <2>5
<1>4. CASE ReadPayload
  BY <1>4 DEF ReadPayload, ReadByte, hostVars, TypeInv, TypeOK, Registers
<1>5. CASE Drain
  <2>1. Single(BadRequest, cur) \in Seq(Message) /\ Single(BadRequest, cur) # <<>>
    BY SingleType DEF BadRequest, TypeInv, TypeOK
  <2>2. CASE need = 1
    BY <1>5, <2>1, <2>2 DEF Drain, ReadByte, Answer, hostVars, TypeInv, TypeOK, Registers
  <2>3. CASE need # 1
    BY <1>5, <2>3 DEF Drain, ReadByte, hostVars, TypeInv, TypeOK, Registers
  <2> QED BY <2>2, <2>3
<1> QED BY <1>1, <1>2, <1>3, <1>4, <1>5

LEMMA SaturnHandlerTypes ==
  TypeInv /\ (Dispatch \/ BeginUpload \/ DoDownload \/ ReadSize \/ ReadData
              \/ ReadChecksum \/ Write) => TypeInv'
<1> SUFFICES ASSUME TypeInv,
                    Dispatch \/ BeginUpload \/ DoDownload \/ ReadSize \/ ReadData
                      \/ ReadChecksum \/ Write
             PROVE  TypeInv'
  OBVIOUS
<1>1. CASE Dispatch
  <2>1. PICK status \in Outcomes(Cmd) \ {Handled} : Answer(Reply(status), "poll")
    BY <1>1 DEF Dispatch
  <2>2. status \in 0..4
    BY DEF Outcomes, Ok, Error, Unsupported, BadRequest, Handled
  <2>3. Frame(Ok, 0, cur, 0, 1) \in Message /\ Frame(Ok, 0, cur, 1, 0) \in Message
    BY DEF Frame, Message, Ok, Byte, TypeInv, TypeOK
  <2>4. reply' \in Seq(Message) /\ reply' # <<>> /\ spc' = "write" /\ then' = "poll"
    <3>1. /\ reply' = IF Cmd = List /\ status = Ok
                       THEN <<Frame(Ok, 0, cur, 0, 1), Frame(Ok, 0, cur, 1, 0)>>
                       ELSE Single(status, cur)
          /\ spc' = "write" /\ then' = "poll"
      BY <2>1 DEF Answer, Reply
    <3>2. Single(status, cur) \in Seq(Message) /\ Single(status, cur) # <<>>
      BY <2>2, SingleType DEF TypeInv, TypeOK
    <3>3. /\ <<Frame(Ok, 0, cur, 0, 1), Frame(Ok, 0, cur, 1, 0)>> \in Seq(Message)
          /\ <<Frame(Ok, 0, cur, 0, 1), Frame(Ok, 0, cur, 1, 0)>> # <<>>
      BY <2>3
    <3> QED BY <3>1, <3>2, <3>3
  <2> QED BY <1>1, <2>4 DEF Dispatch, hostVars, TypeInv, TypeOK, Registers
<1>2. CASE BeginUpload
  <2>1. Frame(Ok, 0, cur, 0, 1) \in Message
    BY DEF Frame, Message, Ok, Byte, TypeInv, TypeOK
  <2>2. reply' \in Seq(Message) /\ reply' # <<>> /\ spc' = "write" /\ then' = "size"
    BY <1>2, <2>1 DEF BeginUpload, Answer
  <2>3. crc' \in Byte /\ buf' = <<>> /\ file' = <<>>
    BY <1>2, NatIsByte DEF BeginUpload
  <2> QED BY <1>2, <2>2, <2>3 DEF BeginUpload, hostVars, TypeInv, TypeOK, Registers
<1>3. CASE DoDownload
  <2>1. PICK size \in FileSizes, sent \in Nat :
          Answer([i \in 1..(sent + 2) |->
                    IF i = 1 THEN Frame(Ok, size, cur, 0, sent + 1)
                             ELSE Raw(0, cur, i - 1, sent + 2 - i)], "poll")
    <3>1. \A size \in FileSizes : size \in Nat
      BY HostInputAssumption
    <3>2. \A size \in Nat : (\A sent \in 0..size : sent \in Nat) /\ size \in 0..size
      OBVIOUS
    <3> QED BY <1>3, <3>1, <3>2 DEF DoDownload
  <2>2. reply' = [i \in 1..(sent + 2) |->
                    IF i = 1 THEN Frame(Ok, size, cur, 0, sent + 1)
                             ELSE Raw(0, cur, i - 1, sent + 2 - i)]
    BY <2>1 DEF Answer
  <2>3. \A i \in 1..(sent + 2) : reply'[i] \in Message
    <3>1. size \in Nat /\ cur \in Nat
      BY HostInputAssumption DEF TypeInv, TypeOK
    <3>2. Frame(Ok, size, cur, 0, sent + 1) \in Message
      BY <3>1 DEF Frame, Message, Ok, Byte
    <3>3. \A i \in 2..(sent + 2) : Raw(0, cur, i - 1, sent + 2 - i) \in Message
      BY <3>1 DEF Raw, Message, Byte
    <3>4. ASSUME NEW i \in 1..(sent + 2) PROVE reply'[i] \in Message
      <4>1. i = 1 \/ i \in 2..(sent + 2)
        OBVIOUS
      <4> QED BY <2>2, <3>2, <3>3, <4>1
    <3> QED BY <3>4
  <2>4. reply' \in Seq(Message) /\ Len(reply') = sent + 2
    BY <2>2, <2>3
  <2>5. reply' # <<>> /\ spc' = "write" /\ then' = "poll"
    BY <2>1, <2>4 DEF Answer
  <2> QED BY <1>3, <2>4, <2>5 DEF DoDownload, hostVars, TypeInv, TypeOK, Registers
<1>4. CASE ReadSize
  <2>1. buf' \in Seq(Byte) /\ Len(buf') = Len(buf) + 1
    BY <1>4, ReadOneByte DEF ReadSize, ReadByte
  <2>2. Len(buf') = 4 => FileSize(buf') \in Nat
    BY <2>1, FileSizeType
  <2>3. CASE Len(buf) + 1 < 4
    BY <1>4, <2>1, <2>3, ReadOneByte DEF ReadSize, ReadByte, hostVars, TypeInv, TypeOK, Registers
  <2>4. CASE ~(Len(buf) + 1 < 4)
    <3>1. Len(buf') = 4
      BY <1>4, <2>1, <2>4 DEF ReadSize, TypeInv, TypeOK, Registers
    <3> QED BY <1>4, <2>1, <2>2, <2>4, <3>1, ReadOneByte
          DEF ReadSize, ReadByte, hostVars, TypeInv, TypeOK, Registers
  <2> QED BY <2>3, <2>4
<1>5. CASE ReadData
  BY <1>5, CrcAssumption, ReadOneByte DEF ReadData, ReadByte, hostVars, TypeInv, TypeOK, Registers
<1>6. CASE ReadChecksum
  <2>1. reply' \in Seq(Message) /\ reply' # <<>> /\ spc' = "write" /\ then' = "poll"
    <3>1. PICK b \in 0..1 : reply' = <<Raw(b, cur, 1, 0)>>
      BY <1>6 DEF ReadChecksum, Answer
    <3>2. Raw(b, cur, 1, 0) \in Message
      BY DEF Raw, Message, Byte, TypeInv, TypeOK
    <3> QED BY <1>6, <3>1, <3>2 DEF ReadChecksum, Answer
  <2> QED BY <1>6, <2>1, ReadOneByte DEF ReadChecksum, ReadByte, hostVars, TypeInv, TypeOK, Registers
<1>7. CASE Write
  <2>1. reply # <<>> /\ Len(reply) > 0 /\ Head(reply) \in Message
    BY <1>7 DEF Write, TypeInv, TypeOK, Registers
  <2>2. reply' \in Seq(Message) /\ Len(reply') = Len(reply) - 1
    BY <1>7, <2>1 DEF Write, TypeInv, TypeOK, Registers
  <2>3. Len(reply) = 1 <=> reply' = <<>>
    <3>1. reply \in Seq(Message) /\ reply' = Tail(reply)
      BY <1>7 DEF Write, TypeInv, TypeOK
    <3> QED BY <2>1, <3>1, OneLeft
  <2>4. toHost' \in Seq(Message)
    BY <1>7, <2>1, AppendProperties DEF Write, TypeInv, TypeOK
  <2>5. spc' \in {"poll", "size", "write"} /\ (spc' = "write" <=> reply' # <<>>)
    BY <1>7, <2>3 DEF Write, TypeInv, TypeOK
  <2>6. spc' = "size" => Len(buf) = 0
    BY <1>7, EmptySeq DEF Write, TypeInv, TypeOK, Registers
  <2>7. UNCHANGED <<stream, wr, rd, cur, buf, need, crc, file, then, hostVars>> /\ spc = "write"
    BY <1>7 DEF Write
  <2> QED BY <2>2, <2>4, <2>5, <2>6, <2>7 DEF hostVars, TypeInv, TypeOK, Registers
<1> QED BY <1>1, <1>2, <1>3, <1>4, <1>5, <1>6, <1>7

LEMMA Below == \A m \in Nat : \A n \in 0..(m - 1) : n \in Nat /\ n < m
OBVIOUS

(* The payload lengths of two bytes. *)
LEMMA WordFits == \A n \in 0..(256 * 256 - 1) : n \in Nat /\ n < 256 * 256
<1> DEFINE m == 256 * 256
<1>1. m \in Nat
  OBVIOUS
<1> HIDE DEF m
<1>2. \A n \in 0..(m - 1) : n \in Nat /\ n < m
  BY <1>1, Below, Zenon
<1> USE DEF m
<1> QED BY <1>2, Zenon

LEMMA FourBytes ==
  ASSUME NEW a \in Byte, NEW b \in Byte, NEW c \in Byte, NEW d \in Byte
  PROVE  <<a, b, c, d>> \in Seq(Byte) /\ Len(<<a, b, c, d>>) = 4
OBVIOUS

LEMMA SevenBytes ==
  ASSUME NEW a \in Byte, NEW b \in Byte, NEW c \in Byte, NEW d \in Byte,
         NEW e \in Byte, NEW f \in Byte, NEW g \in Byte
  PROVE  <<a, b, c, d, e, f, g>> \in Seq(Byte)
OBVIOUS

LEMMA SizeBytesType ==
  ASSUME NEW n \in Nat, n < 256 * 256 * 256
  PROVE  SizeBytes(n) \in Seq(Byte) /\ Len(SizeBytes(n)) = 4
<1>1. n \div (256 * 256) \in 0..255
  OBVIOUS
<1>2. (n \div 256) % 256 \in 0..255 /\ n % 256 \in 0..255
  OBVIOUS
<1>3. 0 \in Byte /\ n \div (256 * 256) \in Byte /\ (n \div 256) % 256 \in Byte /\ n % 256 \in Byte
  BY <1>1, <1>2 DEF Byte
<1> DEFINE high == n \div (256 * 256)
           mid == (n \div 256) % 256
           low == n % 256
<1>4. SizeBytes(n) = <<0, high, mid, low>>
  BY DEF SizeBytes
<1>5. 0 \in Byte /\ high \in Byte /\ mid \in Byte /\ low \in Byte
  BY <1>3
<1> HIDE DEF high, mid, low
<1>6. <<0, high, mid, low>> \in Seq(Byte) /\ Len(<<0, high, mid, low>>) = 4
  BY <1>5, FourBytes
<1> QED BY <1>4, <1>6, Zenon

(* Each action of the host keeps the types. *)
LEMMA HostTypes ==
  ASSUME TypeInv,
         \/ \E good \in BOOLEAN, cmd \in RequestCommands, len \in PayloadLengths :
              HostRequest(good, cmd, len)
         \/ HostPut \/ HostReads \/ HostAbort \/ HostDone
  PROVE  TypeInv'
<1>1. ASSUME NEW good \in BOOLEAN, NEW cmd \in RequestCommands, NEW len \in PayloadLengths,
             HostRequest(good, cmd, len)
      PROVE  TypeInv'
  <2>1. Header(good, cmd, len) \in Seq(Byte) /\ Payload(len) \in Seq(Byte)
    <3>0. len \in 0..(256 * 256 - 1) /\ cmd \in Byte
      BY HostInputAssumption, Zenon
    <3>1. len \in Nat /\ len < 256 * 256 /\ cmd \in Byte
      BY <3>0, WordFits, Zenon
    <3>2. len \div 256 \in 0..255 /\ len % 256 \in 0..255
      BY <3>1
    <3>3. Header(good, cmd, len) \in Seq(Byte)
      <4>1. /\ 83 \in Byte /\ 82 \in Byte /\ 76 \in Byte /\ (IF good THEN 49 ELSE 50) \in Byte
            /\ len \div 256 \in Byte /\ len % 256 \in Byte
        BY <3>2 DEF Byte
      <4> DEFINE fourth == IF good THEN 49 ELSE 50
                 high == len \div 256
                 low == len % 256
      <4>2. Header(good, cmd, len) = <<83, 82, 76, fourth, cmd, high, low>>
        BY DEF Header
      <4>3. fourth \in Byte /\ high \in Byte /\ low \in Byte
        BY <4>1
      <4> HIDE DEF fourth, high, low
      <4>4. <<83, 82, 76, fourth, cmd, high, low>> \in Seq(Byte)
        BY <3>1, <4>1, <4>3, SevenBytes
      <4> QED BY <4>2, <4>4, Zenon
    <3>4. Payload(len) \in Seq(Byte)
      <4>1. PayloadByte \in Byte
        BY HostInputAssumption, Zenon
      <4> QED BY <3>1, <4>1 DEF Payload
    <3> QED BY <3>3, <3>4
  <2>2. stream' \in Seq(Byte) /\ Len(stream') >= Len(stream)
    <3>1. stream' = stream \o Header(good, cmd, len) \o Payload(len)
      BY <1>1 DEF HostRequest
    <3>2. stream \in Seq(Byte)
      BY DEF TypeInv, TypeOK
    <3> QED BY <2>1, <3>1, <3>2
  <2> DEFINE r == [at |-> Len(stream), good |-> good, cmd |-> cmd, len |-> len,
                   raw |-> FALSE, data |-> <<>>, sum |-> 0]
  <2>3. r \in Request
    <3>1. cmd \in Byte /\ len \in 0..(256 * 256 - 1)
      BY HostInputAssumption
    <3>2. Len(stream) \in Nat /\ <<>> \in Seq(Byte) /\ 0 \in Byte
      BY NatIsByte DEF TypeInv, TypeOK
    <3> QED BY <3>1, <3>2, Zenon DEF Request
  <2>4. requests' \in Seq(Request) /\ Len(requests') = Len(requests) + 1
    BY <2>3, <1>1 DEF HostRequest, TypeInv, TypeOK
  <2>5. UNCHANGED <<wr, rd, toHost, spc, buf, need, crc, file, reply, then, ack, hpc, left>>
    BY <1>1 DEF HostRequest
  <2>6. cut' \in BOOLEAN /\ base' \in Nat /\ cur' \in Nat /\ base' <= Len(requests)
    <3>1. /\ Len(requests) \in Nat /\ base \in Nat /\ cur \in Nat /\ cut \in BOOLEAN
          /\ base <= Len(requests)
      BY DEF TypeInv, TypeOK, Registers
    <3>2. Len(requests) <= Len(requests)
      BY <3>1
    <3>3. CASE cut' = FALSE /\ base' = Len(requests) /\ cur' = Len(requests)
      BY <3>1, <3>2, <3>3, Zenon
    <3>4. CASE UNCHANGED <<cut, base, cur>>
      BY <3>1, <3>4, Zenon
    <3> QED BY <1>1, <3>3, <3>4 DEF HostRequest
  <2>7. Len(requests) \in Nat /\ ack' # Len(requests') /\ ack' \in 0..Len(requests')
    BY <2>4, <2>5 DEF TypeInv, TypeOK
  <2>8. wr \in 0..Len(stream')
    BY <2>2 DEF TypeInv, TypeOK
  <2> QED BY <2>2, <2>4, <2>5, <2>6, <2>7, <2>8 DEF TypeInv, TypeOK, Registers
<1>2. CASE HostPut
  BY <1>2 DEF HostPut, hostVars, saturnVars, TypeInv, TypeOK, Registers
<1>3. CASE HostTakeFrame
  <2>1. toHost' \in Seq(Message) /\ Head(toHost) \in Message /\ Head(toHost).size \in Nat
    <3>1. toHost \in Seq(Message) /\ toHost # <<>> /\ toHost' = Tail(toHost)
      BY <1>3 DEF HostTakeFrame, TypeInv, TypeOK
    <3>2. Head(toHost) \in Message /\ toHost' \in Seq(Message)
      BY <3>1
    <3> QED BY <3>2 DEF Message
  <2>2. Oldest \in Request /\ ack + 1 \in 1..Len(requests)
    <3>1. ack < Len(requests)
      BY <1>3 DEF HostTakeFrame
    <3>2. requests \in Seq(Request) /\ ack + 1 \in 1..Len(requests)
      BY <3>1 DEF TypeInv, TypeOK
    <3> QED BY <3>2, ElementOfSeq DEF Oldest
  <2>3. UNCHANGED <<wr, rd, saturnVars, cut, base>>
    BY <1>3 DEF HostTakeFrame
  <2>4. CASE UNCHANGED <<stream, requests, ack>> /\ hpc' \in {"sentinel", "raw"}
             /\ left' \in {left, Head(toHost).size + 1}
    <3>1. left' \in Nat /\ ack' # Len(requests')
      BY <2>1, <2>2, <2>4 DEF TypeInv, TypeOK
    <3> QED BY <2>1, <2>3, <2>4, <3>1 DEF saturnVars, TypeInv, TypeOK, Registers
  <2>5. CASE Answered /\ UNCHANGED <<stream, requests>>
    <3>1. ack' \in 0..Len(requests)
      BY <2>2, <2>5 DEF Answered, TypeInv, TypeOK
    <3> QED BY <2>1, <2>3, <2>5, <3>1 DEF Answered, saturnVars, TypeInv, TypeOK, Registers
  <2>6. ASSUME NEW data \in UploadFiles, NEW sum \in Byte,
               stream' = stream \o SizeBytes(Len(data)) \o data \o <<sum>>,
               requests' = [requests EXCEPT ![ack + 1] =
                 [@ EXCEPT !.raw = TRUE, !.data = data, !.sum = sum]],
               hpc' = "result", UNCHANGED <<ack, left>>
        PROVE  TypeInv'
    <3>1. data \in Seq(Byte) /\ SizeBytes(Len(data)) \in Seq(Byte)
      <4>1. data \in Seq(Byte) /\ Len(data) < 256 * 256 * 256
        BY HostInputAssumption, Zenon
      <4>2. Len(data) \in Nat
        BY <4>1
      <4> QED BY <4>1, <4>2, SizeBytesType
    <3>2. stream' \in Seq(Byte) /\ Len(stream') >= Len(stream)
      <4>1. stream \in Seq(Byte)
        BY DEF TypeInv, TypeOK
      <4> QED BY <2>6, <3>1, <4>1
    <3>3. [requests[ack + 1] EXCEPT !.raw = TRUE, !.data = data, !.sum = sum] \in Request
      BY <2>2, <3>1, Zenon DEF Request, Oldest
    <3>4. requests' \in Seq(Request) /\ Len(requests') = Len(requests)
      BY <2>2, <2>6, <3>3 DEF TypeInv, TypeOK
    <3>5. ack # Len(requests) /\ ack \in 0..Len(requests) /\ left \in Nat
      BY <2>2 DEF TypeInv, TypeOK
    <3>6. wr \in 0..Len(stream')
      BY <3>2 DEF TypeInv, TypeOK
    <3> QED BY <2>1, <2>3, <2>6, <3>2, <3>4, <3>5, <3>6 DEF saturnVars, TypeInv, TypeOK, Registers
  <2> QED BY <1>3, <2>4, <2>5, <2>6 DEF HostTakeFrame
<1>4. CASE HostTakeRest
  <2>1. toHost' \in Seq(Message)
    BY <1>4 DEF HostTakeRest, TypeInv, TypeOK
  <2>2. /\ ack' \in {ack, ack + 1}
        /\ ack' = ack => hpc' = hpc /\ left' = left - 1 /\ left > 1
        /\ ack' = ack + 1 => hpc' = "frame" /\ left' = 0
    BY <1>4 DEF HostTakeRest, Answered, TypeInv, TypeOK
  <2>3. ack < Len(requests) /\ UNCHANGED <<stream, wr, rd, saturnVars, requests, cut, base>>
    BY <1>4 DEF HostTakeRest
  <2> QED BY <2>1, <2>2, <2>3 DEF saturnVars, TypeInv, TypeOK, Registers
<1>5. CASE HostDiscard
  BY <1>5 DEF HostDiscard, hostVars, saturnVars, TypeInv, TypeOK, Registers
<1>6. CASE HostAbort
  <2>1. stream' \in Seq(Byte) /\ Len(stream') = wr
    BY <1>6 DEF HostAbort, TypeInv, TypeOK
  <2> QED BY <1>6, <2>1 DEF HostAbort, saturnVars, TypeInv, TypeOK, Registers
<1>7. CASE HostDone
  BY <1>7 DEF HostDone, vars, hostVars, saturnVars, TypeInv, TypeOK, Registers
<1> QED BY <1>1, <1>2, <1>3, <1>4, <1>5, <1>6, <1>7 DEF HostReads

LEMMA InitTypes == Init => TypeInv
<1> SUFFICES ASSUME Init PROVE TypeInv
  OBVIOUS
<1>1. <<>> \in Seq(Byte) /\ <<>> \in Seq(Message) /\ <<>> \in Seq(Request)
      /\ Len(<<>>) = 0 /\ 0 \in Byte
  BY NatIsByte
<1>2. ack \in 0..Len(requests) /\ wr \in 0..Len(stream) /\ rd \in 0..wr
  BY <1>1 DEF Init
<1>3. TypeOK
  BY <1>1, <1>2, Zenon DEF Init, TypeOK
<1>4. Registers
  BY <1>1 DEF Init, Registers
<1> QED BY <1>3, <1>4 DEF TypeInv

LEMMA NextTypes == TypeInv /\ [Next]_vars => TypeInv'
<1>1. CASE UNCHANGED vars
  BY <1>1 DEF vars, saturnVars, hostVars, TypeInv, TypeOK, Registers
<1> QED BY <1>1, HostTypes, SaturnReadTypes, SaturnHandlerTypes DEF Next, Saturn

(* The state always has the types TypeOK gives it. *)
THEOREM TypeCorrect == Spec => []TypeOK
<1>1. TypeInv => TypeOK
  BY DEF TypeInv
<1> QED BY <1>1, InitTypes, NextTypes, PTL DEF Spec

-----------------------------------------------------------------------------
(***************************************************************************)
(* That the two ends of the link stay in step, first part: what that means *)
(* of the state (InStep), and that the Saturn keeps it: its reads of a     *)
(* frame, the dispatcher, the raw phases of upload and download and its    *)
(* writes.  HostIoFramingProofs goes on with the host.                     *)
(***************************************************************************)

(* The requests of this life of the host, the place in the stream where    *)
(* request k begins, and where its raw phase does.                         *)
Asked == base + 1 .. Len(requests)
Start(k) == IF k <= Len(requests) THEN requests[k].at ELSE Len(stream)
RawAt(r) == r.at + HeaderSize + r.len

(* The bytes of request r are in the stream s at their places.             *)
Written(s, r) ==
  /\ \A j \in 1..7 : s[r.at + j] = Header(r.good, r.cmd, r.len)[j]
  /\ r.raw =>
       /\ \A j \in 1..4 : s[RawAt(r) + j] = SizeBytes(Len(r.data))[j]
       /\ \A j \in 1..Len(r.data) : s[RawAt(r) + 4 + j] = r.data[j]

(* The requests lie in the stream one after the other.                     *)
Layout ==
  \A k \in Asked :
    /\ requests[k].good \/ requests[k].len = 0
    /\ EndOf(requests[k]) = Start(k + 1)
    /\ EndOf(requests[k]) <= Len(stream)
    /\ Written(stream, requests[k])

(* An upload is the last request until its result is in, and its raw phase *)
(* begins when the host has its Ok.                                        *)
Uploading ==
  /\ base <= ack
  /\ \A k \in Asked :
       /\ requests[k].cmd = Upload /\ k < Len(requests) => k <= ack
       /\ requests[k].raw =>
            /\ requests[k].cmd = Upload /\ Len(requests[k].data) < 256 * 256 * 256
            /\ k <= ack \/ (k = ack + 1 /\ hpc = "result")

(* Where the Saturn stands in the stream while it reads the frame of the   *)
(* request r, in the raw phase of an upload, and while it answers.         *)
InFrame(r) ==
  /\ spc \in {"header", "payload", "drain", "dispatch"} => ~r.raw
  /\ spc = "header" =>
       /\ rd = r.at + Len(buf)
       /\ \A j \in 1..Len(buf) : buf[j] = Header(r.good, r.cmd, r.len)[j]
  /\ spc \in {"payload", "drain", "dispatch"} => r.good /\ Cmd = r.cmd
  /\ spc \in {"payload", "drain"} => rd + need = RawAt(r)
  /\ spc = "payload" => r.len <= MaxRequestBytes
  /\ spc = "dispatch" => rd = RawAt(r) /\ r.len <= MaxRequestBytes

RawPhase(r) ==
  /\ spc = "size" =>
       /\ rd = RawAt(r) + Len(buf)
       /\ ~r.raw => buf = <<>>
       /\ \A j \in 1..Len(buf) : buf[j] = SizeBytes(Len(r.data))[j]
  /\ spc = "data" =>
       /\ r.raw
       /\ rd + need + 1 = EndOf(r)
       /\ need + Len(file) = Len(r.data)
       /\ \A j \in 1..Len(file) : file[j] = r.data[j]
  /\ spc = "checksum" => r.raw /\ rd + 1 = EndOf(r) /\ file = r.data

Writing(r) ==
  /\ spc = "write" /\ then = "poll" => rd = EndOf(r) /\ (r.raw => file = r.data)
  /\ spc = "write" /\ then = "size" => rd = RawAt(r) /\ ~r.raw
  /\ spc \in {"size", "data", "checksum"} \/ (spc = "write" /\ then = "size") =>
       r.cmd = Upload /\ r.good
  /\ spc = "size" \/ (spc = "write" /\ then = "size") => file = <<>>

Place ==
  /\ cur \in base..Len(requests)
  /\ spc = "poll" => rd = Start(cur + 1)
  /\ spc # "poll" =>
       cur > base /\ InFrame(requests[cur]) /\ RawPhase(requests[cur]) /\ Writing(requests[cur])

(* The message the Saturn writes next, as far as it is determined.         *)
Coming ==
  IF reply # <<>> THEN [req |-> reply[1].req, pos |-> reply[1].pos, more |-> reply[1].more]
  ELSE IF spc \in {"size", "data", "checksum"} THEN [req |-> cur, pos |-> 1, more |-> 0]
  ELSE [req |-> IF spc = "poll" THEN cur + 1 ELSE cur, pos |-> 0, more |-> 0]

(* The message n is the next after m.                                      *)
Follows(m, n) ==
  IF m.more > 0 THEN n.req = m.req /\ n.pos = m.pos + 1 /\ n.more = m.more - 1
  ELSE n.req = m.req + 1 /\ n.pos = 0

(* The message m is the one the host expects.                              *)
Due(m) ==
  /\ m.req = ack + 1
  /\ m.pos = 0 <=> hpc = "frame"
  /\ hpc \in {"sentinel", "result"} => m.more = 0
  /\ hpc = "raw" => m.more + 1 = left

(* How many messages follow a response frame.                              *)
Rest(m, r) ==
  IF m.val # Ok \/ ~r.good THEN 0
  ELSE IF r.cmd \in {List, Upload} THEN 1
  ELSE IF r.cmd = Download THEN m.size + 1 ELSE 0

(* The message m is one of a right answer to its request.                  *)
Means(m) ==
  /\ m.req \in base + 1..cur
  /\ m.pos = 0 => m.kind = "frame" /\ m.more = Rest(m, requests[m.req])
  /\ m.pos > 0 =>
       /\ m.kind = IF requests[m.req].cmd = List THEN "frame" ELSE "raw"
       /\ requests[m.req].cmd = Upload => requests[m.req].raw

(* What is left of the answer the Saturn writes.                           *)
Replying ==
  /\ \A k \in 1..Len(reply) : reply[k].req = cur /\ Means(reply[k])
  /\ \A k \in 1..Len(reply) - 1 : reply[k].more > 0 /\ Follows(reply[k], reply[k + 1])
  /\ reply # <<>> =>
       reply[Len(reply)].more = IF then = "poll" THEN 0 ELSE 1
  /\ reply # <<>> /\ then = "size" => Len(reply) = 1 /\ reply[1].pos = 0

(* From what the host expects to what the Saturn writes next there is one  *)
(* row of messages, none missing.                                          *)
Channel ==
  /\ \A k \in 1..Len(toHost) : Means(toHost[k])
  /\ \A k \in 1..Len(toHost) - 1 : Follows(toHost[k], toHost[k + 1])
  /\ toHost # <<>> => Due(toHost[1]) /\ Follows(toHost[Len(toHost)], Coming)
  /\ toHost = <<>> => Due(Coming)
  /\ ack + 1 <= Coming.req
  /\ hpc = "sentinel" => requests[ack + 1].cmd = List
  /\ hpc = "raw" => requests[ack + 1].cmd = Download
  /\ hpc = "result" => requests[ack + 1].cmd = Upload /\ requests[ack + 1].raw

Meeting == Layout /\ Uploading /\ Place /\ Replying /\ Channel

(* Both ends are in step, unless the host was cut off and has not started  *)
(* over.                                                                   *)
InStep == TypeInv /\ (~cut => Meeting)

-----------------------------------------------------------------------------
(* What a step leaves alone.                                               *)

LEMMA LayoutKept ==
  ASSUME Layout, UNCHANGED <<stream, requests, base>>
  PROVE  Layout'
<1>1. ASSUME NEW k PROVE Written(stream, requests[k])' <=> Written(stream, requests[k])
  BY DEF Written, RawAt, HeaderSize
<1>2. ASSUME NEW k PROVE EndOf(requests[k])' = EndOf(requests[k]) /\ Start(k)' = Start(k)
  BY DEF EndOf, HeaderSize, Start
<1> QED
  BY <1>1, <1>2 DEF Layout, Asked

LEMMA UploadingKept ==
  ASSUME Uploading, UNCHANGED <<requests, base, ack, hpc>>
  PROVE  Uploading'
BY DEF Uploading, Asked

LEMMA PlaceKept ==
  ASSUME Place, UNCHANGED <<stream, requests, base, rd, spc, cur, buf, need, file, then>>
  PROVE  Place'
BY DEF Place, InFrame, RawPhase, Writing, EndOf, Start, RawAt, HeaderSize, Cmd

LEMMA ReplyingKept ==
  ASSUME Replying, UNCHANGED <<requests, base, cur, reply, then>>
  PROVE  Replying'
BY DEF Replying, Means, Rest, Follows

LEMMA MessageFields ==
  \A m \in Message : m.req \in Nat /\ m.pos \in Nat /\ m.more \in Nat /\ m.size \in Nat
BY DEF Message

LEMMA QueueTypes ==
  ASSUME TypeInv
  PROVE  /\ \A k \in 1..Len(toHost) : toHost[k] \in Message
         /\ \A k \in 1..Len(toHost) :
              toHost[k].req \in Nat /\ toHost[k].pos \in Nat /\ toHost[k].more \in Nat
         /\ \A k \in 1..Len(reply) : reply[k] \in Message
         /\ \A k \in 1..Len(reply) :
              reply[k].req \in Nat /\ reply[k].pos \in Nat /\ reply[k].more \in Nat
<1>1. toHost \in Seq(Message) /\ reply \in Seq(Message)
  BY DEF TypeInv, TypeOK
<1>2. /\ \A k \in 1..Len(toHost) : toHost[k] \in Message
      /\ \A k \in 1..Len(reply) : reply[k] \in Message
  BY <1>1, ElementOfSeq
<1> QED
  BY <1>2, MessageFields, Zenon

LEMMA RequestFields ==
  ASSUME TypeInv, NEW k \in 1..Len(requests)
  PROVE  /\ requests[k] \in Request
         /\ requests[k].at \in Nat /\ requests[k].len \in Nat /\ requests[k].len < 256 * 256
         /\ requests[k].cmd \in Byte /\ requests[k].data \in Seq(Byte) /\ requests[k].sum \in Byte
         /\ requests[k].good \in BOOLEAN /\ requests[k].raw \in BOOLEAN
<1>1. requests[k] \in Request
  BY ElementOfSeq DEF TypeInv, TypeOK
<1>2. /\ requests[k].at \in Nat /\ requests[k].len \in 0..(256 * 256 - 1)
      /\ requests[k].cmd \in Byte /\ requests[k].data \in Seq(Byte) /\ requests[k].sum \in Byte
      /\ requests[k].good \in BOOLEAN /\ requests[k].raw \in BOOLEAN
  BY <1>1, Zenon DEF Request
<1> QED
  BY <1>1, <1>2, WordFits, Zenon

(* The next message of the Saturn becomes known, or stays what it was.     *)
LEMMA ChannelKept ==
  ASSUME TypeInv, Channel, UNCHANGED <<toHost, requests, base, ack, hpc, left>>,
         cur' >= cur, cur' \in Nat,
         Coming'.req = Coming.req, Coming'.pos = Coming.pos,
         Coming.pos # 0 => Coming'.more = Coming.more
  PROVE  Channel'
<1>1. \A k \in 1..Len(toHost) : toHost[k].req \in base + 1..cur => toHost[k].req \in base + 1..cur'
  BY DEF TypeInv, TypeOK
<1>2. \A k \in 1..Len(toHost) : Means(toHost[k])'
  BY <1>1 DEF Channel, Means, Rest
<1>3. \A k \in 1..Len(toHost) : toHost[k].pos \in Nat /\ toHost[k].more \in Nat
  BY QueueTypes
<1>4. Due(Coming) => Due(Coming)'
  BY DEF Due, TypeInv, TypeOK
<1>5. toHost # <<>> => Len(toHost) \in 1..Len(toHost)
  BY EmptySeq, LenProperties DEF TypeInv, TypeOK
<1>6. toHost # <<>> /\ Follows(toHost[Len(toHost)], Coming)
        => Follows(toHost[Len(toHost)], Coming)'
  BY <1>3, <1>5 DEF Follows
<1>7. \A k \in 1..Len(toHost) - 1 :
        Follows(toHost[k], toHost[k + 1]) => Follows(toHost[k], toHost[k + 1])'
  BY DEF Follows
<1>8. toHost # <<>> /\ Due(toHost[1]) => Due(toHost[1])'
  BY DEF Due
<1> QED
  BY <1>2, <1>4, <1>6, <1>7, <1>8 DEF Channel

-----------------------------------------------------------------------------
(* The Saturn reads a frame.                                               *)

LEMMA ComingIs ==
  ASSUME TypeInv
  PROVE  /\ spc = "write" => /\ Coming.req = reply[1].req /\ Coming.pos = reply[1].pos
                             /\ Coming.more = reply[1].more
         /\ spc = "poll" => Coming.req = cur + 1 /\ Coming.pos = 0
         /\ spc \in {"header", "payload", "drain", "dispatch"} => Coming.req = cur /\ Coming.pos = 0
         /\ spc \in {"size", "data", "checksum"} =>
              Coming.req = cur /\ Coming.pos = 1 /\ Coming.more = 0
BY DEF Coming, TypeInv, Registers

(* The steps of the Saturn that write nothing: all but Place is kept.      *)
LEMMA ReadsKeep ==
  ASSUME TypeInv, Meeting, UNCHANGED <<stream, toHost, requests, base, ack, hpc, left, cur, reply, then>>,
         spc # "poll", spc' # "poll",
         (spc \in {"size", "data", "checksum"}) = (spc' \in {"size", "data", "checksum"})
  PROVE  Layout' /\ Uploading' /\ Replying' /\ Channel'
<1>1. Coming' = Coming
  BY DEF Coming
<1>2. cur' >= cur /\ cur' \in Nat
  BY DEF TypeInv, TypeOK
<1> QED
  BY <1>1, <1>2, LayoutKept, UploadingKept, ReplyingKept, ChannelKept DEF Meeting

(* A request whose first byte can be read was made, and is no upload in    *)
(* its raw phase.                                                          *)
LEMMA NextRequest ==
  ASSUME TypeInv, Meeting, spc = "poll", rd < wr
  PROVE  /\ cur + 1 \in base + 1..Len(requests)
         /\ rd = requests[cur + 1].at
         /\ ~requests[cur + 1].raw
<1>1. /\ cur \in base..Len(requests) /\ rd = Start(cur + 1)
      /\ rd < Len(stream) /\ Len(requests) \in Nat /\ base \in Nat /\ ack \in Nat
  BY DEF Meeting, Place, TypeInv, TypeOK
<1>2. cur + 1 <= Len(requests)
  BY <1>1 DEF Start
<1>3. cur + 1 \in base + 1..Len(requests) /\ rd = requests[cur + 1].at
  BY <1>1, <1>2 DEF Start
<1>4. ~(cur + 1 <= ack)
  BY <1>1, ComingIs DEF Meeting, Channel
<1>5. ASSUME cur = ack, hpc = "result" PROVE FALSE
  <2>1. CASE toHost = <<>>
    BY <1>5, <2>1, ComingIs DEF Meeting, Channel, Due
  <2>2. CASE toHost # <<>>
    <3>1. 1 \in 1..Len(toHost)
      BY <2>2, EmptySeq, LenProperties DEF TypeInv, TypeOK
    <3>2. Means(toHost[1]) /\ Due(toHost[1])
      BY <2>2, <3>1 DEF Meeting, Channel
    <3> QED
      BY <1>1, <1>5, <3>2 DEF Means, Due
  <2> QED
    BY <2>1, <2>2
<1>6. requests[cur + 1].raw => cur + 1 <= ack \/ (cur = ack /\ hpc = "result")
  BY <1>1, <1>3 DEF Meeting, Uploading, Asked
<1> QED
  BY <1>3, <1>4, <1>5, <1>6

LEMMA PollMeets == ASSUME TypeInv, Meeting, Poll PROVE Meeting'
<1>1. /\ spc = "poll" /\ rd < wr /\ spc' = "header" /\ cur' = cur + 1 /\ buf' = <<>>
      /\ UNCHANGED <<stream, rd, toHost, need, file, reply, then, requests, base, ack, hpc, left>>
  BY DEF Poll, hostVars
<1>2. /\ cur' \in base + 1..Len(requests)
      /\ rd = requests[cur'].at /\ ~requests[cur'].raw
  BY <1>1, NextRequest
<1>3. reply = <<>> /\ Len(reply) = 0
  BY <1>1, EmptySeq DEF TypeInv, Registers
<1>4. /\ cur' >= cur /\ cur' \in Nat
      /\ Coming'.req = Coming.req /\ Coming'.pos = Coming.pos /\ Coming.pos = 0
  BY <1>1, <1>3 DEF Coming, TypeInv, TypeOK
<1>5. Channel'
  BY <1>1, <1>4, ChannelKept DEF Meeting
<1>6. Replying'
  BY <1>1, <1>3 DEF Replying
<1>7. Place'
  <2>1. cur' \in base..Len(requests) /\ cur' > base /\ rd = requests[cur'].at + 0
    <3>1. base \in Nat /\ Len(requests) \in Nat
      BY DEF TypeInv, TypeOK
    <3>2. cur' \in 1..Len(requests)
      BY <1>2, <3>1
    <3> QED
      BY <1>2, <3>1, <3>2, RequestFields
  <2>2. buf' = <<>> /\ Len(buf') = 0
    BY <1>1
  <2>3. InFrame(requests[cur])'
    BY <1>1, <1>2, <2>1, <2>2 DEF InFrame
  <2>4. RawPhase(requests[cur])' /\ Writing(requests[cur])'
    BY <1>1 DEF RawPhase, Writing
  <2> QED
    BY <1>1, <2>1, <2>3, <2>4 DEF Place
<1> QED
  BY <1>1, <1>5, <1>6, <1>7, LayoutKept, UploadingKept DEF Meeting

(* What is known of the request being handled.                             *)
LEMMA Current ==
  ASSUME TypeInv, Meeting, spc # "poll"
  PROVE  /\ cur \in Asked /\ cur \in 1..Len(requests) /\ cur \in base..Len(requests) /\ cur > base
         /\ requests[cur].good \/ requests[cur].len = 0
         /\ EndOf(requests[cur]) = Start(cur + 1)
         /\ EndOf(requests[cur]) <= Len(stream)
         /\ Written(stream, requests[cur])
         /\ InFrame(requests[cur]) /\ RawPhase(requests[cur]) /\ Writing(requests[cur])
<1>1. /\ cur \in base..Len(requests) /\ cur > base
      /\ InFrame(requests[cur]) /\ RawPhase(requests[cur]) /\ Writing(requests[cur])
  BY DEF Meeting, Place
<1>2. base \in Nat /\ Len(requests) \in Nat
  BY DEF TypeInv, TypeOK
<1>3. cur \in base + 1..Len(requests) /\ cur \in 1..Len(requests)
  BY <1>1, <1>2
<1> QED
  BY <1>1, <1>3 DEF Meeting, Layout, Asked

(* A step within one request: the place of the Saturn in it is what        *)
(* remains to be shown.                                                    *)
LEMMA WithinRequest ==
  ASSUME TypeInv, Meeting, spc # "poll", spc' # "poll",
         UNCHANGED <<stream, requests, base, cur>>,
         InFrame(requests[cur])', RawPhase(requests[cur])', Writing(requests[cur])'
  PROVE  Place'
BY Current DEF Place

LEMMA HeaderMeaning ==
  ASSUME NEW good \in BOOLEAN, NEW cmd, NEW len \in Nat, len < 256 * 256,
         NEW h, \A j \in 1..7 : h[j] = Header(good, cmd, len)[j]
  PROVE  (GoodMagic(h) <=> good) /\ h[5] = cmd /\ PayloadLen(h) = len
<1>1. /\ h[1] = 83 /\ h[2] = 82 /\ h[3] = 76 /\ h[4] = (IF good THEN 49 ELSE 50)
      /\ h[5] = cmd /\ h[6] = len \div 256 /\ h[7] = len % 256
  BY DEF Header
<1>2. GoodMagic(h) <=> h[1] = 83 /\ h[2] = 82 /\ h[3] = 76 /\ h[4] = 49
  BY DEF GoodMagic, Magic
<1>3. (len \div 256) * 256 + (len % 256) = len
  OBVIOUS
<1> QED
  BY <1>1, <1>2, <1>3 DEF PayloadLen

(* One more byte is read, at its place.                                    *)
LEMMA OneMore ==
  ASSUME NEW S, NEW s \in Seq(S), NEW b \in S, NEW F,
         \A j \in 1..Len(s) : s[j] = F[j], b = F[Len(s) + 1]
  PROVE  \A j \in 1..Len(Append(s, b)) : Append(s, b)[j] = F[j]
<1>1. /\ Len(Append(s, b)) = Len(s) + 1 /\ Len(s) \in Nat
      /\ Append(s, b)[Len(s) + 1] = b
      /\ \A j \in 1..Len(s) : Append(s, b)[j] = s[j]
  BY AppendProperties
<1>2. \A j \in 1..Len(s) + 1 : j \in 1..Len(s) \/ j = Len(s) + 1
  BY <1>1
<1> QED
  BY <1>1, <1>2, Zenon

LEMMA HeaderByteReads ==
  ASSUME TypeInv, Meeting, spc = "header", rd < wr,
         buf' = Append(buf, stream[rd + 1]), rd' = rd + 1,
         UNCHANGED <<stream, requests, cur>>
  PROVE  /\ Len(buf') = Len(buf) + 1 /\ buf' \in Seq(Byte)
         /\ rd' = requests[cur].at + Len(buf')
         /\ \A j \in 1..Len(buf') :
              buf'[j] = Header(requests[cur].good, requests[cur].cmd, requests[cur].len)[j]
<1>0. cur \in 1..Len(requests) /\ InFrame(requests[cur]) /\ Written(stream, requests[cur])
  BY Current
<1> DEFINE at == requests[cur].at
           H == Header(requests[cur].good, requests[cur].cmd, requests[cur].len)
<1>1. \A j \in 1..Len(buf) : buf[j] = H[j]
  BY <1>0 DEF InFrame
<1>8. \A j \in 1..7 : stream[at + j] = H[j]
  BY <1>0 DEF Written
<1>9. rd = at + Len(buf) /\ at \in Nat
  BY <1>0, RequestFields DEF InFrame
<1> HIDE DEF at, H
<1>2. buf \in Seq(Byte) /\ Len(buf) \in Nat /\ Len(buf) < 7 /\ stream[rd + 1] \in Byte
  BY ReadOneByte DEF TypeInv, TypeOK, Registers
<1>3. buf' \in Seq(Byte) /\ Len(buf') = Len(buf) + 1
  BY ReadOneByte
<1>4. rd + 1 = at + (Len(buf) + 1) /\ Len(buf) + 1 \in 1..7
  BY <1>2, <1>9
<1>5. stream[rd + 1] = H[Len(buf) + 1]
  BY <1>4, <1>8
<1>6. \A j \in 1..Len(buf') : buf'[j] = H[j]
  BY <1>1, <1>2, <1>5, OneMore
<1>7. rd' = at + Len(buf')
  BY <1>3, <1>4
<1> QED
  BY <1>3, <1>6, <1>7 DEF at, H

LEMMA ReadHeaderByteMeets == ASSUME TypeInv, Meeting, ReadHeaderByte PROVE Meeting'
<1>1. /\ spc = "header" /\ spc' = "header" /\ rd < wr /\ rd' = rd + 1
      /\ buf' = Append(buf, stream[rd + 1])
      /\ UNCHANGED <<stream, toHost, cur, need, file, reply, then, requests, base, ack, hpc, left>>
  BY DEF ReadHeaderByte, ReadByte, hostVars
<1>2. Layout' /\ Uploading' /\ Replying' /\ Channel'
  BY <1>1, ReadsKeep
<1>3. ~requests[cur].raw
  BY <1>1, Current DEF InFrame
<1>4. InFrame(requests[cur])'
  BY <1>1, <1>3, HeaderByteReads DEF InFrame
<1>5. RawPhase(requests[cur])' /\ Writing(requests[cur])'
  BY <1>1 DEF RawPhase, Writing
<1>6. Place'
  BY <1>1, <1>4, <1>5, WithinRequest
<1> QED
  BY <1>2, <1>6 DEF Meeting

(* An answer begins: it takes the place of the message that was due.       *)
LEMMA AnswerKeeps ==
  ASSUME TypeInv, Meeting, spc \notin {"poll", "write"},
         UNCHANGED <<stream, toHost, requests, base, ack, hpc, left, cur>>,
         reply' # <<>>, reply'[1].req = cur, reply'[1].pos = Coming.pos,
         Coming.pos # 0 => reply'[1].more = Coming.more
  PROVE  Layout' /\ Uploading' /\ Channel'
<1>1. /\ Coming'.req = cur /\ Coming'.pos = Coming.pos
      /\ Coming.pos # 0 => Coming'.more = Coming.more
  BY DEF Coming
<1>2. Coming.req = cur
  BY ComingIs DEF TypeInv, TypeOK
<1>3. cur' >= cur /\ cur' \in Nat
  BY DEF TypeInv, TypeOK
<1> QED
  BY <1>1, <1>2, <1>3, LayoutKept, UploadingKept, ChannelKept DEF Meeting

LEMMA SingleReplies ==
  ASSUME cur \in base + 1..cur, NEW status,
         status # Ok \/ ~requests[cur].good \/ requests[cur].cmd \notin {List, Upload, Download},
         reply' = Single(status, cur), then' = "poll", UNCHANGED <<requests, base, cur>>
  PROVE  /\ Replying'
         /\ reply' # <<>> /\ reply'[1].req = cur /\ reply'[1].pos = 0
<1>1. /\ Len(reply') = 1 /\ reply' # <<>>
      /\ reply'[1] = Frame(status, 0, cur, 0, 0)
  BY DEF Single
<1>2. /\ reply'[1].req = cur /\ reply'[1].pos = 0 /\ reply'[1].more = 0
      /\ reply'[1].kind = "frame" /\ reply'[1].val = status
  BY <1>1 DEF Frame
<1>3. Means(reply[1])'
  BY <1>2 DEF Means, Rest
<1>4. \A k \in 1..Len(reply') : k = 1
  BY <1>1
<1>5. \A k \in 1..Len(reply') - 1 : FALSE
  BY <1>1
<1>6. (\A k \in 1..Len(reply) : reply[k].req = cur /\ Means(reply[k]))'
  BY <1>2, <1>3, <1>4
<1>7. (\A k \in 1..Len(reply) - 1 : reply[k].more > 0 /\ Follows(reply[k], reply[k + 1]))'
  BY <1>5
<1>8. Replying'
  BY <1>1, <1>2, <1>6, <1>7 DEF Replying
<1> QED
  BY <1>1, <1>2, <1>8

(* The frame is read to its end and refused.                               *)
LEMMA RefusalMeets ==
  ASSUME TypeInv, Meeting, spc \in {"header", "payload", "drain", "dispatch"},
         UNCHANGED <<stream, toHost, requests, base, ack, hpc, left, cur>>,
         NEW status, status # Ok \/ requests[cur].cmd \notin {List, Upload, Download},
         Answer(Single(status, cur), "poll"), rd' = EndOf(requests[cur])
  PROVE  Meeting'
<1>1. cur \in base + 1..cur /\ cur \in 1..Len(requests)
  BY Current DEF TypeInv, TypeOK
<1>2. spc' = "write" /\ reply' = Single(status, cur) /\ then' = "poll"
  BY DEF Answer
<1>3. /\ Replying'
      /\ reply' # <<>> /\ reply'[1].req = cur /\ reply'[1].pos = 0
  BY <1>1, <1>2, SingleReplies
<1>4. Coming.pos = 0
  BY ComingIs
<1>5. Layout' /\ Uploading' /\ Channel'
  BY <1>3, <1>4, AnswerKeeps
<1>6. ~requests[cur].raw
  BY Current DEF InFrame
<1>7. EndOf(requests[cur])' = EndOf(requests[cur])
  BY DEF EndOf, HeaderSize
<1>8. InFrame(requests[cur])' /\ RawPhase(requests[cur])' /\ Writing(requests[cur])'
  BY <1>2, <1>6, <1>7 DEF InFrame, RawPhase, Writing
<1>9. Place'
  BY <1>2, <1>8, WithinRequest
<1> QED
  BY <1>3, <1>5, <1>9 DEF Meeting

LEMMA ReadHeaderMeets == ASSUME TypeInv, Meeting, ReadHeader PROVE Meeting'
<1>1. /\ spc = "header" /\ rd < wr /\ rd' = rd + 1
      /\ buf' = Append(buf, stream[rd + 1]) /\ Len(buf) + 1 = 7
      /\ UNCHANGED <<stream, toHost, cur, requests, base, ack, hpc, left, file>>
  BY DEF ReadHeader, ReadByte, hostVars, HeaderSize
<1>2. /\ Len(buf') = 7 /\ rd' = requests[cur].at + 7
      /\ \A j \in 1..7 :
           buf'[j] = Header(requests[cur].good, requests[cur].cmd, requests[cur].len)[j]
  BY <1>1, HeaderByteReads
<1>3. /\ cur \in 1..Len(requests) /\ ~requests[cur].raw
      /\ requests[cur].good \/ requests[cur].len = 0
  BY <1>1, Current DEF InFrame
<1>4. /\ requests[cur].at \in Nat /\ requests[cur].len \in Nat /\ requests[cur].len < 256 * 256
      /\ requests[cur].good \in BOOLEAN
  BY <1>3, RequestFields
<1>5. /\ GoodMagic(buf') <=> requests[cur].good
      /\ buf'[5] = requests[cur].cmd /\ PayloadLen(buf') = requests[cur].len
  BY <1>2, <1>4, HeaderMeaning
<1>6. CASE ~GoodMagic(buf')
  <2>1. Answer(Single(BadRequest, cur), "poll")
    BY <1>6 DEF ReadHeader
  <2>2. rd' = EndOf(requests[cur])
    BY <1>2, <1>3, <1>4, <1>5, <1>6 DEF EndOf, HeaderSize
  <2> QED
    BY <1>1, <2>1, <2>2, RefusalMeets DEF BadRequest, Ok
<1>7. CASE GoodMagic(buf')
  <2>1. /\ need' = requests[cur].len
        /\ spc' = IF requests[cur].len > MaxRequestBytes THEN "drain"
                  ELSE IF requests[cur].len > 0 THEN "payload" ELSE "dispatch"
        /\ UNCHANGED <<reply, then>>
    BY <1>5, <1>7 DEF ReadHeader, TooLong, HasPayload
  <2>2. Layout' /\ Uploading' /\ Replying' /\ Channel'
    BY <1>1, <2>1, ReadsKeep
  <2>3. rd' = RawAt(requests[cur]) - requests[cur].len /\ RawAt(requests[cur]) \in Nat
    BY <1>2, <1>4 DEF RawAt, HeaderSize
  <2>4. /\ spc' \in {"payload", "drain"} => rd' + need' = RawAt(requests[cur])
        /\ spc' = "payload" => requests[cur].len <= MaxRequestBytes
        /\ spc' = "dispatch" => rd' = RawAt(requests[cur]) /\ requests[cur].len <= MaxRequestBytes
    BY <1>4, <2>1, <2>3, CapacityAssumption
  <2>5. RawAt(requests[cur])' = RawAt(requests[cur])
    BY <1>1 DEF RawAt, HeaderSize
  <2>6. InFrame(requests[cur])'
    BY <1>1, <1>3, <1>5, <1>7, <2>1, <2>4, <2>5 DEF InFrame, Cmd
  <2>7. RawPhase(requests[cur])' /\ Writing(requests[cur])'
    BY <2>1 DEF RawPhase, Writing
  <2>8. Place'
    BY <1>1, <2>1, <2>6, <2>7, WithinRequest
  <2> QED
    BY <2>2, <2>8 DEF Meeting
<1> QED
  BY <1>6, <1>7

LEMMA RawAtType ==
  ASSUME TypeInv, NEW k \in 1..Len(requests)
  PROVE  /\ RawAt(requests[k]) \in Nat
         /\ ~requests[k].raw => EndOf(requests[k]) = RawAt(requests[k])
         /\ requests[k].raw => EndOf(requests[k]) = RawAt(requests[k]) + 4 + Len(requests[k].data) + 1
<1>1. /\ requests[k].at \in Nat /\ requests[k].len \in Nat /\ requests[k].data \in Seq(Byte)
      /\ requests[k].raw \in BOOLEAN
  BY RequestFields
<1>2. Len(requests[k].data) \in Nat
  BY <1>1
<1>3. \A a, l, n \in Nat :
        a + 7 + l \in Nat /\ a + 7 + l + 0 = a + 7 + l /\ a + 7 + l + (4 + n + 1) = a + 7 + l + 4 + n + 1
  OBVIOUS
<1>4. RawAt(requests[k]) \in Nat
  BY <1>1, <1>3, Zenon DEF RawAt, HeaderSize
<1>5. ASSUME ~requests[k].raw PROVE EndOf(requests[k]) = RawAt(requests[k])
  <2>1. (IF requests[k].raw THEN 4 + Len(requests[k].data) + 1 ELSE 0) = 0
    BY <1>5
  <2> QED
    BY <1>1, <1>3, <2>1 DEF RawAt, EndOf, HeaderSize
<1>6. ASSUME requests[k].raw
      PROVE  EndOf(requests[k]) = RawAt(requests[k]) + 4 + Len(requests[k].data) + 1
  <2>1. (IF requests[k].raw THEN 4 + Len(requests[k].data) + 1 ELSE 0)
          = 4 + Len(requests[k].data) + 1
    BY <1>6
  <2>2. EndOf(requests[k]) = RawAt(requests[k]) + (4 + Len(requests[k].data) + 1)
    BY <2>1, Zenon DEF RawAt, EndOf, HeaderSize
  <2> QED
    BY <1>2, <1>4, <2>2
<1> QED
  BY <1>4, <1>5, <1>6

LEMMA EndOfType ==
  ASSUME TypeInv, NEW k \in 1..Len(requests)
  PROVE  EndOf(requests[k]) \in Nat
<1>1. requests[k].data \in Seq(Byte) /\ requests[k].raw \in BOOLEAN
  BY RequestFields
<1>2. Len(requests[k].data) \in Nat
  BY <1>1
<1> QED
  BY <1>1, <1>2, RawAtType

LEMMA ReadPayloadMeets == ASSUME TypeInv, Meeting, ReadPayload PROVE Meeting'
<1>1. /\ spc = "payload" /\ rd' = rd + 1 /\ need' = need - 1
      /\ spc' = IF need = 1 THEN "dispatch" ELSE "payload"
      /\ UNCHANGED <<stream, toHost, cur, buf, file, reply, then, requests, base, ack, hpc, left>>
  BY DEF ReadPayload, ReadByte, hostVars
<1>2. Layout' /\ Uploading' /\ Replying' /\ Channel'
  BY <1>1, ReadsKeep
<1>3. /\ ~requests[cur].raw /\ requests[cur].good /\ Cmd = requests[cur].cmd
      /\ rd + need = RawAt(requests[cur]) /\ requests[cur].len <= MaxRequestBytes
  BY <1>1, Current DEF InFrame
<1>4. rd \in Nat /\ need \in Nat /\ need > 0
  BY <1>1 DEF TypeInv, TypeOK, Registers
<1>5. rd' + need' = RawAt(requests[cur]) /\ (need = 1 => rd' = RawAt(requests[cur]))
  BY <1>1, <1>3, <1>4
<1>6. RawAt(requests[cur])' = RawAt(requests[cur]) /\ Cmd' = Cmd
  BY <1>1 DEF RawAt, HeaderSize, Cmd
<1>7. InFrame(requests[cur])'
  BY <1>1, <1>3, <1>5, <1>6 DEF InFrame
<1>8. RawPhase(requests[cur])' /\ Writing(requests[cur])'
  BY <1>1 DEF RawPhase, Writing
<1>9. Place'
  BY <1>1, <1>7, <1>8, WithinRequest
<1> QED
  BY <1>2, <1>9 DEF Meeting

LEMMA DrainMeets == ASSUME TypeInv, Meeting, Drain PROVE Meeting'
<1>1. /\ spc = "drain" /\ rd' = rd + 1 /\ need' = need - 1
      /\ UNCHANGED <<stream, toHost, cur, buf, file, requests, base, ack, hpc, left>>
  BY DEF Drain, ReadByte, hostVars
<1>2. /\ ~requests[cur].raw /\ requests[cur].good /\ Cmd = requests[cur].cmd
      /\ rd + need = RawAt(requests[cur]) /\ cur \in 1..Len(requests)
  BY <1>1, Current DEF InFrame
<1>3. rd \in Nat /\ need \in Nat /\ need > 0
  BY <1>1 DEF TypeInv, TypeOK, Registers
<1>4. CASE need = 1
  <2>1. Answer(Single(BadRequest, cur), "poll")
    BY <1>4 DEF Drain
  <2>2. rd' = EndOf(requests[cur])
    BY <1>1, <1>2, <1>3, <1>4, RawAtType
  <2> QED
    BY <1>1, <2>1, <2>2, RefusalMeets DEF BadRequest, Ok
<1>5. CASE need # 1
  <2>1. UNCHANGED <<spc, reply, then>>
    BY <1>5 DEF Drain
  <2>2. Layout' /\ Uploading' /\ Replying' /\ Channel'
    BY <1>1, <2>1, ReadsKeep
  <2>3. rd' + need' = RawAt(requests[cur])
    BY <1>1, <1>2, <1>3
  <2>4. RawAt(requests[cur])' = RawAt(requests[cur]) /\ Cmd' = Cmd
    BY <1>1 DEF RawAt, HeaderSize, Cmd
  <2>5. InFrame(requests[cur])'
    BY <1>1, <1>2, <2>1, <2>3, <2>4 DEF InFrame
  <2>6. RawPhase(requests[cur])' /\ Writing(requests[cur])'
    BY <1>1, <2>1 DEF RawPhase, Writing
  <2>7. Place'
    BY <1>1, <2>1, <2>5, <2>6, WithinRequest
  <2> QED
    BY <2>2, <2>7 DEF Meeting
<1> QED
  BY <1>4, <1>5

-----------------------------------------------------------------------------
(* The Saturn answers.                                                     *)

LEMMA Dispatched ==
  ASSUME TypeInv, Meeting, spc = "dispatch"
  PROVE  /\ cur \in 1..Len(requests) /\ cur \in base + 1..cur
         /\ requests[cur].good /\ ~requests[cur].raw /\ Cmd = requests[cur].cmd
         /\ rd = RawAt(requests[cur]) /\ rd = EndOf(requests[cur])
         /\ Coming.pos = 0
<1>1. /\ cur \in 1..Len(requests) /\ cur \in base..Len(requests) /\ cur > base
      /\ requests[cur].good /\ ~requests[cur].raw /\ Cmd = requests[cur].cmd
      /\ rd = RawAt(requests[cur])
  BY Current DEF InFrame
<1>2. cur \in base + 1..cur
  BY <1>1 DEF TypeInv, TypeOK
<1> QED
  BY <1>1, <1>2, RawAtType, ComingIs

(* An answer of several messages, from its first one on.                   *)
LEMMA AnswerPlace ==
  ASSUME TypeInv, Meeting, spc = "dispatch", spc' = "write", then' = "poll",
         UNCHANGED <<stream, toHost, requests, base, ack, hpc, left, cur, rd>>
  PROVE  Place'
<1>1. EndOf(requests[cur])' = EndOf(requests[cur])
  BY DEF EndOf, HeaderSize
<1>2. InFrame(requests[cur])' /\ RawPhase(requests[cur])' /\ Writing(requests[cur])'
  BY <1>1, Dispatched DEF InFrame, RawPhase, Writing
<1> QED
  BY <1>2, WithinRequest

LEMMA DispatchMeets == ASSUME TypeInv, Meeting, Dispatch PROVE Meeting'
<1>1. /\ spc = "dispatch"
      /\ UNCHANGED <<stream, toHost, cur, rd, file, requests, base, ack, hpc, left>>
  BY DEF Dispatch, hostVars
<1>2. PICK status \in Outcomes(Cmd) \ {Handled} : Answer(Reply(status), "poll")
  BY DEF Dispatch
<1>3. status = Ok => Cmd \notin {Upload, Download}
  BY DEF Outcomes, Ok, Error, Unsupported, BadRequest, Handled
<1>4. CASE Cmd = List /\ status = Ok
  <2>1. /\ reply' = <<Frame(Ok, 0, cur, 0, 1), Frame(Ok, 0, cur, 1, 0)>>
        /\ spc' = "write" /\ then' = "poll"
    BY <1>2, <1>4 DEF Answer, Reply
  <2>2. /\ Len(reply') = 2 /\ reply' # <<>>
        /\ reply'[1] = Frame(Ok, 0, cur, 0, 1) /\ reply'[2] = Frame(Ok, 0, cur, 1, 0)
    BY <2>1
  <2>3. /\ reply'[1].kind = "frame" /\ reply'[1].val = Ok /\ reply'[1].req = cur
        /\ reply'[1].pos = 0 /\ reply'[1].more = 1
        /\ reply'[2].kind = "frame" /\ reply'[2].req = cur
        /\ reply'[2].pos = 1 /\ reply'[2].more = 0
    BY <2>2 DEF Frame
  <2>4. Means(reply[1])' /\ Means(reply[2])'
    BY <1>1, <1>4, <2>3, Dispatched DEF Means, Rest, List, Upload
  <2>5. \A k \in 1..Len(reply') : k \in {1, 2}
    BY <2>2
  <2>6. (\A k \in 1..Len(reply) : reply[k].req = cur /\ Means(reply[k]))'
    BY <1>1, <2>3, <2>4, <2>5
  <2>7. (\A k \in 1..Len(reply) - 1 : reply[k].more > 0 /\ Follows(reply[k], reply[k + 1]))'
    BY <2>2, <2>3 DEF Follows
  <2>8. Replying'
    BY <2>1, <2>2, <2>3, <2>6, <2>7 DEF Replying
  <2>9. Layout' /\ Uploading' /\ Channel'
    BY <1>1, <2>2, <2>3, Dispatched, AnswerKeeps
  <2>10. Place'
    BY <1>1, <2>1, AnswerPlace
  <2> QED
    BY <2>8, <2>9, <2>10 DEF Meeting
<1>5. CASE ~(Cmd = List /\ status = Ok)
  <2>1. Answer(Single(status, cur), "poll")
    BY <1>2, <1>5 DEF Reply
  <2>2. status # Ok \/ requests[cur].cmd \notin {List, Upload, Download}
    BY <1>1, <1>3, <1>5, Dispatched
  <2>3. rd' = EndOf(requests[cur])
    BY <1>1, Dispatched
  <2> QED
    BY <1>1, <2>1, <2>2, <2>3, RefusalMeets
<1> QED
  BY <1>4, <1>5

-----------------------------------------------------------------------------
(* The raw phases.                                                         *)

LEMMA BeginUploadMeets == ASSUME TypeInv, Meeting, BeginUpload PROVE Meeting'
<1>1. /\ spc = "dispatch" /\ Cmd = Upload /\ spc' = "write" /\ then' = "size"
      /\ reply' = <<Frame(Ok, 0, cur, 0, 1)>> /\ buf' = <<>> /\ file' = <<>>
      /\ UNCHANGED <<stream, toHost, cur, rd, requests, base, ack, hpc, left>>
  BY DEF BeginUpload, Answer, hostVars
<1>2. Len(reply') = 1 /\ reply' # <<>> /\ reply'[1] = Frame(Ok, 0, cur, 0, 1)
  BY <1>1
<1>3. /\ reply'[1].kind = "frame" /\ reply'[1].val = Ok /\ reply'[1].req = cur
      /\ reply'[1].pos = 0 /\ reply'[1].more = 1
  BY <1>2 DEF Frame
<1>4. Means(reply[1])'
  BY <1>1, <1>3, Dispatched DEF Means, Rest, List, Upload
<1>5. Replying'
  <2>1. \A k \in 1..Len(reply') : k = 1
    BY <1>2
  <2>2. (\A k \in 1..Len(reply) : reply[k].req = cur /\ Means(reply[k]))'
    BY <1>1, <1>3, <1>4, <2>1
  <2>3. (\A k \in 1..Len(reply) - 1 : reply[k].more > 0 /\ Follows(reply[k], reply[k + 1]))'
    BY <1>2
  <2> QED
    BY <1>1, <1>2, <1>3, <2>2, <2>3 DEF Replying
<1>6. Layout' /\ Uploading' /\ Channel'
  BY <1>1, <1>2, <1>3, Dispatched, AnswerKeeps
<1>7. RawAt(requests[cur])' = RawAt(requests[cur])
  BY <1>1 DEF RawAt, HeaderSize
<1>8. InFrame(requests[cur])' /\ RawPhase(requests[cur])' /\ Writing(requests[cur])'
  BY <1>1, <1>7, Dispatched DEF InFrame, RawPhase, Writing
<1>9. Place'
  BY <1>1, <1>8, WithinRequest
<1> QED
  BY <1>5, <1>6, <1>9 DEF Meeting

LEMMA DoDownloadMeets == ASSUME TypeInv, Meeting, ~ReadErrors, DoDownload PROVE Meeting'
<1>1. /\ spc = "dispatch" /\ Cmd = Download
      /\ UNCHANGED <<stream, toHost, cur, rd, file, requests, base, ack, hpc, left>>
  BY DEF DoDownload, hostVars
<1>2. PICK size \in FileSizes :
        Answer([i \in 1..(size + 2) |->
                  IF i = 1 THEN Frame(Ok, size, cur, 0, size + 1)
                           ELSE Raw(0, cur, i - 1, size + 2 - i)], "poll")
  BY DEF DoDownload
<1>3. size \in Nat /\ cur \in Nat
  BY HostInputAssumption DEF TypeInv, TypeOK
<1>4. /\ spc' = "write" /\ then' = "poll"
      /\ reply' = [i \in 1..(size + 2) |->
                     IF i = 1 THEN Frame(Ok, size, cur, 0, size + 1)
                              ELSE Raw(0, cur, i - 1, size + 2 - i)]
  BY <1>2 DEF Answer
<1>5. reply' \in Seq(Message) /\ Len(reply') = size + 2 /\ reply' # <<>>
  <2>1. reply' \in Seq(Message)
    BY NextTypes DEF TypeInv, TypeOK, Next, Saturn
  <2>2. DOMAIN reply' = 1..(size + 2)
    BY <1>4
  <2>3. Len(reply') = size + 2
    BY <1>3, <2>1, <2>2
  <2> QED
    BY <1>3, <2>1, <2>3
<1>6. /\ reply'[1] = Frame(Ok, size, cur, 0, size + 1)
      /\ \A k \in 2..(size + 2) : reply'[k] = Raw(0, cur, k - 1, size + 2 - k)
  BY <1>3, <1>4
<1>7. /\ reply'[1].kind = "frame" /\ reply'[1].val = Ok /\ reply'[1].req = cur
      /\ reply'[1].pos = 0 /\ reply'[1].more = size + 1 /\ reply'[1].size = size
  BY <1>6 DEF Frame
<1>8. \A k \in 2..(size + 2) :
        /\ reply'[k].kind = "raw" /\ reply'[k].req = cur
        /\ reply'[k].pos = k - 1 /\ reply'[k].more = size + 2 - k
  <2>1. \A p, m : Raw(0, cur, p, m).kind = "raw" /\ Raw(0, cur, p, m).req = cur
                  /\ Raw(0, cur, p, m).pos = p /\ Raw(0, cur, p, m).more = m
    BY DEF Raw
  <2> QED
    BY <1>6, <2>1
<1>9. Means(reply[1])'
  BY <1>1, <1>7, Dispatched DEF Means, Rest, List, Upload, Download
<1>10. \A k \in 2..(size + 2) : Means(reply[k])'
  BY <1>1, <1>8, Dispatched DEF Means, List, Upload, Download
<1>11. Replying'
  <2>1. \A k \in 1..Len(reply') : k = 1 \/ k \in 2..(size + 2)
    BY <1>3, <1>5
  <2>2. (\A k \in 1..Len(reply) : reply[k].req = cur /\ Means(reply[k]))'
    BY <1>1, <1>7, <1>8, <1>9, <1>10, <2>1
  <2>3. ASSUME NEW k \in 1..(size + 1)
        PROVE  reply'[k].more > 0 /\ Follows(reply'[k], reply'[k + 1])
    <3>1. /\ reply'[k].req = cur /\ reply'[k].pos = k - 1 /\ reply'[k].more = size + 2 - k
      BY <1>3, <1>7, <1>8
    <3>2. /\ reply'[k + 1].req = cur /\ reply'[k + 1].pos = k
          /\ reply'[k + 1].more = size + 1 - k
      BY <1>3, <1>8
    <3> QED
      BY <1>3, <3>1, <3>2 DEF Follows
  <2>4. Len(reply') - 1 = size + 1
    BY <1>3, <1>5
  <2>5. (\A k \in 1..Len(reply) - 1 : reply[k].more > 0 /\ Follows(reply[k], reply[k + 1]))'
    BY <2>3, <2>4 DEF Follows
  <2>6. reply'[Len(reply')].more = 0
    BY <1>3, <1>5, <1>8
  <2> QED
    BY <1>4, <2>2, <2>5, <2>6 DEF Replying
<1>12. Layout' /\ Uploading' /\ Channel'
  BY <1>1, <1>5, <1>7, Dispatched, AnswerKeeps
<1>13. Place'
  BY <1>1, <1>4, AnswerPlace
<1> QED
  BY <1>11, <1>12, <1>13 DEF Meeting

LEMMA SizeMeaning ==
  ASSUME NEW n \in Nat, n < 256 * 256 * 256,
         NEW b, \A j \in 1..4 : b[j] = SizeBytes(n)[j]
  PROVE  FileSize(b) = n
<1> DEFINE high == n \div (256 * 256)
           mid == (n \div 256) % 256
           low == n % 256
<1>1. b[1] = 0 /\ b[2] = high /\ b[3] = mid /\ b[4] = low
  BY DEF SizeBytes
<1>2. ((0 * 256 + high) * 256 + mid) * 256 + low = n
  OBVIOUS
<1> HIDE DEF high, mid, low
<1>3. FileSize(b) = ((b[1] * 256 + b[2]) * 256 + b[3]) * 256 + b[4]
  BY Zenon DEF FileSize
<1>4. FileSize(b) = ((0 * 256 + high) * 256 + mid) * 256 + low
  BY <1>1, <1>3, Zenon
<1> QED
  BY <1>2, <1>4, Zenon

(* When bytes of an upload can be read, the host has begun its raw phase.  *)
LEMMA RawBegun ==
  ASSUME TypeInv, Meeting, spc = "size", rd < wr
  PROVE  /\ cur \in 1..Len(requests) /\ requests[cur].raw
         /\ Len(requests[cur].data) \in Nat /\ Len(requests[cur].data) < 256 * 256 * 256
<1>1. /\ cur \in Asked /\ cur \in 1..Len(requests)
      /\ EndOf(requests[cur]) = Start(cur + 1)
      /\ rd = RawAt(requests[cur]) + Len(buf) /\ (~requests[cur].raw => buf = <<>>)
      /\ requests[cur].cmd = Upload
  BY Current DEF RawPhase, Writing
<1>2. ack + 1 <= cur
  BY ComingIs DEF Meeting, Channel
<1>3. ack \in Nat /\ rd \in Nat /\ wr \in Nat /\ Len(stream) \in Nat /\ wr <= Len(stream)
      /\ cur \in Nat /\ Len(requests) \in Nat
  BY DEF TypeInv, TypeOK
<1>4. ~(cur < Len(requests))
  BY <1>1, <1>2, <1>3 DEF Meeting, Uploading
<1>5. Start(cur + 1) = Len(stream)
  BY <1>1, <1>3, <1>4 DEF Start
<1>6. RawAt(requests[cur]) \in Nat
  BY <1>1, RawAtType
<1>7. requests[cur].raw
  <2> SUFFICES ASSUME ~requests[cur].raw PROVE FALSE
    OBVIOUS
  <2>1. EndOf(requests[cur]) = RawAt(requests[cur])
    BY <1>1, RawAtType
  <2>2. rd = RawAt(requests[cur])
    BY <1>1, <1>6
  <2> QED
    BY <1>1, <1>3, <1>5, <2>1, <2>2
<1>8. Len(requests[cur].data) < 256 * 256 * 256
  BY <1>1, <1>7 DEF Meeting, Uploading
<1>9. requests[cur].data \in Seq(Byte)
  BY <1>1, RequestFields
<1>10. Len(requests[cur].data) \in Nat
  BY <1>9
<1> QED
  BY <1>1, <1>7, <1>8, <1>10

LEMMA ReadSizeMeets == ASSUME TypeInv, Meeting, ReadSize PROVE Meeting'
<1>1. /\ spc = "size" /\ rd < wr /\ rd' = rd + 1 /\ buf' = Append(buf, stream[rd + 1])
      /\ UNCHANGED <<stream, toHost, cur, file, reply, then, requests, base, ack, hpc, left>>
  BY DEF ReadSize, ReadByte, hostVars
<1>2. /\ cur \in 1..Len(requests) /\ requests[cur].raw
      /\ Len(requests[cur].data) \in Nat /\ Len(requests[cur].data) < 256 * 256 * 256
  BY <1>1, RawBegun
<1> DEFINE at == RawAt(requests[cur])
           size == Len(requests[cur].data)
           B == SizeBytes(size)
<1>3. /\ rd = at + Len(buf) /\ file = <<>>
      /\ requests[cur].cmd = Upload /\ requests[cur].good
      /\ \A j \in 1..Len(buf) : buf[j] = B[j]
  BY <1>1, Current DEF RawPhase, Writing
<1>4. \A j \in 1..4 : stream[at + j] = B[j]
  BY <1>1, <1>2, Current DEF Written
<1>5. at \in Nat /\ EndOf(requests[cur]) = at + 4 + size + 1
  BY <1>2, RawAtType
<1>6. size \in Nat
  BY <1>2
<1>7. at' = at /\ size' = size /\ EndOf(requests[cur])' = EndOf(requests[cur])
  BY <1>1 DEF RawAt, EndOf, HeaderSize
<1>8. requests[cur].data \in Seq(Byte)
  BY <1>2, RequestFields
<1> HIDE DEF at, B
<1>9. /\ buf \in Seq(Byte) /\ Len(buf) \in Nat /\ Len(buf) < 4 /\ stream[rd + 1] \in Byte
      /\ buf' \in Seq(Byte) /\ Len(buf') = Len(buf) + 1
  BY <1>1, ReadOneByte DEF TypeInv, TypeOK, Registers
<1>10. rd + 1 = at + (Len(buf) + 1) /\ Len(buf) + 1 \in 1..4
  BY <1>3, <1>5, <1>9
<1>11. \A j \in 1..Len(buf') : buf'[j] = B[j]
  <2>1. stream[rd + 1] = B[Len(buf) + 1]
    BY <1>4, <1>10
  <2> QED
    BY <1>1, <1>3, <1>9, <2>1, OneMore
<1>12. rd' = at + Len(buf')
  BY <1>1, <1>9, <1>10
<1>13. CASE Len(buf) + 1 < 4
  <2>1. UNCHANGED <<spc, need>>
    BY <1>13 DEF ReadSize
  <2>2. Layout' /\ Uploading' /\ Replying' /\ Channel'
    BY <1>1, <2>1, ReadsKeep
  <2>3. RawPhase(requests[cur])'
    BY <1>1, <1>2, <1>7, <1>11, <1>12, <2>1 DEF RawPhase, at, B
  <2>4. InFrame(requests[cur])' /\ Writing(requests[cur])'
    BY <1>1, <1>3, <2>1 DEF InFrame, Writing
  <2>5. Place'
    BY <1>1, <2>1, <2>3, <2>4, WithinRequest
  <2> QED
    BY <2>2, <2>5 DEF Meeting
<1>14. CASE ~(Len(buf) + 1 < 4)
  <2>1. Len(buf') = 4
    BY <1>9, <1>14
  <2>2. FileSize(buf') = size
    BY <1>2, <1>11, <2>1, SizeMeaning DEF B
  <2>3. need' = size /\ spc' = IF size > 0 THEN "data" ELSE "checksum"
    BY <1>14, <2>2 DEF ReadSize
  <2>4. Layout' /\ Uploading' /\ Replying' /\ Channel'
    BY <1>1, <2>3, ReadsKeep
  <2>5. rd' + size + 1 = EndOf(requests[cur])
    BY <1>5, <1>6, <1>12, <2>1
  <2>6. Len(file) = 0 /\ (\A j \in 1..Len(file) : file[j] = requests[cur].data[j])
    BY <1>3
  <2>7. CASE size > 0
    <3>1. spc' = "data" /\ need' + Len(file) = size
      BY <1>6, <2>3, <2>6, <2>7
    <3>2. RawPhase(requests[cur])'
      BY <1>1, <1>2, <1>7, <2>3, <2>5, <2>6, <3>1 DEF RawPhase
    <3>3. InFrame(requests[cur])' /\ Writing(requests[cur])'
      BY <1>1, <1>3, <3>1 DEF InFrame, Writing
    <3> QED
      BY <1>1, <2>4, <3>1, <3>2, <3>3, WithinRequest DEF Meeting
  <2>8. CASE ~(size > 0)
    <3>1. spc' = "checksum" /\ size = 0
      BY <1>6, <2>3, <2>8
    <3>2. requests[cur].data = <<>>
      BY <1>8, <3>1, EmptySeq
    <3>3. rd' + 1 = EndOf(requests[cur])
      BY <1>1, <1>6, <2>5, <3>1 DEF TypeInv, TypeOK
    <3>4. RawPhase(requests[cur])'
      BY <1>1, <1>2, <1>3, <1>7, <3>1, <3>2, <3>3 DEF RawPhase
    <3>5. InFrame(requests[cur])' /\ Writing(requests[cur])'
      BY <1>1, <1>3, <3>1 DEF InFrame, Writing
    <3> QED
      BY <1>1, <2>4, <3>1, <3>4, <3>5, WithinRequest DEF Meeting
  <2> QED
    BY <2>7, <2>8
<1> QED
  BY <1>13, <1>14

LEMMA ReadDataMeets == ASSUME TypeInv, Meeting, ReadData PROVE Meeting'
<1>1. /\ spc = "data" /\ rd < wr /\ rd' = rd + 1 /\ need' = need - 1
      /\ file' = Append(file, stream[rd + 1])
      /\ spc' = IF need = 1 THEN "checksum" ELSE "data"
      /\ UNCHANGED <<stream, toHost, cur, buf, reply, then, requests, base, ack, hpc, left>>
  BY DEF ReadData, ReadByte, hostVars
<1>2. Layout' /\ Uploading' /\ Replying' /\ Channel'
  BY <1>1, ReadsKeep
<1> DEFINE at == RawAt(requests[cur])
           data == requests[cur].data
<1>3. /\ cur \in 1..Len(requests) /\ requests[cur].raw
      /\ requests[cur].cmd = Upload /\ requests[cur].good
      /\ \A j \in 1..Len(file) : file[j] = data[j]
  BY <1>1, Current DEF RawPhase, Writing
<1>4. rd + need + 1 = EndOf(requests[cur]) /\ need + Len(file) = Len(data)
  BY <1>1, Current DEF RawPhase
<1>5. \A j \in 1..Len(data) : stream[at + 4 + j] = data[j]
  BY <1>1, <1>3, Current DEF Written
<1>6. at \in Nat /\ EndOf(requests[cur]) = at + 4 + Len(data) + 1 /\ data \in Seq(Byte)
  BY <1>3, RawAtType, RequestFields
<1>7. EndOf(requests[cur])' = EndOf(requests[cur]) /\ data' = data
  BY <1>1 DEF EndOf, HeaderSize
<1> HIDE DEF at, data
<1>8. /\ file \in Seq(Byte) /\ Len(file) \in Nat /\ stream[rd + 1] \in Byte
      /\ rd \in Nat /\ need \in Nat /\ need > 0 /\ Len(data) \in Nat
      /\ file' \in Seq(Byte) /\ Len(file') = Len(file) + 1
  <2>1. file \in Seq(Byte) /\ rd \in Nat /\ need \in Nat /\ need > 0
    BY <1>1 DEF TypeInv, TypeOK, Registers
  <2>2. stream[rd + 1] \in Byte
    BY <1>1, ReadOneByte
  <2>3. file' \in Seq(Byte) /\ Len(file') = Len(file) + 1
    BY <1>1, <2>1, <2>2, AppendProperties
  <2>4. Len(file) \in Nat /\ Len(data) \in Nat
    BY <1>6, <2>1
  <2> QED
    BY <2>1, <2>2, <2>3, <2>4
<1> DEFINE end == EndOf(requests[cur])
           done == Len(file)
           size == Len(data)
<1>9. /\ rd + need + 1 = end /\ need + done = size /\ end = at + 4 + size + 1
       /\ rd \in Nat /\ need \in Nat /\ need > 0 /\ done \in Nat /\ size \in Nat /\ at \in Nat
  BY <1>4, <1>6, <1>8
<1> HIDE DEF end, done, size
<1>10. /\ rd + 1 = at + 4 + (done + 1) /\ done + 1 \in 1..size
       /\ rd + 1 + (need - 1) + 1 = end /\ (need - 1) + (done + 1) = size
       /\ need = 1 => rd + 1 + 1 = end /\ done + 1 = size
  BY <1>9
<1> USE DEF end, done, size
<1>11. rd + 1 = at + 4 + (Len(file) + 1) /\ Len(file) + 1 \in 1..Len(data)
  BY <1>10
<1>12. \A j \in 1..Len(file') : file'[j] = data[j]
  <2>1. stream[rd + 1] = data[Len(file) + 1]
    BY <1>5, <1>11
  <2> QED
    BY <1>1, <1>3, <1>8, <2>1, OneMore
<1>13. /\ rd' + need' + 1 = EndOf(requests[cur]) /\ need' + Len(file') = Len(data)
       /\ need = 1 => rd' + 1 = EndOf(requests[cur]) /\ Len(file') = Len(data)
  BY <1>1, <1>8, <1>10
<1>14. need = 1 => file' = data
  BY <1>6, <1>8, <1>12, <1>13, SeqEqual
<1>15. RawPhase(requests[cur])'
  BY <1>1, <1>3, <1>7, <1>12, <1>13, <1>14 DEF RawPhase, data
<1>16. InFrame(requests[cur])' /\ Writing(requests[cur])'
  BY <1>1, <1>3 DEF InFrame, Writing
<1>17. Place'
  BY <1>1, <1>15, <1>16, WithinRequest
<1> QED
  BY <1>2, <1>17 DEF Meeting

LEMMA ReadChecksumMeets == ASSUME TypeInv, Meeting, ReadChecksum PROVE Meeting'
<1>1. /\ spc = "checksum" /\ rd' = rd + 1 /\ spc' = "write" /\ then' = "poll"
      /\ UNCHANGED <<stream, toHost, cur, buf, need, file, requests, base, ack, hpc, left>>
  BY DEF ReadChecksum, ReadByte, Answer, hostVars
<1>2. PICK b \in 0..1 : reply' = <<Raw(b, cur, 1, 0)>>
  BY DEF ReadChecksum, Answer
<1>3. Len(reply') = 1 /\ reply' # <<>> /\ reply'[1] = Raw(b, cur, 1, 0)
  BY <1>2
<1>4. /\ reply'[1].kind = "raw" /\ reply'[1].req = cur
      /\ reply'[1].pos = 1 /\ reply'[1].more = 0
  BY <1>3 DEF Raw
<1>5. /\ cur \in base + 1..cur /\ requests[cur].raw /\ requests[cur].cmd = Upload
      /\ rd + 1 = EndOf(requests[cur]) /\ file = requests[cur].data
  BY <1>1, Current DEF RawPhase, Writing, TypeInv, TypeOK
<1>6. Means(reply[1])'
  BY <1>1, <1>4, <1>5 DEF Means, List, Upload
<1>7. Replying'
  <2>1. \A k \in 1..Len(reply') : k = 1
    BY <1>3
  <2>2. (\A k \in 1..Len(reply) : reply[k].req = cur /\ Means(reply[k]))'
    BY <1>1, <1>4, <1>6, <2>1
  <2>3. (\A k \in 1..Len(reply) - 1 : reply[k].more > 0 /\ Follows(reply[k], reply[k + 1]))'
    BY <1>3
  <2> QED
    BY <1>1, <1>3, <1>4, <2>2, <2>3 DEF Replying
<1>8. Layout' /\ Uploading' /\ Channel'
  BY <1>1, <1>3, <1>4, ComingIs, AnswerKeeps
<1>9. EndOf(requests[cur])' = EndOf(requests[cur])
  BY <1>1 DEF EndOf, HeaderSize
<1>10. InFrame(requests[cur])' /\ RawPhase(requests[cur])' /\ Writing(requests[cur])'
  BY <1>1, <1>5, <1>9 DEF InFrame, RawPhase, Writing
<1>11. Place'
  BY <1>1, <1>10, WithinRequest
<1> QED
  BY <1>7, <1>8, <1>11 DEF Meeting

-----------------------------------------------------------------------------
(* The messages.                                                           *)

LEMMA AfterTail ==
  ASSUME NEW S, NEW s \in Seq(S), s # <<>>
  PROVE  /\ Len(Tail(s)) = Len(s) - 1 /\ Len(s) \in Nat /\ Len(s) > 0
         /\ \A k \in 1..Len(s) - 1 : Tail(s)[k] = s[k + 1] /\ k + 1 \in 1..Len(s)
         /\ Tail(s) # <<>> => Len(s) > 1 /\ Tail(s)[1] = s[2] /\ Tail(s)[Len(Tail(s))] = s[Len(s)]
<1>1. /\ Tail(s) \in Seq(S) /\ Len(Tail(s)) = Len(s) - 1 /\ Len(s) \in Nat
      /\ \A k \in 1..Len(s) - 1 : Tail(s)[k] = s[k + 1]
  OBVIOUS
<1>2. Len(s) > 0
  BY <1>1, EmptySeq
<1>3. Tail(s) # <<>> => Len(Tail(s)) # 0
  BY <1>1, EmptySeq
<1>4. Tail(s) # <<>> => Len(s) > 1 /\ 1 \in 1..Len(s) - 1 /\ Len(s) - 1 \in 1..Len(s) - 1
  BY <1>1, <1>2, <1>3
<1>5. Tail(s) # <<>> => Tail(s)[1] = s[2] /\ Tail(s)[Len(Tail(s))] = s[Len(s)]
  BY <1>1, <1>4
<1> QED
  BY <1>1, <1>2, <1>4, <1>5

LEMMA Enqueued ==
  ASSUME NEW S, NEW s \in Seq(S), NEW e \in S
  PROVE  /\ Append(s, e) # <<>> /\ Len(Append(s, e)) = Len(s) + 1 /\ Len(s) \in Nat
         /\ \A k \in 1..Len(s) : Append(s, e)[k] = s[k]
         /\ Append(s, e)[Len(s) + 1] = e
         /\ s # <<>> => Len(s) \in 1..Len(s) /\ Append(s, e)[1] = s[1]
         /\ s = <<>> => Len(s) = 0 /\ Append(s, e)[1] = e
<1>1. /\ Append(s, e) \in Seq(S) /\ Len(Append(s, e)) = Len(s) + 1 /\ Len(s) \in Nat
      /\ \A k \in 1..Len(s) : Append(s, e)[k] = s[k]
      /\ Append(s, e)[Len(s) + 1] = e
  BY AppendProperties
<1>2. s = <<>> <=> Len(s) = 0
  BY EmptyIffZero
<1>3. Len(Append(s, e)) # 0
  BY <1>1
<1>4. Append(s, e) # <<>>
  BY <1>1, <1>3, EmptyIffZero
<1>5. s # <<>> => Len(s) \in 1..Len(s) /\ 1 \in 1..Len(s)
  BY <1>1, <1>2
<1>6. s = <<>> => Append(s, e)[1] = e
  BY <1>1, <1>2
<1> QED
  BY <1>1, <1>2, <1>4, <1>5, <1>6

(* The message that is written was the one that came, and the next one     *)
(* follows it.                                                             *)
LEMMA ComingAfterWrite ==
  ASSUME TypeInv, Meeting, Write
  PROVE  /\ reply[1].req = cur /\ Means(reply[1])
         /\ Follows(reply[1], Coming') /\ Coming'.req >= cur
<1>1. /\ spc = "write" /\ reply' = Tail(reply) /\ cur' = cur
      /\ spc' = IF Len(reply) = 1 THEN then ELSE "write"
      /\ cur \in Nat /\ reply \in Seq(Message) /\ reply # <<>> /\ then \in {"poll", "size"}
  BY DEF Write, TypeInv, TypeOK, Registers
<1>2. Len(reply) \in Nat /\ Len(reply) > 0
  BY <1>1, AfterTail
<1>3. 1 \in 1..Len(reply)
  BY <1>2
<1>4. reply[1].req = cur /\ Means(reply[1])
  BY <1>3 DEF Meeting, Replying
<1>5. reply[1].pos \in Nat /\ reply[1].more \in Nat
  BY <1>3, QueueTypes
<1>6. CASE Len(reply) = 1
  <2>1. reply' = <<>>
    BY <1>1, <1>6, OneLeft
  <2>2. CASE then = "poll"
    <3>1. Coming'.req = cur + 1 /\ Coming'.pos = 0
      BY <1>1, <1>6, <2>1, <2>2 DEF Coming
    <3>2. reply[1].more = 0
      BY <1>1, <1>6, <2>2 DEF Meeting, Replying
    <3> QED
      BY <1>1, <1>4, <3>1, <3>2 DEF Follows
  <2>3. CASE then = "size"
    <3>1. Coming'.req = cur /\ Coming'.pos = 1 /\ Coming'.more = 0
      BY <1>1, <1>6, <2>1, <2>3 DEF Coming
    <3>2. reply[1].more = 1 /\ reply[1].pos = 0
      BY <1>1, <1>6, <2>3 DEF Meeting, Replying
    <3> QED
      BY <1>1, <1>4, <3>1, <3>2 DEF Follows
  <2> QED
    BY <1>1, <2>2, <2>3
<1>7. CASE Len(reply) # 1
  <2>1. reply' # <<>> /\ reply'[1] = reply[2]
    BY <1>1, <1>7, OneLeft, AfterTail
  <2>2. Coming'.req = reply[2].req /\ Coming'.pos = reply[2].pos /\ Coming'.more = reply[2].more
    BY <2>1 DEF Coming
  <2>3. 1 \in 1..Len(reply) - 1 /\ 2 \in 1..Len(reply)
    <3>1. \A n \in Nat : n > 0 /\ n # 1 => 1 \in 1..n - 1 /\ 2 \in 1..n
      OBVIOUS
    <3> QED
      BY <1>2, <1>7, <3>1, Zenon
  <2>4. reply[2].req = cur /\ Follows(reply[1], reply[1 + 1])
    BY <2>3 DEF Meeting, Replying
  <2> QED
    BY <1>1, <1>4, <2>2, <2>4 DEF Follows
<1> QED
  BY <1>6, <1>7

LEMMA WriteMeets == ASSUME TypeInv, Meeting, Write PROVE Meeting'
<1>1. /\ spc = "write" /\ toHost' = Append(toHost, reply[1]) /\ reply' = Tail(reply)
      /\ spc' = IF Len(reply) = 1 THEN then ELSE "write"
      /\ UNCHANGED <<stream, rd, cur, buf, need, file, then, requests, base, ack, hpc, left>>
  BY DEF Write, hostVars, TypeInv, TypeOK, Registers
<1>2. /\ reply \in Seq(Message) /\ reply # <<>> /\ toHost \in Seq(Message)
      /\ then \in {"poll", "size"} /\ cur \in Nat /\ ack \in Nat
  BY <1>1 DEF TypeInv, TypeOK, Registers
<1>3. Layout' /\ Uploading'
  BY <1>1, LayoutKept, UploadingKept DEF Meeting
<1>4. Len(reply') = Len(reply) - 1 /\ Len(reply) \in Nat /\ Len(reply) > 0
  BY <1>1, <1>2, AfterTail
<1>5. reply[1] \in Message
  BY <1>2, <1>4, ElementOfSeq
<1>6. Replying'
  <2>1. \A k \in 1..Len(reply) - 1 : reply'[k] = reply[k + 1] /\ k + 1 \in 1..Len(reply)
    BY <1>1, <1>2, AfterTail
  <2>2. (\A k \in 1..Len(reply) : reply[k].req = cur /\ Means(reply[k]))'
    BY <1>1, <1>4, <2>1 DEF Meeting, Replying, Means, Rest
  <2>3. \A k \in 1..Len(reply) - 2 : k + 1 \in 1..Len(reply) - 1 /\ k \in 1..Len(reply) - 1
    BY <1>4
  <2>4. ASSUME NEW k \in 1..Len(reply) - 2
        PROVE  reply'[k].more > 0 /\ Follows(reply'[k], reply'[k + 1])
    <3>1. reply'[k] = reply[k + 1] /\ reply'[k + 1] = reply[(k + 1) + 1]
      BY <2>1, <2>3
    <3>2. reply[k + 1].more > 0 /\ Follows(reply[k + 1], reply[(k + 1) + 1])
      BY <2>3 DEF Meeting, Replying
    <3> QED
      BY <3>1, <3>2
  <2>5. Len(reply') - 1 = Len(reply) - 2
    BY <1>4
  <2>6. (\A k \in 1..Len(reply) - 1 : reply[k].more > 0 /\ Follows(reply[k], reply[k + 1]))'
    BY <2>4, <2>5 DEF Follows
  <2>7. reply' # <<>> => reply'[Len(reply')] = reply[Len(reply)] /\ Len(reply) > 1
    BY <1>1, <1>2, AfterTail
  <2>8. then = "size" => Len(reply) = 1
    BY <1>2 DEF Meeting, Replying
  <2> QED
    BY <1>1, <1>2, <2>2, <2>6, <2>7, <2>8 DEF Meeting, Replying
<1>7. Place'
  <2>1. /\ cur \in base..Len(requests) /\ cur > base /\ EndOf(requests[cur]) = Start(cur + 1)
        /\ Writing(requests[cur])
    BY <1>1, Current
  <2>2. /\ EndOf(requests[cur])' = EndOf(requests[cur]) /\ Start(cur + 1)' = Start(cur + 1)
        /\ RawAt(requests[cur])' = RawAt(requests[cur])
    BY <1>1 DEF EndOf, Start, RawAt, HeaderSize
  <2>3. CASE spc' = "poll"
    <3>1. then = "poll"
      BY <1>1, <1>2, <2>3
    <3> QED
      BY <1>1, <2>1, <2>2, <2>3, <3>1 DEF Place, Writing
  <2>4. CASE spc' = "size"
    <3>1. then = "size" /\ buf = <<>> /\ Len(buf) = 0
      BY <1>1, <1>2, <2>4 DEF TypeInv, Registers
    <3>2. rd = RawAt(requests[cur]) /\ ~requests[cur].raw
      BY <1>1, <2>1, <3>1 DEF Writing
    <3>3. rd = RawAt(requests[cur]) + 0
      BY <3>2 DEF TypeInv, TypeOK
    <3>4. RawPhase(requests[cur])'
      BY <1>1, <2>2, <2>4, <3>1, <3>2, <3>3 DEF RawPhase
    <3>5. InFrame(requests[cur])' /\ Writing(requests[cur])'
      BY <1>1, <2>1, <2>4, <3>1 DEF InFrame, Writing
    <3> QED
      BY <1>1, <2>4, <3>4, <3>5, WithinRequest
  <2>5. CASE spc' = "write"
    <3>1. InFrame(requests[cur])' /\ RawPhase(requests[cur])' /\ Writing(requests[cur])'
      BY <1>1, <2>1, <2>2, <2>5 DEF InFrame, RawPhase, Writing
    <3> QED
      BY <1>1, <2>5, <3>1, WithinRequest
  <2> QED
    BY <1>1, <1>2, <2>3, <2>4, <2>5
<1>8. Channel'
  <2>1. /\ reply[1].req = cur /\ Means(reply[1])
        /\ Follows(reply[1], Coming') /\ Coming'.req >= cur
    BY ComingAfterWrite
  <2>2. Coming.req = reply[1].req /\ Coming.pos = reply[1].pos /\ Coming.more = reply[1].more
    BY <1>1, ComingIs
  <2>3. /\ toHost' # <<>> /\ Len(toHost') = Len(toHost) + 1 /\ Len(toHost) \in Nat
        /\ \A k \in 1..Len(toHost) : toHost'[k] = toHost[k]
        /\ toHost'[Len(toHost) + 1] = reply[1]
        /\ toHost # <<>> => Len(toHost) \in 1..Len(toHost) /\ toHost'[1] = toHost[1]
        /\ toHost = <<>> => Len(toHost) = 0 /\ toHost'[1] = reply[1]
    BY <1>1, <1>2, <1>5, Enqueued
  <2>4. \A k \in 1..Len(toHost') : k \in 1..Len(toHost) \/ k = Len(toHost) + 1
    BY <2>3
  <2>5. (\A k \in 1..Len(toHost) : Means(toHost[k]))'
    <3>1. \A k \in 1..Len(toHost) : Means(toHost'[k])
      BY <2>3 DEF Meeting, Channel
    <3>2. \A k \in 1..Len(toHost') : Means(toHost'[k])
      BY <2>1, <2>3, <2>4, <3>1
    <3> QED
      BY <1>1, <3>2 DEF Means, Rest
  <2>6. Due(reply[1]) <=> Due(Coming)
    BY <2>2 DEF Due
  <2>7. Due(toHost'[1])
    BY <2>3, <2>6 DEF Meeting, Channel
  <2>8. ASSUME NEW k \in 1..Len(toHost') - 1
        PROVE  Follows(toHost'[k], toHost'[k + 1])
    <3>1. CASE k = Len(toHost)
      <4>1. toHost # <<>> /\ toHost'[k] = toHost[k] /\ toHost'[k + 1] = reply[1]
        BY <2>3, <3>1
      <4>2. Follows(toHost[k], Coming)
        BY <3>1, <4>1 DEF Meeting, Channel
      <4> QED
        BY <2>2, <4>1, <4>2 DEF Follows
    <3>2. CASE k # Len(toHost)
      <4>1. k \in 1..Len(toHost) - 1 /\ k \in 1..Len(toHost) /\ k + 1 \in 1..Len(toHost)
        BY <2>3, <3>2
      <4>2. Follows(toHost[k], toHost[k + 1])
        BY <4>1 DEF Meeting, Channel
      <4> QED
        BY <2>3, <4>1, <4>2
    <3> QED
      BY <3>1, <3>2
  <2>9. (\A k \in 1..Len(toHost) - 1 : Follows(toHost[k], toHost[k + 1]))'
    BY <2>8 DEF Follows
  <2>10. Due(toHost[1])' /\ Follows(toHost[Len(toHost)], Coming)'
    BY <1>1, <2>1, <2>3, <2>7 DEF Due, Follows
  <2>11. ack + 1 <= cur
    BY <2>1, <2>2 DEF Meeting, Channel
  <2>12. ack + 1 <= Coming'.req
    <3>1. Coming'.req \in {cur, cur + 1}
      BY <1>1, <1>2, <2>1, QueueTypes DEF Follows
    <3> QED
      BY <1>2, <2>11, <3>1
  <2> QED
    BY <1>1, <2>3, <2>5, <2>9, <2>10, <2>12 DEF Meeting, Channel
<1> QED
  BY <1>3, <1>6, <1>7, <1>8 DEF Meeting

-----------------------------------------------------------------------------
(* The host keeps in step, and what follows.                               *)

(* The host takes a message: what is due then is the one that follows it.  *)
LEMMA AfterTake ==
  ASSUME TypeInv, Meeting, toHost # <<>>, toHost' = Tail(toHost)
  PROVE  /\ toHost[1].req = ack + 1 /\ (toHost[1].pos = 0 <=> hpc = "frame")
         /\ toHost[1] \in Message /\ Means(toHost[1]) /\ Due(toHost[1])
         /\ toHost' = <<>> => Follows(toHost[1], Coming)
         /\ toHost' # <<>> => /\ Follows(toHost[1], toHost'[1]) /\ Means(toHost'[1])
                              /\ Follows(toHost'[Len(toHost')], Coming)
         /\ \A k \in 1..Len(toHost') : Means(toHost'[k])
         /\ \A k \in 1..Len(toHost') - 1 : Follows(toHost'[k], toHost'[k + 1])
         /\ toHost' \in Seq(Message)
<1>1. toHost \in Seq(Message) /\ toHost' \in Seq(Message)
  BY DEF TypeInv, TypeOK
<1>2. /\ Len(toHost') = Len(toHost) - 1 /\ Len(toHost) \in Nat /\ Len(toHost) > 0
      /\ \A k \in 1..Len(toHost) - 1 : toHost'[k] = toHost[k + 1] /\ k + 1 \in 1..Len(toHost)
      /\ toHost' # <<>> => Len(toHost) > 1 /\ toHost'[1] = toHost[2]
                           /\ toHost'[Len(toHost')] = toHost[Len(toHost)]
  BY <1>1, AfterTail
<1>3. 1 \in 1..Len(toHost)
  BY <1>2
<1>4. /\ toHost[1] \in Message /\ Means(toHost[1]) /\ Due(toHost[1])
  BY <1>1, <1>3, ElementOfSeq DEF Meeting, Channel
<1>5. toHost' = <<>> => Follows(toHost[1], Coming)
  <2>1. toHost' = <<>> => Len(toHost) = 1
    BY <1>1, OneLeft
  <2> QED
    BY <2>1 DEF Meeting, Channel
<1>6. \A k \in 1..Len(toHost') : Means(toHost'[k])
  BY <1>2 DEF Meeting, Channel
<1>7. toHost' # <<>> => 1 \in 1..Len(toHost) - 1 /\ 1 \in 1..Len(toHost')
  BY <1>2
<1>8. toHost' # <<>> => /\ Follows(toHost[1], toHost'[1]) /\ Means(toHost'[1])
                        /\ Follows(toHost'[Len(toHost')], Coming)
  BY <1>2, <1>6, <1>7 DEF Meeting, Channel
<1>9. ASSUME NEW k \in 1..Len(toHost') - 1
      PROVE  Follows(toHost'[k], toHost'[k + 1])
  <2>1. k \in 1..Len(toHost) - 1 /\ k + 1 \in 1..Len(toHost) - 1
    BY <1>2
  <2>2. toHost'[k] = toHost[k + 1] /\ toHost'[k + 1] = toHost[(k + 1) + 1]
    BY <1>2, <2>1
  <2>3. Follows(toHost[k + 1], toHost[(k + 1) + 1])
    BY <2>1 DEF Meeting, Channel
  <2> QED
    BY <2>2, <2>3
<1> QED
  BY <1>1, <1>4, <1>5, <1>6, <1>8, <1>9 DEF Due

LEMMA ComingIsCurrent == ASSUME TypeInv, Meeting PROVE Coming.req >= cur
<1>1. cur \in Nat /\ reply \in Seq(Message)
  BY DEF TypeInv, TypeOK
<1>2. CASE reply # <<>>
  <2>1. 1 \in 1..Len(reply)
    BY <1>1, <1>2, AfterTail
  <2>2. Coming.req = reply[1].req /\ reply[1].req = cur
    BY <1>2, <2>1 DEF Coming, Meeting, Replying
  <2> QED
    BY <1>1, <2>2
<1>3. CASE reply = <<>>
  BY <1>1, <1>3 DEF Coming
<1> QED
  BY <1>2, <1>3

(* The answer to the oldest request is complete: the next request's is due.*)
LEMMA AnsweredMeets ==
  ASSUME TypeInv, Meeting, toHost # <<>>, toHost' = Tail(toHost), toHost[1].more = 0,
         Answered, UNCHANGED <<stream, rd, requests, base, saturnVars>>
  PROVE  Meeting'
<1>1. /\ ack' = ack + 1 /\ hpc' = "frame" /\ ack \in Nat /\ cur \in Nat /\ base \in Nat
      /\ UNCHANGED <<spc, cur, buf, need, file, reply, then>>
  BY DEF Answered, saturnVars, TypeInv, TypeOK
<1>2. Layout' /\ Place' /\ Replying'
  BY <1>1, LayoutKept, PlaceKept, ReplyingKept DEF Meeting
<1>3. Uploading'
  <2>1. \A k \in Asked : k \in Nat /\ (k <= ack => k <= ack + 1) /\ (k = ack + 1 => k <= ack + 1)
    BY <1>1 DEF Asked, TypeInv, TypeOK
  <2>2. base <= ack + 1
    BY <1>1 DEF Meeting, Uploading
  <2> QED
    BY <1>1, <2>1, <2>2 DEF Meeting, Uploading, Asked
<1>4. Coming' = Coming
  BY <1>1 DEF Coming
<1>5. \A n : Follows(toHost[1], n) => n.req = ack + 2 /\ n.pos = 0
  <2>1. toHost[1].req = ack + 1
    BY AfterTake
  <2>2. (ack + 1) + 1 = ack + 2
    BY <1>1
  <2>3. ~(toHost[1].more > 0)
    OBVIOUS
  <2> QED
    BY <2>1, <2>2, <2>3, Zenon DEF Follows
<1>6. (ack + 1) + 1 = ack + 2
  BY <1>1
<1>7. \A n : Follows(toHost[1], n) => Due(n)'
  BY <1>1, <1>5, <1>6 DEF Due
<1>8. Channel'
  <2>1. ack + 2 <= Coming.req
    <3>1. CASE toHost' = <<>>
      <4>1. Coming.req = ack + 2
        BY <1>5, <3>1, AfterTake
      <4> QED
        BY <1>1, <4>1
    <3>2. CASE toHost' # <<>>
      <4>1. toHost'[1].req = ack + 2 /\ toHost'[1].req \in base + 1..cur
        BY <1>5, <3>2, AfterTake DEF Means
      <4>2. Coming.req >= cur
        BY ComingIsCurrent
      <4>3. Coming.req \in Nat
        <5>1. CASE reply # <<>>
          <6>1. 1 \in 1..Len(reply)
            BY <5>1, AfterTail DEF TypeInv, TypeOK
          <6> QED
            BY <5>1, <6>1, QueueTypes DEF Coming
        <5>2. CASE reply = <<>>
          BY <1>1, <5>2 DEF Coming
        <5> QED
          BY <5>1, <5>2
      <4>4. \A b, c, m, n \in Nat : m \in b + 1..c /\ n >= c => m <= n
        OBVIOUS
      <4>5. ack + 2 \in Nat
        BY <1>1
      <4> QED
        BY <1>1, <4>1, <4>2, <4>3, <4>4, <4>5, Zenon
    <3> QED
      BY <3>1, <3>2
  <2>2. (\A k \in 1..Len(toHost) : Means(toHost[k]))'
    BY <1>1, AfterTake DEF Means, Rest
  <2>3. (\A k \in 1..Len(toHost) - 1 : Follows(toHost[k], toHost[k + 1]))'
    BY AfterTake DEF Follows
  <2>4. (toHost # <<>> => Due(toHost[1]) /\ Follows(toHost[Len(toHost)], Coming))'
    <3>1. toHost' # <<>> => Due(toHost[1])'
      BY <1>1, <1>5, <1>6, AfterTake DEF Due
    <3>2. toHost' # <<>> => Follows(toHost[Len(toHost)], Coming)'
      BY <1>4, AfterTake DEF Follows
    <3> QED
      BY <3>1, <3>2
  <2>5. (toHost = <<>> => Due(Coming))'
    BY <1>1, <1>4, <1>5, <1>6, AfterTake DEF Due
  <2>6. (ack + 1 <= Coming.req)'
    BY <1>1, <1>4, <1>6, <2>1
  <2> QED
    BY <1>1, <2>2, <2>3, <2>4, <2>5, <2>6 DEF Channel
<1> QED
  BY <1>2, <1>3, <1>8 DEF Meeting

(* The answer goes on: its next message is due.                            *)
LEMMA GoesOnMeets ==
  ASSUME TypeInv, Meeting, toHost # <<>>, toHost' = Tail(toHost), toHost[1].more > 0,
         UNCHANGED <<stream, rd, requests, base, ack, saturnVars>>, hpc # "result",
         \/ hpc' = "sentinel" /\ toHost[1].more = 1 /\ requests[ack + 1].cmd = List
         \/ hpc' = "raw" /\ left' = toHost[1].more /\ requests[ack + 1].cmd = Download
  PROVE  Meeting'
<1>1. /\ ack \in Nat /\ cur \in Nat
      /\ UNCHANGED <<spc, cur, buf, need, file, reply, then>>
  BY DEF saturnVars, TypeInv, TypeOK
<1>2. Layout' /\ Place' /\ Replying'
  BY <1>1, LayoutKept, PlaceKept, ReplyingKept DEF Meeting
<1>3. Uploading'
  BY DEF Meeting, Uploading, Asked
<1>4. Coming' = Coming
  BY <1>1 DEF Coming
<1>5. \A n : Follows(toHost[1], n) =>
               n.req = ack + 1 /\ n.pos # 0 /\ n.more = toHost[1].more - 1
  <2>1. toHost[1].req = ack + 1 /\ toHost[1].pos \in Nat
    BY AfterTake, MessageFields
  <2>2. toHost[1].pos + 1 # 0
    BY <2>1
  <2> QED
    BY <2>1, <2>2 DEF Follows
<1>6. toHost[1].more \in Nat /\ toHost[1].more - 1 + 1 = toHost[1].more
  BY AfterTake, MessageFields
<1>7. /\ hpc' \in {"sentinel", "raw"}
      /\ hpc' = "sentinel" => toHost[1].more - 1 = 0
      /\ hpc' = "raw" => toHost[1].more - 1 + 1 = left'
  BY <1>6
<1>8. Channel'
  <2>1. (\A k \in 1..Len(toHost) : Means(toHost[k]))'
    BY <1>1, AfterTake DEF Means, Rest
  <2>2. (\A k \in 1..Len(toHost) - 1 : Follows(toHost[k], toHost[k + 1]))'
    BY AfterTake DEF Follows
  <2>3. toHost' # <<>> => Due(toHost[1])'
    BY <1>5, <1>7, AfterTake DEF Due
  <2>4. toHost' # <<>> => Follows(toHost[Len(toHost)], Coming)'
    BY <1>4, AfterTake DEF Follows
  <2>5. (toHost = <<>> => Due(Coming))'
    BY <1>4, <1>5, <1>7, AfterTake DEF Due
  <2>6. (ack + 1 <= Coming.req)'
    BY <1>4 DEF Meeting, Channel
  <2> QED
    BY <1>7, <2>1, <2>2, <2>3, <2>4, <2>5, <2>6 DEF Channel
<1> QED
  BY <1>2, <1>3, <1>8 DEF Meeting

-----------------------------------------------------------------------------
(* The host takes a message.                                               *)

(* When the host takes the Ok of an upload, that was the only message, and *)
(* the Saturn waits for the size.                                          *)
LEMMA UploadDue ==
  ASSUME TypeInv, Meeting, toHost # <<>>, toHost' = Tail(toHost), hpc = "frame",
         ack < Len(requests), toHost[1].val = Ok,
         requests[ack + 1].good, requests[ack + 1].cmd = Upload
  PROVE  /\ cur = ack + 1 /\ Len(requests) = ack + 1 /\ cur \in Asked
         /\ ~requests[cur].raw
         /\ toHost' = <<>> /\ reply = <<>> /\ spc = "size" /\ buf = <<>> /\ file = <<>>
         /\ rd = RawAt(requests[cur]) /\ RawAt(requests[cur]) = Len(stream)
<1>1. /\ toHost[1].req = ack + 1 /\ toHost[1].pos = 0 /\ Means(toHost[1])
      /\ toHost[1] \in Message
  BY AfterTake
<1>2. /\ ack \in Nat /\ cur \in Nat /\ base \in Nat /\ Len(requests) \in Nat
      /\ base <= ack /\ cur \in base..Len(requests)
  BY DEF TypeInv, TypeOK, Meeting, Uploading, Place
<1>3. ack + 1 \in base + 1..Len(requests) /\ ack + 1 <= cur
  BY <1>1, <1>2 DEF Means
<1>4. Len(requests) = ack + 1
  <2>1. ~(ack + 1 < Len(requests) /\ ~(ack + 1 <= ack))
    BY <1>3 DEF Meeting, Uploading, Asked
  <2> QED
    BY <1>2, <1>3, <2>1
<1>5. cur = ack + 1 /\ cur \in Asked
  BY <1>2, <1>3, <1>4 DEF Asked
<1>6. ~requests[cur].raw
  BY <1>2, <1>5 DEF Meeting, Uploading
<1>7. toHost[1].more = 1
  BY <1>1 DEF Means, Rest, Upload, List
<1>8. \A n : Follows(toHost[1], n) => n.req = ack + 1 /\ n.pos = 1
  BY <1>1, <1>7 DEF Follows
<1>9. \A n : Means(n) /\ n.req = cur => ~(n.pos > 0)
  BY <1>5, <1>6 DEF Means
<1>10. toHost' = <<>>
  <2> SUFFICES ASSUME toHost' # <<>> PROVE FALSE
    OBVIOUS
  <2>1. toHost'[1].req = cur /\ toHost'[1].pos = 1 /\ Means(toHost'[1])
    BY <1>5, <1>8, AfterTake
  <2> QED
    BY <1>9, <2>1
<1>11. Coming.pos = 1
  BY <1>8, <1>10, AfterTake
<1>12. reply = <<>>
  <2> SUFFICES ASSUME reply # <<>> PROVE FALSE
    OBVIOUS
  <2>1. 1 \in 1..Len(reply)
    BY AfterTail DEF TypeInv, TypeOK
  <2>2. reply[1].req = cur /\ Means(reply[1])
    BY <2>1 DEF Meeting, Replying
  <2>3. reply[1].pos = 1
    BY <1>11 DEF Coming
  <2> QED
    BY <1>9, <2>2, <2>3
<1>13. spc \in {"size", "data", "checksum"}
  BY <1>11, <1>12 DEF Coming
<1>14. RawPhase(requests[cur]) /\ Writing(requests[cur]) /\ EndOf(requests[cur]) = Start(cur + 1)
  BY <1>13, Current
<1>15. spc = "size" /\ buf = <<>> /\ file = <<>> /\ rd = RawAt(requests[cur]) + Len(buf)
  BY <1>6, <1>13, <1>14 DEF RawPhase, Writing
<1>16. cur \in 1..Len(requests)
  BY <1>2, <1>4, <1>5
<1>17. RawAt(requests[cur]) \in Nat /\ EndOf(requests[cur]) = RawAt(requests[cur])
  BY <1>6, <1>16, RawAtType
<1>18. Start(cur + 1) = Len(stream)
  BY <1>2, <1>4, <1>5 DEF Start
<1>19. Len(buf) = 0 /\ rd = RawAt(requests[cur])
  BY <1>15, <1>17
<1> QED
  BY <1>4, <1>5, <1>6, <1>10, <1>12, <1>14, <1>15, <1>17, <1>18, <1>19

(* What stood in the stream stands there when it grows.                    *)
LEMMA WrittenStays ==
  ASSUME TypeInv, NEW k \in 1..Len(requests), NEW t,
         \A j \in 1..Len(stream) : t[j] = stream[j],
         EndOf(requests[k]) <= Len(stream), Written(stream, requests[k])
  PROVE  Written(t, requests[k])
<1> DEFINE at == requests[k].at
           len == requests[k].len
           raw == RawAt(requests[k])
           size == Len(requests[k].data)
           end == EndOf(requests[k])
<1>1. /\ at \in Nat /\ len \in Nat /\ requests[k].data \in Seq(Byte)
      /\ requests[k].raw \in BOOLEAN
  BY RequestFields
<1>2. size \in Nat /\ Len(stream) \in Nat
  BY <1>1 DEF TypeInv, TypeOK
<1>3. raw = at + 7 + len
  BY DEF RawAt, HeaderSize
<1>4. /\ requests[k].raw => end = raw + 4 + size + 1
      /\ ~requests[k].raw => end = raw
      /\ end <= Len(stream)
  BY RawAtType
<1> HIDE DEF at, len, raw, size, end
<1>5. raw <= end /\ (requests[k].raw => raw + 4 + size <= Len(stream)) /\ raw <= Len(stream)
  BY <1>1, <1>2, <1>3, <1>4
<1>6. \A j \in 1..7 : at + j \in 1..Len(stream)
  BY <1>1, <1>2, <1>3, <1>5
<1>7. requests[k].raw => /\ \A j \in 1..4 : raw + j \in 1..Len(stream)
                         /\ \A j \in 1..size : raw + 4 + j \in 1..Len(stream)
  BY <1>1, <1>2, <1>3, <1>5
<1> USE DEF at, len, raw, size
<1>8. \A j \in 1..7 : t[at + j] = Header(requests[k].good, requests[k].cmd, requests[k].len)[j]
  BY <1>6 DEF Written
<1>9. requests[k].raw => /\ \A j \in 1..4 : t[raw + j] = SizeBytes(size)[j]
                         /\ \A j \in 1..size : t[raw + 4 + j] = requests[k].data[j]
  BY <1>7 DEF Written
<1> QED
  BY <1>8, <1>9 DEF Written

LEMMA EmptyLength == Len(<<>>) = 0
OBVIOUS

LEMMA NoMessages ==
  /\ \A k \in 1..Len(<<>>) : FALSE
  /\ \A k \in 1..Len(<<>>) - 1 : FALSE
<1>1. (\A k \in 1..0 : FALSE) /\ (\A k \in 1..0 - 1 : FALSE)
  OBVIOUS
<1> QED
  BY <1>1, EmptyLength, Zenon

LEMMA Replaced ==
  ASSUME NEW rs \in Seq(Request), NEW k \in 1..Len(rs), NEW r
  PROVE  Len([rs EXCEPT ![k] = r]) = Len(rs) /\ [rs EXCEPT ![k] = r][k] = r
OBVIOUS

LEMMA Places ==
  ASSUME NEW s \in Seq(Byte), NEW t \in Seq(Byte)
  PROVE  /\ s \o t \in Seq(Byte) /\ Len(s \o t) = Len(s) + Len(t)
         /\ Len(s) \in Nat /\ Len(t) \in Nat
         /\ \A j \in 1..Len(s) : (s \o t)[j] = s[j]
         /\ \A j \in 1..Len(t) : (s \o t)[Len(s) + j] = t[j]
OBVIOUS

LEMMA PlacesOfThree ==
  ASSUME NEW s \in Seq(Byte), NEW t \in Seq(Byte), NEW u \in Seq(Byte)
  PROVE  /\ s \o t \o u \in Seq(Byte) /\ Len(s \o t \o u) = Len(s) + Len(t) + Len(u)
         /\ \A j \in 1..Len(s) : (s \o t \o u)[j] = s[j]
         /\ \A j \in 1..Len(t) : (s \o t \o u)[Len(s) + j] = t[j]
         /\ \A j \in 1..Len(u) : (s \o t \o u)[Len(s) + Len(t) + j] = u[j]
<1>1. /\ s \o t \in Seq(Byte) /\ Len(s \o t) = Len(s) + Len(t)
      /\ Len(s) \in Nat /\ Len(t) \in Nat
      /\ \A j \in 1..Len(s) : (s \o t)[j] = s[j]
      /\ \A j \in 1..Len(t) : (s \o t)[Len(s) + j] = t[j]
  BY Places
<1> DEFINE st == s \o t
<1>2. st \in Seq(Byte)
  BY <1>1
<1> HIDE DEF st
<1>3. /\ st \o u \in Seq(Byte) /\ Len(st \o u) = Len(st) + Len(u)
      /\ \A j \in 1..Len(st) : (st \o u)[j] = st[j]
      /\ \A j \in 1..Len(u) : (st \o u)[Len(st) + j] = u[j]
  BY <1>2, Places
<1>4. /\ \A j \in 1..Len(s) : j \in 1..Len(s) + Len(t)
      /\ \A j \in 1..Len(t) : Len(s) + j \in 1..Len(s) + Len(t)
  BY <1>1
<1> QED
  BY <1>1, <1>3, <1>4, Zenon DEF st

(* The host has the Ok of its upload and goes on with size, file and       *)
(* checksum.                                                               *)
Begins(data, sum) ==
  /\ stream' = stream \o SizeBytes(Len(data)) \o data \o <<sum>>
  /\ requests' = [requests EXCEPT ![ack + 1] =
       [@ EXCEPT !.raw = TRUE, !.data = data, !.sum = sum]]

LEMMA RawBegins ==
  ASSUME TypeInv, Meeting, toHost # <<>>, toHost' = Tail(toHost), hpc = "frame",
         ack < Len(requests), toHost[1].val = Ok,
         requests[ack + 1].good, requests[ack + 1].cmd = Upload,
         NEW data \in UploadFiles, NEW sum \in Byte,
         Begins(data, sum), hpc' = "result", UNCHANGED <<rd, saturnVars, base, ack>>
  PROVE  Meeting'
<1>1. /\ cur = ack + 1 /\ Len(requests) = ack + 1 /\ cur \in Asked
      /\ ~requests[cur].raw
      /\ toHost' = <<>> /\ reply = <<>> /\ spc = "size" /\ buf = <<>> /\ file = <<>>
      /\ rd = RawAt(requests[cur]) /\ RawAt(requests[cur]) = Len(stream)
  BY UploadDue
<1>2. UNCHANGED <<spc, cur, buf, need, file, reply, then>>
  BY DEF saturnVars
<1>3. /\ ack \in Nat /\ cur \in Nat /\ base \in Nat /\ base <= ack
      /\ requests \in Seq(Request) /\ stream \in Seq(Byte) /\ Len(stream) \in Nat
  BY DEF TypeInv, TypeOK, Meeting, Uploading
<1>4. /\ data \in Seq(Byte) /\ Len(data) < 256 * 256 * 256 /\ Len(data) \in Nat
      /\ SizeBytes(Len(data)) \in Seq(Byte) /\ Len(SizeBytes(Len(data))) = 4
  <2>1. data \in Seq(Byte) /\ Len(data) < 256 * 256 * 256
    BY HostInputAssumption, Zenon
  <2>2. Len(data) \in Nat
    BY <2>1
  <2> QED
    BY <2>1, <2>2, SizeBytesType
<1>5. /\ Len(stream') = Len(stream) + 4 + Len(data) + 1
      /\ \A j \in 1..Len(stream) : stream'[j] = stream[j]
      /\ \A j \in 1..4 : stream'[Len(stream) + j] = SizeBytes(Len(data))[j]
      /\ \A j \in 1..Len(data) : stream'[Len(stream) + 4 + j] = data[j]
  <2> DEFINE size == SizeBytes(Len(data))
             last == <<sum>>
  <2>1. /\ size \in Seq(Byte) /\ Len(size) = 4 /\ last \in Seq(Byte) /\ Len(last) = 1
        /\ stream' = stream \o size \o data \o last
    BY <1>4 DEF Begins
  <2> HIDE DEF size, last
  <2> DEFINE t == stream \o size \o data
  <2>2. /\ t \in Seq(Byte) /\ Len(t) = Len(stream) + Len(size) + Len(data)
        /\ \A j \in 1..Len(stream) : t[j] = stream[j]
        /\ \A j \in 1..Len(size) : t[Len(stream) + j] = size[j]
        /\ \A j \in 1..Len(data) : t[Len(stream) + Len(size) + j] = data[j]
    <3>1. stream \in Seq(Byte) /\ size \in Seq(Byte) /\ data \in Seq(Byte)
      BY <1>3, <1>4, <2>1
    <3> QED
      BY <3>1, PlacesOfThree
  <2> HIDE DEF t
  <2>3. /\ Len(stream') = Len(t) + Len(last)
        /\ \A j \in 1..Len(t) : stream'[j] = t[j]
    <3>1. t \in Seq(Byte) /\ last \in Seq(Byte)
      BY <2>1, <2>2
    <3>2. /\ Len(t \o last) = Len(t) + Len(last)
          /\ \A j \in 1..Len(t) : (t \o last)[j] = t[j]
      BY <3>1, Places
    <3>3. stream' = t \o last
      BY <2>1 DEF t
    <3> QED
      BY <3>2, <3>3, Zenon
  <2>4. \A a, d \in Nat :
          /\ \A j \in 1..a : j \in 1..a + 4 + d
          /\ \A j \in 1..4 : a + j \in 1..a + 4 + d
          /\ \A j \in 1..d : a + 4 + j \in 1..a + 4 + d
    OBVIOUS
  <2>5. /\ Len(t) = Len(stream) + 4 + Len(data)
        /\ \A j \in 1..4 : t[Len(stream) + j] = size[j]
        /\ \A j \in 1..Len(data) : t[Len(stream) + 4 + j] = data[j]
    BY <2>1, <2>2, Zenon
  <2>6. /\ \A j \in 1..Len(stream) : j \in 1..Len(t)
        /\ \A j \in 1..4 : Len(stream) + j \in 1..Len(t)
        /\ \A j \in 1..Len(data) : Len(stream) + 4 + j \in 1..Len(t)
    BY <1>3, <1>4, <2>4, <2>5, Zenon
  <2>7. Len(stream') = Len(stream) + 4 + Len(data) + 1
    BY <2>1, <2>3, <2>5, Zenon
  <2>8. /\ \A j \in 1..Len(stream) : stream'[j] = stream[j]
        /\ \A j \in 1..4 : stream'[Len(stream) + j] = size[j]
        /\ \A j \in 1..Len(data) : stream'[Len(stream) + 4 + j] = data[j]
    BY <2>2, <2>3, <2>5, <2>6, Zenon
  <2> QED
    BY <2>7, <2>8 DEF size
<1>6. /\ cur \in 1..Len(requests) /\ Len(requests') = Len(requests)
      /\ requests'[cur] = [requests[cur] EXCEPT !.raw = TRUE, !.data = data, !.sum = sum]
      /\ \A k \in 1..Len(requests) : k # cur => requests'[k] = requests[k]
  <2> DEFINE r == [requests[cur] EXCEPT !.raw = TRUE, !.data = data, !.sum = sum]
  <2>1. cur \in 1..Len(requests)
    BY <1>1, <1>3
  <2>2. requests' = [requests EXCEPT ![cur] = r]
    BY <1>1 DEF Begins
  <2>3. r \in Request
    <3>1. requests[cur] \in Request
      BY <2>1, RequestFields
    <3> QED
      BY <1>4, <3>1, Zenon DEF Request
  <2> HIDE DEF r
  <2>4. Len(requests') = Len(requests)
        /\ \A k \in 1..Len(requests) : requests'[k] = IF k = cur THEN r ELSE requests[k]
    BY <1>3, <2>1, <2>2, <2>3, ExceptSeq
  <2> QED
    BY <2>1, <2>4 DEF r
<1>7. /\ requests'[cur].raw = TRUE /\ requests'[cur].data = data
      /\ requests'[cur].at = requests[cur].at /\ requests'[cur].len = requests[cur].len
      /\ requests'[cur].good = requests[cur].good /\ requests'[cur].cmd = requests[cur].cmd
  <2>1. requests[cur] \in Request
    BY <1>6, RequestFields
  <2>2. requests'[cur] = [requests[cur] EXCEPT !.raw = TRUE, !.data = data, !.sum = sum]
    BY <1>6
  <2> DEFINE r == requests[cur]
             n == requests'[cur]
  <2> HIDE DEF r, n
  <2>3. r \in Request /\ n = [r EXCEPT !.raw = TRUE, !.data = data, !.sum = sum]
    BY <2>1, <2>2, Zenon DEF r, n
  <2>4. /\ n.raw = TRUE /\ n.data = data /\ n.at = r.at /\ n.len = r.len
        /\ n.good = r.good /\ n.cmd = r.cmd
    BY <2>3 DEF Request
  <2> QED
    BY <2>4, Zenon DEF r, n
<1>8. RawAt(requests'[cur]) = Len(stream)
  BY <1>1, <1>7 DEF RawAt
<1>9. EndOf(requests'[cur]) = Len(stream')
  <2>1. (IF requests'[cur].raw THEN 4 + Len(requests'[cur].data) + 1 ELSE 0)
          = 4 + Len(data) + 1
    BY <1>7
  <2>2. EndOf(requests'[cur]) = RawAt(requests'[cur]) + (4 + Len(data) + 1)
    BY <2>1, Zenon DEF EndOf, RawAt
  <2>3. \A a, d \in Nat : a + (4 + d + 1) = a + 4 + d + 1
    OBVIOUS
  <2>4. EndOf(requests'[cur]) = Len(stream) + (4 + Len(data) + 1)
    BY <1>8, <2>2, Zenon
  <2>5. Len(stream) + (4 + Len(data) + 1) = Len(stream) + 4 + Len(data) + 1
    BY <1>3, <1>4, <2>3, Zenon
  <2> QED
    BY <1>5, <2>4, <2>5, Zenon
<1>10. Layout'
  <2>1. /\ Asked' = Asked
        /\ \A k \in Asked : /\ k \in 1..Len(requests)
                            /\ k # cur => k + 1 \in 1..Len(requests)
    BY <1>1, <1>3, <1>6 DEF Asked
  <2>2. ASSUME NEW k \in Asked, k # cur
        PROVE  /\ requests'[k].good \/ requests'[k].len = 0
               /\ EndOf(requests'[k]) = Start(k + 1)'
               /\ EndOf(requests'[k]) <= Len(stream')
               /\ Written(stream', requests'[k])
    <3>1. /\ requests'[k] = requests[k] /\ requests'[k + 1].at = requests[k + 1].at
          /\ k \in 1..Len(requests) /\ k + 1 \in 1..Len(requests) /\ k + 1 <= Len(requests)
      <4>1. k \in 1..Len(requests) /\ k + 1 \in 1..Len(requests) /\ k + 1 <= Len(requests)
        <5>1. k \in 1..Len(requests) /\ k + 1 \in 1..Len(requests)
          BY <2>1, <2>2, Zenon
        <5>2. Len(requests) \in Nat
          BY <1>3
        <5> HIDE <2>1, <2>2
        <5> QED
          BY <5>1, <5>2
      <4>2. requests'[k] = requests[k]
        BY <1>6, <2>2, <4>1
      <4>3. requests'[k + 1].at = requests[k + 1].at
        <5>1. CASE k + 1 = cur
          BY <1>7, <5>1
        <5>2. CASE k + 1 # cur
          BY <1>6, <4>1, <5>2
        <5> QED
          BY <5>1, <5>2
      <4> QED
        BY <4>1, <4>2, <4>3
    <3>2. Start(k + 1)' = Start(k + 1)
      BY <1>6, <3>1 DEF Start
    <3>3. /\ requests[k].good \/ requests[k].len = 0
          /\ EndOf(requests[k]) = Start(k + 1) /\ EndOf(requests[k]) <= Len(stream)
          /\ Written(stream, requests[k])
      BY DEF Meeting, Layout
    <3>4. Written(stream', requests[k])
      BY <1>5, <3>1, <3>3, WrittenStays
    <3>5. EndOf(requests[k]) \in Nat
      BY <3>1, EndOfType
    <3>6. EndOf(requests[k]) <= Len(stream')
      BY <1>3, <1>4, <1>5, <3>3, <3>5
    <3> QED
      BY <3>1, <3>2, <3>3, <3>4, <3>6
  <2>3. /\ requests'[cur].good \/ requests'[cur].len = 0
        /\ EndOf(requests'[cur]) = Start(cur + 1)'
        /\ EndOf(requests'[cur]) <= Len(stream')
        /\ Written(stream', requests'[cur])
    <3>1. requests'[cur].good
      BY <1>1, <1>7
    <3>2. Start(cur + 1)' = Len(stream')
      BY <1>1, <1>2, <1>3, <1>6 DEF Start
    <3>3. EndOf(requests[cur]) <= Len(stream) /\ Written(stream, requests[cur])
      BY <1>1 DEF Meeting, Layout
    <3>4. Written(stream', requests[cur])
      BY <1>5, <1>6, <3>3, WrittenStays
    <3>5. Written(stream', requests'[cur])
      <4>1. \A j \in 1..7 : stream'[requests'[cur].at + j]
              = Header(requests'[cur].good, requests'[cur].cmd, requests'[cur].len)[j]
        <5>1. \A j \in 1..7 : stream'[requests[cur].at + j]
                = Header(requests[cur].good, requests[cur].cmd, requests[cur].len)[j]
          BY <3>4 DEF Written
        <5> QED
          BY <1>7, <5>1, Zenon
      <4>2. \A j \in 1..4 :
              stream'[RawAt(requests'[cur]) + j] = SizeBytes(Len(requests'[cur].data))[j]
        BY <1>5, <1>7, <1>8
      <4>3. \A j \in 1..Len(requests'[cur].data) :
              stream'[RawAt(requests'[cur]) + 4 + j] = requests'[cur].data[j]
        BY <1>5, <1>7, <1>8
      <4> QED
        BY <4>1, <4>2, <4>3 DEF Written
    <3>6. EndOf(requests'[cur]) <= Len(stream')
      BY <1>3, <1>4, <1>5, <1>9
    <3> QED
      BY <1>9, <3>1, <3>2, <3>5, <3>6
  <2>4. ASSUME NEW k \in Asked
        PROVE  /\ requests'[k].good \/ requests'[k].len = 0
               /\ EndOf(requests'[k]) = Start(k + 1)'
               /\ EndOf(requests'[k]) <= Len(stream')
               /\ Written(stream', requests'[k])
    <3>1. CASE k = cur
      <4>1. Start(k + 1)' = Start(cur + 1)'
        BY <1>2, <3>1 DEF Start
      <4> QED
        BY <2>3, <3>1, <4>1, Zenon
    <3>2. CASE k # cur
      BY <2>2, <3>2, Zenon
    <3> QED
      BY <3>1, <3>2, Zenon
  <2> QED
    BY <2>1, <2>4 DEF Layout
<1>11. Uploading'
  <2>1. Asked' = Asked /\ \A k \in Asked : k \in 1..Len(requests)
    BY <1>1, <1>3, <1>6 DEF Asked
  <2>2. \A k \in Asked : requests'[k].cmd = requests[k].cmd
    BY <1>6, <1>7, <2>1
  <2>3. \A k \in Asked : requests'[k].cmd = Upload /\ k < Len(requests') => k <= ack
    BY <1>6, <2>2 DEF Meeting, Uploading
  <2>4. \A k \in Asked : k # cur /\ requests'[k].raw =>
          requests'[k].cmd = Upload /\ Len(requests'[k].data) < 256 * 256 * 256 /\ k <= ack
    BY <1>6, <2>1 DEF Meeting, Uploading
  <2>5. requests'[cur].cmd = Upload /\ Len(requests'[cur].data) < 256 * 256 * 256
    BY <1>1, <1>4, <1>7
  <2> QED
    BY <1>1, <1>3, <2>1, <2>3, <2>4, <2>5 DEF Uploading
<1>12. Place'
  <2>1. cur \in base..Len(requests) /\ cur > base
    BY <1>1, <1>3
  <2>2. rd = RawAt(requests'[cur]) + Len(buf) /\ Len(buf) = 0
    BY <1>1, <1>3, <1>8
  <2>3. RawPhase(requests[cur])'
    BY <1>1, <1>2, <1>7, <2>2 DEF RawPhase
  <2>4. InFrame(requests[cur])' /\ Writing(requests[cur])'
    BY <1>1, <1>2, <1>7 DEF InFrame, Writing
  <2> QED
    BY <1>1, <1>2, <1>6, <2>1, <2>3, <2>4 DEF Place
<1>13. Replying'
  BY <1>1, <1>2 DEF Replying
<1>14. Channel'
  <2>1. Coming'.req = cur /\ Coming'.pos = 1 /\ Coming'.more = 0
    BY <1>1, <1>2 DEF Coming
  <2>2. Due(Coming)'
    BY <1>1, <2>1 DEF Due
  <2>4. requests'[ack + 1].cmd = Upload /\ requests'[ack + 1].raw
    BY <1>1, <1>7
  <2>5. (\A k \in 1..Len(toHost) : FALSE)' /\ (\A k \in 1..Len(toHost) - 1 : FALSE)'
    BY <1>1, NoMessages, Zenon
  <2>6. /\ (\A k \in 1..Len(toHost) : Means(toHost[k]))'
        /\ (\A k \in 1..Len(toHost) - 1 : Follows(toHost[k], toHost[k + 1]))'
    BY <2>5, Zenon
  <2>7. (ack + 1 <= Coming.req)'
    BY <1>1, <1>3, <2>1
  <2> QED
    BY <1>1, <2>2, <2>4, <2>5, <2>6, <2>7 DEF Channel
<1> QED
  BY <1>10, <1>11, <1>12, <1>13, <1>14 DEF Meeting

LEMMA HostTakeFrameMeets == ASSUME TypeInv, Meeting, HostTakeFrame PROVE Meeting'
<1>1. /\ toHost # <<>> /\ ack < Len(requests) /\ hpc = "frame" /\ toHost' = Tail(toHost)
      /\ Head(toHost) = toHost[1] /\ Oldest = requests[ack + 1]
      /\ UNCHANGED <<rd, saturnVars, base>>
  <2>1. /\ toHost # <<>> /\ ack < Len(requests) /\ hpc = "frame" /\ toHost' = Tail(toHost)
        /\ UNCHANGED <<rd, saturnVars, base>>
    BY Zenon DEF HostTakeFrame
  <2>2. toHost \in Seq(Message)
    BY DEF TypeInv, TypeOK
  <2> QED
    BY <2>1, <2>2 DEF Oldest
<1>2. /\ toHost[1].req = ack + 1 /\ toHost[1].pos = 0 /\ toHost[1] \in Message
      /\ toHost[1].more = Rest(toHost[1], requests[ack + 1])
  BY <1>1, AfterTake DEF Means
<1>3. toHost[1].size \in Nat
  BY <1>2, MessageFields
<1> DEFINE m == toHost[1]
           r == requests[ack + 1]
<1>4. CASE m.val = Ok /\ r.good /\ r.cmd = List
  <2>1. hpc' = "sentinel" /\ UNCHANGED <<stream, requests, ack, left>>
    BY <1>1, <1>4 DEF HostTakeFrame, List, Upload, Download
  <2>2. toHost[1].more = 1
    BY <1>2, <1>4 DEF Rest
  <2> QED
    BY <1>1, <1>4, <2>1, <2>2, GoesOnMeets
<1>5. CASE m.val = Ok /\ r.good /\ r.cmd = Download
  <2>1. hpc' = "raw" /\ left' = m.size + 1 /\ UNCHANGED <<stream, requests, ack>>
    BY <1>1, <1>5 DEF HostTakeFrame, List, Upload, Download
  <2>2. toHost[1].more = m.size + 1
    BY <1>2, <1>5 DEF Rest, List, Upload, Download
  <2>3. toHost[1].more > 0
    BY <1>3, <2>2
  <2> QED
    BY <1>1, <1>5, <2>1, <2>2, <2>3, GoesOnMeets
<1>6. CASE m.val = Ok /\ r.good /\ r.cmd = Upload
  <2>1. /\ hpc' = "result" /\ UNCHANGED <<ack, left>>
        /\ \E data \in UploadFiles, sum \in Byte :
             /\ stream' = stream \o SizeBytes(Len(data)) \o data \o <<sum>>
             /\ requests' = [requests EXCEPT ![ack + 1] =
                  [@ EXCEPT !.raw = TRUE, !.data = data, !.sum = sum]]
    <3>1. Upload # List /\ Upload # Download
      BY DEF List, Upload, Download
    <3> QED
      BY <1>1, <1>6, <3>1, Zenon DEF HostTakeFrame
  <2>2. PICK data \in UploadFiles, sum \in Byte : Begins(data, sum)
    BY <2>1 DEF Begins
  <2> QED
    BY <1>1, <1>6, <2>1, <2>2, RawBegins
<1>7. CASE ~(m.val = Ok /\ r.good /\ r.cmd \in {List, Download, Upload})
  <2>1. Answered /\ UNCHANGED <<stream, requests>>
    BY <1>1, <1>7 DEF HostTakeFrame
  <2>2. toHost[1].more = 0
    BY <1>2, <1>7 DEF Rest
  <2> QED
    BY <1>1, <2>1, <2>2, AnsweredMeets
<1> QED
  BY <1>4, <1>5, <1>6, <1>7

LEMMA HostTakeRestMeets == ASSUME TypeInv, Meeting, HostTakeRest PROVE Meeting'
<1>1. /\ toHost # <<>> /\ ack < Len(requests) /\ hpc # "frame" /\ toHost' = Tail(toHost)
      /\ UNCHANGED <<stream, rd, saturnVars, requests, base>>
  BY DEF HostTakeRest
<1>2. Due(toHost[1]) /\ toHost[1] \in Message
  BY <1>1, AfterTake
<1>3. /\ toHost[1].more \in Nat /\ left \in Nat
      /\ hpc \in {"sentinel", "result"} => toHost[1].more = 0
      /\ hpc = "raw" => toHost[1].more + 1 = left
      /\ hpc \in {"sentinel", "raw", "result"}
  BY <1>1, <1>2, MessageFields DEF Due, TypeInv, TypeOK
<1>4. CASE hpc = "raw" /\ left > 1
  <2>1. left' = left - 1 /\ UNCHANGED <<ack, hpc>>
    BY <1>4 DEF HostTakeRest
  <2>2. toHost[1].more > 0 /\ left' = toHost[1].more
    BY <1>3, <1>4, <2>1
  <2>3. requests[ack + 1].cmd = Download
    BY <1>4 DEF Meeting, Channel
  <2> QED
    BY <1>1, <1>4, <2>1, <2>2, <2>3, GoesOnMeets
<1>5. CASE ~(hpc = "raw" /\ left > 1)
  <2>1. Answered
    BY <1>5 DEF HostTakeRest
  <2>2. toHost[1].more = 0
    BY <1>3, <1>5
  <2> QED
    BY <1>1, <2>1, <2>2, AnsweredMeets
<1> QED
  BY <1>4, <1>5

(* There is never a message nobody asked for.                              *)
LEMMA NothingToDiscard == ASSUME TypeInv, Meeting, HostDiscard PROVE FALSE
<1>1. toHost # <<>> /\ ack = Len(requests) /\ toHost' = Tail(toHost)
  BY DEF HostDiscard
<1>2. toHost[1].req = ack + 1 /\ toHost[1].req \in base + 1..cur
  BY <1>1, AfterTake DEF Means
<1>3. cur <= Len(requests) /\ cur \in Nat /\ ack \in Nat /\ base \in Nat
  BY DEF Meeting, Place, TypeInv, TypeOK
<1> QED
  BY <1>1, <1>2, <1>3

LEMMA HostPutMeets == ASSUME Meeting, HostPut PROVE Meeting'
<1>1. UNCHANGED <<stream, rd, toHost, saturnVars, hostVars>>
  BY DEF HostPut
<1>2. /\ UNCHANGED <<stream, rd, toHost, requests, ack, hpc, left, base>>
      /\ UNCHANGED <<spc, cur, buf, need, file, reply, then>>
  BY <1>1 DEF saturnVars, hostVars
<1>3. Coming' = Coming
  BY <1>2 DEF Coming
<1>4. Channel'
  BY <1>2, <1>3 DEF Meeting, Channel, Means, Rest, Follows, Due
<1> QED
  BY <1>2, <1>4, LayoutKept, UploadingKept, PlaceKept, ReplyingKept DEF Meeting

-----------------------------------------------------------------------------
(* The host makes a request.                                               *)

LEMMA RequestMade ==
  ASSUME TypeInv, NEW good \in BOOLEAN, NEW cmd \in RequestCommands, NEW len \in PayloadLengths,
         HostRequest(good, cmd, len)
  PROVE  /\ Len(requests') = Len(requests) + 1
         /\ \A k \in 1..Len(requests) : requests'[k] = requests[k]
         /\ requests'[Len(requests) + 1] =
              [at |-> Len(stream), good |-> good, cmd |-> cmd, len |-> len,
               raw |-> FALSE, data |-> <<>>, sum |-> 0]
         /\ Len(stream') = Len(stream) + 7 + len /\ len \in Nat /\ Len(stream) \in Nat
         /\ \A j \in 1..Len(stream) : stream'[j] = stream[j]
         /\ \A j \in 1..7 : stream'[Len(stream) + j] = Header(good, cmd, len)[j]
<1>1. len \in Nat /\ len < 256 * 256 /\ cmd \in Byte
  <2>1. len \in 0..(256 * 256 - 1) /\ cmd \in Byte
    BY HostInputAssumption, Zenon
  <2> QED
    BY <2>1
<1>2. stream \in Seq(Byte) /\ Len(stream) \in Nat /\ requests \in Seq(Request)
  BY DEF TypeInv, TypeOK
<1> DEFINE h == Header(good, cmd, len)
           p == Payload(len)
           r == [at |-> Len(stream), good |-> good, cmd |-> cmd, len |-> len,
                 raw |-> FALSE, data |-> <<>>, sum |-> 0]
<1>3. h \in Seq(Byte) /\ Len(h) = 7
  <2>1. len \div 256 \in 0..255 /\ len % 256 \in 0..255
    BY <1>1
  <2>2. /\ 83 \in Byte /\ 82 \in Byte /\ 76 \in Byte /\ (IF good THEN 49 ELSE 50) \in Byte
        /\ len \div 256 \in Byte /\ len % 256 \in Byte
    BY <2>1 DEF Byte
  <2> QED
    BY <1>1, <2>2 DEF Header
<1>4. p \in Seq(Byte) /\ Len(p) = len
  BY <1>1, HostInputAssumption DEF Payload
<1>5. stream' = stream \o h \o p /\ requests' = Append(requests, r)
  BY DEF HostRequest
<1>6. r \in Request
  <2>1. <<>> \in Seq(Byte) /\ FALSE \in BOOLEAN
    OBVIOUS
  <2>2. 0 \in Byte
    BY DEF Byte
  <2>3. len \in 0..(256 * 256 - 1)
    BY HostInputAssumption, Zenon
  <2> QED
    BY <1>1, <1>2, <2>1, <2>2, <2>3, Zenon DEF Request
<1> HIDE DEF h, p, r
<1>7. /\ Len(requests') = Len(requests) + 1
      /\ \A k \in 1..Len(requests) : requests'[k] = requests[k]
      /\ requests'[Len(requests) + 1] = r
  BY <1>2, <1>5, <1>6, AppendProperties
<1>8. /\ Len(stream \o h \o p) = Len(stream) + Len(h) + Len(p)
      /\ \A j \in 1..Len(stream) : (stream \o h \o p)[j] = stream[j]
      /\ \A j \in 1..Len(h) : (stream \o h \o p)[Len(stream) + j] = h[j]
  <2>1. stream \in Seq(Byte) /\ h \in Seq(Byte) /\ p \in Seq(Byte)
    BY <1>2, <1>3, <1>4
  <2> QED
    BY <2>1, PlacesOfThree
<1>9. /\ Len(stream') = Len(stream) + 7 + len
      /\ \A j \in 1..Len(stream) : stream'[j] = stream[j]
      /\ \A j \in 1..7 : stream'[Len(stream) + j] = h[j]
  BY <1>3, <1>4, <1>5, <1>8, Zenon
<1> QED
  BY <1>1, <1>2, <1>7, <1>9 DEF h, r

(* The new request lies in the stream behind the others.                   *)
LEMMA RequestPlaced ==
  ASSUME TypeInv, NEW good \in BOOLEAN, NEW cmd \in RequestCommands, NEW len \in PayloadLengths,
         HostRequest(good, cmd, len)
  PROVE  /\ \A k \in 1..Len(requests) + 1 : Start(k)' = Start(k)
         /\ LET r == requests'[Len(requests) + 1]
            IN /\ r.good \/ r.len = 0
               /\ ~r.raw
               /\ EndOf(r) = Len(stream') /\ Written(stream', r)
         /\ \A k \in Nat : k > Len(requests) + 1 => Start(k)' = Len(stream')
         /\ Len(stream) <= Len(stream')
<1>1. /\ Len(requests') = Len(requests) + 1
      /\ \A k \in 1..Len(requests) : requests'[k] = requests[k]
      /\ requests'[Len(requests) + 1] =
           [at |-> Len(stream), good |-> good, cmd |-> cmd, len |-> len,
            raw |-> FALSE, data |-> <<>>, sum |-> 0]
      /\ Len(stream') = Len(stream) + 7 + len /\ len \in Nat /\ Len(stream) \in Nat
      /\ \A j \in 1..7 : stream'[Len(stream) + j] = Header(good, cmd, len)[j]
  BY RequestMade
<1>2. good \/ len = 0
  BY DEF HostRequest
<1>3. Len(requests) \in Nat
  BY DEF TypeInv, TypeOK
<1> DEFINE r == requests'[Len(requests) + 1]
<1>4. r.at = Len(stream) /\ r.good = good /\ r.cmd = cmd /\ r.len = len /\ r.raw = FALSE
  BY <1>1
<1>5. \A k \in 1..Len(requests) + 1 : Start(k)' = Start(k)
  <2>1. ASSUME NEW k \in 1..Len(requests) + 1 PROVE Start(k)' = Start(k)
    <3>1. CASE k = Len(requests) + 1
      <4>1. ~(k <= Len(requests)) /\ k <= Len(requests')
        BY <1>1, <1>3, <3>1
      <4> QED
        BY <1>4, <3>1, <4>1 DEF Start
    <3>2. CASE k # Len(requests) + 1
      <4>1. k \in 1..Len(requests) /\ k <= Len(requests) /\ k <= Len(requests')
        BY <1>1, <1>3, <3>2
      <4> QED
        BY <1>1, <4>1 DEF Start
    <3> QED
      BY <3>1, <3>2
  <2> QED
    BY <2>1
<1>7. \A k \in Nat : k > Len(requests) + 1 => Start(k)' = Len(stream')
  <2>1. \A k \in Nat : k > Len(requests) + 1 => ~(k <= Len(requests'))
    BY <1>1, <1>3
  <2> QED
    BY <2>1 DEF Start
<1> HIDE DEF r
<1>8. EndOf(r) = Len(stream')
  <2>1. Len(stream) + 7 + len + 0 = Len(stream) + 7 + len
    BY <1>1
  <2>2. (IF r.raw THEN 4 + Len(r.data) + 1 ELSE 0) = 0
    BY <1>4
  <2> QED
    BY <1>1, <1>4, <2>1, <2>2 DEF EndOf, HeaderSize
<1>9. Written(stream', r)
  BY <1>1, <1>4 DEF Written
<1>10. Len(stream) <= Len(stream')
  BY <1>1
<1> QED
  BY <1>2, <1>4, <1>5, <1>7, <1>8, <1>9, <1>10 DEF r

(* A request behind those of the same life of the host.                    *)
LEMMA HostRequestMeets ==
  ASSUME TypeInv, Meeting,
         NEW good \in BOOLEAN, NEW cmd \in RequestCommands, NEW len \in PayloadLengths,
         HostRequest(good, cmd, len), UNCHANGED <<base, cur>>
  PROVE  Meeting'
<1>1. UNCHANGED <<rd, toHost, spc, buf, need, file, reply, then, ack, hpc, left>>
  BY DEF HostRequest
<1>2. /\ Len(requests') = Len(requests) + 1
      /\ \A k \in 1..Len(requests) : requests'[k] = requests[k]
      /\ \A j \in 1..Len(stream) : stream'[j] = stream[j]
  BY RequestMade
<1>3. /\ Len(requests) \in Nat /\ base \in Nat /\ ack \in Nat /\ cur \in Nat
      /\ base <= ack /\ ack <= Len(requests) /\ cur \in base..Len(requests)
      /\ Len(stream) \in Nat /\ Len(stream') \in Nat
  BY NextTypes, RequestMade DEF Meeting, Uploading, Place, TypeInv, TypeOK
<1> DEFINE n == Len(requests) + 1
<1>4. /\ requests'[n].good \/ requests'[n].len = 0
      /\ ~requests'[n].raw
      /\ EndOf(requests'[n]) = Len(stream') /\ Written(stream', requests'[n])
  BY RequestPlaced
<1>5. /\ \A k \in 1..n : Start(k)' = Start(k)
      /\ \A k \in Nat : k > n => Start(k)' = Len(stream')
      /\ Len(stream) <= Len(stream')
  BY RequestPlaced
<1>6. /\ \A k \in Asked' : k \in Asked \/ k = n
      /\ \A k \in Asked : k \in 1..Len(requests) /\ k + 1 \in 1..n
      /\ n + 1 \in Nat /\ n + 1 > n
  BY <1>2, <1>3 DEF Asked
<1>7. Layout'
  <2>1. ASSUME NEW k \in Asked
        PROVE  /\ requests'[k].good \/ requests'[k].len = 0
               /\ EndOf(requests'[k]) = Start(k + 1)'
               /\ EndOf(requests'[k]) <= Len(stream')
               /\ Written(stream', requests'[k])
    <3>1. /\ requests'[k] = requests[k] /\ k \in 1..Len(requests) /\ Start(k + 1)' = Start(k + 1)
      BY <1>2, <1>5, <1>6
    <3>2. /\ requests[k].good \/ requests[k].len = 0
          /\ EndOf(requests[k]) = Start(k + 1) /\ EndOf(requests[k]) <= Len(stream)
          /\ Written(stream, requests[k])
      BY DEF Meeting, Layout
    <3>3. Written(stream', requests[k])
      BY <1>2, <3>1, <3>2, WrittenStays
    <3>4. EndOf(requests[k]) \in Nat
      BY <3>1, EndOfType
    <3>5. EndOf(requests[k]) <= Len(stream')
      BY <1>3, <1>5, <3>2, <3>4
    <3> QED
      BY <3>1, <3>2, <3>3, <3>5
  <2>2. ASSUME NEW k, k = n
        PROVE  /\ requests'[k].good \/ requests'[k].len = 0
               /\ EndOf(requests'[k]) = Start(k + 1)'
               /\ EndOf(requests'[k]) <= Len(stream')
               /\ Written(stream', requests'[k])
    <3>1. Start(k + 1)' = Len(stream')
      BY <1>5, <1>6, <2>2
    <3>2. EndOf(requests'[k]) = Len(stream') /\ Written(stream', requests'[k])
          /\ (requests'[k].good \/ requests'[k].len = 0)
      BY <1>4, <2>2
    <3>3. Len(stream') <= Len(stream')
      BY <1>3
    <3> QED
      BY <3>1, <3>2, <3>3
  <2>3. ASSUME NEW k \in Asked'
        PROVE  /\ requests'[k].good \/ requests'[k].len = 0
               /\ EndOf(requests'[k]) = Start(k + 1)'
               /\ EndOf(requests'[k]) <= Len(stream')
               /\ Written(stream', requests'[k])
    <3>1. CASE k \in Asked
      BY <2>1, <3>1, Zenon
    <3>2. CASE k = n
      BY <2>2, <3>2, Zenon
    <3> QED
      BY <1>6, <3>1, <3>2, Zenon
  <2> QED
    BY <2>3 DEF Layout
<1>8. Uploading'
  <2>1. ack < Len(requests) => requests[Len(requests)].cmd # Upload
    BY DEF HostRequest, MayRequest
  <2>2. ASSUME NEW k \in Asked, requests[k].cmd = Upload PROVE k <= ack
    <3>1. k < Len(requests) => k <= ack
      BY <2>2 DEF Meeting, Uploading
    <3>2. k = Len(requests) => ~(ack < Len(requests))
      BY <2>1, <2>2
    <3> QED
      BY <1>3, <1>6, <3>1, <3>2
  <2>3. \A k \in Asked' : requests'[k].cmd = Upload /\ k < Len(requests') => k <= ack
    BY <1>2, <1>3, <1>6, <2>2
  <2>4. \A k \in Asked' : requests'[k].raw => k \in Asked /\ requests'[k] = requests[k]
    BY <1>2, <1>4, <1>6
  <2>5. \A k \in Asked' : requests'[k].raw =>
          /\ requests'[k].cmd = Upload /\ Len(requests'[k].data) < 256 * 256 * 256
          /\ k <= ack \/ (k = ack + 1 /\ hpc = "result")
    BY <2>4 DEF Meeting, Uploading
  <2> QED
    BY <1>1, <1>3, <2>3, <2>5 DEF Uploading
<1>9. Place'
  <2>1. cur \in base..Len(requests') /\ cur + 1 \in 1..n
    BY <1>2, <1>3
  <2>2. spc = "poll" => rd = Start(cur + 1)'
    <3>1. spc = "poll" => rd = Start(cur + 1)
      BY DEF Meeting, Place
    <3>2. \A k : k = cur + 1 => Start(k)' = Start(k)
      BY <1>5, <2>1
    <3> QED
      BY <3>1, <3>2 DEF Start
  <2>3. spc # "poll" => cur > base /\ requests'[cur] = requests[cur]
    BY <1>2, <1>3 DEF Meeting, Place
  <2>4. spc # "poll" =>
          InFrame(requests[cur])' /\ RawPhase(requests[cur])' /\ Writing(requests[cur])'
    BY <1>1, <2>3 DEF Meeting, Place, InFrame, RawPhase, Writing, Cmd
  <2> QED
    BY <1>1, <2>1, <2>2, <2>3, <2>4 DEF Place
<1>10. \A m : Means(m) => Means(m)'
  <2>1. \A i : i \in base + 1..cur => requests'[i] = requests[i]
    BY <1>2, <1>3
  <2> QED
    BY <2>1 DEF Means, Rest
<1>11. Replying'
  BY <1>1, <1>10 DEF Meeting, Replying, Follows
<1>12. Channel'
  <2>1. Coming' = Coming
    BY <1>1 DEF Coming
  <2>2. hpc # "frame" => requests'[ack + 1] = requests[ack + 1]
    <3>1. hpc # "frame" => ack # Len(requests)
      BY DEF TypeInv, Registers
    <3> QED
      BY <1>2, <1>3, <3>1
  <2>3. (\A k \in 1..Len(toHost) : Means(toHost[k]))'
    BY <1>1, <1>10 DEF Meeting, Channel
  <2>4. (\A k \in 1..Len(toHost) - 1 : Follows(toHost[k], toHost[k + 1]))'
    BY <1>1 DEF Meeting, Channel, Follows
  <2>5. (toHost # <<>> => Due(toHost[1]) /\ Follows(toHost[Len(toHost)], Coming))'
    BY <1>1, <2>1 DEF Meeting, Channel, Due, Follows
  <2>6. (toHost = <<>> => Due(Coming))'
    BY <1>1, <2>1 DEF Meeting, Channel, Due
  <2> QED
    BY <1>1, <2>1, <2>2, <2>3, <2>4, <2>5, <2>6 DEF Meeting, Channel
<1> QED
  BY <1>7, <1>8, <1>9, <1>11, <1>12 DEF Meeting

(* A request of a host that starts over on a quiet link.                   *)
LEMMA StartingOverMeets ==
  ASSUME TypeInv, NEW good \in BOOLEAN, NEW cmd \in RequestCommands, NEW len \in PayloadLengths,
         HostRequest(good, cmd, len), cut, ~cut'
  PROVE  Meeting'
<1>1. UNCHANGED <<rd, toHost, spc, buf, need, file, reply, then, ack, hpc, left>>
  BY DEF HostRequest
<1>2. /\ Quiet /\ ack = Len(requests)
      /\ base' = Len(requests) /\ cur' = Len(requests)
  BY DEF HostRequest
<1>3. spc = "poll" /\ rd = Len(stream) /\ toHost = <<>>
  BY <1>2 DEF Quiet
<1>4. hpc = "frame" /\ reply = <<>>
  BY <1>2, <1>3 DEF TypeInv, TypeOK, Registers
<1>5. Len(requests) \in Nat /\ Len(stream) \in Nat /\ Len(stream') \in Nat
  BY RequestMade, NextTypes DEF TypeInv, TypeOK
<1>6. /\ Len(requests') = Len(requests) + 1
      /\ requests'[Len(requests) + 1] =
           [at |-> Len(stream), good |-> good, cmd |-> cmd, len |-> len,
            raw |-> FALSE, data |-> <<>>, sum |-> 0]
  BY RequestMade
<1> DEFINE n == Len(requests) + 1
<1>7. requests'[n].at = Len(stream) /\ ~requests'[n].raw
  BY <1>6
<1>8. /\ requests'[n].good \/ requests'[n].len = 0
      /\ EndOf(requests'[n]) = Len(stream') /\ Written(stream', requests'[n])
  BY RequestPlaced
<1>9. /\ \A k \in Nat : k > n => Start(k)' = Len(stream')
      /\ \A k \in 1..n : Start(k)' = Start(k)
  BY RequestPlaced
<1>10. /\ \A k \in Asked' : k = n
       /\ n + 1 \in Nat /\ n + 1 > n /\ n \in 1..n /\ ~(n <= Len(requests))
       /\ ~(n < Len(requests'))
  BY <1>2, <1>5, <1>6 DEF Asked
<1>11. Layout'
  <2>1. ASSUME NEW k \in Asked'
        PROVE  /\ requests'[k].good \/ requests'[k].len = 0
               /\ EndOf(requests'[k]) = Start(k + 1)'
               /\ EndOf(requests'[k]) <= Len(stream')
               /\ Written(stream', requests'[k])
    <3>1. k = n
      BY <1>10
    <3>2. Start(k + 1)' = Len(stream')
      BY <1>9, <1>10, <3>1
    <3>3. EndOf(requests'[k]) = Len(stream') /\ Written(stream', requests'[k])
          /\ (requests'[k].good \/ requests'[k].len = 0)
      BY <1>8, <3>1
    <3>4. Len(stream') <= Len(stream')
      BY <1>5
    <3> QED
      BY <3>2, <3>3, <3>4
  <2> QED
    BY <2>1 DEF Layout
<1>12. Uploading'
  <2>1. \A k \in Asked' : ~requests'[k].raw /\ ~(k < Len(requests'))
    BY <1>7, <1>10
  <2>2. base' <= ack'
    BY <1>1, <1>2, <1>5
  <2> QED
    BY <2>1, <2>2 DEF Uploading
<1>13. Place'
  <2>1. (cur \in base..Len(requests))'
    BY <1>2, <1>5, <1>6
  <2>2. (rd = Start(cur + 1))'
    <3>1. cur' + 1 <= Len(requests')
      BY <1>2, <1>5, <1>6
    <3> QED
      BY <1>1, <1>2, <1>3, <1>7, <3>1 DEF Start
  <2> QED
    BY <1>1, <1>3, <2>1, <2>2 DEF Place
<1>14. Replying'
  <2>1. (\A k \in 1..Len(reply) : FALSE)' /\ (\A k \in 1..Len(reply) - 1 : FALSE)'
    BY <1>1, <1>4, NoMessages, Zenon
  <2>2. /\ (\A k \in 1..Len(reply) : reply[k].req = cur /\ Means(reply[k]))'
        /\ (\A k \in 1..Len(reply) - 1 : reply[k].more > 0 /\ Follows(reply[k], reply[k + 1]))'
    BY <2>1, Zenon
  <2> QED
    BY <1>1, <1>4, <2>2 DEF Replying
<1>15. Channel'
  <2>1. (\A k \in 1..Len(toHost) : FALSE)' /\ (\A k \in 1..Len(toHost) - 1 : FALSE)'
    BY <1>1, <1>3, NoMessages, Zenon
  <2>2. /\ (\A k \in 1..Len(toHost) : Means(toHost[k]))'
        /\ (\A k \in 1..Len(toHost) - 1 : Follows(toHost[k], toHost[k + 1]))'
    BY <2>1, Zenon
  <2>3. Coming'.req = ack + 1 /\ Coming'.pos = 0
    BY <1>1, <1>2, <1>3, <1>4 DEF Coming
  <2>4. Due(Coming)'
    BY <1>1, <1>4, <2>3 DEF Due
  <2>5. (ack + 1 <= Coming.req)'
    BY <1>1, <1>2, <1>5, <2>3
  <2> QED
    BY <1>1, <1>3, <1>4, <2>2, <2>4, <2>5 DEF Channel
<1> QED
  BY <1>11, <1>12, <1>13, <1>14, <1>15 DEF Meeting

-----------------------------------------------------------------------------
(* The two ends stay in step.                                              *)

LEMMA InitInStep == Init => InStep
<1> SUFFICES ASSUME Init PROVE InStep
  OBVIOUS
<1>1. /\ stream = <<>> /\ rd = 0 /\ toHost = <<>> /\ spc = "poll" /\ cur = 0 /\ reply = <<>>
      /\ requests = <<>> /\ ack = 0 /\ hpc = "frame" /\ base = 0
  BY DEF Init
<1>2. Len(requests) = 0 /\ Len(stream) = 0
  BY <1>1, EmptyLength, Zenon
<1>3. \A k \in Asked : FALSE
  BY <1>1, <1>2 DEF Asked
<1>4. Layout
  BY <1>3, Zenon DEF Layout
<1>5. Uploading
  <2>1. base <= ack
    BY <1>1
  <2> QED
    BY <1>3, <2>1, Zenon DEF Uploading
<1>6. Place
  BY <1>1, <1>2 DEF Place, Start
<1>7. Replying
  BY <1>1, NoMessages DEF Replying
<1>8. Channel
  <2>1. Coming.req = 1 /\ Coming.pos = 0
    BY <1>1 DEF Coming
  <2>2. Due(Coming)
    BY <1>1, <2>1 DEF Due
  <2>3. ack + 1 <= Coming.req
    BY <1>1, <2>1
  <2> QED
    BY <1>1, <2>2, <2>3, NoMessages DEF Channel
<1> QED
  BY <1>4, <1>5, <1>6, <1>7, <1>8, InitTypes DEF InStep, Meeting

LEMMA NextInStep ==
  ASSUME ~ReadErrors, InStep, [Next]_vars
  PROVE  InStep'
<1>1. TypeInv /\ TypeInv'
  BY NextTypes DEF InStep
<1> SUFFICES ASSUME ~cut' PROVE Meeting'
  BY <1>1 DEF InStep
<1>2. ASSUME NEW good \in BOOLEAN, NEW cmd \in RequestCommands, NEW len \in PayloadLengths,
             HostRequest(good, cmd, len)
      PROVE  Meeting'
  <2>1. CASE cut
    BY <1>1, <1>2, <2>1, StartingOverMeets
  <2>2. CASE ~cut
    <3>1. UNCHANGED <<base, cur>>
      BY <1>2, <2>2 DEF HostRequest
    <3> QED
      BY <1>1, <1>2, <2>2, <3>1, HostRequestMeets DEF InStep
  <2> QED
    BY <2>1, <2>2
<1>3. CASE HostPut
  BY <1>3, HostPutMeets DEF InStep, HostPut, hostVars
<1>4. CASE HostReads
  <2>1. ~cut
    BY <1>4 DEF HostReads, HostTakeFrame, HostTakeRest, HostDiscard, hostVars
  <2> QED
    BY <1>4, <2>1, HostTakeFrameMeets, HostTakeRestMeets, NothingToDiscard DEF InStep, HostReads
<1>5. CASE HostAbort
  BY <1>5 DEF HostAbort
<1>6. CASE HostDone \/ UNCHANGED vars
  <2>1. UNCHANGED vars
    BY <1>6 DEF HostDone
  <2>2. /\ UNCHANGED <<stream, rd, toHost, requests, ack, hpc, left, cut, base>>
        /\ UNCHANGED <<spc, cur, buf, need, file, reply, then>>
    BY <2>1 DEF vars, saturnVars, hostVars
  <2>3. Meeting
    BY <2>2 DEF InStep
  <2>4. Coming' = Coming
    BY <2>2 DEF Coming
  <2>5. Channel'
    BY <2>2, <2>3, <2>4 DEF Meeting, Channel, Means, Rest, Follows, Due
  <2> QED
    BY <2>2, <2>3, <2>5, LayoutKept, UploadingKept, PlaceKept, ReplyingKept DEF Meeting
<1>7. CASE Saturn
  <2>1. cut' = cut
    BY <1>7 DEF Saturn, Poll, ReadHeaderByte, ReadHeader, ReadPayload, Drain, Dispatch,
       BeginUpload, DoDownload, ReadSize, ReadData, ReadChecksum, Write, hostVars
  <2>2. TypeInv /\ Meeting
    BY <2>1 DEF InStep
  <2> QED
    BY <1>7, <2>2, PollMeets, ReadHeaderByteMeets, ReadHeaderMeets, ReadPayloadMeets, DrainMeets,
       DispatchMeets, BeginUploadMeets, DoDownloadMeets, ReadSizeMeets, ReadDataMeets,
       ReadChecksumMeets, WriteMeets DEF Saturn
<1> QED
  BY <1>2, <1>3, <1>4, <1>5, <1>6, <1>7 DEF Next

(* The inductive invariant holds of every behaviour in which no read of a  *)
(* download fails.                                                         *)
THEOREM StaysInStep == ASSUME ~ReadErrors PROVE Spec => []InStep
<1>1. InStep /\ [Next]_vars => InStep'
  BY NextInStep
<1> QED
  BY <1>1, InitInStep, PTL DEF Spec

(* Whenever the Saturn polls, the next byte it reads is the first byte of  *)
(* the next request: TryReadRequest and HandleUpload take exactly the      *)
(* bytes the host meant for each request.                                  *)
THEOREM FramesAligned == ASSUME ~ReadErrors PROVE Spec => []Aligned
<1>1. InStep => Aligned
  <2> SUFFICES ASSUME InStep, spc = "poll", ~cut
               PROVE  rd = IF cur < Len(requests) THEN requests[cur + 1].at ELSE Len(stream)
    BY DEF Aligned
  <2>1. rd = Start(cur + 1)
    BY DEF InStep, Meeting, Place
  <2>2. cur \in Nat /\ Len(requests) \in Nat
    BY DEF InStep, TypeInv, TypeOK
  <2>3. cur + 1 <= Len(requests) <=> cur < Len(requests)
    BY <2>2
  <2> QED
    BY <2>1, <2>3 DEF Start
<1> QED
  BY <1>1, StaysInStep, PTL

(* A request reaches its handler as the host made it: whole, with the      *)
(* magic, within the capacity and with its own command (TryReadRequest).   *)
THEOREM RequestsHandledAsMade == ASSUME ~ReadErrors PROVE Spec => []HandledAsMade
<1>1. InStep => HandledAsMade
  <2> SUFFICES ASSUME InStep, spc = "dispatch", ~cut
               PROVE  /\ cur \in 1..Len(requests)
                      /\ requests[cur].good /\ requests[cur].cmd = Cmd
                      /\ requests[cur].len <= MaxRequestBytes
                      /\ rd = EndOf(requests[cur])
    BY DEF HandledAsMade
  <2>1. TypeInv /\ Meeting
    BY DEF InStep
  <2>2. requests[cur].len <= MaxRequestBytes
    BY <2>1, Current DEF InFrame
  <2> QED
    BY <2>1, <2>2, Dispatched
<1> QED
  BY <1>1, StaysInStep, PTL

(* What the host reads next is of the answer to its oldest request, and of *)
(* the kind it expects: frames and raw bytes are never mistaken for each   *)
(* other (HandleHostIoRequest, HandleDownload, HandleUpload).              *)
THEOREM AnswersMatch == ASSUME ~ReadErrors PROVE Spec => []RepliesMatch
<1>1. InStep => RepliesMatch
  <2> SUFFICES ASSUME InStep, toHost # <<>>, ~cut
               PROVE  /\ ack < Len(requests)
                      /\ toHost[1].req = ack + 1
                      /\ toHost[1].kind =
                           IF hpc \in {"frame", "sentinel"} THEN "frame" ELSE "raw"
                      /\ (toHost[1].pos = 0) = (hpc = "frame")
    <3>1. InStep => toHost \in Seq(Message)
      BY DEF InStep, TypeInv, TypeOK
    <3>2. InStep /\ toHost # <<>> => Head(toHost) = toHost[1]
      BY <3>1
    <3> QED
      BY <3>2, Zenon DEF RepliesMatch
  <2>1. TypeInv /\ Meeting
    BY DEF InStep
  <2>2. 1 \in 1..Len(toHost)
    BY <2>1, AfterTail DEF TypeInv, TypeOK
  <2>3. Due(toHost[1]) /\ Means(toHost[1]) /\ toHost[1].pos \in Nat
    BY <2>1, <2>2, QueueTypes DEF Meeting, Channel
  <2>4. toHost[1].req = ack + 1 /\ (toHost[1].pos = 0 <=> hpc = "frame")
    BY <2>3 DEF Due
  <2>5. ack < Len(requests)
    <3>1. /\ cur <= Len(requests) /\ cur \in Nat /\ ack \in Nat /\ base \in Nat
          /\ Len(requests) \in Nat
      BY <2>1 DEF Meeting, Place, TypeInv, TypeOK
    <3>2. ack + 1 \in base + 1..cur
      BY <2>3, <2>4 DEF Means
    <3> QED
      BY <3>1, <3>2
  <2>6. CASE hpc = "frame"
    BY <2>3, <2>4, <2>5, <2>6 DEF Means
  <2>7. CASE hpc # "frame"
    <3>1. toHost[1].pos > 0
      BY <2>3, <2>4, <2>7
    <3>2. toHost[1].kind = IF requests[ack + 1].cmd = List THEN "frame" ELSE "raw"
      BY <2>3, <2>4, <3>1 DEF Means
    <3>3. /\ hpc \in {"sentinel", "raw", "result"}
          /\ hpc = "sentinel" => requests[ack + 1].cmd = List
          /\ hpc \in {"raw", "result"} => requests[ack + 1].cmd # List
      BY <2>1, <2>7 DEF Meeting, Channel, TypeInv, TypeOK, List, Upload, Download
    <3>4. toHost[1].kind = IF hpc \in {"frame", "sentinel"} THEN "frame" ELSE "raw"
      BY <3>2, <3>3
    <3> QED
      BY <2>4, <2>5, <3>4
  <2> QED
    BY <2>6, <2>7
<1> QED
  BY <1>1, StaysInStep, PTL

(* When HandleUpload answers with the result byte, the bytes it gave to    *)
(* file.Write are those of the host's file, whatever the checksum says.    *)
LEMMA FileArrived ==
  ASSUME InStep, spc = "write", reply[1].kind = "raw", ~cut, requests[cur].cmd = Upload
  PROVE  file = requests[cur].data
<1>1. TypeInv /\ Meeting
  BY DEF InStep
<1>2. reply # <<>> /\ reply \in Seq(Message) /\ then \in {"poll", "size"}
  BY <1>1 DEF TypeInv, TypeOK, Registers
<1>3. 1 \in 1..Len(reply)
  BY <1>2, AfterTail
<1>4. reply[1].req = cur /\ Means(reply[1]) /\ reply[1].pos \in Nat
  BY <1>1, <1>3, QueueTypes DEF Meeting, Replying
<1>5. reply[1].pos # 0
  BY <1>4 DEF Means
<1>6. requests[cur].raw
  BY <1>4, <1>5 DEF Means
<1>7. then = "poll"
  BY <1>1, <1>2, <1>5 DEF Meeting, Replying
<1> QED
  BY <1>1, <1>6, <1>7, Current DEF Writing

-----------------------------------------------------------------------------
(* The checksum of an upload.                                              *)

(* The running checksums of the prefixes of data. *)
Running(data, sums) ==
  /\ sums[0] = 0
  /\ \A i \in 1..Len(data) : sums[i] = CrcStep(sums[i - 1], data[i])

LEMMA RunningExists ==
  ASSUME NEW data \in Seq(Byte)
  PROVE  \E sums \in [0..Len(data) -> Byte] : Running(data, sums)
<1> DEFINE n == Len(data)
           G == [p \in Byte \X (1..n) |-> CrcStep(p[1], data[p[2]])]
<1>1. n \in Nat /\ 0 \in Byte
  BY DEF Byte
<1>2. \A i \in 1..n : data[i] \in Byte
  BY ElementOfSeq
<1>3. G \in [Byte \X (1..n) -> Byte]
  <2>1. ASSUME NEW p \in Byte \X (1..n) PROVE CrcStep(p[1], data[p[2]]) \in Byte
    <3>1. p[1] \in Byte /\ p[2] \in 1..n
      OBVIOUS
    <3> QED
      BY <1>2, <3>1, CrcAssumption, Zenon
  <2> QED
    BY <2>1
<1>4. \A c \in Byte, i \in 1..n : G[<<c, i>>] = CrcStep(c, data[i])
  OBVIOUS
<1> HIDE DEF n, G
<1>5. PICK sums \in [0..n -> Byte] : Solves(sums, 0, G, n)
  BY <1>1, <1>3, RecursionExists, Zenon
<1>6. \A i \in 1..n : sums[i - 1] \in Byte
  BY <1>1
<1>7. \A i \in 1..n : sums[i] = CrcStep(sums[i - 1], data[i])
  BY <1>4, <1>5, <1>6, Zenon DEF Solves
<1> QED
  BY <1>5, <1>7 DEF n, Running, Solves

(* Checksum has the value of every such recursion. *)
LEMMA ChecksumIs ==
  ASSUME NEW data \in Seq(Byte), NEW sums, Running(data, sums)
  PROVE  Checksum(data) = sums[Len(data)]
<1> DEFINE n == Len(data)
           F(c) == [i \in 0..n |-> IF i = 0 THEN 0 ELSE CrcStep(c[i - 1], data[i])]
           crc8 == CHOOSE c : c = F(c)
<1>1. n \in Nat /\ Checksum(data) = crc8[n]
  BY DEF Checksum
<1>2. PICK c \in [0..n -> Byte] : Running(data, c)
  BY RunningExists
<1>3. c = F(c)
  <2>1. \A i \in 0..n : c[i] = IF i = 0 THEN 0 ELSE CrcStep(c[i - 1], data[i])
    BY <1>2 DEF Running
  <2> QED
    BY <2>1
<1>4. crc8 = F(crc8)
  BY <1>3
<1>5. Running(data, crc8)
  <2>1. \A i \in 0..n : crc8[i] = F(crc8)[i]
    BY <1>4, Zenon
  <2> HIDE DEF crc8
  <2>2. crc8[0] = 0
    BY <1>1, <2>1
  <2>3. \A i \in 1..n : crc8[i] = CrcStep(crc8[i - 1], data[i])
    BY <1>1, <2>1
  <2> QED
    BY <2>2, <2>3 DEF Running
<1> HIDE DEF crc8
<1>6. GoOnAlike(crc8, sums, n) /\ crc8[0] = sums[0]
  BY <1>5, Zenon DEF GoOnAlike, Running
<1>7. \A k \in 0..n : crc8[k] = sums[k]
  BY <1>1, <1>6, SameRecursion, Zenon
<1> QED
  BY <1>1, <1>7

(* One more byte is one more step. *)
LEMMA ChecksumGrows ==
  ASSUME NEW data \in Seq(Byte), NEW b \in Byte
  PROVE  Checksum(Append(data, b)) = CrcStep(Checksum(data), b)
<1> DEFINE n == Len(data)
           longer == Append(data, b)
<1>1. /\ n \in Nat /\ longer \in Seq(Byte) /\ Len(longer) = n + 1
      /\ \A i \in 1..n : longer[i] = data[i]
      /\ longer[n + 1] = b
  BY AppendProperties
<1> HIDE DEF longer
<1>2. PICK sums \in [0..Len(longer) -> Byte] : Running(longer, sums)
  BY <1>1, RunningExists
<1>3. \A i \in 1..n + 1 : sums[i] = CrcStep(sums[i - 1], longer[i])
  BY <1>1, <1>2 DEF Running
<1>4. Running(data, sums)
  <2>1. \A i \in 1..n : i \in 1..n + 1
    BY <1>1
  <2>2. \A i \in 1..n : sums[i] = CrcStep(sums[i - 1], data[i])
    BY <1>1, <1>3, <2>1, Zenon
  <2> QED
    BY <1>2, <2>2 DEF Running
<1>5. Checksum(data) = sums[n] /\ Checksum(longer) = sums[n + 1]
  BY <1>1, <1>2, <1>4, ChecksumIs
<1>6. n + 1 \in 1..n + 1 /\ (n + 1) - 1 = n
  BY <1>1
<1>7. sums[n + 1] = CrcStep(sums[n], b)
  BY <1>1, <1>3, <1>6
<1> QED
  BY <1>5, <1>7 DEF longer

LEMMA ChecksumOfNothing == Checksum(<<>>) = 0
<1>1. <<>> \in Seq(Byte) /\ Len(<<>>) = 0
  OBVIOUS
<1>2. PICK sums \in [0..Len(<<>>) -> Byte] : Running(<<>>, sums)
  BY <1>1, RunningExists
<1>3. Checksum(<<>>) = sums[0]
  BY <1>1, <1>2, ChecksumIs
<1> QED
  BY <1>2, <1>3 DEF Running

(* The running checksum of HandleUpload is at every moment that of the     *)
(* bytes given to file.Write, whatever the host does.                      *)
Summed == crc = Checksum(file)

LEMMA NextSummed ==
  ASSUME TypeInv, Summed, [Next]_vars
  PROVE  Summed'
<1>1. CASE ReadData
  <2>1. file \in Seq(Byte) /\ stream[rd + 1] \in Byte
    BY <1>1, ReadOneByte DEF ReadData, ReadByte, TypeInv, TypeOK
  <2>2. file' = Append(file, stream[rd + 1]) /\ crc' = CrcStep(crc, stream[rd + 1])
    BY <1>1 DEF ReadData
  <2>3. crc' = Checksum(Append(file, stream[rd + 1]))
    BY <2>1, <2>2, ChecksumGrows DEF Summed
  <2>4. Checksum(file') = Checksum(Append(file, stream[rd + 1]))
    BY <2>2
  <2> QED
    BY <2>3, <2>4 DEF Summed
<1>2. CASE BeginUpload
  <2>1. file' = <<>> /\ crc' = 0
    BY <1>2 DEF BeginUpload
  <2> QED
    BY <2>1, ChecksumOfNothing DEF Summed
<1>3. CASE ~ReadData /\ ~BeginUpload
  <2>1. UNCHANGED <<crc, file>>
    BY <1>3 DEF Next, vars, saturnVars, HostRequest, HostPut, HostReads, HostTakeFrame,
       HostTakeRest, HostDiscard, HostAbort, HostDone, Saturn, Poll, ReadHeaderByte, ReadHeader,
       ReadPayload, Drain, Dispatch, DoDownload, ReadSize, ReadChecksum, Write
  <2>2. Checksum(file') = Checksum(file)
    BY <2>1
  <2> QED
    BY <2>1, <2>2 DEF Summed
<1> QED
  BY <1>1, <1>2, <1>3

(* The byte the host sends last of an upload is its checksum, and the      *)
(* result the Saturn is about to send tells whether it agrees.             *)
Verdict ==
  /\ hpc = "result" => stream[Len(stream)] = requests[Len(requests)].sum
  /\ spc = "write" /\ requests[cur].cmd = Upload =>
       /\ Len(reply) = 1
       /\ reply[1].kind = "raw" => (reply[1].val = 0) = (requests[cur].sum = crc)

VerdictInv == InStep /\ Summed /\ (~cut => Verdict)

LEMMA LastIsSum ==
  ASSUME TypeInv, Meeting, Verdict, spc = "checksum"
  PROVE  stream[rd + 1] = requests[cur].sum
<1>1. /\ cur \in Asked /\ cur \in 1..Len(requests) /\ requests[cur].raw
      /\ requests[cur].cmd = Upload /\ rd + 1 = EndOf(requests[cur])
      /\ EndOf(requests[cur]) = Start(cur + 1)
  BY Current DEF RawPhase, Writing
<1>2. /\ cur \in Nat /\ ack \in Nat /\ Len(requests) \in Nat
      /\ hpc = "result" => ack # Len(requests)
  BY DEF TypeInv, TypeOK, Registers
<1>3. cur >= ack + 1
  <2>1. reply = <<>>
    BY DEF TypeInv, Registers
  <2>2. Coming.req = cur
    BY <2>1 DEF Coming
  <2> QED
    BY <1>2, <2>2 DEF Meeting, Channel
<1>4. cur = ack + 1 /\ hpc = "result"
  BY <1>1, <1>2, <1>3 DEF Meeting, Uploading
<1>5. cur = Len(requests)
  BY <1>1, <1>2, <1>3 DEF Meeting, Uploading
<1>6. rd + 1 = Len(stream)
  BY <1>1, <1>2, <1>5 DEF Start
<1> QED
  BY <1>4, <1>5, <1>6 DEF Verdict

LEMMA SingleIs ==
  ASSUME NEW status, NEW r
  PROVE  Len(Single(status, r)) = 1 /\ Single(status, r)[1].kind = "frame"
BY DEF Single, Frame

LEMMA SaturnVerdict ==
  ASSUME TypeInv, Meeting, Verdict, Saturn
  PROVE  Verdict'
<1>1. UNCHANGED <<stream, requests, hpc>>
  BY DEF Saturn, Poll, ReadHeaderByte, ReadHeader, ReadPayload, Drain, Dispatch,
     BeginUpload, DoDownload, ReadSize, ReadData, ReadChecksum, Write, hostVars
<1>2. hpc' = "result" => stream'[Len(stream')] = requests'[Len(requests')].sum
  BY <1>1 DEF Verdict
<1> SUFFICES ASSUME spc' = "write", requests'[cur'].cmd = Upload
             PROVE  /\ Len(reply') = 1
                    /\ reply'[1].kind = "raw" =>
                         (reply'[1].val = 0) = (requests'[cur'].sum = crc')
  BY <1>2, Zenon DEF Verdict
<1>3. CASE Poll \/ ReadHeaderByte \/ ReadPayload \/ ReadSize \/ ReadData
  BY <1>3 DEF Poll, ReadHeaderByte, ReadPayload, ReadSize, ReadData
<1>4. CASE ReadHeader \/ Drain
  <2>1. reply' = Single(BadRequest, cur) /\ cur' = cur
    BY <1>4 DEF ReadHeader, Drain, Answer
  <2> QED
    BY <2>1, SingleIs
<1>5. CASE Dispatch
  <2>1. cur' = cur /\ Cmd = Upload
    BY <1>1, <1>5, Dispatched DEF Dispatch
  <2>2. PICK status \in Outcomes(Cmd) : reply' = Reply(status)
    BY <1>5 DEF Dispatch, Answer
  <2>3. reply' = Single(status, cur)
    BY <2>1, <2>2 DEF Reply, Upload, List
  <2> QED
    BY <2>3, SingleIs
<1>6. CASE BeginUpload
  <2>1. reply' = <<Frame(Ok, 0, cur, 0, 1)>>
    BY <1>6 DEF BeginUpload, Answer
  <2> QED
    BY <2>1 DEF Frame
<1>7. CASE DoDownload
  <2>1. cur' = cur /\ Cmd = Download /\ Cmd = requests[cur].cmd
    BY <1>7, Dispatched DEF DoDownload
  <2> QED
    BY <1>1, <2>1 DEF Upload, Download
<1>8. CASE ReadChecksum
  <2>1. /\ reply' = <<Raw(IF stream[rd + 1] = crc THEN 0 ELSE 1, cur, 1, 0)>>
        /\ UNCHANGED <<cur, crc>> /\ spc = "checksum"
    BY <1>8 DEF ReadChecksum, Answer
  <2>2. Len(reply') = 1 /\ reply'[1].val = IF stream[rd + 1] = crc THEN 0 ELSE 1
    BY <2>1 DEF Raw
  <2>3. stream[rd + 1] = requests[cur].sum
    BY <2>1, LastIsSum
  <2>4. (reply'[1].val = 0) = (requests[cur].sum = crc)
    BY <2>2, <2>3
  <2> QED
    BY <1>1, <2>1, <2>2, <2>4
<1>9. CASE Write
  <2>1. spc = "write" /\ cur' = cur /\ spc' = IF Len(reply) = 1 THEN then ELSE "write"
    BY <1>9 DEF Write
  <2>2. Len(reply) = 1
    BY <1>1, <2>1 DEF Verdict
  <2>3. spc' # "write"
    BY <2>1, <2>2 DEF TypeInv, TypeOK
  <2> QED
    BY <2>3
<1> QED
  BY <1>3, <1>4, <1>5, <1>6, <1>7, <1>8, <1>9 DEF Saturn

(* The request being answered is not touched by a step of the host that    *)
(* leaves it where it is.                                                  *)
LEMMA ReplyVerdictKept ==
  ASSUME Verdict, UNCHANGED <<spc, cur, reply, crc>>,
         spc = "write" /\ requests'[cur].cmd = Upload /\ reply[1].kind = "raw" =>
           requests'[cur].sum = requests[cur].sum,
         spc = "write" => requests'[cur].cmd = requests[cur].cmd,
         hpc' = "result" => stream'[Len(stream')] = requests'[Len(requests')].sum
  PROVE  Verdict'
BY DEF Verdict

(* The host sends the checksum last, after the bytes of its file.          *)
LEMMA SumIsLast ==
  ASSUME TypeInv, NEW data \in UploadFiles, NEW sum \in Byte, Begins(data, sum)
  PROVE  stream'[Len(stream')] = sum
<1> DEFINE size == SizeBytes(Len(data))
           t == stream \o size \o data
<1>1. stream \in Seq(Byte)
  BY DEF TypeInv, TypeOK
<1>2. data \in Seq(Byte) /\ size \in Seq(Byte)
  <2>1. data \in Seq(Byte) /\ Len(data) < 256 * 256 * 256
    BY HostInputAssumption, Zenon
  <2>2. Len(data) \in Nat
    BY <2>1
  <2> QED
    BY <2>1, <2>2, SizeBytesType
<1> HIDE DEF size
<1>3. t \in Seq(Byte)
  BY <1>1, <1>2
<1>4. stream' = t \o <<sum>>
  BY DEF Begins, size
<1> HIDE DEF t
<1>5. /\ <<sum>> \in Seq(Byte) /\ Len(<<sum>>) = 1 /\ <<sum>>[1] = sum
      /\ 1 \in 1..1
  OBVIOUS
<1>6. /\ Len(t \o <<sum>>) = Len(t) + 1
      /\ (t \o <<sum>>)[Len(t) + 1] = sum
  <2>1. /\ Len(t \o <<sum>>) = Len(t) + Len(<<sum>>)
        /\ \A j \in 1..Len(<<sum>>) : (t \o <<sum>>)[Len(t) + j] = <<sum>>[j]
    BY <1>3, <1>5, Places
  <2>2. \A j \in 1..1 : (t \o <<sum>>)[Len(t) + j] = <<sum>>[j]
    BY <1>5, <2>1, Zenon
  <2> QED
    BY <1>5, <2>1, <2>2, Zenon
<1> QED
  BY <1>4, <1>6, Zenon

LEMMA HostTakeFrameVerdict ==
  ASSUME TypeInv, Meeting, Verdict, HostTakeFrame
  PROVE  Verdict'
<1>1. /\ toHost # <<>> /\ ack < Len(requests) /\ hpc = "frame" /\ toHost' = Tail(toHost)
      /\ UNCHANGED <<spc, cur, reply, crc>>
  BY Zenon DEF HostTakeFrame, saturnVars
<1>2. CASE hpc' # "result"
  <2>1. UNCHANGED requests
    BY <1>2 DEF HostTakeFrame
  <2> QED
    BY <1>1, <1>2, <2>1, ReplyVerdictKept
<1>3. CASE hpc' = "result"
  <2>1. toHost[1].val = Ok /\ requests[ack + 1].good /\ requests[ack + 1].cmd = Upload
    <3>1. toHost \in Seq(Message)
      BY DEF TypeInv, TypeOK
    <3>2. Head(toHost) = toHost[1]
      BY <1>1, <3>1
    <3> QED
      BY <1>3, <3>2 DEF HostTakeFrame, Oldest, Answered
  <2>2. PICK data \in UploadFiles, sum \in Byte : Begins(data, sum)
    BY <1>3 DEF HostTakeFrame, Begins, Answered
  <2>3. stream'[Len(stream')] = sum
    BY <2>2, SumIsLast
  <2>4. spc = "size" /\ Len(requests) = ack + 1
    BY <1>1, <2>1, UploadDue
  <2>5. requests'[Len(requests')].sum = sum
    <3>1. requests \in Seq(Request) /\ ack + 1 \in 1..Len(requests)
      BY <2>4 DEF TypeInv, TypeOK
    <3>2. requests[ack + 1] \in Request
      BY <3>1, ElementOfSeq
    <3> DEFINE r == [requests[ack + 1] EXCEPT !.raw = TRUE, !.data = data, !.sum = sum]
    <3>3. requests' = [requests EXCEPT ![ack + 1] = r]
      BY <2>2, Zenon DEF Begins
    <3>4. r.sum = sum
      BY <3>2 DEF Request
    <3> HIDE DEF r
    <3>5. Len(requests') = Len(requests) /\ requests'[ack + 1] = r
      BY <3>1, <3>3, Replaced, Zenon
    <3> QED
      BY <2>4, <3>4, <3>5, Zenon
  <2> QED
    BY <1>1, <2>3, <2>4, <2>5 DEF Verdict
<1> QED
  BY <1>2, <1>3

LEMMA HostTakeRestVerdict ==
  ASSUME Verdict, HostTakeRest
  PROVE  Verdict'
<1>1. /\ hpc # "frame" /\ UNCHANGED <<stream, requests, spc, cur, reply, crc>>
      /\ hpc' = hpc \/ hpc' = "frame"
  BY DEF HostTakeRest, saturnVars, Answered
<1> QED
  BY <1>1, ReplyVerdictKept DEF Verdict

LEMMA HostRequestVerdict ==
  ASSUME TypeInv, Meeting, Verdict,
         NEW good \in BOOLEAN, NEW cmd \in RequestCommands, NEW len \in PayloadLengths,
         HostRequest(good, cmd, len), UNCHANGED cur
  PROVE  Verdict'
<1>1. UNCHANGED <<spc, reply, crc, hpc, ack>>
  BY DEF HostRequest
<1>2. \A k \in 1..Len(requests) : requests'[k] = requests[k]
  BY RequestMade
<1>3. hpc # "result"
  <2> SUFFICES ASSUME hpc = "result" PROVE FALSE
    OBVIOUS
  <2>1. /\ ack \in Nat /\ Len(requests) \in Nat /\ ack < Len(requests) /\ base \in Nat
        /\ base <= ack
    BY DEF TypeInv, TypeOK, Registers, Meeting, Uploading
  <2>2. requests[ack + 1].cmd = Upload
    BY DEF Meeting, Channel
  <2>3. ack + 1 \in Asked /\ ~(ack + 1 <= ack)
    BY <2>1 DEF Asked
  <2>4. ~(ack + 1 < Len(requests))
    BY <2>2, <2>3 DEF Meeting, Uploading
  <2>5. ack + 1 = Len(requests)
    BY <2>1, <2>4
  <2> QED
    BY <2>1, <2>2, <2>5 DEF HostRequest, MayRequest
<1>4. spc = "write" => requests'[cur] = requests[cur]
  <2>1. spc = "write" => cur \in 1..Len(requests)
    BY Current
  <2> QED
    BY <1>2, <2>1
<1> QED
  BY <1>1, <1>3, <1>4, ReplyVerdictKept

LEMMA NextVerdict ==
  ASSUME ~ReadErrors, VerdictInv, [Next]_vars
  PROVE  VerdictInv'
<1>1. InStep' /\ Summed' /\ TypeInv
  BY NextInStep, NextSummed DEF VerdictInv, InStep
<1> SUFFICES ASSUME ~cut' PROVE Verdict'
  BY <1>1 DEF VerdictInv
<1>2. ASSUME NEW good \in BOOLEAN, NEW cmd \in RequestCommands, NEW len \in PayloadLengths,
             HostRequest(good, cmd, len)
      PROVE  Verdict'
  <2>1. CASE cut
    <3>1. spc = "poll" /\ ack = Len(requests) /\ UNCHANGED <<spc, hpc>>
      BY <1>2, <2>1 DEF HostRequest, Quiet
    <3>2. hpc = "frame"
      BY <1>1, <3>1 DEF TypeInv, Registers
    <3> QED
      BY <3>1, <3>2 DEF Verdict
  <2>2. CASE ~cut
    <3>1. UNCHANGED cur
      BY <1>2, <2>2 DEF HostRequest
    <3> QED
      BY <1>2, <2>2, <3>1, HostRequestVerdict DEF VerdictInv, InStep
  <2> QED
    BY <2>1, <2>2
<1>3. CASE HostPut \/ HostDone \/ UNCHANGED vars
  <2>1. UNCHANGED <<stream, requests, hpc, spc, cur, reply, crc, cut>>
    BY <1>3 DEF HostPut, HostDone, vars, saturnVars, hostVars
  <2> QED
    BY <2>1 DEF VerdictInv, Verdict
<1>4. CASE HostReads
  <2>1. ~cut
    BY <1>4 DEF HostReads, HostTakeFrame, HostTakeRest, HostDiscard, hostVars
  <2> QED
    BY <1>4, <2>1, HostTakeFrameVerdict, HostTakeRestVerdict, NothingToDiscard
       DEF VerdictInv, InStep, HostReads
<1>5. CASE HostAbort
  BY <1>5 DEF HostAbort
<1>6. CASE Saturn
  <2>1. cut' = cut
    BY <1>6 DEF Saturn, Poll, ReadHeaderByte, ReadHeader, ReadPayload, Drain, Dispatch,
       BeginUpload, DoDownload, ReadSize, ReadData, ReadChecksum, Write, hostVars
  <2> QED
    BY <1>6, <2>1, SaturnVerdict DEF VerdictInv, InStep
<1> QED
  BY <1>2, <1>3, <1>4, <1>5, <1>6 DEF Next

LEMMA InitVerdict == Init => VerdictInv
<1> SUFFICES ASSUME Init PROVE VerdictInv
  OBVIOUS
<1>1. spc = "poll" /\ hpc = "frame" /\ crc = 0 /\ file = <<>>
  BY DEF Init
<1>2. Verdict
  BY <1>1 DEF Verdict
<1>3. Summed
  BY <1>1, ChecksumOfNothing DEF Summed
<1> QED
  BY <1>2, <1>3, InitInStep DEF VerdictInv

(* The result byte of HandleUpload is 0 exactly when the checksum the host *)
(* sent is that of its file, and the bytes given to file.Write are then    *)
(* the bytes of the file: neither a reset that was missed nor a byte of    *)
(* the framing taken for one of the file can pass for an upload.           *)
THEOREM UploadsJudged == ASSUME ~ReadErrors PROVE Spec => []UploadVerdict
<1>1. VerdictInv => UploadVerdict
  <2> SUFFICES ASSUME VerdictInv, spc = "write", reply[1].kind = "raw", ~cut,
                      requests[cur].cmd = Upload
               PROVE  /\ file = requests[cur].data
                      /\ (reply[1].val = 0) = (requests[cur].sum = Checksum(requests[cur].data))
    BY Zenon DEF UploadVerdict
  <2>1. file = requests[cur].data
    BY FileArrived DEF VerdictInv
  <2>2. (reply[1].val = 0) = (requests[cur].sum = crc)
    BY DEF VerdictInv, Verdict
  <2>3. crc = Checksum(requests[cur].data)
    BY <2>1 DEF VerdictInv, Summed
  <2> QED
    BY <2>1, <2>2, <2>3
<1>2. VerdictInv /\ [Next]_vars => VerdictInv'
  BY NextVerdict
<1> QED
  BY <1>1, <1>2, InitVerdict, PTL DEF Spec
=============================================================================

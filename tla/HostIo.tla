------------------------------- MODULE HostIo -------------------------------
(***************************************************************************)
(* The framed request/response protocol the Saturn speaks over the two     *)
(* USB FIFOs of the DevCart (INC/srl_devcart_hostio.hpp), together with    *)
(* the dispatcher of the file-transfer application that runs it            *)
(* (Samples/Debug - File transfer/src/main.cxx).                           *)
(*                                                                         *)
(* The Saturn is a superloop: it polls the receive FIFO, reads one request *)
(* frame byte by byte (every read blocks until a byte is there), runs the  *)
(* handler of the command, writes the reply, and polls again.  Upload and  *)
(* Download leave the framing: raw, unframed bytes of the file follow on   *)
(* the very FIFOs that carry the frames, so both ends have to agree on     *)
(* every length to meet again at the next frame.                           *)
(*                                                                         *)
(* The host (the ftx tool) is external and modelled from what the Saturn   *)
(* code expects of it.  It may pipeline requests, and it may be killed in  *)
(* the middle of a frame and started again (MayAbort).                     *)
(*                                                                         *)
(* Everything the host ever decides to send is kept in `stream'; `wr' of   *)
(* its bytes have entered the FIFO and `rd' of those were read.  The       *)
(* handlers are represented by the set of statuses each can return; what   *)
(* they do to the card is modelled in the modules below them.              *)
(***************************************************************************)
EXTENDS Naturals, Sequences

CONSTANTS
  MaxRequestBytes,   \* kMaxRequestBytes, the capacity of the payload buffer
  CrcStep(_, _),     \* Crc8Update of one byte
  RequestCommands,   \* the command bytes the host may send
  PayloadLengths,    \* the payload lengths it may declare and send
  PayloadByte,       \* the byte its payloads are made of
  UploadFiles,       \* the contents it may upload (sequences of bytes)
  FileSizes,         \* the sizes of the files on the card
  ReadErrors,        \* TRUE: f_read may fail in the middle of a download
  MayAbort,          \* TRUE: the host may be killed and started again
  InDepth,           \* capacity of the host -> Saturn FIFO, in bytes
  OutDepth,          \* capacity of the Saturn -> host FIFO, in messages
  MaxRequests        \* bound: requests the host makes

Byte == 0..255

ASSUME CapacityAssumption ==
  /\ MaxRequestBytes \in Nat
  /\ InDepth \in Nat \ {0}
  /\ OutDepth \in Nat \ {0}
  /\ MaxRequests \in Nat

ASSUME HostInputAssumption ==
  /\ RequestCommands \subseteq Byte
  /\ PayloadLengths \subseteq 0..(256 * 256 - 1)
  /\ PayloadByte \in Byte
  /\ UploadFiles \subseteq Seq(Byte)
  /\ \A f \in UploadFiles : Len(f) < 256 * 256 * 256
  /\ FileSizes \subseteq Nat
  /\ ReadErrors \in BOOLEAN
  /\ MayAbort \in BOOLEAN

ASSUME CrcAssumption == \A c, b \in Byte : CrcStep(c, b) \in Byte

-----------------------------------------------------------------------------
(* Frames. *)

Magic == <<83, 82, 76, 49>>                       \* "SRL1"
HeaderSize == 7

List == 1
Upload == 4
Download == 8
Commands == 1..9

Ok == 0
Error == 1
Unsupported == 2
BadRequest == 3
Handled == 4

(* DeserializeUint16 of the two length bytes, most significant first. *)
PayloadLen(h) == h[6] * 256 + h[7]

GoodMagic(h) == \A i \in 1..4 : h[i] = Magic[i]

(* DeserializeUint32 of the four bytes that open an upload. *)
FileSize(b) == ((b[1] * 256 + b[2]) * 256 + b[3]) * 256 + b[4]

(* The header of a request as the host writes it, with another magic when  *)
(* it is not good.  A frame refused for its magic is not drained: one that *)
(* had a payload would leave it in the FIFO, so only those without are     *)
(* among what an orderly host sends.                                       *)
Header(good, cmd, len) ==
  <<83, 82, 76, IF good THEN 49 ELSE 50, cmd, len \div 256, len % 256>>

Payload(len) == [i \in 1..len |-> PayloadByte]

SizeBytes(n) == <<0, n \div (256 * 256), (n \div 256) % 256, n % 256>>

Checksum(data) ==
  LET crc[i \in 0..Len(data)] ==
        IF i = 0 THEN 0 ELSE CrcStep(crc[i - 1], data[i])
  IN crc[Len(data)]

(* The statuses a handler may return (Handled: it answered by itself). *)
Outcomes(cmd) ==
  {status \in 0..4 :
     \/ status = Ok /\ cmd \in Commands \ {Upload, Download}
     \/ status = Error /\ cmd \in Commands
     \/ status = Unsupported /\ cmd \notin {1, 3}
     \/ status = BadRequest /\ cmd \in {1, 2}
     \/ status = Handled /\ cmd \in {Upload, Download}}

(* What the Saturn writes: a response frame (size: the file size a         *)
(* download announces), or one raw byte of a download or of an upload's    *)
(* result.  Three fields are bookkeeping: req is the number of the request *)
(* the message answers, pos its place in that answer, and more how many    *)
(* messages the answer still has after it.                                 *)
Message ==
  [kind : {"frame", "raw"}, val : Byte, size : Nat,
   req : Nat, pos : Nat, more : Nat]

Frame(status, size, r, p, m) ==
  [kind |-> "frame", val |-> status, size |-> size, req |-> r, pos |-> p, more |-> m]
Raw(b, r, p, m) ==
  [kind |-> "raw", val |-> b, size |-> 0, req |-> r, pos |-> p, more |-> m]

(* A response frame that is the whole answer. *)
Single(status, r) == <<Frame(status, 0, r, 0, 0)>>

-----------------------------------------------------------------------------

VARIABLES
  stream,    \* every byte the host has decided to send
  wr,        \* how many of them entered the FIFO
  rd,        \* how many of those the Saturn has read
  toHost,    \* the Saturn -> host FIFO
  spc,       \* where the Saturn is in HandleHostIoRequest
  cur,       \* bookkeeping: number of the request it handles or handled last
  buf,       \* the header (or upload size) bytes read so far
  need,      \* bytes the current read loop still has to read
  crc,       \* checksum of the upload in progress
  file,      \* bytes passed to file.Write since the file was opened
  reply,     \* messages still to be written
  then,      \* where the Saturn goes when they are
  requests,  \* what the host asked, oldest first
  ack,       \* how many of them have been completely answered
  hpc,       \* what the host expects next of the oldest unanswered one
  left,      \* raw bytes it still expects
  cut,       \* TRUE from an abort until the host starts over on a quiet link
  base       \* bookkeeping: requests made before it last started over

hostVars == <<requests, ack, hpc, left, cut, base>>
saturnVars == <<spc, cur, buf, need, crc, file, reply, then>>
vars == <<stream, wr, rd, toHost, saturnVars, hostVars>>

Request ==
  [at : Nat, good : BOOLEAN, cmd : Byte, len : 0..(256 * 256 - 1),
   raw : BOOLEAN, data : Seq(Byte), sum : Byte]

(* The offset of the first byte after request r. *)
EndOf(r) ==
  r.at + HeaderSize + r.len + (IF r.raw THEN 4 + Len(r.data) + 1 ELSE 0)

TypeOK ==
  /\ stream \in Seq(Byte)
  /\ wr \in 0..Len(stream)
  /\ rd \in 0..wr
  /\ toHost \in Seq(Message)
  /\ spc \in {"poll", "header", "payload", "drain", "dispatch",
              "size", "data", "checksum", "write"}
  /\ cur \in Nat
  /\ buf \in Seq(Byte)
  /\ need \in Nat
  /\ crc \in Byte
  /\ file \in Seq(Byte)
  /\ reply \in Seq(Message)
  /\ then \in {"poll", "size"}
  /\ requests \in Seq(Request)
  /\ ack \in 0..Len(requests)
  /\ hpc \in {"frame", "sentinel", "raw", "result"}
  /\ left \in Nat
  /\ cut \in BOOLEAN
  /\ base \in Nat

Init ==
  /\ stream = <<>> /\ wr = 0 /\ rd = 0 /\ toHost = <<>>
  /\ spc = "poll" /\ cur = 0 /\ buf = <<>> /\ need = 0
  /\ crc = 0 /\ file = <<>> /\ reply = <<>> /\ then = "poll"
  /\ requests = <<>> /\ ack = 0 /\ hpc = "frame" /\ left = 0
  /\ cut = FALSE /\ base = 0

-----------------------------------------------------------------------------
(* The host. *)

(* Nothing is under way between the two ends. *)
Quiet == spc = "poll" /\ rd = Len(stream) /\ toHost = <<>>

(* A request may follow another before that one is answered, except that   *)
(* an upload owns the link until its result is in.                         *)
MayRequest ==
  /\ Len(requests) < MaxRequests
  /\ ack < Len(requests) => requests[Len(requests)].cmd # Upload

(* The request goes to the end of the stream.  A host that was cut off is  *)
(* in step again when it starts over on a quiet link with nothing asked.   *)
HostRequest(good, cmd, len) ==
  /\ MayRequest
  /\ good \/ len = 0
  /\ stream' = stream \o Header(good, cmd, len) \o Payload(len)
  /\ requests' = Append(requests,
       [at |-> Len(stream), good |-> good, cmd |-> cmd, len |-> len,
        raw |-> FALSE, data |-> <<>>, sum |-> 0])
  /\ IF cut /\ Quiet /\ ack = Len(requests)
       THEN cut' = FALSE /\ base' = Len(requests) /\ cur' = Len(requests)
       ELSE UNCHANGED <<cut, base, cur>>
  /\ UNCHANGED <<wr, rd, toHost, spc, buf, need, crc, file, reply, then,
                 ack, hpc, left>>

(* One byte enters the FIFO; the host waits while the FIFO is full. *)
HostPut ==
  /\ wr < Len(stream)
  /\ wr - rd < InDepth
  /\ wr' = wr + 1
  /\ UNCHANGED <<stream, rd, toHost, saturnVars, hostVars>>

Oldest == requests[ack + 1]

Answered ==
  /\ ack' = ack + 1
  /\ hpc' = "frame"
  /\ left' = 0

(* The host takes the next message while it expects a response frame. *)
HostTakeFrame ==
  /\ toHost # <<>> /\ ack < Len(requests) /\ hpc = "frame"
  /\ toHost' = Tail(toHost)
  /\ LET m == Head(toHost)
         accepted == m.val = Ok /\ Oldest.good
     IN \/ /\ accepted /\ Oldest.cmd = List
           /\ hpc' = "sentinel"
           /\ UNCHANGED <<stream, requests, ack, left>>
        \/ /\ accepted /\ Oldest.cmd = Download
           /\ hpc' = "raw" /\ left' = m.size + 1
           /\ UNCHANGED <<stream, requests, ack>>
        \/ /\ accepted /\ Oldest.cmd = Upload
           /\ \E data \in UploadFiles, sum \in Byte :
                /\ sum \in {Checksum(data), (Checksum(data) + 1) % 256}
                /\ stream' = stream \o SizeBytes(Len(data)) \o data \o <<sum>>
                /\ requests' = [requests EXCEPT ![ack + 1] =
                     [@ EXCEPT !.raw = TRUE, !.data = data, !.sum = sum]]
           /\ hpc' = "result"
           /\ UNCHANGED <<ack, left>>
        \/ /\ ~(accepted /\ Oldest.cmd \in {List, Download, Upload})
           /\ Answered
           /\ UNCHANGED <<stream, requests>>
  /\ UNCHANGED <<wr, rd, saturnVars, cut, base>>

(* ... the end-of-listing sentinel, a raw byte of a download, or the       *)
(* one-byte result of an upload.                                           *)
HostTakeRest ==
  /\ toHost # <<>> /\ ack < Len(requests) /\ hpc # "frame"
  /\ toHost' = Tail(toHost)
  /\ IF hpc = "raw" /\ left > 1
       THEN left' = left - 1 /\ UNCHANGED <<ack, hpc>>
       ELSE Answered
  /\ UNCHANGED <<stream, wr, rd, saturnVars, requests, cut, base>>

(* A message nobody asked for (the asker was killed). *)
HostDiscard ==
  /\ toHost # <<>> /\ ack = Len(requests)
  /\ toHost' = Tail(toHost)
  /\ UNCHANGED <<stream, wr, rd, saturnVars, hostVars>>

(* The host is killed: what it had not sent is never sent, and the next    *)
(* life of the host does not know of the requests of this one.             *)
HostAbort ==
  /\ MayAbort
  /\ ack < Len(requests)
  /\ stream' = SubSeq(stream, 1, wr)
  /\ ack' = Len(requests) /\ hpc' = "frame" /\ left' = 0
  /\ cut' = TRUE
  /\ UNCHANGED <<wr, rd, toHost, saturnVars, requests, base>>

(* The host has no more to ask and every answer: the Saturn polls on. *)
HostDone ==
  /\ ~MayRequest /\ Quiet /\ ack = Len(requests)
  /\ UNCHANGED vars

-----------------------------------------------------------------------------
(* The Saturn: the main loop and TryReadRequest. *)

(* Mutant of Poll: the loop waits until a whole header is in the FIFO. *)
PollForHeader ==
  /\ spc = "poll"
  /\ wr - rd >= HeaderSize
  /\ spc' = "header" /\ cur' = cur + 1 /\ buf' = <<>>
  /\ UNCHANGED <<stream, wr, rd, toHost, need, crc, file, reply, then, hostVars>>

Poll ==
  /\ spc = "poll"
  /\ rd < wr                                   \* !CS0::IsRxfEmpty()
  /\ spc' = "header" /\ cur' = cur + 1 /\ buf' = <<>>
  /\ UNCHANGED <<stream, wr, rd, toHost, need, crc, file, reply, then, hostVars>>

(* CS0::Read(): blocks until a byte is there. *)
ReadByte == rd < wr /\ rd' = rd + 1

Answer(messages, next) ==
  /\ spc' = "write" /\ reply' = messages /\ then' = next

ReadHeaderByte ==
  /\ spc = "header" /\ Len(buf) + 1 < HeaderSize
  /\ ReadByte
  /\ buf' = Append(buf, stream[rd + 1])
  /\ UNCHANGED <<stream, wr, toHost, spc, cur, need, crc, file, reply, then, hostVars>>

(* Mutants of TooLong and HasPayload. *)
TooLongByTwo(len) == len > MaxRequestBytes + 1
AlwaysPayload(len) == TRUE

TooLong(len) == len > MaxRequestBytes
HasPayload(len) == len > 0

(* The last header byte: the frame is accepted, drained or refused. *)
ReadHeader ==
  /\ spc = "header" /\ Len(buf) + 1 = HeaderSize
  /\ ReadByte
  /\ buf' = Append(buf, stream[rd + 1])
  /\ IF ~GoodMagic(buf')
       THEN Answer(Single(BadRequest, cur), "poll") /\ UNCHANGED need
       ELSE /\ need' = PayloadLen(buf')
            /\ spc' = IF TooLong(PayloadLen(buf')) THEN "drain"
                      ELSE IF HasPayload(PayloadLen(buf')) THEN "payload"
                      ELSE "dispatch"
            /\ UNCHANGED <<reply, then>>
  /\ UNCHANGED <<stream, wr, toHost, cur, crc, file, hostVars>>

ReadPayload ==
  /\ spc = "payload"
  /\ ReadByte
  /\ need' = need - 1
  /\ spc' = IF need = 1 THEN "dispatch" ELSE "payload"
  /\ UNCHANGED <<stream, wr, toHost, cur, buf, crc, file, reply, then, hostVars>>

(* Mutant of Drain: it stops one byte early. *)
DrainOneShort ==
  /\ spc = "drain"
  /\ ReadByte
  /\ need' = need - 1
  /\ IF need <= 2 THEN Answer(Single(BadRequest, cur), "poll")
                  ELSE UNCHANGED <<spc, reply, then>>
  /\ UNCHANGED <<stream, wr, toHost, cur, buf, crc, file, hostVars>>

(* An oversized payload is read and dropped, then the request is refused. *)
Drain ==
  /\ spc = "drain"
  /\ ReadByte
  /\ need' = need - 1
  /\ IF need = 1 THEN Answer(Single(BadRequest, cur), "poll")
                 ELSE UNCHANGED <<spc, reply, then>>
  /\ UNCHANGED <<stream, wr, toHost, cur, buf, crc, file, hostVars>>

-----------------------------------------------------------------------------
(* The Saturn: HandleHostIoRequest once the request is in. *)

Cmd == buf[5]

(* The answer of the dispatcher for a handler that has not answered by     *)
(* itself: a listing is closed with an empty Ok frame.  Its mutant leaves  *)
(* that frame out.                                                         *)
NoSentinel(status) == Single(status, cur)

Reply(status) ==
  IF Cmd = List /\ status = Ok
    THEN <<Frame(Ok, 0, cur, 0, 1), Frame(Ok, 0, cur, 1, 0)>>
    ELSE Single(status, cur)

Dispatch ==
  /\ spc = "dispatch"
  /\ \E status \in Outcomes(Cmd) \ {Handled} : Answer(Reply(status), "poll")
  /\ UNCHANGED <<stream, wr, rd, toHost, cur, buf, need, crc, file, hostVars>>

(* Mutant of BeginUpload: the checksum of the upload before is carried on. *)
BeginUploadStaleCrc ==
  /\ spc = "dispatch" /\ Cmd = Upload
  /\ Answer(<<Frame(Ok, 0, cur, 0, 1)>>, "size")
  /\ buf' = <<>> /\ file' = <<>>
  /\ UNCHANGED <<stream, wr, rd, toHost, cur, need, crc, hostVars>>

(* HandleUpload with the file open: Ok, then the raw phase. *)
BeginUpload ==
  /\ spc = "dispatch" /\ Cmd = Upload
  /\ Answer(<<Frame(Ok, 0, cur, 0, 1)>>, "size")
  /\ buf' = <<>> /\ crc' = 0 /\ file' = <<>>
  /\ UNCHANGED <<stream, wr, rd, toHost, cur, need, hostVars>>

(* HandleDownload with the file open: its size, the bytes that could be    *)
(* read, and their checksum.                                               *)
DoDownload ==
  /\ spc = "dispatch" /\ Cmd = Download
  /\ \E size \in FileSizes : \E sent \in IF ReadErrors THEN 0..size ELSE {size} :
       Answer([i \in 1..(sent + 2) |->
                 IF i = 1 THEN Frame(Ok, size, cur, 0, sent + 1)
                          ELSE Raw(0, cur, i - 1, sent + 2 - i)],
              "poll")
  /\ UNCHANGED <<stream, wr, rd, toHost, cur, buf, need, crc, file, hostVars>>

ReadSize ==
  /\ spc = "size"
  /\ ReadByte
  /\ buf' = Append(buf, stream[rd + 1])
  /\ IF Len(buf) + 1 < 4
       THEN UNCHANGED <<spc, need>>
       ELSE /\ need' = FileSize(buf')
            /\ spc' = IF FileSize(buf') > 0 THEN "data" ELSE "checksum"
  /\ UNCHANGED <<stream, wr, toHost, cur, crc, file, reply, then, hostVars>>

ReadData ==
  /\ spc = "data"
  /\ ReadByte
  /\ crc' = CrcStep(crc, stream[rd + 1])
  /\ file' = Append(file, stream[rd + 1])
  /\ need' = need - 1
  /\ spc' = IF need = 1 THEN "checksum" ELSE "data"
  /\ UNCHANGED <<stream, wr, toHost, cur, buf, reply, then, hostVars>>

ReadChecksum ==
  /\ spc = "checksum"
  /\ ReadByte
  /\ Answer(<<Raw(IF stream[rd + 1] = crc THEN 0 ELSE 1, cur, 1, 0)>>, "poll")
  /\ UNCHANGED <<stream, wr, toHost, cur, buf, need, crc, file, hostVars>>

(* CS0::Write(): blocks while the FIFO towards the host is full. *)
Write ==
  /\ spc = "write"
  /\ Len(toHost) < OutDepth
  /\ toHost' = Append(toHost, Head(reply))
  /\ reply' = Tail(reply)
  /\ spc' = IF Len(reply) = 1 THEN then ELSE "write"
  /\ UNCHANGED <<stream, wr, rd, cur, buf, need, crc, file, then, hostVars>>

-----------------------------------------------------------------------------

Saturn ==
  \/ Poll \/ ReadHeaderByte \/ ReadHeader \/ ReadPayload \/ Drain
  \/ Dispatch \/ BeginUpload \/ DoDownload
  \/ ReadSize \/ ReadData \/ ReadChecksum \/ Write

HostReads == HostTakeFrame \/ HostTakeRest \/ HostDiscard

Next ==
  \/ \E good \in BOOLEAN, cmd \in RequestCommands, len \in PayloadLengths :
       HostRequest(good, cmd, len)
  \/ HostPut \/ HostReads \/ HostAbort \/ HostDone
  \/ Saturn

Spec == Init /\ [][Next]_vars

(* The superloop never stops, a live host sends what it began and reads    *)
(* what it is sent.  Nothing obliges it to ask, or to be killed.           *)
Fairness == WF_vars(Saturn) /\ WF_vars(HostPut) /\ WF_vars(HostReads)

FairSpec == Spec /\ Fairness

-----------------------------------------------------------------------------
(* Properties. *)

(* Whenever the Saturn polls for a request, the next unread byte is the    *)
(* first byte of the next request the host made, none skipped and none     *)
(* taken twice: header, payload, drain and the reads of an upload add up   *)
(* to the lengths the host meant (TryReadRequest, HandleUpload).  It holds *)
(* unless the host was cut off and did not start over on a quiet link.     *)
Aligned ==
  spc = "poll" /\ ~cut =>
    rd = IF cur < Len(requests) THEN requests[cur + 1].at ELSE Len(stream)

(* What README.md says the magic is for: no synchronisation issues, with   *)
(* no condition on the host.                                               *)
AlwaysAligned ==
  spc = "poll" =>
    \/ rd = Len(stream)
    \/ \E i \in 1..Len(requests) : requests[i].at = rd

(* What the host reads next answers its oldest unanswered request, and is  *)
(* of the kind it expects: no frame is taken for file data, no file data   *)
(* for a frame, no sentinel for the answer to the next request             *)
(* (HandleHostIoRequest, HandleDownload).                                  *)
RepliesMatch ==
  toHost # <<>> /\ ~cut =>
    /\ ack < Len(requests)
    /\ Head(toHost).req = ack + 1
    /\ Head(toHost).kind = IF hpc \in {"frame", "sentinel"} THEN "frame" ELSE "raw"
    /\ (Head(toHost).pos = 0) = (hpc = "frame")

(* A request reaches its handler only if the host made it whole, with the  *)
(* magic and within the capacity, and with the command the host meant,     *)
(* whatever came before it (TryReadRequest).                               *)
HandledAsMade ==
  spc = "dispatch" /\ ~cut =>
    /\ cur \in 1..Len(requests)
    /\ requests[cur].good /\ requests[cur].cmd = Cmd
    /\ requests[cur].len <= MaxRequestBytes
    /\ rd = EndOf(requests[cur])

(* The result byte of an upload is 0 exactly when the host's checksum is   *)
(* that of its file, and the bytes given to file.Write are then the bytes  *)
(* of that file (HandleUpload).                                            *)
UploadVerdict ==
  spc = "write" /\ reply[1].kind = "raw" /\ ~cut /\ requests[cur].cmd = Upload =>
    /\ file = requests[cur].data
    /\ (reply[1].val = 0) = (requests[cur].sum = Checksum(requests[cur].data))

(* The Saturn never leaves bytes in the FIFO for good, whatever the host   *)
(* did to the framing: no read loop waits for something other than bytes.  *)
AlwaysConsumed == []<>(rd = wr)

(* Every request of a host in step is completely answered, unless the host *)
(* is killed before: neither end waits for the other for good, both FIFOs  *)
(* full included (ReadAll, WriteAll).                                      *)
EveryRequestAnswered ==
  \A n \in 1..MaxRequests : Len(requests) >= n ~> ack >= n \/ cut
=============================================================================
